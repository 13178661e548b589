---------------------------- MODULE DeviceProofs ----------------------------
(***************************************************************************)
(* Proofs about the network stack (Net), the DRM core (Drm), the virtio    *)
(* queues (Virtio) and input devices (Input): for any senders, routes,     *)
(* payloads and sockets; for any files, objects and framebuffers; for any  *)
(* callers and queue lengths; for any listeners, scan codes and reports.   *)
(***************************************************************************)
EXTENDS Net, Drm, Virtio, Input, ListLemmas, FunctionTheorems, FiniteSetTheorems, TLAPS

Targets == {"none"} \cup Hosts \cup {Routes[i].gateway : i \in DOMAIN Routes}
Pieces == [offset : Int, length : Int, last : BOOLEAN]
SendCalls == [pc : {"idle", "asked", "waits", "send", "done"}, target : Targets, length : Nat,
              sent : Seq(Pieces)]
Arp == [cache : SUBSET Targets, callback : Senders \cup {NoSender}, asked : SUBSET Targets]
Ports == 0 .. LastPort
Numbers == Nat
Queues == Seq(Nat)
Sockets == [open : BOOLEAN, has_port : BOOLEAN, port : Ports, binds : Numbers,
            queue : Queues, arrived : Numbers]

SendType == net_call \in [Senders -> SendCalls] /\ net_arp \in Arp
UdpType ==
    /\ udp_socket \in [UdpSockets -> Sockets]
    /\ udp_port_table \in [0 .. LastPort -> UdpSockets \cup {NoSocket}]

\* The fragments sent so far are the first ones of the payload.
SentSoFar(c) ==
    /\ Len(c.sent) <= num_fragments(c.length)
    /\ c.pc = "done" => Len(c.sent) = num_fragments(c.length)
    /\ \A i \in 1 .. Len(c.sent) : c.sent[i] = Fragment(c.length, i)

SendInv == SendType /\ NetResolved /\ \A s \in Senders : SentSoFar(net_call[s])
UdpInv ==
    /\ UdpType /\ NetPorts /\ NetQueue
    /\ \A u \in UdpSockets : udp_socket[u].has_port => udp_socket[u].binds > 0

\* The inductive invariant of NetSafe.
NetInv == SendInv /\ UdpInv

\* A payload is cut into fragments that cover each byte once.
LEMMA Covered ==
    ASSUME NEW L \in Nat, NEW b \in 0 .. L - 1, NEW i \in 1 .. num_fragments(L)
    PROVE  /\ (b \div MaxFragment) + 1 \in 1 .. num_fragments(L)
           /\ b \in Fragment(L, i).offset .. Fragment(L, i).offset + Fragment(L, i).length - 1
              <=> i = (b \div MaxFragment) + 1
<1> DEFINE M == MaxFragment
           k == b \div M
           r == b % M
           n == L \div M
           t == L % M
<1>1. M \in Nat /\ M > 0
  BY NetAssumption
<1>2. k \in Nat /\ r \in 0 .. M - 1 /\ b = M * k + r
  BY <1>1
<1>3. n \in Nat /\ t \in 0 .. M - 1 /\ L = M * n + t
  BY <1>1
<1> HIDE DEF M, k, r, n, t
<1>4. k <= n
  BY <1>1, <1>2, <1>3
<1>5. k + 1 \in 1 .. num_fragments(L)
  BY <1>2, <1>3, <1>4 DEF num_fragments, n, M
<1> DEFINE j == i - 1
           rest == L - j * M
           len == IF rest < M THEN rest ELSE M
<1>6. j \in Nat /\ i = j + 1
  BY <1>3 DEF num_fragments, n, M
<1>7. Fragment(L, i).offset = j * M /\ Fragment(L, i).length = len
  BY DEF Fragment, M
<1> HIDE DEF j
<1>8. j * M \in Int /\ rest \in Int /\ len \in Int /\ len <= M /\ len <= rest
  BY <1>1, <1>6
<1>9. ASSUME b \in j * M .. j * M + len - 1
      PROVE  j = k
  <2>1. j * M <= b /\ b < j * M + M
    BY <1>1, <1>8, <1>9
  <2>2. ~(j < k)
    <3>1. j < k => (j + 1) * M <= k * M
      BY <1>1, <1>2, <1>6
    <3> QED BY <1>1, <1>2, <1>6, <2>1, <3>1
  <2>3. ~(k < j)
    <3>1. k < j => (k + 1) * M <= j * M
      BY <1>1, <1>2, <1>6
    <3> QED BY <1>1, <1>2, <1>6, <2>1, <3>1
  <2> QED BY <1>2, <1>6, <2>2, <2>3
<1>10. ASSUME j = k
       PROVE  b \in j * M .. j * M + len - 1
  <2>1. j * M <= b /\ b < j * M + M
    BY <1>1, <1>2, <1>10
  <2>2. b < L /\ L \in Int /\ b \in Int
    OBVIOUS
  <2> QED BY <1>1, <1>8, <2>1, <2>2
<1>11. j = k <=> i = k + 1
  BY <1>2, <1>6
<1> QED BY <1>5, <1>7, <1>9, <1>10, <1>11 DEF k, M

\* ... and that end with the payload.
LEMMA Ends ==
    ASSUME NEW L \in Nat, NEW i \in 1 .. num_fragments(L)
    PROVE  /\ Fragment(L, i) \in Pieces
           /\ Fragment(L, i).offset + Fragment(L, i).length <= L
           /\ Fragment(L, i).last <=> i = num_fragments(L)
<1> DEFINE M == MaxFragment
           off == (i - 1) * M
           rest == L - off
<1>1. M \in Nat /\ M > 0
  BY NetAssumption
<1>2. num_fragments(L) \in Nat
  BY <1>1 DEF num_fragments
<1>3. i - 1 \in Nat /\ off \in Int /\ rest \in Int
  BY <1>1, <1>2
<1>4. /\ Fragment(L, i).offset = off
      /\ Fragment(L, i).length = (IF rest < M THEN rest ELSE M)
      /\ Fragment(L, i).last = (i = num_fragments(L))
      /\ Fragment(L, i) = [offset |-> off, length |-> IF rest < M THEN rest ELSE M,
                           last |-> i = num_fragments(L)]
  BY DEF Fragment
<1> HIDE DEF off, M
<1>5. (IF rest < M THEN rest ELSE M) \in Int /\ off + (IF rest < M THEN rest ELSE M) <= L
  BY <1>1, <1>3
<1>6. Fragment(L, i) \in Pieces
  BY <1>3, <1>4, <1>5 DEF Pieces
<1> QED BY <1>4, <1>5, <1>6

\* All fragments of a payload, sent in order, are the payload.
LEMMA AllFragments ==
    ASSUME NEW c \in SendCalls, SentSoFar(c), c.pc = "done"
    PROVE  LET sent == c.sent
               covers(i, b) == b \in sent[i].offset .. sent[i].offset + sent[i].length - 1
           IN  /\ \A b \in 0 .. c.length - 1 :
                     Cardinality({i \in DOMAIN sent : covers(i, b)}) = 1
               /\ \A i \in DOMAIN sent :
                     /\ sent[i].offset + sent[i].length <= c.length
                     /\ sent[i].last <=> i = Len(sent)
<1> DEFINE sent == c.sent
           L == c.length
           covers(i, b) == b \in sent[i].offset .. sent[i].offset + sent[i].length - 1
<1>1. sent \in Seq(Pieces) /\ L \in Nat
  BY DEF SendCalls
<1>2. /\ Len(sent) = num_fragments(L) /\ \A i \in 1 .. Len(sent) : sent[i] = Fragment(L, i)
  BY DEF SentSoFar
<1>3. DOMAIN sent = 1 .. num_fragments(L)
  BY <1>1, <1>2
<1> HIDE DEF sent, L
<1>4. ASSUME NEW b \in 0 .. L - 1
      PROVE  Cardinality({i \in DOMAIN sent : covers(i, b)}) = 1
  <2> DEFINE e == (b \div MaxFragment) + 1
  <2>1. \A i \in 1 .. num_fragments(L) :
           e \in 1 .. num_fragments(L) /\ (covers(i, b) <=> i = e)
    BY <1>1, <1>2, Covered
  <2>2. 1 \in 1 .. num_fragments(L)
    <3>1. \A m \in Nat \ {0} : L \div m \in Nat
      BY <1>1
    <3>2. L \div MaxFragment \in Nat
      BY <3>1, NetAssumption
    <3> QED
      BY <3>2 DEF num_fragments
  <2> HIDE DEF e, covers
  <2>3. {i \in DOMAIN sent : covers(i, b)} = {e}
    BY <1>3, <2>1, <2>2
  <2> QED BY <2>3, FS_Singleton
<1>5. ASSUME NEW i \in DOMAIN sent
      PROVE  /\ sent[i].offset + sent[i].length <= L
             /\ sent[i].last <=> i = Len(sent)
  BY <1>1, <1>2, <1>3, Ends
<1> QED BY <1>4, <1>5 DEF sent, L

LEMMA NetStarts == NetInit => NetInv
<1> SUFFICES ASSUME NetInit PROVE NetInv
  OBVIOUS
<1>1. IdleCall \in SendCalls /\ IdleCall.pc = "idle" /\ SentSoFar(IdleCall)
  <2>1. num_fragments(0) >= 0
    BY NetAssumption DEF num_fragments
  <2> QED BY <2>1 DEF IdleCall, SendCalls, Targets, SentSoFar
<1>2. SendInv
  BY <1>1 DEF NetInit, SendInv, SendType, Arp, NetResolved
<1>3. UdpInv
  BY NetAssumption DEF NetInit, UdpInv, UdpType, Sockets, Ports, Numbers, Queues, NetPorts,
                         NetQueue, NoSocket
<1> QED BY <1>2, <1>3 DEF NetInv

\* What a step of one sender keeps.
LEMMA CallChanged ==
    ASSUME SendInv, NEW s \in Senders, NEW c \in SendCalls, SentSoFar(c),
           net_call' = [net_call EXCEPT ![s] = c],
           net_arp' \in Arp, net_arp.cache \subseteq net_arp'.cache,
           c.pc \in {"send", "done"} => c.target \in net_arp'.cache
    PROVE  SendInv'
<1>1. net_call \in [Senders -> SendCalls]
  BY DEF SendInv, SendType
<1>2. net_call' \in [Senders -> SendCalls] /\ \A t \in Senders : net_call'[t] = c \/ net_call'[t] = net_call[t]
  BY <1>1
<1>3. NetResolved'
  BY <1>2 DEF SendInv, NetResolved
<1> QED BY <1>2, <1>3 DEF SendInv, SendType

LEMMA SendStep == SendInv /\ NetSendNext => SendInv'
<1> SUFFICES ASSUME SendInv, NetSendNext
             PROVE  SendInv'
  OBVIOUS
<1>0. net_call \in [Senders -> SendCalls] /\ net_arp \in Arp
  BY DEF SendInv, SendType
<1>a. \A c \in SendCalls : /\ c.target \in Targets /\ c.length \in Nat /\ c.sent \in Seq(Pieces)
                           /\ c.pc \in {"idle", "asked", "waits", "send", "done"}
  BY DEF SendCalls
<1>b. IdleCall \in SendCalls /\ IdleCall.pc = "idle" /\ SentSoFar(IdleCall)
  <2>1. num_fragments(0) >= 0
    BY NetAssumption DEF num_fragments
  <2> QED BY <2>1 DEF IdleCall, SendCalls, Targets, SentSoFar
<1>c. \A c \in SendCalls, pc \in {"idle", "asked", "waits", "send"} :
         /\ [c EXCEPT !.pc = pc] \in SendCalls /\ [c EXCEPT !.pc = pc].pc = pc
         /\ [c EXCEPT !.pc = pc].target = c.target
         /\ SentSoFar(c) => SentSoFar([c EXCEPT !.pc = pc])
  BY DEF SendCalls, SentSoFar
<1>d. /\ net_arp.cache \in SUBSET Targets /\ net_arp.asked \in SUBSET Targets
      /\ net_arp.callback \in Senders \cup {NoSender}
  BY <1>0 DEF Arp
<1>e. \A L \in Nat : num_fragments(L) \in Nat
  BY NetAssumption DEF num_fragments
<1>1. ASSUME NEW s \in Senders, NEW ip \in Hosts, NEW length \in Lengths, ipv4_send(s, ip, length)
      PROVE  SendInv'
  <2>1. PICK target \in lookup_route(ip) :
          /\ net_call' = [net_call EXCEPT ![s] =
                [pc |-> IF target \in net_arp.cache THEN "send" ELSE "asked",
                 target |-> target, length |-> length, sent |-> <<>>]]
          /\ net_arp' = IF target \in net_arp.cache THEN net_arp
                        ELSE [net_arp EXCEPT !.asked = @ \cup {target}]
    BY <1>1 DEF ipv4_send
  <2>2. target \in Targets
    BY DEF lookup_route, Targets
  <2> DEFINE c == [pc |-> IF target \in net_arp.cache THEN "send" ELSE "asked",
                   target |-> target, length |-> length, sent |-> <<>>]
  <2>3. c \in SendCalls /\ SentSoFar(c)
    <3>1. length \in Nat /\ num_fragments(length) >= 0
      BY <1>e, NetAssumption
    <3> QED BY <2>2, <3>1 DEF SendCalls, SentSoFar
  <2>4. net_arp' \in Arp /\ net_arp'.cache = net_arp.cache
    BY <1>0, <2>1, <2>2 DEF Arp
  <2>5. c.pc \in {"send", "done"} => c.target \in net_arp'.cache
    BY <2>4
  <2>6. net_call' = [net_call EXCEPT ![s] = c]
    BY <2>1
  <2> HIDE DEF c
  <2> QED BY <2>3, <2>4, <2>5, <2>6, CallChanged
<1>2. ASSUME NEW s \in Senders, arp_lookup_wait(s)
      PROVE  SendInv'
  <2> DEFINE c == [net_call[s] EXCEPT !.pc = "waits"]
  <2>1. net_call' = [net_call EXCEPT ![s] = c] /\ net_arp' = [net_arp EXCEPT !.callback = s]
    BY <1>0, <1>2 DEF arp_lookup_wait
  <2>2. c \in SendCalls /\ SentSoFar(c) /\ c.pc = "waits"
    BY <1>0, <1>c DEF SendInv
  <2>3. net_arp' \in Arp /\ net_arp'.cache = net_arp.cache
    BY <1>0, <2>1 DEF Arp
  <2> HIDE DEF c
  <2> QED BY <2>1, <2>2, <2>3, CallChanged
<1>3. ASSUME NEW ip \in net_arp.asked, arp_process(ip)
      PROVE  SendInv'
  <2>1. net_arp' = [net_arp EXCEPT !.cache = @ \cup {ip}, !.asked = @ \ {ip}]
    BY <1>3 DEF arp_process
  <2>2. net_arp' \in Arp /\ net_arp'.cache = net_arp.cache \cup {ip}
    BY <1>0, <1>d, <2>1 DEF Arp
  <2>3. CASE net_call' = net_call
    BY <2>2, <2>3 DEF SendInv, SendType, NetResolved
  <2> DEFINE s == net_arp.callback
  <2>4. CASE s \in Senders /\ net_call[s].target \in net_arp.cache \cup {ip}
             /\ net_call' = [net_call EXCEPT ![s].pc = "send"]
    <3> DEFINE c == [net_call[s] EXCEPT !.pc = "send"]
    <3>1. net_call' = [net_call EXCEPT ![s] = c]
      BY <1>0, <2>4
    <3>2. c \in SendCalls /\ SentSoFar(c) /\ c.target \in net_arp'.cache
      BY <1>0, <1>c, <2>2, <2>4 DEF SendInv
    <3> HIDE DEF c
    <3> QED BY <2>2, <2>4, <3>1, <3>2, CallChanged
  <2>5. CASE s \in Senders /\ net_call' = [net_call EXCEPT ![s] = IdleCall]
    BY <1>b, <2>2, <2>5, CallChanged
  <2> QED BY <1>3, <1>d, <2>3, <2>4, <2>5 DEF arp_process
<1>4. ASSUME NEW s \in Senders, ipv4_send_fragment(s)
      PROVE  SendInv'
  <2> DEFINE c == net_call[s]
  <2>0. c \in SendCalls /\ SentSoFar(c) /\ c.pc = "send" /\ net_arp' = net_arp
    BY <1>0, <1>4 DEF ipv4_send_fragment, SendInv
  <2>a. c.target \in net_arp.cache
    BY <2>0 DEF SendInv, NetResolved
  <2>1. CASE Len(c.sent) < num_fragments(c.length)
             /\ net_call' = [net_call EXCEPT ![s].sent =
                              Append(@, Fragment(c.length, Len(c.sent) + 1))]
    <3> DEFINE x == Fragment(c.length, Len(c.sent) + 1)
               q == Append(c.sent, x)
               d == [c EXCEPT !.sent = q]
    <3>1. net_call' = [net_call EXCEPT ![s] = d]
      BY <1>0, <2>1
    <3>2. c.length \in Nat /\ c.sent \in Seq(Pieces) /\ num_fragments(c.length) \in Nat
      BY <1>a, <1>e, <2>0
    <3>3. Len(c.sent) \in Nat /\ Len(c.sent) + 1 \in 1 .. num_fragments(c.length)
      BY <2>1, <3>2
    <3>4. x \in Pieces
      BY <3>2, <3>3, Ends
    <3> HIDE DEF c, x
    <3>5. /\ q \in Seq(Pieces) /\ Len(q) = Len(c.sent) + 1 /\ q[Len(c.sent) + 1] = x
          /\ \A i \in 1 .. Len(c.sent) : q[i] = c.sent[i]
      BY <3>2, <3>4
    <3> HIDE DEF q
    <3>6. /\ d \in SendCalls /\ d.sent = q /\ d.length = c.length /\ d.pc = c.pc
          /\ d.target = c.target
      BY <2>0, <3>5 DEF SendCalls
    <3> HIDE DEF d
    <3>7. SentSoFar(d)
      <4>1. \A i \in 1 .. Len(q) : i = Len(c.sent) + 1 \/ i \in 1 .. Len(c.sent)
        BY <3>3, <3>5
      <4>2. \A i \in 1 .. Len(q) : q[i] = Fragment(c.length, i)
        BY <2>0, <3>5, <4>1 DEF SentSoFar, x
      <4>3. Len(q) <= num_fragments(c.length)
        BY <3>3, <3>5
      <4> QED BY <2>0, <3>6, <4>2, <4>3 DEF SentSoFar
    <3> QED BY <1>0, <2>0, <2>a, <3>1, <3>6, <3>7, CallChanged
  <2>2. CASE net_call' = [net_call EXCEPT ![s] = IdleCall]
    BY <1>0, <1>b, <2>0, <2>2, CallChanged
  <2>3. CASE Len(c.sent) = num_fragments(c.length) /\ net_call' = [net_call EXCEPT ![s].pc = "done"]
    <3> DEFINE d == [c EXCEPT !.pc = "done"]
    <3>1. net_call' = [net_call EXCEPT ![s] = d]
      BY <1>0, <2>3
    <3> HIDE DEF c
    <3>2. d \in SendCalls /\ d.target = c.target /\ d.sent = c.sent /\ d.length = c.length
      BY <2>0 DEF SendCalls
    <3> HIDE DEF d
    <3>3. SentSoFar(d)
      BY <2>0, <2>3, <3>2 DEF SentSoFar
    <3> QED BY <1>0, <2>0, <2>a, <3>1, <3>2, <3>3, CallChanged
  <2> QED BY <1>4, <2>1, <2>2, <2>3 DEF ipv4_send_fragment
<1>5. ASSUME NEW s \in Senders, sender_returns(s)
      PROVE  SendInv'
  <2>1. net_call' = [net_call EXCEPT ![s] = IdleCall] /\ net_arp' = net_arp
    BY <1>5 DEF sender_returns
  <2> QED BY <1>0, <1>b, <2>1, CallChanged
<1> QED BY <1>1, <1>2, <1>3, <1>4, <1>5 DEF NetSendNext, arp_reply

\* A port that alloc_port returns is free, and it is the one asked for unless
\* that was port 0.
LEMMA PortFree ==
    ASSUME NEW chosen \in 0 .. LastPort, NEW p \in alloc_port(chosen)
    PROVE  p \in 0 .. LastPort /\ udp_port_table[p] = NoSocket /\ (chosen # 0 => p = chosen)
<1>1. p = ChosenPort(chosen) /\ udp_port_table[p] = NoSocket
  BY DEF alloc_port
<1>2. CASE chosen # 0 \/ AutoPorts = {}
  BY <1>1, <1>2 DEF ChosenPort
<1>3. CASE chosen = 0 /\ AutoPorts # {}
  <2> DEFINE A == AutoPorts
  <2>1. A \in SUBSET Nat /\ A # {} /\ p = CHOOSE x \in A : \A y \in A : x <= y
    BY <1>1, <1>3, NetAssumption DEF ChosenPort, AutoPorts
  <2> HIDE DEF A
  <2>2. p \in A
    BY <2>1, LeastElement
  <2> QED BY <1>1, <1>3, <2>2, NetAssumption DEF A, AutoPorts
<1> QED BY <1>2, <1>3

\* What a step of one socket keeps.
LEMMA SocketChanged ==
    ASSUME UdpInv, NEW u \in UdpSockets, NEW r \in Sockets,
           udp_socket' = [udp_socket EXCEPT ![u] = r],
           udp_port_table' \in [0 .. LastPort -> UdpSockets \cup {NoSocket}],
           \A v \in UdpSockets \ {u}, p \in 1 .. LastPort :
               udp_port_table[p] = v => udp_port_table'[p] = v,
           r.has_port => r.binds > 0,
           r.open /\ r.has_port /\ r.binds = 1 /\ r.port # 0 => udp_port_table'[r.port] = u,
           \A i \in DOMAIN r.queue : r.queue[i] = r.arrived - Len(r.queue) + i
    PROVE  UdpInv'
<1>1. udp_socket \in [UdpSockets -> Sockets]
  BY DEF UdpInv, UdpType
<1>2. /\ udp_socket' \in [UdpSockets -> Sockets] /\ udp_socket'[u] = r
      /\ \A v \in UdpSockets \ {u} : udp_socket'[v] = udp_socket[v]
  BY <1>1
<1>3. \A v \in UdpSockets : udp_socket[v].port \in 0 .. LastPort
  BY <1>1 DEF Sockets, Ports
<1>4. NetPorts'
  <2> SUFFICES ASSUME NEW v \in UdpSockets,
                      udp_socket'[v].open, udp_socket'[v].has_port,
                      udp_socket'[v].binds = 1, udp_socket'[v].port # 0
               PROVE  udp_port_table'[udp_socket'[v].port] = v
    BY DEF NetPorts
  <2>1. CASE v = u
    BY <1>2, <2>1
  <2>2. CASE v # u
    <3>1. udp_socket'[v] = udp_socket[v] /\ udp_socket[v].port \in 1 .. LastPort
      BY <1>2, <1>3, <2>2, NetAssumption
    <3>2. udp_port_table[udp_socket[v].port] = v
      BY <3>1 DEF UdpInv, NetPorts
    <3> QED BY <2>2, <3>1, <3>2
  <2> QED BY <2>1, <2>2
<1>5. NetQueue'
  BY <1>2 DEF UdpInv, NetQueue
<1>6. \A v \in UdpSockets : udp_socket'[v].has_port => udp_socket'[v].binds > 0
  BY <1>2 DEF UdpInv
<1> QED BY <1>2, <1>4, <1>5, <1>6 DEF UdpInv, UdpType

\* The queue after a datagram has been put into it.
LEMMA PushedQueue ==
    ASSUME NEW q \in Seq(Nat), NEW n \in Nat, \A i \in DOMAIN q : q[i] = n - Len(q) + i
    PROVE  /\ Pushed(q, n + 1) \in Seq(Nat)
           /\ \A i \in DOMAIN Pushed(q, n + 1) :
                 Pushed(q, n + 1)[i] = n + 1 - Len(Pushed(q, n + 1)) + i
<1> DEFINE r == IF Len(q) = QueueLimit THEN Tail(q) ELSE q
           x == n + 1
<1>1. r \in Seq(Nat) /\ \A i \in 1 .. Len(r) : r[i] = n - Len(r) + i
  <2>1. CASE Len(q) = QueueLimit
    <3>1. q # <<>> /\ Len(q) \in Nat
      BY <2>1, NetAssumption
    <3>2. r \in Seq(Nat) /\ Len(r) = Len(q) - 1 /\ \A i \in 1 .. Len(r) : r[i] = q[i + 1]
      BY <2>1, <3>1
    <3>3. \A i \in 1 .. Len(r) : i + 1 \in DOMAIN q
      BY <3>1, <3>2
    <3>4. \A i \in 1 .. Len(r) : r[i] = n - Len(q) + (i + 1)
      BY <3>2, <3>3
    <3> HIDE DEF r
    <3> QED BY <3>1, <3>2, <3>4
  <2>2. CASE Len(q) # QueueLimit
    <3>1. r = q
      BY <2>2
    <3> HIDE DEF r
    <3> QED BY <3>1
  <2> QED BY <2>1, <2>2
<1>2. Pushed(q, x) = Append(r, x) /\ x \in Nat
  BY DEF Pushed
<1> HIDE DEF r, x
<1> DEFINE a == Append(r, x)
<1>3. /\ a \in Seq(Nat) /\ Len(a) = Len(r) + 1 /\ Len(r) \in Nat /\ a[Len(r) + 1] = x
      /\ \A i \in 1 .. Len(r) : a[i] = r[i]
  BY <1>1, <1>2
<1>4. DOMAIN a = 1 .. Len(r) + 1
  BY <1>3
<1> HIDE DEF a
<1>5. \A i \in DOMAIN a : i \in 1 .. Len(r) \/ i = Len(r) + 1
  BY <1>3, <1>4
<1>6. \A i \in DOMAIN a : a[i] = n + 1 - Len(a) + i
  <2> SUFFICES ASSUME NEW i \in DOMAIN a PROVE a[i] = n + 1 - Len(a) + i
    OBVIOUS
  <2>1. CASE i \in 1 .. Len(r)
    <3>1. a[i] = n - Len(r) + i /\ i \in Int
      BY <1>1, <1>3, <2>1
    <3> QED BY <1>3, <3>1
  <2>2. CASE i = Len(r) + 1
    BY <1>3, <2>2 DEF x
  <2> QED BY <1>5, <2>1, <2>2
<1> QED BY <1>2, <1>3, <1>6 DEF a, x

LEMMA UdpStep == UdpInv /\ UdpNext => UdpInv'
<1> SUFFICES ASSUME UdpInv, UdpNext
             PROVE  UdpInv'
  OBVIOUS
<1>0. /\ udp_socket \in [UdpSockets -> Sockets]
      /\ udp_port_table \in [0 .. LastPort -> UdpSockets \cup {NoSocket}]
  BY DEF UdpInv, UdpType
<1>a. ASSUME NEW v \in UdpSockets
      PROVE  /\ udp_socket[v] \in Sockets /\ udp_socket[v].queue \in Seq(Nat)
             /\ udp_socket[v].arrived \in Nat /\ udp_socket[v].binds \in Nat
             /\ udp_socket[v].has_port => udp_socket[v].binds > 0
             /\ udp_socket[v].open /\ udp_socket[v].has_port /\ udp_socket[v].binds = 1
                /\ udp_socket[v].port # 0 => udp_port_table[udp_socket[v].port] = v
             /\ \A i \in DOMAIN udp_socket[v].queue :
                   udp_socket[v].queue[i] = udp_socket[v].arrived - Len(udp_socket[v].queue) + i
  BY <1>0 DEF Sockets, Numbers, Queues, UdpInv, NetPorts, NetQueue
<1>b. LastPort \in Nat /\ NoSocket \notin UdpSockets
  BY NetAssumption DEF NoSocket
<1>1. ASSUME NEW u \in UdpSockets, NEW chosen \in 0 .. LastPort, NEW p \in alloc_port(chosen),
             NEW T, T = [udp_port_table EXCEPT ![p] = u],
             udp_port_table' = T \/ ( /\ udp_socket[u].has_port
                                      /\ udp_port_table' = [T EXCEPT ![chosen] = NoSocket]),
             udp_socket' = [udp_socket EXCEPT ![u].has_port = TRUE, ![u].port = p,
                                              ![u].binds = @ + 1]
      PROVE  UdpInv'
  <2>1. p \in 0 .. LastPort /\ udp_port_table[p] = NoSocket /\ (chosen # 0 => p = chosen)
    BY <1>1, PortFree
  <2> DEFINE c == udp_socket[u]
             m == c.binds + 1
             r == [c EXCEPT !.has_port = TRUE, !.port = p, !.binds = m]
  <2>2. udp_socket' = [udp_socket EXCEPT ![u] = r]
    BY <1>0, <1>1
  <2>3. c \in Sockets /\ c.binds \in Nat /\ (c.has_port => c.binds > 0)
    BY <1>a
  <2>4. \A i \in DOMAIN c.queue : c.queue[i] = c.arrived - Len(c.queue) + i
    BY <1>a
  <2> HIDE DEF c
  <2>5. /\ r \in Sockets /\ r.port = p /\ r.binds = c.binds + 1 /\ r.queue = c.queue
        /\ r.arrived = c.arrived
    <3>1. m \in Nat /\ m = c.binds + 1
      BY <2>3
    <3> HIDE DEF m
    <3>2. /\ r \in Sockets /\ r.port = p /\ r.binds = m /\ r.queue = c.queue
          /\ r.arrived = c.arrived
      <4>1. c \in Sockets /\ p \in Ports /\ m \in Numbers
        BY <2>1, <2>3, <3>1 DEF Ports, Numbers
      <4> QED BY <4>1 DEF Sockets
    <3> HIDE DEF r
    <3> QED BY <3>1, <3>2
  <2> HIDE DEF r
  <2>6. T \in [0 .. LastPort -> UdpSockets \cup {NoSocket}] /\ T[p] = u
        /\ \A q \in 0 .. LastPort : q # p => T[q] = udp_port_table[q]
    BY <1>0, <1>1, <2>1
  <2>7. udp_port_table' \in [0 .. LastPort -> UdpSockets \cup {NoSocket}]
    BY <1>1, <2>6
  <2>8. \A v \in UdpSockets \ {u}, q \in 1 .. LastPort :
           udp_port_table[q] = v => udp_port_table'[q] = v
    <3> SUFFICES ASSUME NEW v \in UdpSockets \ {u}, NEW q \in 1 .. LastPort,
                        udp_port_table[q] = v
                 PROVE  udp_port_table'[q] = v
      OBVIOUS
    <3>1. q # p /\ q # 0 /\ q \in 0 .. LastPort
      BY <1>b, <2>1
    <3>2. q # chosen /\ T[q] = v
      BY <2>1, <2>6, <3>1
    <3> QED BY <1>1, <2>6, <3>1, <3>2
  <2>9. r.binds = 1 => udp_port_table'[r.port] = u
    <3>1. r.binds = 1 => ~c.has_port
      BY <2>3, <2>5
    <3> QED BY <1>1, <2>5, <2>6, <3>1 DEF c
  <2>10. r.binds > 0
    BY <2>3, <2>5
  <2> QED BY <2>2, <2>4, <2>5, <2>7, <2>8, <2>9, <2>10, SocketChanged
<1>2. ASSUME NEW u \in UdpSockets, NEW chosen \in 0 .. LastPort, udp_bind(u, chosen)
      PROVE  UdpInv'
  <2>1. PICK p \in alloc_port(chosen) :
          /\ udp_port_table' =
               LET taken == [udp_port_table EXCEPT ![p] = u]
               IN  IF udp_socket[u].has_port THEN [taken EXCEPT ![chosen] = NoSocket] ELSE taken
          /\ udp_socket' = [udp_socket EXCEPT ![u].has_port = TRUE, ![u].port = p,
                                              ![u].binds = @ + 1]
    BY <1>2 DEF udp_bind
  <2> QED BY <1>1, <2>1
<1>3. ASSUME NEW u \in UdpSockets, udp_sendmsg_binds(u)
      PROVE  UdpInv'
  <2>1. PICK p \in alloc_port(0) :
          /\ udp_port_table' = [udp_port_table EXCEPT ![p] = u]
          /\ udp_socket' = [udp_socket EXCEPT ![u].has_port = TRUE, ![u].port = p,
                                              ![u].binds = @ + 1]
    BY <1>3 DEF udp_sendmsg_binds
  <2>2. 0 \in 0 .. LastPort
    BY <1>b
  <2> QED BY <1>1, <2>1, <2>2
\* Steps that leave the port table alone.
<1>4. ASSUME NEW u \in UdpSockets, NEW r \in Sockets, udp_port_table' = udp_port_table,
             udp_socket' = [udp_socket EXCEPT ![u] = r],
             r.has_port = udp_socket[u].has_port, r.port = udp_socket[u].port,
             r.binds = udp_socket[u].binds, r.open => udp_socket[u].open,
             \A i \in DOMAIN r.queue : r.queue[i] = r.arrived - Len(r.queue) + i
      PROVE  UdpInv'
  BY <1>0, <1>4, <1>a, SocketChanged
<1>5. ASSUME NEW u \in UdpSockets, udp_recvmsg(u)
      PROVE  UdpInv'
  <2> DEFINE c == udp_socket[u]
             q == Tail(c.queue)
             r == [c EXCEPT !.queue = q]
  <2>1. udp_socket' = [udp_socket EXCEPT ![u] = r] /\ udp_port_table' = udp_port_table
        /\ c.queue # <<>>
    BY <1>0, <1>5 DEF udp_recvmsg
  <2>2. /\ c \in Sockets /\ c.queue \in Seq(Nat) /\ c.arrived \in Nat
        /\ \A i \in DOMAIN c.queue : c.queue[i] = c.arrived - Len(c.queue) + i
    BY <1>a
  <2>3. q \in Seq(Nat) /\ \A i \in DOMAIN q : q[i] = c.arrived - Len(q) + i
    <3> HIDE DEF c
    <3>1. /\ q \in Seq(Nat) /\ Len(q) = Len(c.queue) - 1 /\ Len(c.queue) \in Nat
          /\ DOMAIN q = 1 .. Len(q) /\ \A i \in 1 .. Len(q) : q[i] = c.queue[i + 1]
      BY <2>1, <2>2
    <3>2. \A i \in 1 .. Len(q) : i + 1 \in DOMAIN c.queue
      BY <2>2, <3>1
    <3> HIDE DEF q
    <3>3. ASSUME NEW i \in 1 .. Len(q)
          PROVE  q[i] = c.arrived - Len(q) + i
      <4>1. q[i] = c.queue[i + 1] /\ c.queue[i + 1] = c.arrived - Len(c.queue) + (i + 1)
        BY <2>2, <3>1, <3>2
      <4>2. \A a, l, m, j \in Int : l = m - 1 => a - m + (j + 1) = a - l + j
        OBVIOUS
      <4>3. /\ c.arrived \in Int /\ Len(q) \in Int /\ Len(c.queue) \in Int /\ i \in Int
            /\ Len(q) = Len(c.queue) - 1
        BY <2>2, <3>1
      <4> DEFINE a == c.arrived
                 l == Len(q)
                 m == Len(c.queue)
      <4>4. q[i] = a - m + (i + 1) /\ l = m - 1 /\ a \in Int /\ l \in Int /\ m \in Int
        BY <4>1, <4>3
      <4> HIDE DEF a, l, m
      <4>5. q[i] = a - l + i
        BY <4>2, <4>3, <4>4
      <4> QED
        BY <4>5 DEF a, l
    <3> QED BY <3>1, <3>3
  <2>4. /\ r \in Sockets /\ r.queue = q /\ r.arrived = c.arrived /\ r.has_port = c.has_port
        /\ r.port = c.port /\ r.binds = c.binds /\ r.open = c.open
    <3> HIDE DEF c, q
    <3> QED BY <2>2, <2>3 DEF Sockets, Queues
  <2> HIDE DEF r, q
  <2> QED BY <1>4, <2>1, <2>3, <2>4
<1>6. ASSUME NEW u \in UdpSockets, udp_close(u)
      PROVE  UdpInv'
  <2> DEFINE c == udp_socket[u]
             r == [c EXCEPT !.open = FALSE, !.queue = <<>>]
  <2>1. udp_socket' = [udp_socket EXCEPT ![u] = r] /\ udp_port_table' = udp_port_table
    BY <1>0, <1>6 DEF udp_close
  <2>2. c \in Sockets
    BY <1>a
  <2>3. /\ r \in Sockets /\ r.queue = <<>> /\ r.has_port = c.has_port
        /\ r.port = c.port /\ r.binds = c.binds /\ ~r.open
    <3> HIDE DEF c
    <3>1. <<>> \in Queues
      BY DEF Queues
    <3> QED BY <2>2, <3>1 DEF Sockets
  <2>4. \A i \in DOMAIN r.queue : r.queue[i] = r.arrived - Len(r.queue) + i
    BY <2>3
  <2> HIDE DEF r
  <2> QED BY <1>4, <2>1, <2>3, <2>4
<1>7. ASSUME NEW port \in 0 .. LastPort, udp_process(port)
      PROVE  UdpInv'
  <2> DEFINE u == udp_port_table[port]
             c == udp_socket[u]
             q == Pushed(c.queue, c.arrived + 1)
             m == c.arrived + 1
             r == [c EXCEPT !.queue = q, !.arrived = m]
  <2>1. u \in UdpSockets
    BY <1>0, <1>7 DEF udp_process
  <2>2. udp_socket' = [udp_socket EXCEPT ![u] = r] /\ udp_port_table' = udp_port_table
    BY <1>0, <1>7, <2>1 DEF udp_process
  <2>3. /\ c \in Sockets /\ c.queue \in Seq(Nat) /\ c.arrived \in Nat
        /\ \A i \in DOMAIN c.queue : c.queue[i] = c.arrived - Len(c.queue) + i
    BY <1>a, <2>1
  <2> HIDE DEF c
  <2>4. q \in Seq(Nat) /\ m \in Nat /\ \A i \in DOMAIN q : q[i] = m - Len(q) + i
    <3>1. m \in Nat
      BY <2>3
    <3>2. q \in Seq(Nat) /\ \A i \in DOMAIN q : q[i] = c.arrived + 1 - Len(q) + i
      BY <2>3, PushedQueue
    <3>3. m = c.arrived + 1
      OBVIOUS
    <3> HIDE DEF q, m
    <3>4. ASSUME NEW i \in DOMAIN q PROVE q[i] = m - Len(q) + i
      BY <2>3, <3>2, <3>3
    <3> QED BY <3>1, <3>2, <3>4
  <2> HIDE DEF q, m
  <2>5. /\ r \in Sockets /\ r.queue = q /\ r.arrived = m /\ r.has_port = c.has_port
        /\ r.port = c.port /\ r.binds = c.binds /\ r.open = c.open
    <3>1. c \in Sockets /\ q \in Queues /\ m \in Numbers
      BY <2>3, <2>4 DEF Queues, Numbers
    <3> QED BY <3>1 DEF Sockets
  <2> HIDE DEF r, u
  <2>6. \A i \in DOMAIN r.queue : r.queue[i] = r.arrived - Len(r.queue) + i
    <3>1. r.queue = q /\ r.arrived = m
      BY <2>5
    <3> QED BY <2>4, <3>1
  <2> QED BY <1>4, <2>1, <2>2, <2>5, <2>6 DEF c
<1> QED BY <1>2, <1>3, <1>5, <1>6, <1>7 DEF UdpNext, ipv4_process

\* However many threads send and sockets are bound, rebound and closed: a payload
\* that ipv4_send reports as sent has gone out once and completely
\* (net.cpp, the loop over num_fragments), only to addresses that ARP has resolved,
\* and a socket has its port and its newest datagrams.
THEOREM NetworkSafe == NetSpec => []NetSafe
<1>1. NetInv /\ [NetNext]_net_vars => NetInv'
  <2> SUFFICES ASSUME NetInv, [NetNext]_net_vars
               PROVE  NetInv'
    OBVIOUS
  <2>1. CASE NetSendNext
    <3>1. UNCHANGED <<udp_socket, udp_port_table>>
      BY <2>1 DEF NetSendNext, ipv4_send, arp_lookup_wait, ipv4_send_fragment, sender_returns,
                  arp_reply, arp_process
    <3>2. UdpInv'
      BY <3>1 DEF NetInv, UdpInv, UdpType, NetPorts, NetQueue
    <3> QED BY <2>1, <3>2, SendStep DEF NetInv
  <2>2. CASE UdpNext
    <3>1. UNCHANGED <<net_call, net_arp>>
      BY <2>2 DEF UdpNext, udp_bind, udp_sendmsg_binds, udp_recvmsg, udp_close, ipv4_process,
                  udp_process
    <3>2. SendInv'
      BY <3>1 DEF NetInv, SendInv, SendType, NetResolved
    <3> QED BY <2>2, <3>2, UdpStep DEF NetInv
  <2>3. CASE UNCHANGED net_vars
    BY <2>3 DEF net_vars, NetInv, UdpInv, UdpType, NetPorts, NetQueue, SendInv, SendType,
                NetResolved
  <2> QED BY <2>1, <2>2, <2>3 DEF NetNext
<1>2. NetInv => NetSafe
  <2> SUFFICES ASSUME NetInv PROVE NetFragments
    BY DEF NetInv, SendInv, UdpInv, NetSafe
  <2> SUFFICES ASSUME NEW s \in Senders, net_call[s].pc = "done"
               PROVE  LET sent == net_call[s].sent
                          covers(i, b) == b \in sent[i].offset .. sent[i].offset + sent[i].length - 1
                      IN  /\ \A b \in 0 .. net_call[s].length - 1 :
                                Cardinality({i \in DOMAIN sent : covers(i, b)}) = 1
                          /\ \A i \in DOMAIN sent :
                                /\ sent[i].offset + sent[i].length <= net_call[s].length
                                /\ sent[i].last <=> i = Len(sent)
    BY DEF NetFragments
  <2>1. net_call[s] \in SendCalls /\ SentSoFar(net_call[s])
    BY DEF NetInv, SendInv, SendType
  <2> QED BY <2>1, AllFragments
<1> QED BY <1>1, <1>2, NetStarts, PTL DEF NetSpec

-----------------------------------------------------------------------------
\* The number of places of an object in one list.
LEMMA OccurrencesNat ==
    ASSUME NEW n \in Nat, NEW s, DOMAIN s \subseteq 1 .. n, NEW o
    PROVE  /\ Occurrences(s, o) \in Nat
           /\ IsFiniteSet({i \in DOMAIN s : s[i] = o})
           /\ Occurrences(s, o) > 0 <=> \E i \in DOMAIN s : s[i] = o
<1> DEFINE P == {i \in DOMAIN s : s[i] = o}
<1>1. IsFiniteSet(1 .. n)
  BY FS_Interval
<1>2. P \in SUBSET (1 .. n)
  OBVIOUS
<1>3. IsFiniteSet(P)
  BY <1>1, <1>2, FS_Subset
<1>4. Cardinality(P) \in Nat /\ (Cardinality(P) = 0 <=> P = {})
  BY <1>3, FS_CardinalityType, FS_EmptySet
<1> QED
  BY <1>3, <1>4 DEF Occurrences

\* An entry at the end.
LEMMA AppendedOccurrences ==
    ASSUME NEW T, NEW s \in Seq(T), NEW x \in T, NEW o
    PROVE  Occurrences(Append(s, x), o) = Occurrences(s, o) + IF x = o THEN 1 ELSE 0
<1> DEFINE P == {i \in DOMAIN s : s[i] = o}
           Q == {i \in DOMAIN Append(s, x) : Append(s, x)[i] = o}
           n == Len(s)
<1>1. n \in Nat /\ DOMAIN s = 1 .. n
  OBVIOUS
<1>2. DOMAIN Append(s, x) = 1 .. n + 1
  OBVIOUS
<1>3. \A i \in 1 .. n + 1 : Append(s, x)[i] = IF i = n + 1 THEN x ELSE s[i]
  OBVIOUS
<1>4. IsFiniteSet(P) /\ n + 1 \notin P
  <2>1. DOMAIN s \subseteq 1 .. n
    BY <1>1
  <2>2. IsFiniteSet(P)
    BY <1>1, <2>1, OccurrencesNat, Zenon
  <2> QED
    BY <1>1, <2>2
<1>5. Q = IF x = o THEN P \cup {n + 1} ELSE P
  BY <1>1, <1>2, <1>3
<1>6. Cardinality(P \cup {n + 1}) = Cardinality(P) + 1
  BY <1>4, FS_AddElement
<1>7. Cardinality(P) \in Nat
  BY <1>4, FS_CardinalityType
<1> HIDE DEF P, Q
<1>8. Cardinality(Q) = Cardinality(P) + IF x = o THEN 1 ELSE 0
  BY <1>5, <1>6, <1>7
<1> QED
  BY <1>8 DEF Occurrences, P, Q

\* The first entry of an object taken out: the entries behind it move up, and only
\* this object has one less.
LEMMA RemovedOccurrences ==
    ASSUME NEW T, NEW s \in Seq(T), NEW x \in T, Occurrences(s, x) > 0
    PROVE  /\ WithoutFirst(s, x) \in Seq(T)
           /\ Len(WithoutFirst(s, x)) = Len(s) - 1
           /\ \A o : Occurrences(WithoutFirst(s, x), o)
                        = Occurrences(s, o) - IF x = o THEN 1 ELSE 0
<1> DEFINE n == Len(s)
           First(i) == s[i] = x /\ \A j \in 1 .. i - 1 : s[j] # x
           k == CHOOSE i \in DOMAIN s : First(i)
           w == WithoutFirst(s, x)
<1>1. n \in Nat /\ DOMAIN s = 1 .. n
  OBVIOUS
<1>2. \E i \in DOMAIN s : s[i] = x
  BY <1>1, OccurrencesNat
<1>3. \E i \in DOMAIN s : First(i)
  <2> DEFINE Is == {i \in DOMAIN s : s[i] = x}
  <2>1. Is \in SUBSET Nat /\ Is # {}
    BY <1>1, <1>2
  <2>2. \E i \in Is : \A j \in Is : i <= j
    BY <2>1, LeastElement
  <2> QED
    BY <1>1, <2>2
<1>4. k \in DOMAIN s /\ First(k)
  BY <1>3
<1>5. w = SubSeq(s, 1, k - 1) \o SubSeq(s, k + 1, n)
  BY DEF WithoutFirst
<1> HIDE DEF k, w, First, n
<1>6. k \in 1 .. n /\ s[k] = x
  BY <1>1, <1>4 DEF First
<1>7. s \in Seq(T) /\ n = Len(s)
  BY DEF n
<1>8. /\ w \in Seq(T) /\ Len(w) = n - 1
      /\ \A i \in 1 .. n - 1 : w[i] = IF i < k THEN s[i] ELSE s[i + 1]
  <2>1. SubSeq(s, 1, k - 1) \in Seq(T) /\ Len(SubSeq(s, 1, k - 1)) = k - 1
        /\ \A i \in 1 .. k - 1 : SubSeq(s, 1, k - 1)[i] = s[i]
    BY <1>1, <1>6, <1>7
  <2>2. SubSeq(s, k + 1, n) \in Seq(T) /\ Len(SubSeq(s, k + 1, n)) = n - k
        /\ \A i \in 1 .. n - k : SubSeq(s, k + 1, n)[i] = s[k + i]
    <3>1. k + 1 \in 1 .. n + 1 /\ n \in k .. n
      BY <1>1, <1>6
    <3>2. SubSeq(s, k + 1, n) \in Seq(T)
      BY <1>1, <1>6, <1>7, <3>1, SubSeqProperties
    <3>3. Len(SubSeq(s, k + 1, n)) = IF k + 1 <= n THEN n - (k + 1) + 1 ELSE 0
      BY <1>1, <1>6, <1>7, <3>1, SubSeqProperties
    <3>4. \A i \in 1 .. n - (k + 1) + 1 : SubSeq(s, k + 1, n)[i] = s[k + 1 + i - 1]
      BY <1>1, <1>6, <1>7, <3>1, SubSeqProperties
    <3>5. \A i \in 1 .. n - k : k + 1 + i - 1 = k + i
      BY <1>1, <1>6
    <3>6. n - (k + 1) + 1 = n - k
      BY <1>1, <1>6
    <3> QED
      BY <1>1, <1>6, <3>2, <3>3, <3>4, <3>5, <3>6
  <2> DEFINE a == SubSeq(s, 1, k - 1)
             b == SubSeq(s, k + 1, n)
  <2> HIDE DEF a, b
  <2>3. a \o b \in Seq(T) /\ Len(a \o b) = Len(a) + Len(b)
        /\ \A i \in 1 .. Len(a) + Len(b) :
              (a \o b)[i] = IF i <= Len(a) THEN a[i] ELSE b[i - Len(a)]
    <3>1. a \in Seq(T) /\ b \in Seq(T)
      BY <2>1, <2>2 DEF a, b
    <3> QED
      BY <3>1, ConcatProperties
  <2>4. \A i \in 1 .. k - 1 : a[i] = s[i]
    BY <2>1 DEF a
  <2>5. \A i \in 1 .. n - k : b[i] = s[k + i]
    BY <2>2 DEF b
  <2>6. Len(a) = k - 1 /\ Len(b) = n - k
    BY <2>1, <2>2 DEF a, b
  <2>7. w = a \o b
    BY <1>5 DEF a, b
  <2>8. ASSUME NEW i \in 1 .. n - 1
        PROVE  w[i] = IF i < k THEN s[i] ELSE s[i + 1]
    <3>1. CASE i < k
      BY <1>1, <1>6, <2>3, <2>4, <2>6, <2>7, <3>1
    <3>2. CASE ~(i < k)
      <4>1. i - (k - 1) \in 1 .. n - k /\ k + (i - (k - 1)) = i + 1
        BY <1>1, <1>6, <3>2
      <4>2. b[i - (k - 1)] = s[i + 1]
        BY <2>5, <4>1
      <4> QED
        BY <1>1, <1>6, <2>3, <2>6, <2>7, <3>2, <4>2
    <3> QED
      BY <3>1, <3>2
  <2>9. (k - 1) + (n - k) = n - 1
    BY <1>1, <1>6
  <2>10. w \in Seq(T) /\ Len(w) = n - 1
    BY <2>3, <2>6, <2>7, <2>9
  <2> QED
    BY <2>8, <2>10
<1>9. ASSUME NEW o
      PROVE  Occurrences(w, o) = Occurrences(s, o) - IF x = o THEN 1 ELSE 0
  <2> DEFINE P == {i \in DOMAIN s : s[i] = o}
             R == P \ {k}
             Q == {i \in DOMAIN w : w[i] = o}
             shift == [i \in Q |-> IF i < k THEN i ELSE i + 1]
  <2>1. DOMAIN w = 1 .. n - 1
    BY <1>1, <1>8
  <2>2. shift \in [Q -> R]
    BY <1>1, <1>6, <1>8, <2>1
  <2>3. \A i, j \in Q : shift[i] = shift[j] => i = j
    BY <1>1, <1>6, <2>1
  <2>4. ASSUME NEW j \in R
        PROVE  \E i \in Q : shift[i] = j
    <3>1. CASE j < k
      <4>1. j \in Q /\ shift[j] = j
        BY <1>1, <1>6, <1>8, <2>1, <3>1
      <4> QED
        BY <4>1
    <3>2. CASE j > k
      <4>1. j - 1 \in Q /\ shift[j - 1] = j
        BY <1>1, <1>6, <1>8, <2>1, <3>2
      <4> QED
        BY <4>1
    <3> QED
      BY <1>1, <1>6, <3>1, <3>2
  <2>5. IsFiniteSet(P) /\ IsFiniteSet(Q)
    <3>1. DOMAIN s \subseteq 1 .. n /\ DOMAIN w \subseteq 1 .. n
      BY <1>1, <2>1
    <3> QED
      BY <1>1, <3>1, OccurrencesNat, Zenon
  <2>6. ExistsBijection(Q, R)
    <3> HIDE DEF Q, R, shift
    <3>1. shift \in Bijection(Q, R)
      BY <2>2, <2>3, <2>4, Fun_IsBij
    <3> QED
      BY <3>1 DEF ExistsBijection
  <2>7. Cardinality(R) = Cardinality(Q)
    <3> HIDE DEF Q, R
    <3> QED
      BY <2>5, <2>6, FS_Bijection
  <2>8. Cardinality(R) = Cardinality(P) - IF x = o THEN 1 ELSE 0
    <3>1. k \in P <=> x = o
      BY <1>1, <1>6
    <3>2. Cardinality(P) \in Nat
      BY <2>5, FS_CardinalityType
    <3> HIDE DEF P
    <3>3. Cardinality(P \ {k}) = IF k \in P THEN Cardinality(P) - 1 ELSE Cardinality(P)
      BY <2>5, FS_RemoveElement
    <3> QED
      BY <3>1, <3>2, <3>3
  <2> QED
    BY <2>7, <2>8 DEF Occurrences
<1> QED
  BY <1>7, <1>8, <1>9 DEF w

LEMMA PlacesFinite ==
    ASSUME NEW keys, IsFiniteSet(keys), NEW n \in Nat, NEW list, NEW o
    PROVE  /\ IsFiniteSet(Places(keys, n, list, o))
           /\ Cardinality(Places(keys, n, list, o)) \in Nat
           /\ Cardinality(Places(keys, n, list, o)) <= Cardinality(keys) * n
<1> DEFINE P == Places(keys, n, list, o)
<1>1. IsFiniteSet(1 .. n) /\ Cardinality(1 .. n) = n
  BY FS_Interval
<1>2. IsFiniteSet(keys \X (1 .. n)) /\ Cardinality(keys \X (1 .. n)) = Cardinality(keys) * n
  BY <1>1, FS_Product
<1>3. P \in SUBSET (keys \X (1 .. n))
  BY DEF Places
<1> HIDE DEF P
<1>4. IsFiniteSet(P) /\ Cardinality(P) <= Cardinality(keys \X (1 .. n))
  BY <1>2, <1>3, FS_Subset
<1>5. Cardinality(P) \in Nat
  BY <1>4, FS_CardinalityType
<1> QED
  BY <1>2, <1>4, <1>5 DEF P

\* The places in all lists are those in one of them and those in the others.
LEMMA PlacesSplit ==
    ASSUME NEW keys, IsFiniteSet(keys), NEW n \in Nat, NEW list, NEW o,
           NEW k \in keys, DOMAIN list[k] \subseteq 1 .. n
    PROVE  /\ Occurrences(list[k], o) \in Nat
           /\ Cardinality(Places(keys, n, list, o))
                 = Cardinality(Places(keys \ {k}, n, list, o)) + Occurrences(list[k], o)
<1> DEFINE All == Places(keys, n, list, o)
           Others == Places(keys \ {k}, n, list, o)
           Here == {i \in DOMAIN list[k] : list[k][i] = o}
           Mine == {k} \X Here
<1>1. All = Others \cup Mine /\ Others \cap Mine = {}
  BY DEF Places
<1>2. IsFiniteSet(Here) /\ Occurrences(list[k], o) \in Nat
  BY OccurrencesNat
<1>3. IsFiniteSet({k}) /\ Cardinality({k}) = 1
  BY FS_Singleton
<1>4. IsFiniteSet(Mine) /\ Cardinality(Mine) = 1 * Cardinality(Here)
  <2> HIDE DEF Here
  <2> QED
    BY <1>2, <1>3, FS_Product
<1>5. IsFiniteSet(keys \ {k})
  BY FS_RemoveElement
<1>6. IsFiniteSet(Others) /\ Cardinality(Others) \in Nat
  BY <1>5, PlacesFinite
<1>7. Cardinality(Here) = Occurrences(list[k], o)
  BY DEF Occurrences
<1> HIDE DEF All, Others, Here, Mine
<1>8. Cardinality(Others \cup Mine)
         = Cardinality(Others) + Cardinality(Mine) - Cardinality(Others \cap Mine)
  BY <1>4, <1>6, FS_Union
<1>9. Cardinality(All) = Cardinality(Others) + Cardinality(Mine) - 0
  BY <1>1, <1>8, FS_EmptySet
<1>10. Cardinality(All) = Cardinality(Others) + Occurrences(list[k], o)
  BY <1>2, <1>4, <1>6, <1>7, <1>9
<1> QED
  BY <1>2, <1>10 DEF All, Others

\* How the places of o change with the list of k.
PlacesChange(keys, n, list, new, k, o) ==
    /\ Occurrences(list[k], o) \in Nat /\ Occurrences(new[k], o) \in Nat
    /\ Occurrences(list[k], o) <= Cardinality(Places(keys, n, list, o))
    /\ Cardinality(Places(keys, n, new, o))
          = Cardinality(Places(keys, n, list, o)) - Occurrences(list[k], o)
               + Occurrences(new[k], o)

\* One list changed.
LEMMA ListChanged ==
    ASSUME NEW keys, IsFiniteSet(keys), NEW n \in Nat, NEW list, NEW new,
           NEW k \in keys, DOMAIN list[k] \subseteq 1 .. n, DOMAIN new[k] \subseteq 1 .. n,
           \A j \in keys \ {k} : new[j] = list[j], NEW o
    PROVE  PlacesChange(keys, n, list, new, k, o)
<1> DEFINE R == Cardinality(Places(keys \ {k}, n, list, o))
<1>1. Places(keys \ {k}, n, new, o) = Places(keys \ {k}, n, list, o)
  BY DEF Places
<1>0. ASSUME NEW l, DOMAIN l[k] \subseteq 1 .. n
      PROVE  /\ Occurrences(l[k], o) \in Nat
             /\ Cardinality(Places(keys, n, l, o))
                   = Cardinality(Places(keys \ {k}, n, l, o)) + Occurrences(l[k], o)
  <2>1. Occurrences(l[k], o) \in Nat
    BY <1>0, OccurrencesNat
  <2>2. Cardinality(Places(keys, n, l, o))
           = Cardinality(Places(keys \ {k}, n, l, o)) + Occurrences(l[k], o)
    BY ONLY <1>0, IsFiniteSet(keys), n \in Nat, k \in keys, PlacesSplit
  <2> QED
    BY <2>1, <2>2
<1>2. Occurrences(list[k], o) \in Nat
      /\ Cardinality(Places(keys, n, list, o)) = R + Occurrences(list[k], o)
  BY <1>0
<1>3. Occurrences(new[k], o) \in Nat
      /\ Cardinality(Places(keys, n, new, o)) = R + Occurrences(new[k], o)
  BY <1>0, <1>1
<1>4. R \in Nat
  <2>1. IsFiniteSet(keys \ {k})
    BY FS_RemoveElement
  <2> QED
    BY <2>1, PlacesFinite
<1> HIDE DEF R
<1> QED
  BY <1>2, <1>3, <1>4 DEF PlacesChange

\* Lists that are alike, for the keys that count.
LEMMA PlacesSame ==
    ASSUME NEW keys, NEW n, NEW list, NEW new, NEW o, \A j \in keys : new[j] = list[j]
    PROVE  Places(keys, n, new, o) = Places(keys, n, list, o)
  BY DEF Places

\* Giving back n references to an object that has at least so many.
LEMMA GivenBack ==
    \A W, r, n \in Nat : n <= r /\ r < W => (r + n * (W - 1)) % W = r - n
<1> SUFFICES ASSUME NEW W \in Nat, NEW r \in Nat, NEW n \in Nat, n <= r, r < W
             PROVE  (r + n * (W - 1)) % W = r - n
  OBVIOUS
<1>1. r + n * (W - 1) = n * W + (r - n)
  BY SMT
<1>2. r - n \in 0 .. W - 1 /\ W \in Nat \ {0} /\ n \in Int /\ r + n * (W - 1) \in Int
  BY SMT
<1> QED
  BY <1>1, <1>2, Remainder

LEMMA SmallRemainder == \A W, x \in Nat : x < W => x % W = x
  BY SMT

-----------------------------------------------------------------------------
Listings == Seq(Nat)
FileStates == [open : BOOLEAN, master : BOOLEAN, objects : Listings]
GemObjects == [refcount : Nat, handle : Nat, name : Nat, paddr : Nat, size : Nat]
DrmDevices ==
    [files : SUBSET DrmFiles, gem_objects : SUBSET Nat, fbs : SUBSET Nat, next_handle : Nat,
     next_gem_name : Nat, used : Nat, locked : BOOLEAN, destroyed : SUBSET Nat,
     twice : SUBSET Nat]
DrmType ==
    /\ drm_file \in [DrmFiles -> FileStates]
    /\ drm_obj \in Seq(GemObjects)
    /\ drm_fb \in Seq([1 .. Planes -> Nat])
    /\ drm_dev \in DrmDevices

\* The device lists the open files, and one of them at most is master.
MasterInv ==
    /\ DrmOneMaster
    /\ \A f \in DrmFiles : /\ drm_file[f].open <=> f \in drm_dev.files
                           /\ ~drm_file[f].open => ~drm_file[f].master
\* Objects have their own pages of the used part of the pool.
PoolInv ==
    /\ DisplayPages <= drm_dev.used /\ drm_dev.used <= DmaPages
    /\ DrmBuffersApart
    /\ \A o \in Objects : drm_obj[o].paddr + drm_obj[o].size <= drm_dev.used
\* Lists have objects that exist, and no more entries than there were handles.
ListsInv ==
    /\ drm_dev.next_handle \in 1 .. MaxHandles + 1
    /\ \A f \in DrmFiles :
          /\ Len(drm_file[f].objects) < drm_dev.next_handle
          /\ \A i \in 1 .. Len(drm_file[f].objects) : drm_file[f].objects[i] \in Objects
          /\ ~drm_file[f].open => drm_file[f].objects = <<>>
    /\ Len(drm_fb) <= MaxFbs
    /\ drm_dev.fbs \subseteq Framebuffers /\ drm_dev.destroyed \subseteq drm_dev.fbs
    /\ \A id \in Framebuffers : \A i \in 1 .. Planes : drm_fb[id][i] \in 0 .. Len(drm_obj)
    /\ drm_dev.gem_objects \subseteq Objects
CountInv == ListsInv /\ DrmRefcounts

\* The inductive invariant of DrmSafe.
DrmInv == DrmType /\ MasterInv /\ PoolInv /\ CountInv

LEMMA DrmConstants ==
    /\ Planes \in Nat \ {0} /\ DmaPages \in Nat /\ DisplayPages \in Nat /\ DisplayPages <= DmaPages
    /\ MaxFbs \in Nat /\ MaxHandles \in Nat /\ DumbSizes \subseteq Nat
    /\ DrmWord \in Nat \ {0}
    /\ IsFiniteSet(DrmFiles) /\ Cardinality(DrmFiles) \in Nat
    /\ Cardinality(DrmFiles) * MaxHandles + MaxFbs * Planes < DrmWord
<1>1. Cardinality(DrmFiles) \in Nat
  BY DrmAssumption, FS_CardinalityType
<1>2. Planes \in Nat \ {0} /\ DmaPages \in Nat /\ DisplayPages \in Nat /\ DisplayPages <= DmaPages
      /\ MaxFbs \in Nat /\ MaxHandles \in Nat /\ DumbSizes \subseteq Nat /\ DrmWord \in Nat
  BY DrmAssumption
<1>3. Cardinality(DrmFiles) * MaxHandles \in Nat /\ MaxFbs * Planes \in Nat
  BY <1>1, <1>2
<1>4. DrmWord > Cardinality(DrmFiles) * MaxHandles + MaxFbs * Planes
  BY DrmAssumption
<1> QED
  BY <1>1, <1>2, <1>3, <1>4, DrmAssumption

\* An object has fewer references than a count can tell apart.
LEMMA CountBound ==
    ASSUME NEW m \in Nat, m <= MaxFbs, NEW ids \in SUBSET (1 .. m), NEW list, NEW fb, NEW o
    PROVE  /\ Cardinality(Places(DrmFiles, MaxHandles, list, o)) \in Nat
           /\ Cardinality(Places(ids, Planes, fb, o)) \in Nat
           /\ Cardinality(Places(DrmFiles, MaxHandles, list, o))
                 + Cardinality(Places(ids, Planes, fb, o)) < DrmWord
<1> DEFINE a == Cardinality(Places(DrmFiles, MaxHandles, list, o))
           b == Cardinality(Places(ids, Planes, fb, o))
           c == Cardinality(ids)
           d == Cardinality(DrmFiles) * MaxHandles
<1>1. IsFiniteSet(ids) /\ c \in Nat /\ c <= m
  <2>1. IsFiniteSet(1 .. m) /\ Cardinality(1 .. m) = m
    BY FS_Interval
  <2>2. IsFiniteSet(ids) /\ Cardinality(ids) <= Cardinality(1 .. m)
    BY <2>1, FS_Subset
  <2> QED
    BY <2>1, <2>2, FS_CardinalityType
<1>2. a \in Nat /\ a <= d
  BY DrmConstants, PlacesFinite
<1>3. b \in Nat /\ b <= c * Planes
  BY <1>1, DrmConstants, PlacesFinite
<1>4. d \in Nat /\ d + MaxFbs * Planes < DrmWord /\ MaxFbs \in Nat /\ Planes \in Nat
      /\ DrmWord \in Nat
  BY DrmConstants
<1> HIDE DEF a, b, c, d
<1>5. c * Planes <= MaxFbs * Planes /\ c * Planes \in Nat /\ MaxFbs * Planes \in Nat
  BY <1>1, <1>4
<1>6. a + b < DrmWord
  BY <1>2, <1>3, <1>4, <1>5
<1> QED
  BY <1>2, <1>3, <1>6 DEF a, b

LEMMA DrmStarts == DrmInit => DrmInv
<1> SUFFICES ASSUME DrmInit PROVE DrmInv
  OBVIOUS
<1>1. DrmType
  <2>1. <<>> \in Listings
    BY DEF Listings
  <2>2. drm_file \in [DrmFiles -> FileStates]
    BY <2>1 DEF DrmInit, FileStates, NewFile
  <2>3. drm_dev \in DrmDevices
    BY DrmConstants DEF DrmInit, DrmDevices, drm_device_create
  <2>4. drm_obj \in Seq(GemObjects) /\ drm_fb \in Seq([1 .. Planes -> Nat])
    BY DEF DrmInit
  <2> QED
    BY <2>2, <2>3, <2>4 DEF DrmType
<1>2. MasterInv
  BY DEF MasterInv, DrmInit, NewFile, drm_device_create, DrmOneMaster
<1>3. PoolInv
  BY DrmConstants DEF PoolInv, DrmInit, drm_device_create, DrmBuffersApart, Objects
<1>4. CountInv
  BY DrmConstants DEF CountInv, ListsInv, DrmRefcounts, DrmInit, NewFile, drm_device_create,
     Objects, Framebuffers
<1> QED
  BY <1>1, <1>2, <1>3, <1>4 DEF DrmInv

\* What the type of the lists says.
LEMMA DrmTyped ==
    ASSUME DrmType
    PROVE  /\ Len(drm_obj) \in Nat /\ Objects = DOMAIN drm_obj /\ Objects = 1 .. Len(drm_obj)
           /\ \A o \in Objects : drm_obj[o] \in GemObjects
           /\ Len(drm_fb) \in Nat /\ Framebuffers = 1 .. Len(drm_fb)
           /\ \A id \in Framebuffers : drm_fb[id] \in [1 .. Planes -> Nat]
           /\ \A f \in DrmFiles : /\ drm_file[f] \in FileStates
                                  /\ drm_file[f].objects \in Seq(Nat)
           /\ drm_dev \in DrmDevices
  BY DEF DrmType, Objects, Framebuffers, FileStates, Listings

\* The references of an object, as numbers.
LEMMA CountsTyped ==
    ASSUME DrmInv, NEW o
    PROVE  /\ Cardinality(FileUses(o)) \in Nat /\ Cardinality(PlaneUses(o)) \in Nat
           /\ Cardinality(FileUses(o)) + Cardinality(PlaneUses(o)) < DrmWord
<1> DEFINE m == Len(drm_fb)
           ids == drm_dev.fbs \ drm_dev.destroyed
<1>1. m \in Nat /\ m <= MaxFbs /\ ids \in SUBSET (1 .. m)
  BY DrmTyped DEF DrmInv, CountInv, ListsInv, Framebuffers
<1> HIDE DEF m, ids
<1> QED
  BY <1>1, CountBound DEF FileUses, PlaneUses, ids

\* One file changed.
LEMMA FileChanged ==
    ASSUME DrmInv, NEW f \in DrmFiles, drm_file' \in [DrmFiles -> FileStates],
           \A g \in DrmFiles \ {f} : drm_file'[g] = drm_file[g],
           Len(drm_file'[f].objects) <= MaxHandles, NEW o
    PROVE  /\ Occurrences(drm_file[f].objects, o) \in Nat
           /\ Occurrences(drm_file'[f].objects, o) \in Nat
           /\ Occurrences(drm_file[f].objects, o) <= Cardinality(FileUses(o))
           /\ Cardinality(FileUses(o)')
                 = Cardinality(FileUses(o)) - Occurrences(drm_file[f].objects, o)
                      + Occurrences(drm_file'[f].objects, o)
<1> DEFINE list == [g \in DrmFiles |-> drm_file[g].objects]
           new == [g \in DrmFiles |-> drm_file'[g].objects]
<1>1. drm_file[f].objects \in Seq(Nat) /\ drm_file'[f].objects \in Seq(Nat)
  BY DrmTyped DEF DrmInv, FileStates, Listings
<1>2. Len(drm_file[f].objects) <= MaxHandles
  <2>1. /\ Len(drm_file[f].objects) < drm_dev.next_handle
        /\ drm_dev.next_handle \in 1 .. MaxHandles + 1
    BY DEF DrmInv, CountInv, ListsInv
  <2>2. MaxHandles \in Nat /\ Len(drm_file[f].objects) \in Nat
    BY <1>1, DrmConstants
  <2> QED
    BY <2>1, <2>2
<1>3. DOMAIN list[f] \subseteq 1 .. MaxHandles /\ DOMAIN new[f] \subseteq 1 .. MaxHandles
  <2>1. \A s \in Seq(Nat) : Len(s) <= MaxHandles => DOMAIN s \subseteq 1 .. MaxHandles
    BY DrmConstants
  <2>2. list[f] = drm_file[f].objects /\ new[f] = drm_file'[f].objects
    OBVIOUS
  <2> QED
    BY <1>1, <1>2, <2>1, <2>2
<1>4. \A g \in DrmFiles \ {f} : new[g] = list[g]
  OBVIOUS
<1>5. FileUses(o) = Places(DrmFiles, MaxHandles, list, o)
      /\ FileUses(o)' = Places(DrmFiles, MaxHandles, new, o)
  BY DEF FileUses
<1>6. list[f] = drm_file[f].objects /\ new[f] = drm_file'[f].objects
  OBVIOUS
<1> HIDE DEF list, new
<1>7. IsFiniteSet(DrmFiles) /\ MaxHandles \in Nat
  BY DrmConstants
<1>8. PlacesChange(DrmFiles, MaxHandles, list, new, f, o)
  BY ONLY <1>3, <1>4, <1>7, f \in DrmFiles, ListChanged
<1> QED
  BY <1>5, <1>6, <1>8 DEF PlacesChange

\* drm_gem_object_destroy, n[o] times, where each object has as many references less.
LEMMA ReferencesGiven ==
    ASSUME DrmInv, NEW n \in [Objects -> Nat],
           drm_obj' = Released(drm_obj, n),
           drm_dev'.gem_objects = drm_dev.gem_objects \ Freed(drm_obj, n),
           drm_dev.twice \subseteq drm_dev'.twice,
           \A o \in Objects \ drm_dev'.twice :
              /\ n[o] <= Cardinality(FileUses(o)) + Cardinality(PlaneUses(o))
              /\ Cardinality(FileUses(o)') + Cardinality(PlaneUses(o)')
                    = (Cardinality(FileUses(o)) + Cardinality(PlaneUses(o))) - n[o]
    PROVE  /\ drm_obj' \in Seq(GemObjects) /\ Objects' = Objects /\ Len(drm_obj') = Len(drm_obj)
           /\ \A o \in Objects : /\ drm_obj'[o].paddr = drm_obj[o].paddr
                                  /\ drm_obj'[o].size = drm_obj[o].size
           /\ drm_dev'.gem_objects \subseteq Objects
           /\ DrmRefcounts'
<1> DEFINE N == Len(drm_obj)
<1>1. N \in Nat /\ Objects = 1 .. N /\ DOMAIN drm_obj = 1 .. N
  BY DrmTyped DEF DrmInv
<1>2. ASSUME NEW o \in Objects
      PROVE  /\ drm_obj'[o] \in GemObjects
             /\ drm_obj'[o].refcount = (drm_obj[o].refcount + n[o] * (DrmWord - 1)) % DrmWord
             /\ drm_obj'[o].paddr = drm_obj[o].paddr /\ drm_obj'[o].size = drm_obj[o].size
  <2> DEFINE c == (drm_obj[o].refcount + n[o] * (DrmWord - 1)) % DrmWord
  <2>1. drm_obj[o] \in GemObjects
    BY DrmTyped DEF DrmInv
  <2>2. drm_obj[o].refcount \in Nat
    BY <2>1 DEF GemObjects
  <2>3. c \in Nat
    <3>1. n[o] * (DrmWord - 1) \in Nat
      BY DrmConstants
    <3>2. drm_obj[o].refcount + n[o] * (DrmWord - 1) \in Nat
      BY <2>2, <3>1
    <3> HIDE DEF c
    <3>3. \A x \in Nat : x % DrmWord \in Nat
      BY DrmConstants
    <3> QED
      BY <3>2, <3>3 DEF c
  <2>4. drm_obj'[o] = [drm_obj[o] EXCEPT !.refcount = c]
    BY <1>1 DEF Released
  <2> HIDE DEF c
  <2>5. /\ drm_obj'[o] \in GemObjects /\ drm_obj'[o].refcount = c
        /\ drm_obj'[o].paddr = drm_obj[o].paddr /\ drm_obj'[o].size = drm_obj[o].size
    BY <2>1, <2>3, <2>4 DEF GemObjects
  <2> QED
    BY <2>5 DEF c
<1>3. /\ drm_obj' \in Seq(GemObjects) /\ Len(drm_obj') = N
  <2>1. DOMAIN drm_obj' = 1 .. N
    BY <1>1 DEF Released
  <2>2. drm_obj' = [o \in 1 .. N |-> drm_obj'[o]]
    BY <1>1 DEF Released
  <2>3. drm_obj' \in [1 .. N -> GemObjects]
    BY <1>1, <1>2, <2>1, <2>2
  <2> QED
    BY <1>1, <2>3
<1>4. Objects' = Objects
  BY <1>3 DEF Objects
<1>5. drm_dev'.gem_objects \subseteq Objects
  BY DEF DrmInv, CountInv, ListsInv
<1>6. ASSUME NEW o \in Objects, o \notin drm_dev'.twice
      PROVE  /\ drm_obj'[o].refcount = Cardinality(FileUses(o)') + Cardinality(PlaneUses(o)')
             /\ o \in drm_dev'.gem_objects <=> drm_obj'[o].refcount > 0
  <2> DEFINE r == drm_obj[o].refcount
             k == n[o]
             e == Cardinality(FileUses(o)) + Cardinality(PlaneUses(o))
             d == Cardinality(FileUses(o)') + Cardinality(PlaneUses(o)')
  <2>1. r = e /\ (o \in drm_dev.gem_objects <=> r > 0)
    BY <1>6 DEF DrmInv, CountInv, DrmRefcounts
  <2>2. e \in Nat /\ e < DrmWord
    BY CountsTyped
  <2>3. k \in Nat /\ k <= e /\ d = e - k
    <3>1. k \in Nat
      OBVIOUS
    <3>2. o \in Objects \ drm_dev'.twice
      BY <1>6
    <3> QED
      BY <3>1, <3>2
  <2>4. o \in Freed(drm_obj, n) <=> r \in 1 .. k
    BY <1>1 DEF Freed
  <2>5. drm_obj'[o].refcount = (r + k * (DrmWord - 1)) % DrmWord
    BY <1>2
  <2> HIDE DEF r, k, e, d
  <2>6. (r + k * (DrmWord - 1)) % DrmWord = r - k
    <3>1. r \in Nat /\ k \in Nat /\ k <= r /\ r < DrmWord /\ DrmWord \in Nat
      BY <2>1, <2>2, <2>3, DrmConstants
    <3> QED
      BY <3>1, GivenBack
  <2>7. drm_obj'[o].refcount = d
    BY <2>1, <2>3, <2>5, <2>6
  <2>8. o \in drm_dev'.gem_objects <=> d > 0
    BY <2>1, <2>2, <2>3, <2>4
  <2> QED
    BY <2>7, <2>8 DEF d
<1>7. DrmRefcounts'
  BY <1>4, <1>6 DEF DrmRefcounts
<1> QED
  BY <1>2, <1>3, <1>4, <1>5, <1>7

\* Every object has n[o] references more; one that has none gets none.
LEMMA ReferencesTaken ==
    ASSUME DrmInv, NEW n \in [Objects -> Nat], drm_obj' \in Seq(GemObjects),
           Len(drm_obj') = Len(drm_obj),
           drm_dev'.gem_objects = drm_dev.gem_objects, drm_dev'.twice = drm_dev.twice,
           \A o \in Objects \ drm_dev.twice :
              /\ drm_obj'[o].refcount = (drm_obj[o].refcount + n[o]) % DrmWord
              /\ n[o] > 0 => drm_obj[o].refcount > 0
              /\ Cardinality(FileUses(o)') + Cardinality(PlaneUses(o)')
                    = Cardinality(FileUses(o)) + Cardinality(PlaneUses(o)) + n[o]
              /\ Cardinality(FileUses(o)') + Cardinality(PlaneUses(o)') < DrmWord
    PROVE  DrmRefcounts'
<1>1. Objects' = Objects
  BY DEF Objects
<1>2. ASSUME NEW o \in Objects, o \notin drm_dev'.twice
      PROVE  /\ drm_obj'[o].refcount = Cardinality(FileUses(o)') + Cardinality(PlaneUses(o)')
             /\ o \in drm_dev'.gem_objects <=> drm_obj'[o].refcount > 0
  <2> DEFINE r == drm_obj[o].refcount
             k == n[o]
             e == Cardinality(FileUses(o)) + Cardinality(PlaneUses(o))
             d == Cardinality(FileUses(o)') + Cardinality(PlaneUses(o)')
  <2>1. r = e /\ (o \in drm_dev.gem_objects <=> r > 0)
    BY <1>2 DEF DrmInv, CountInv, DrmRefcounts
  <2>2. e \in Nat
    BY CountsTyped
  <2>3. k \in Nat /\ d = e + k /\ d < DrmWord /\ (k > 0 => r > 0)
    BY <1>2
  <2>4. drm_obj'[o].refcount = (r + k) % DrmWord
    BY <1>2
  <2> HIDE DEF r, k, e, d
  <2>5. (r + k) % DrmWord = r + k
    <3>1. r + k \in Nat /\ r + k < DrmWord /\ DrmWord \in Nat
      BY <2>1, <2>2, <2>3, DrmConstants
    <3> QED
      BY <3>1, SmallRemainder
  <2>6. drm_obj'[o].refcount = d
    BY <2>1, <2>3, <2>4, <2>5
  <2>7. o \in drm_dev'.gem_objects <=> d > 0
    BY <2>1, <2>2, <2>3
  <2> QED
    BY <2>6, <2>7 DEF d
<1> QED
  BY <1>1, <1>2 DEF DrmRefcounts

LEMMA MasterKept ==
    ASSUME MasterInv, drm_dev'.files = drm_dev.files,
           \A f \in DrmFiles : /\ drm_file'[f].open = drm_file[f].open
                               /\ drm_file'[f].master = drm_file[f].master
    PROVE  MasterInv'
  BY DEF MasterInv, DrmOneMaster

LEMMA PoolKept ==
    ASSUME PoolInv, drm_dev'.used = drm_dev.used, Objects' = Objects,
           \A o \in Objects : /\ drm_obj'[o].paddr = drm_obj[o].paddr
                              /\ drm_obj'[o].size = drm_obj[o].size
    PROVE  PoolInv'
  BY DEF PoolInv, DrmBuffersApart

\* The planes of the framebuffers that count are the same.
LEMMA PlanesKept ==
    ASSUME drm_dev'.fbs = drm_dev.fbs, drm_dev'.destroyed = drm_dev.destroyed,
           drm_fb' = drm_fb, NEW o
    PROVE  PlaneUses(o)' = PlaneUses(o)
  BY DEF PlaneUses

\* An empty list has nobody.
LEMMA NoOccurrences == \A o : Occurrences(<<>>, o) = 0
<1> SUFFICES ASSUME NEW o PROVE Occurrences(<<>>, o) = 0
  OBVIOUS
<1>1. {i \in DOMAIN <<>> : <<>>[i] = o} = {}
  OBVIOUS
<1> QED
  BY <1>1, FS_EmptySet DEF Occurrences

LEMMA OpenStep ==
    ASSUME DrmInv, NEW f \in DrmFiles, drm_open(f)
    PROVE  DrmInv'
<1> USE DEF drm_open
<1>1. /\ drm_dev' \in DrmDevices /\ drm_dev'.files = drm_dev.files \cup {f}
      /\ drm_dev'.fbs = drm_dev.fbs /\ drm_dev'.destroyed = drm_dev.destroyed
      /\ drm_dev'.gem_objects = drm_dev.gem_objects /\ drm_dev'.twice = drm_dev.twice
      /\ drm_dev'.used = drm_dev.used /\ drm_dev'.next_handle = drm_dev.next_handle
  BY DrmTyped DEF DrmInv, DrmDevices
<1>2. /\ drm_file' \in [DrmFiles -> FileStates]
      /\ drm_file'[f] = [open |-> TRUE, master |-> drm_dev.files = {}, objects |-> <<>>]
      /\ \A g \in DrmFiles \ {f} : drm_file'[g] = drm_file[g]
  <2>1. <<>> \in Listings
    BY DEF Listings
  <2> QED
    BY <2>1 DEF DrmInv, DrmType, FileStates
<1>3. DrmType'
  BY <1>1, <1>2 DEF DrmInv, DrmType
<1>4. MasterInv'
  BY <1>1, <1>2 DEF DrmInv, MasterInv, DrmOneMaster
<1>5. PoolInv'
  BY <1>1, PoolKept DEF DrmInv, Objects
<1>6. \A g \in DrmFiles : drm_file'[g].objects = drm_file[g].objects
  BY <1>2 DEF DrmInv, CountInv, ListsInv
<1>7. ListsInv'
  <2>1. ListsInv
    BY DEF DrmInv, CountInv
  <2>2. Objects' = Objects /\ Framebuffers' = Framebuffers
    BY DEF Objects, Framebuffers
  <2>3. \A g \in DrmFiles : ~drm_file'[g].open => ~drm_file[g].open
    BY <1>2
  <2> QED
    BY <1>1, <1>6, <2>1, <2>2, <2>3 DEF ListsInv
<1>8. DrmRefcounts'
  <2>1. \A o : FileUses(o)' = FileUses(o) /\ PlaneUses(o)' = PlaneUses(o)
    BY <1>1, <1>6 DEF FileUses, PlaneUses
  <2> QED
    BY <1>1, <2>1 DEF DrmInv, CountInv, DrmRefcounts, Objects
<1> QED
  BY <1>3, <1>4, <1>5, <1>7, <1>8 DEF DrmInv, CountInv

LEMMA CloseStep ==
    ASSUME DrmInv, NEW f \in DrmFiles, drm_close(f)
    PROVE  DrmInv'
<1> DEFINE n == [o \in Objects |-> Occurrences(drm_file[f].objects, o)]
<1>1. /\ drm_dev' \in DrmDevices /\ drm_dev'.files = drm_dev.files \ {f}
      /\ drm_dev'.fbs = drm_dev.fbs /\ drm_dev'.destroyed = drm_dev.destroyed
      /\ drm_dev'.gem_objects = drm_dev.gem_objects \ Freed(drm_obj, n)
      /\ drm_dev'.twice = drm_dev.twice
      /\ drm_dev'.used = drm_dev.used /\ drm_dev'.next_handle = drm_dev.next_handle
  BY DrmTyped DEF DrmInv, DrmDevices, drm_close, drm_gem_object_destroy
<1>2. /\ drm_file' \in [DrmFiles -> FileStates] /\ drm_file'[f] = NewFile
      /\ \A g \in DrmFiles \ {f} : drm_file'[g] = drm_file[g]
      /\ drm_file'[f].objects = <<>> /\ ~drm_file'[f].open /\ ~drm_file'[f].master
  <2>1. <<>> \in Listings
    BY DEF Listings
  <2> QED
    BY <2>1 DEF DrmInv, DrmType, FileStates, drm_close, NewFile
<1>3. drm_obj' = Released(drm_obj, n) /\ drm_fb' = drm_fb
  BY DEF drm_close, drm_gem_object_destroy
<1> HIDE DEF n
<1>4. \A o : /\ Occurrences(drm_file[f].objects, o) \in Nat
             /\ Occurrences(drm_file[f].objects, o) <= Cardinality(FileUses(o))
             /\ Cardinality(FileUses(o)')
                   = Cardinality(FileUses(o)) - Occurrences(drm_file[f].objects, o)
  <2> SUFFICES ASSUME NEW o
               PROVE  /\ Occurrences(drm_file[f].objects, o) \in Nat
                      /\ Occurrences(drm_file[f].objects, o) <= Cardinality(FileUses(o))
                      /\ Cardinality(FileUses(o)')
                            = Cardinality(FileUses(o)) - Occurrences(drm_file[f].objects, o)
    OBVIOUS
  <2>1. Len(drm_file'[f].objects) <= MaxHandles
    BY <1>2, DrmConstants
  <2>2. Occurrences(drm_file'[f].objects, o) = 0
    BY <1>2, NoOccurrences
  <2>3. Cardinality(FileUses(o)) \in Nat
    BY CountsTyped
  <2> QED
    BY <1>2, <2>1, <2>2, <2>3, FileChanged
<1>5. n \in [Objects -> Nat] /\ \A o \in Objects : n[o] = Occurrences(drm_file[f].objects, o)
  BY <1>4 DEF n
<1>6. \A o \in Objects \ drm_dev'.twice :
              /\ n[o] <= Cardinality(FileUses(o)) + Cardinality(PlaneUses(o))
              /\ Cardinality(FileUses(o)') + Cardinality(PlaneUses(o)')
                    = (Cardinality(FileUses(o)) + Cardinality(PlaneUses(o))) - n[o]
  <2> SUFFICES ASSUME NEW o \in Objects
               PROVE  /\ n[o] <= Cardinality(FileUses(o)) + Cardinality(PlaneUses(o))
                      /\ Cardinality(FileUses(o)') + Cardinality(PlaneUses(o)')
                            = (Cardinality(FileUses(o)) + Cardinality(PlaneUses(o))) - n[o]
    OBVIOUS
  <2>1. PlaneUses(o)' = PlaneUses(o)
    BY <1>1, <1>3, PlanesKept
  <2>2. Cardinality(FileUses(o)) \in Nat /\ Cardinality(PlaneUses(o)) \in Nat
    BY CountsTyped
  <2> QED
    BY <1>4, <1>5, <2>1, <2>2
<1>7. /\ drm_obj' \in Seq(GemObjects) /\ Objects' = Objects /\ Len(drm_obj') = Len(drm_obj)
      /\ \A o \in Objects : /\ drm_obj'[o].paddr = drm_obj[o].paddr
                             /\ drm_obj'[o].size = drm_obj[o].size
      /\ drm_dev'.gem_objects \subseteq Objects
      /\ DrmRefcounts'
  BY <1>1, <1>3, <1>5, <1>6, ReferencesGiven
<1>8. DrmType'
  BY <1>1, <1>2, <1>3, <1>7 DEF DrmInv, DrmType
<1>9. MasterInv'
  BY <1>1, <1>2 DEF DrmInv, MasterInv, DrmOneMaster
<1>10. PoolInv'
  BY <1>1, <1>7, PoolKept DEF DrmInv
<1>11. ListsInv'
  <2>1. ListsInv /\ MasterInv
    BY DEF DrmInv, CountInv
  <2>2. Framebuffers' = Framebuffers
    BY <1>3 DEF Framebuffers
  <2>3. \A g \in DrmFiles :
          /\ Len(drm_file'[g].objects) < drm_dev'.next_handle
          /\ \A i \in 1 .. Len(drm_file'[g].objects) : drm_file'[g].objects[i] \in Objects'
          /\ ~drm_file'[g].open => drm_file'[g].objects = <<>>
    <3> SUFFICES ASSUME NEW g \in DrmFiles
                 PROVE  /\ Len(drm_file'[g].objects) < drm_dev'.next_handle
                        /\ \A i \in 1 .. Len(drm_file'[g].objects) : drm_file'[g].objects[i] \in Objects'
                        /\ ~drm_file'[g].open => drm_file'[g].objects = <<>>
      OBVIOUS
    <3>1. CASE g = f
      BY <1>1, <1>2, <2>1, <3>1, DrmConstants DEF ListsInv
    <3>2. CASE g # f
      BY <1>1, <1>2, <1>7, <2>1, <3>2 DEF ListsInv
    <3> QED
      BY <3>1, <3>2
  <2> QED
    BY <1>1, <1>3, <1>7, <2>1, <2>2, <2>3 DEF ListsInv
<1> QED
  BY <1>7, <1>8, <1>9, <1>10, <1>11 DEF DrmInv, CountInv

\* What lookup finds is an object of the file's list.
LEMMA Found ==
    ASSUME DrmInv, NEW f \in DrmFiles, NEW h, NEW o \in drm_gem_object_lookup(f, h)
    PROVE  /\ o \in Objects /\ o \in Nat
           /\ Occurrences(drm_file[f].objects, o) > 0
  BY DrmTyped DEF drm_gem_object_lookup, DrmInv

LEMMA DeleteStep ==
    ASSUME DrmInv, NEW f \in DrmFiles, NEW h, drm_gem_handle_delete(f, h)
    PROVE  DrmInv'
<1>1. PICK x \in drm_gem_object_lookup(f, h) :
          /\ drm_file' = [drm_file EXCEPT ![f].objects = WithoutFirst(@, x)]
          /\ drm_gem_object_destroy(Once(x), drm_dev)
  BY DEF drm_gem_handle_delete
<1> DEFINE n == Once(x)
           s == drm_file[f].objects
           w == WithoutFirst(s, x)
<1>2. x \in Objects /\ x \in Nat /\ Occurrences(s, x) > 0
  BY Found
<1>3. s \in Seq(Nat) /\ \A i \in 1 .. Len(s) : s[i] \in Objects
  BY DrmTyped DEF DrmInv, CountInv, ListsInv
<1>4. s \in Seq(Objects)
  BY <1>3
<1>5. /\ w \in Seq(Objects) /\ Len(w) = Len(s) - 1
      /\ \A o : Occurrences(w, o) = Occurrences(s, o) - IF x = o THEN 1 ELSE 0
  <2> HIDE DEF s
  <2> QED
    BY <1>2, <1>4, RemovedOccurrences
<1>6. w \in Listings
  BY <1>5, DrmTyped DEF Listings, DrmInv
<1>7. /\ drm_dev' \in DrmDevices /\ drm_dev'.files = drm_dev.files
      /\ drm_dev'.fbs = drm_dev.fbs /\ drm_dev'.destroyed = drm_dev.destroyed
      /\ drm_dev'.gem_objects = drm_dev.gem_objects \ Freed(drm_obj, n)
      /\ drm_dev'.twice = drm_dev.twice
      /\ drm_dev'.used = drm_dev.used /\ drm_dev'.next_handle = drm_dev.next_handle
  BY <1>1, DrmTyped DEF DrmInv, DrmDevices, drm_gem_object_destroy
<1>8. drm_obj' = Released(drm_obj, n) /\ drm_fb' = drm_fb
  BY <1>1 DEF drm_gem_handle_delete, drm_gem_object_destroy
<1>9. /\ drm_file' \in [DrmFiles -> FileStates]
      /\ drm_file'[f].objects = w /\ drm_file'[f].open = drm_file[f].open
      /\ drm_file'[f].master = drm_file[f].master
      /\ \A g \in DrmFiles \ {f} : drm_file'[g] = drm_file[g]
  <2>1. drm_file' = [drm_file EXCEPT ![f].objects = w]
    BY <1>1
  <2> HIDE DEF w
  <2> QED
    BY <1>6, <2>1 DEF DrmInv, DrmType, FileStates
<1>10. n \in [Objects -> Nat] /\ \A o \in Objects : n[o] = IF x = o THEN 1 ELSE 0
  BY DEF Once
<1>11. Len(s) \in Nat /\ Len(w) <= MaxHandles /\ Len(s) < drm_dev.next_handle
       /\ drm_dev.next_handle \in Nat
  <2>1. drm_dev.next_handle \in 1 .. MaxHandles + 1 /\ Len(s) < drm_dev.next_handle
    BY DEF DrmInv, CountInv, ListsInv
  <2>2. Len(s) \in Nat
    BY <1>3
  <2> HIDE DEF s, w
  <2> QED
    BY <1>5, <2>1, <2>2, DrmConstants
<1>12. drm_file[f].objects = s
  OBVIOUS
<1> HIDE DEF n, s, w
<1>13. ASSUME NEW o \in Objects
       PROVE  /\ n[o] <= Cardinality(FileUses(o)) + Cardinality(PlaneUses(o))
              /\ Cardinality(FileUses(o)') + Cardinality(PlaneUses(o)')
                    = (Cardinality(FileUses(o)) + Cardinality(PlaneUses(o))) - n[o]
  <2>1. PlaneUses(o)' = PlaneUses(o)
    BY <1>7, <1>8, PlanesKept
  <2>2. Cardinality(FileUses(o)) \in Nat /\ Cardinality(PlaneUses(o)) \in Nat
    BY CountsTyped
  <2>3. Len(drm_file'[f].objects) <= MaxHandles
    BY <1>9, <1>11
  <2>4. /\ Occurrences(drm_file[f].objects, o) \in Nat
        /\ Occurrences(drm_file'[f].objects, o) \in Nat
        /\ Occurrences(drm_file[f].objects, o) <= Cardinality(FileUses(o))
        /\ Cardinality(FileUses(o)')
              = Cardinality(FileUses(o)) - Occurrences(drm_file[f].objects, o)
                   + Occurrences(drm_file'[f].objects, o)
    BY <1>9, <2>3, FileChanged
  <2>5. Occurrences(drm_file'[f].objects, o) = Occurrences(drm_file[f].objects, o) - n[o]
        /\ n[o] <= Occurrences(drm_file[f].objects, o) /\ n[o] \in Nat
    BY <1>2, <1>5, <1>9, <1>10, <1>12, <2>4
  <2> QED
    BY <2>1, <2>2, <2>4, <2>5
<1>14. /\ drm_obj' \in Seq(GemObjects) /\ Objects' = Objects /\ Len(drm_obj') = Len(drm_obj)
       /\ \A o \in Objects : /\ drm_obj'[o].paddr = drm_obj[o].paddr
                              /\ drm_obj'[o].size = drm_obj[o].size
       /\ drm_dev'.gem_objects \subseteq Objects
       /\ DrmRefcounts'
  BY <1>7, <1>8, <1>10, <1>13, ReferencesGiven
<1>15. DrmType'
  BY <1>7, <1>8, <1>9, <1>14 DEF DrmInv, DrmType
<1>16. MasterInv'
  BY <1>7, <1>9, MasterKept DEF DrmInv
<1>17. PoolInv'
  BY <1>7, <1>14, PoolKept DEF DrmInv
<1>18. ListsInv'
  <2>1. ListsInv
    BY DEF DrmInv, CountInv
  <2>2. Framebuffers' = Framebuffers
    BY <1>8 DEF Framebuffers
  <2>3. ASSUME NEW g \in DrmFiles
        PROVE  /\ Len(drm_file'[g].objects) < drm_dev'.next_handle
               /\ \A i \in 1 .. Len(drm_file'[g].objects) : drm_file'[g].objects[i] \in Objects'
               /\ ~drm_file'[g].open => drm_file'[g].objects = <<>>
    <3>1. CASE g = f
      <4>1. drm_file[f].open
        BY DEF drm_gem_handle_delete, Unlocked
      <4>2. Len(w) < drm_dev.next_handle
        BY <1>5, <1>11
      <4>3. \A i \in 1 .. Len(w) : w[i] \in Objects
        BY <1>5
      <4> QED
        BY <1>7, <1>9, <1>14, <3>1, <4>1, <4>2, <4>3
    <3>2. CASE g # f
      BY <1>7, <1>9, <1>14, <2>1, <3>2 DEF ListsInv
    <3> QED
      BY <3>1, <3>2
  <2> QED
    BY <1>7, <1>8, <1>14, <2>1, <2>2, <2>3 DEF ListsInv
<1> QED
  BY <1>14, <1>15, <1>16, <1>17, <1>18 DEF DrmInv, CountInv

LEMMA FlinkStep ==
    ASSUME DrmInv, NEW f \in DrmFiles, NEW h, drm_gem_flink(f, h)
    PROVE  DrmInv'
<1>1. PICK x \in drm_gem_object_lookup(f, h) :
          drm_obj' = [drm_obj EXCEPT ![x].name = drm_dev.next_gem_name]
  BY DEF drm_gem_flink
<1>2. x \in Objects
  BY Found
<1>3. /\ drm_dev' \in DrmDevices /\ drm_dev'.files = drm_dev.files
      /\ drm_dev'.fbs = drm_dev.fbs /\ drm_dev'.destroyed = drm_dev.destroyed
      /\ drm_dev'.gem_objects = drm_dev.gem_objects /\ drm_dev'.twice = drm_dev.twice
      /\ drm_dev'.used = drm_dev.used /\ drm_dev'.next_handle = drm_dev.next_handle
  <2>1. drm_dev \in DrmDevices
    BY DrmTyped DEF DrmInv
  <2>2. drm_dev' = [drm_dev EXCEPT !.next_gem_name = @ + 1] /\ drm_dev.next_gem_name + 1 \in Nat
    BY <2>1 DEF drm_gem_flink, DrmDevices
  <2> QED
    BY <2>1, <2>2 DEF DrmDevices
<1>4. drm_file' = drm_file /\ drm_fb' = drm_fb /\ drm_dev.next_gem_name \in Nat
  BY DrmTyped DEF drm_gem_flink, DrmInv, DrmDevices
<1>5. /\ drm_obj' \in Seq(GemObjects) /\ Len(drm_obj') = Len(drm_obj)
      /\ \A o \in Objects : /\ drm_obj'[o].paddr = drm_obj[o].paddr
                             /\ drm_obj'[o].size = drm_obj[o].size
                             /\ drm_obj'[o].refcount = drm_obj[o].refcount
  <2>1. drm_obj \in Seq(GemObjects) /\ x \in 1 .. Len(drm_obj) /\ Objects = 1 .. Len(drm_obj)
    BY <1>2, DrmTyped DEF DrmInv, DrmType
  <2>2. \A ob \in GemObjects :
          /\ [ob EXCEPT !.name = drm_dev.next_gem_name] \in GemObjects
          /\ [ob EXCEPT !.name = drm_dev.next_gem_name].paddr = ob.paddr
          /\ [ob EXCEPT !.name = drm_dev.next_gem_name].size = ob.size
          /\ [ob EXCEPT !.name = drm_dev.next_gem_name].refcount = ob.refcount
    BY <1>4 DEF GemObjects
  <2>3. drm_obj' = [drm_obj EXCEPT ![x] = [drm_obj[x] EXCEPT !.name = drm_dev.next_gem_name]]
    BY <1>1
  <2>4. \A o \in Objects : drm_obj[o] \in GemObjects
    BY <2>1
  <2> HIDE DEF GemObjects
  <2> QED
    BY <2>1, <2>2, <2>3, <2>4
<1>6. Objects' = Objects /\ Framebuffers' = Framebuffers
  BY <1>4, <1>5 DEF Objects, Framebuffers
<1>7. DrmType'
  BY <1>3, <1>4, <1>5 DEF DrmInv, DrmType
<1>8. MasterInv'
  BY <1>3, <1>4, MasterKept DEF DrmInv
<1>9. PoolInv'
  BY <1>3, <1>5, <1>6, PoolKept DEF DrmInv
<1>10. ListsInv'
  BY <1>3, <1>4, <1>5, <1>6 DEF DrmInv, CountInv, ListsInv
<1>11. DrmRefcounts'
  <2>1. \A o : FileUses(o)' = FileUses(o) /\ PlaneUses(o)' = PlaneUses(o)
    BY <1>3, <1>4 DEF FileUses, PlaneUses
  <2> QED
    BY <1>3, <1>5, <1>6, <2>1 DEF DrmInv, CountInv, DrmRefcounts
<1> QED
  BY <1>7, <1>8, <1>9, <1>10, <1>11 DEF DrmInv, CountInv

\* Setting the CRTC, flipping its page, and spinning.
LEMMA CrtcStep ==
    ASSUME DrmInv, drm_file' = drm_file, drm_obj' = drm_obj, drm_fb' = drm_fb,
           drm_dev' = drm_dev \/ drm_dev' = [drm_dev EXCEPT !.locked = TRUE]
    PROVE  DrmInv'
<1>1. /\ drm_dev' \in DrmDevices /\ drm_dev'.files = drm_dev.files
      /\ drm_dev'.fbs = drm_dev.fbs /\ drm_dev'.destroyed = drm_dev.destroyed
      /\ drm_dev'.gem_objects = drm_dev.gem_objects /\ drm_dev'.twice = drm_dev.twice
      /\ drm_dev'.used = drm_dev.used /\ drm_dev'.next_handle = drm_dev.next_handle
  <2>1. drm_dev \in DrmDevices
    BY DrmTyped DEF DrmInv
  <2>2. CASE drm_dev' = drm_dev
    BY <2>1, <2>2
  <2>3. CASE drm_dev' = [drm_dev EXCEPT !.locked = TRUE]
    BY <2>1, <2>3 DEF DrmDevices
  <2> QED
    BY <2>2, <2>3
<1>2. Objects' = Objects /\ Framebuffers' = Framebuffers
  BY DEF Objects, Framebuffers
<1>3. DrmType'
  BY <1>1 DEF DrmInv, DrmType
<1>4. MasterInv' /\ PoolInv'
  BY <1>1, <1>2, MasterKept, PoolKept DEF DrmInv
<1>5. ListsInv'
  BY <1>1, <1>2 DEF DrmInv, CountInv, ListsInv
<1>6. DrmRefcounts'
  <2>1. \A o : FileUses(o)' = FileUses(o) /\ PlaneUses(o)' = PlaneUses(o)
    BY <1>1 DEF FileUses, PlaneUses
  <2> QED
    BY <1>1, <1>2, <2>1 DEF DrmInv, CountInv, DrmRefcounts
<1> QED
  BY <1>3, <1>4, <1>5, <1>6 DEF DrmInv, CountInv

\* What a file's list gains when x is entered in it, and what it keeps.
EntryIn(f, x) ==
    /\ drm_file' \in [DrmFiles -> FileStates]
    /\ \A g \in DrmFiles : /\ drm_file'[g].open = drm_file[g].open
                           /\ drm_file'[g].master = drm_file[g].master
                           /\ Len(drm_file'[g].objects) <= drm_dev.next_handle
    /\ \A g \in DrmFiles \ {f} : drm_file'[g] = drm_file[g]
    /\ \A i \in 1 .. Len(drm_file'[f].objects) :
          drm_file'[f].objects[i] \in Objects \cup {x}
    /\ \A o : Cardinality(FileUses(o)')
                = Cardinality(FileUses(o)) + IF x = o THEN 1 ELSE 0

\* An entry more in the list of a file that has one handle left.
LEMMA EntryAdded ==
    ASSUME DrmInv, NEW f \in DrmFiles, drm_dev.next_handle <= MaxHandles, NEW x \in Nat,
           drm_file' = [drm_file EXCEPT ![f].objects = Append(@, x)]
    PROVE  EntryIn(f, x)
<1> DEFINE s == drm_file[f].objects
           w == Append(s, x)
<1>1. s \in Seq(Nat) /\ (\A i \in 1 .. Len(s) : s[i] \in Objects) /\ Len(s) < drm_dev.next_handle
  BY DrmTyped DEF DrmInv, CountInv, ListsInv
<1>2. w \in Listings /\ Len(w) = Len(s) + 1 /\ Len(s) \in Nat
  BY <1>1 DEF Listings
<1>3. \A i \in 1 .. Len(w) : w[i] \in Objects \cup {x}
  BY <1>1
<1>4. \A o : Occurrences(w, o) = Occurrences(s, o) + IF x = o THEN 1 ELSE 0
  <2> HIDE DEF s
  <2> QED
    BY <1>1, AppendedOccurrences
<1>5. drm_file' = [drm_file EXCEPT ![f].objects = w]
  OBVIOUS
<1>6. drm_file[f].objects = s
  OBVIOUS
<1> HIDE DEF s, w
<1>7. /\ drm_file' \in [DrmFiles -> FileStates]
      /\ drm_file'[f].objects = w /\ drm_file'[f].open = drm_file[f].open
      /\ drm_file'[f].master = drm_file[f].master
      /\ \A g \in DrmFiles \ {f} : drm_file'[g] = drm_file[g]
  <2> DEFINE r == [drm_file[f] EXCEPT !.objects = w]
  <2>1. drm_file \in [DrmFiles -> FileStates] /\ drm_file[f] \in FileStates
    BY DEF DrmInv, DrmType
  <2>2. r \in FileStates /\ r.objects = w /\ r.open = drm_file[f].open
        /\ r.master = drm_file[f].master
    BY <1>2, <2>1 DEF FileStates
  <2>3. drm_file' = [drm_file EXCEPT ![f] = r]
    BY <1>5, <2>1
  <2> HIDE DEF r
  <2> QED
    BY <2>1, <2>2, <2>3
<1>8. drm_dev.next_handle \in Nat
  BY DrmTyped DEF DrmInv, DrmDevices
<1>9. ASSUME NEW g \in DrmFiles
      PROVE  /\ drm_file'[g].open = drm_file[g].open
             /\ drm_file'[g].master = drm_file[g].master
             /\ Len(drm_file'[g].objects) <= drm_dev.next_handle
  <2>1. CASE g = f
    BY <1>1, <1>2, <1>7, <1>8, <2>1
  <2>2. CASE g # f
    <3>1. drm_file'[g] = drm_file[g]
      BY <1>7, <2>2
    <3>2. Len(drm_file[g].objects) < drm_dev.next_handle /\ drm_file[g].objects \in Seq(Nat)
      BY DrmTyped DEF DrmInv, CountInv, ListsInv
    <3> QED
      BY <1>8, <3>1, <3>2
  <2> QED
    BY <2>1, <2>2
<1>10. ASSUME NEW o
       PROVE  Cardinality(FileUses(o)') = Cardinality(FileUses(o)) + IF x = o THEN 1 ELSE 0
  <2>1. Len(drm_file'[f].objects) <= MaxHandles
    <3>1. Len(w) <= drm_dev.next_handle /\ Len(w) \in Nat
      BY <1>1, <1>2, <1>8
    <3>2. MaxHandles \in Nat /\ drm_dev.next_handle <= MaxHandles
      BY DrmConstants
    <3>3. Len(w) <= MaxHandles
      BY <1>8, <3>1, <3>2
    <3> QED
      BY <1>7, <3>3
  <2>2. Cardinality(FileUses(o)) \in Nat
    BY CountsTyped
  <2>3. /\ Occurrences(drm_file[f].objects, o) \in Nat
        /\ Occurrences(drm_file'[f].objects, o) \in Nat
        /\ Cardinality(FileUses(o)')
              = Cardinality(FileUses(o)) - Occurrences(drm_file[f].objects, o)
                   + Occurrences(drm_file'[f].objects, o)
    BY <1>7, <2>1, FileChanged
  <2>4. Occurrences(drm_file'[f].objects, o)
           = Occurrences(drm_file[f].objects, o) + IF x = o THEN 1 ELSE 0
    BY <1>4, <1>6, <1>7
  <2> QED
    BY <2>2, <2>3, <2>4
<1> QED
  BY <1>3, <1>7, <1>9, <1>10 DEF EntryIn

LEMMA GemOpenStep ==
    ASSUME DrmInv, NEW f \in DrmFiles, NEW name, drm_gem_open(f, name)
    PROVE  DrmInv'
<1>1. PICK x \in drm_dev.gem_objects :
          /\ drm_obj' = [drm_obj EXCEPT ![x].handle = drm_dev.next_handle,
                                        ![x].refcount = (@ + 1) % DrmWord]
          /\ drm_file' = [drm_file EXCEPT ![f].objects = Append(@, x)]
  BY DEF drm_gem_open
<1> DEFINE n == [o \in Objects |-> IF x = o THEN 1 ELSE 0]
<1>2. x \in Objects /\ x \in Nat
  BY DrmTyped DEF DrmInv, CountInv, ListsInv
<1>3. drm_dev.next_handle \in Nat /\ drm_dev.next_handle <= MaxHandles /\ drm_fb' = drm_fb
      /\ drm_file[f].open
  BY DrmTyped DEF DrmInv, DrmDevices, drm_gem_open, Unlocked
<1>4. /\ drm_dev' \in DrmDevices /\ drm_dev'.files = drm_dev.files
      /\ drm_dev'.fbs = drm_dev.fbs /\ drm_dev'.destroyed = drm_dev.destroyed
      /\ drm_dev'.gem_objects = drm_dev.gem_objects /\ drm_dev'.twice = drm_dev.twice
      /\ drm_dev'.used = drm_dev.used /\ drm_dev'.next_handle = drm_dev.next_handle + 1
  <2>1. drm_dev \in DrmDevices
    BY DrmTyped DEF DrmInv
  <2>2. drm_dev' = [drm_dev EXCEPT !.next_handle = @ + 1] /\ drm_dev.next_handle + 1 \in Nat
    BY <1>3 DEF drm_gem_open
  <2> QED
    BY <2>1, <2>2 DEF DrmDevices
<1>5. /\ drm_file' \in [DrmFiles -> FileStates]
      /\ \A g \in DrmFiles : /\ drm_file'[g].open = drm_file[g].open
                             /\ drm_file'[g].master = drm_file[g].master
                             /\ Len(drm_file'[g].objects) <= drm_dev.next_handle
      /\ \A g \in DrmFiles \ {f} : drm_file'[g] = drm_file[g]
      /\ \A i \in 1 .. Len(drm_file'[f].objects) : drm_file'[f].objects[i] \in Objects \cup {x}
      /\ \A o : Cardinality(FileUses(o)') = Cardinality(FileUses(o)) + IF x = o THEN 1 ELSE 0
  <2>1. /\ x \in Nat /\ drm_dev.next_handle <= MaxHandles
        /\ drm_file' = [drm_file EXCEPT ![f].objects = Append(@, x)]
    BY <1>1, <1>2, <1>3
  <2>2. EntryIn(f, x)
    BY <2>1, EntryAdded
  <2> QED
    BY <2>2 DEF EntryIn
<1>6. /\ drm_obj' \in Seq(GemObjects) /\ Len(drm_obj') = Len(drm_obj)
      /\ \A o \in Objects : /\ drm_obj'[o].paddr = drm_obj[o].paddr
                             /\ drm_obj'[o].size = drm_obj[o].size
                             /\ drm_obj'[o].refcount
                                   = IF x = o THEN (drm_obj[o].refcount + 1) % DrmWord
                                     ELSE drm_obj[o].refcount
  <2> DEFINE c == (drm_obj[x].refcount + 1) % DrmWord
  <2>1. drm_obj \in Seq(GemObjects) /\ x \in 1 .. Len(drm_obj) /\ Objects = 1 .. Len(drm_obj)
    BY <1>2, DrmTyped DEF DrmInv, DrmType
  <2>2. c \in Nat
    <3>1. drm_obj[x].refcount + 1 \in Nat
      BY <1>2, DrmTyped DEF DrmInv, GemObjects
    <3>2. \A y \in Nat : y % DrmWord \in Nat
      BY DrmConstants
    <3> QED
      BY <3>1, <3>2
  <2>3. drm_obj' = [drm_obj EXCEPT ![x] =
                      [drm_obj[x] EXCEPT !.handle = drm_dev.next_handle, !.refcount = c]]
    BY <1>1, <2>1
  <2> HIDE DEF c
  <2>4. \A ob \in GemObjects :
          /\ [ob EXCEPT !.handle = drm_dev.next_handle, !.refcount = c] \in GemObjects
          /\ [ob EXCEPT !.handle = drm_dev.next_handle, !.refcount = c].paddr = ob.paddr
          /\ [ob EXCEPT !.handle = drm_dev.next_handle, !.refcount = c].size = ob.size
          /\ [ob EXCEPT !.handle = drm_dev.next_handle, !.refcount = c].refcount = c
    BY <1>3, <2>2 DEF GemObjects
  <2>5. \A o \in Objects : drm_obj[o] \in GemObjects
    BY <2>1
  <2> DEFINE new == [drm_obj[x] EXCEPT !.handle = drm_dev.next_handle, !.refcount = c]
  <2>7. new \in GemObjects /\ new.paddr = drm_obj[x].paddr /\ new.size = drm_obj[x].size
        /\ new.refcount = c
    BY <1>2, <2>4, <2>5
  <2>8. drm_obj' = [drm_obj EXCEPT ![x] = new]
    BY <2>3
  <2> HIDE DEF new
  <2>9. drm_obj' \in Seq(GemObjects) /\ Len(drm_obj') = Len(drm_obj)
    BY <2>1, <2>7, <2>8
  <2>10. \A o \in Objects : drm_obj'[o] = IF x = o THEN new ELSE drm_obj[o]
    BY <2>1, <2>8
  <2>6. /\ drm_obj' \in Seq(GemObjects) /\ Len(drm_obj') = Len(drm_obj)
        /\ \A o \in Objects : /\ drm_obj'[o].paddr = drm_obj[o].paddr
                               /\ drm_obj'[o].size = drm_obj[o].size
                               /\ drm_obj'[o].refcount = IF x = o THEN c ELSE drm_obj[o].refcount
    BY <2>7, <2>9, <2>10
  <2> QED
    BY <2>6 DEF c
<1>7. Objects' = Objects /\ Framebuffers' = Framebuffers
  BY <1>3, <1>6 DEF Objects, Framebuffers
<1>8. DrmType'
  BY <1>3, <1>4, <1>5, <1>6 DEF DrmInv, DrmType
<1>9. MasterInv'
  BY <1>4, <1>5, MasterKept DEF DrmInv
<1>10. PoolInv'
  BY <1>4, <1>6, <1>7, PoolKept DEF DrmInv
<1>11. ListsInv'
  <2>1. ListsInv
    BY DEF DrmInv, CountInv
  <2>2. ASSUME NEW g \in DrmFiles
        PROVE  /\ Len(drm_file'[g].objects) < drm_dev'.next_handle
               /\ \A i \in 1 .. Len(drm_file'[g].objects) : drm_file'[g].objects[i] \in Objects'
               /\ ~drm_file'[g].open => drm_file'[g].objects = <<>>
    <3>1. Len(drm_file'[g].objects) < drm_dev'.next_handle
      <4>1. drm_file'[g].objects \in Seq(Nat)
        BY <1>5 DEF FileStates, Listings
      <4>2. Len(drm_file'[g].objects) \in Nat
        BY <4>1
      <4> QED
        BY <1>3, <1>4, <1>5, <4>2
    <3>2. CASE g = f
      BY <1>2, <1>3, <1>5, <1>7, <3>1, <3>2
    <3>3. CASE g # f
      BY <1>5, <1>7, <2>1, <3>1, <3>3 DEF ListsInv
    <3> QED
      BY <3>2, <3>3
  <2>3. drm_dev'.next_handle \in 1 .. MaxHandles + 1
    BY <1>3, <1>4, DrmConstants
  <2> QED
    BY <1>3, <1>4, <1>6, <1>7, <2>1, <2>2, <2>3 DEF ListsInv
<1>12. n \in [Objects -> Nat] /\ \A o \in Objects : n[o] = IF x = o THEN 1 ELSE 0
  OBVIOUS
<1> HIDE DEF n
<1>13. ASSUME NEW o \in Objects, o \notin drm_dev.twice
       PROVE  /\ drm_obj'[o].refcount = (drm_obj[o].refcount + n[o]) % DrmWord
              /\ n[o] > 0 => drm_obj[o].refcount > 0
              /\ Cardinality(FileUses(o)') + Cardinality(PlaneUses(o)')
                    = Cardinality(FileUses(o)) + Cardinality(PlaneUses(o)) + n[o]
              /\ Cardinality(FileUses(o)') + Cardinality(PlaneUses(o)') < DrmWord
  <2>1. PlaneUses(o)' = PlaneUses(o)
    BY <1>3, <1>4, PlanesKept
  <2>2. /\ Cardinality(FileUses(o)) \in Nat /\ Cardinality(PlaneUses(o)) \in Nat
        /\ Cardinality(FileUses(o)) + Cardinality(PlaneUses(o)) < DrmWord
    BY CountsTyped
  <2>3. /\ drm_obj[o].refcount = Cardinality(FileUses(o)) + Cardinality(PlaneUses(o))
        /\ o \in drm_dev.gem_objects <=> drm_obj[o].refcount > 0
    BY <1>13 DEF DrmInv, CountInv, DrmRefcounts
  <2>4. n[o] > 0 => drm_obj[o].refcount > 0
    BY <1>12, <2>3
  <2>5. drm_obj'[o].refcount = (drm_obj[o].refcount + n[o]) % DrmWord
    <3>1. CASE x = o
      BY <1>6, <1>12, <3>1
    <3>2. CASE x # o
      <4>1. drm_obj[o].refcount + n[o] = drm_obj[o].refcount
        BY <1>12, <2>2, <2>3, <3>2
      <4>2. drm_obj[o].refcount % DrmWord = drm_obj[o].refcount
        BY <2>2, <2>3, DrmConstants, SmallRemainder
      <4> QED
        BY <1>6, <3>2, <4>1, <4>2
    <3> QED
      BY <3>1, <3>2
  <2>6. Cardinality(FileUses(o)') + Cardinality(PlaneUses(o)')
           = Cardinality(FileUses(o)) + Cardinality(PlaneUses(o)) + n[o]
    BY <1>5, <1>12, <2>1, <2>2
  <2>7. Cardinality(FileUses(o)') + Cardinality(PlaneUses(o)') < DrmWord
    <3> DEFINE m == Len(drm_fb)
               ids == drm_dev'.fbs \ drm_dev'.destroyed
    <3>1. m \in Nat /\ m <= MaxFbs /\ ids \in SUBSET (1 .. m)
      BY <1>4, DrmTyped DEF DrmInv, CountInv, ListsInv, Framebuffers
    <3> HIDE DEF m, ids
    <3> QED
      BY <3>1, CountBound DEF FileUses, PlaneUses, ids
  <2> QED
    BY <2>4, <2>5, <2>6, <2>7
<1>14. DrmRefcounts'
  BY <1>4, <1>6, <1>12, <1>13, ReferencesTaken
<1> QED
  BY <1>8, <1>9, <1>10, <1>11, <1>14 DEF DrmInv, CountInv

\* Nobody refers to an object that does not exist.
LEMMA NewObjectUnused ==
    ASSUME DrmInv
    PROVE  LET x == Len(drm_obj) + 1
           IN  Cardinality(FileUses(x)) = 0 /\ Cardinality(PlaneUses(x)) = 0
<1> DEFINE x == Len(drm_obj) + 1
<1>1. Len(drm_obj) \in Nat /\ Objects = 1 .. Len(drm_obj)
      /\ \A f \in DrmFiles : drm_file[f].objects \in Seq(Nat)
  BY DrmTyped DEF DrmInv
<1>2. ListsInv
  BY DEF DrmInv, CountInv
<1>3. x \notin Objects /\ x \notin 0 .. Len(drm_obj)
  BY <1>1
<1> HIDE DEF x
<1>4. FileUses(x) = {}
  <2> SUFFICES ASSUME NEW u \in FileUses(x) PROVE FALSE
    OBVIOUS
  <2>1. /\ u[1] \in DrmFiles /\ u[2] \in DOMAIN drm_file[u[1]].objects
        /\ drm_file[u[1]].objects[u[2]] = x
    BY DEF FileUses, Places
  <2>2. u[2] \in 1 .. Len(drm_file[u[1]].objects)
    <3>1. drm_file[u[1]].objects \in Seq(Nat)
      BY <1>1, <2>1
    <3> QED
      BY <2>1, <3>1
  <2>3. drm_file[u[1]].objects[u[2]] \in Objects
    BY <1>2, <2>1, <2>2 DEF ListsInv
  <2> QED
    BY <1>3, <2>1, <2>3
<1>5. PlaneUses(x) = {}
  <2> SUFFICES ASSUME NEW u \in PlaneUses(x) PROVE FALSE
    OBVIOUS
  <2>1. u[1] \in drm_dev.fbs /\ u[2] \in 1 .. Planes /\ drm_fb[u[1]][u[2]] = x
    BY DEF PlaneUses, Places
  <2>2. drm_fb[u[1]][u[2]] \in 0 .. Len(drm_obj)
    BY <1>2, <2>1 DEF ListsInv
  <2> QED
    BY <1>3, <2>1, <2>2
<1> QED
  BY <1>4, <1>5, FS_EmptySet DEF x

LEMMA CreateStep ==
    ASSUME DrmInv, NEW f \in DrmFiles, NEW pages \in DumbSizes, drm_mode_create_dumb(f, pages)
    PROVE  DrmInv'
<1> DEFINE N == Len(drm_obj)
           x == N + 1
           new == [refcount |-> 1, handle |-> drm_dev.next_handle,
                   name |-> 0, paddr |-> drm_dev.used, size |-> pages]
<1>1. N \in Nat /\ Objects = 1 .. N /\ x \in Nat /\ x \notin Objects /\ pages \in Nat
      /\ drm_obj \in Seq(GemObjects) /\ drm_dev \in DrmDevices
  BY DrmTyped, DrmConstants DEF DrmInv, DrmType
<1>2. /\ drm_dev.next_handle \in Nat /\ drm_dev.next_handle <= MaxHandles /\ drm_fb' = drm_fb
      /\ drm_file[f].open /\ drm_dev.used \in Nat /\ drm_dev.used + pages <= DmaPages
      /\ drm_obj' = Append(drm_obj, new)
      /\ drm_file' = [drm_file EXCEPT ![f].objects = Append(@, x)]
      /\ drm_dev' = [drm_dev EXCEPT !.next_handle = @ + 1, !.used = @ + pages,
                                    !.gem_objects = @ \cup {x}]
  BY <1>1 DEF DrmDevices, drm_mode_create_dumb, Unlocked, alloc_coherent
<1>3. /\ new \in GemObjects /\ new.refcount = 1 /\ new.paddr = drm_dev.used /\ new.size = pages
  BY <1>1, <1>2 DEF GemObjects
<1> HIDE DEF new
<1>4. /\ drm_obj' \in Seq(GemObjects) /\ Len(drm_obj') = x
      /\ Objects' = Objects \cup {x} /\ Objects' = 1 .. x
      /\ drm_obj'[x] = new /\ \A o \in Objects : drm_obj'[o] = drm_obj[o]
  <2>1. Len(Append(drm_obj, new)) = x /\ Append(drm_obj, new) \in Seq(GemObjects)
    BY <1>1, <1>3
  <2>2. Append(drm_obj, new)[x] = new /\ \A o \in Objects : Append(drm_obj, new)[o] = drm_obj[o]
    BY <1>1, <1>3
  <2>3. 1 .. x = (1 .. N) \cup {x}
    BY <1>1
  <2> QED
    BY <1>1, <1>2, <2>1, <2>2, <2>3 DEF Objects
<1>5. /\ drm_dev' \in DrmDevices /\ drm_dev'.files = drm_dev.files
      /\ drm_dev'.fbs = drm_dev.fbs /\ drm_dev'.destroyed = drm_dev.destroyed
      /\ drm_dev'.gem_objects = drm_dev.gem_objects \cup {x} /\ drm_dev'.twice = drm_dev.twice
      /\ drm_dev'.used = drm_dev.used + pages /\ drm_dev'.next_handle = drm_dev.next_handle + 1
  <2>1. drm_dev.used + pages \in Nat /\ drm_dev.next_handle + 1 \in Nat
        /\ drm_dev.gem_objects \cup {x} \in SUBSET Nat
    BY <1>1, <1>2 DEF DrmDevices
  <2> HIDE DEF x
  <2> QED
    BY <1>1, <1>2, <2>1 DEF DrmDevices
<1>6. /\ drm_file' \in [DrmFiles -> FileStates]
      /\ \A g \in DrmFiles : /\ drm_file'[g].open = drm_file[g].open
                             /\ drm_file'[g].master = drm_file[g].master
                             /\ Len(drm_file'[g].objects) <= drm_dev.next_handle
      /\ \A g \in DrmFiles \ {f} : drm_file'[g] = drm_file[g]
      /\ \A i \in 1 .. Len(drm_file'[f].objects) : drm_file'[f].objects[i] \in Objects \cup {x}
      /\ \A o : Cardinality(FileUses(o)') = Cardinality(FileUses(o)) + IF x = o THEN 1 ELSE 0
  <2>1. x \in Nat /\ drm_dev.next_handle <= MaxHandles
        /\ drm_file' = [drm_file EXCEPT ![f].objects = Append(@, x)]
    BY <1>1, <1>2
  <2> HIDE DEF x
  <2>2. EntryIn(f, x)
    BY <2>1, EntryAdded
  <2> QED
    BY <2>2 DEF EntryIn
<1>7. Cardinality(FileUses(x)) = 0 /\ Cardinality(PlaneUses(x)) = 0
  BY NewObjectUnused
<1>8. DrmType'
  BY <1>2, <1>4, <1>5, <1>6 DEF DrmInv, DrmType
<1>9. MasterInv'
  BY <1>5, <1>6, MasterKept DEF DrmInv
<1> HIDE DEF x, N
<1>10. PoolInv'
  <2>1. PoolInv /\ DisplayPages \in Nat /\ DmaPages \in Nat
    BY DrmConstants DEF DrmInv
  <2>2. \A o \in Objects : drm_obj[o].paddr \in Nat /\ drm_obj[o].size \in Nat
    BY DrmTyped DEF DrmInv, GemObjects
  <2>3. \A o \in Objects : drm_obj[o].paddr + drm_obj[o].size <= drm_dev.used
    BY <2>1 DEF PoolInv
  <2>4. DrmBuffersApart'
    <3> SUFFICES ASSUME NEW o \in Objects'
                 PROVE  /\ drm_obj'[o].paddr >= DisplayPages
                        /\ drm_obj'[o].paddr + drm_obj'[o].size <= DmaPages
                        /\ \A p \in Objects' \ {o} :
                              \/ drm_obj'[o].paddr + drm_obj'[o].size <= drm_obj'[p].paddr
                              \/ drm_obj'[p].paddr + drm_obj'[p].size <= drm_obj'[o].paddr
      BY DEF DrmBuffersApart
    <3>1. CASE o = x
      BY <1>1, <1>2, <1>3, <1>4, <2>1, <2>2, <2>3, <3>1 DEF PoolInv
    <3>2. CASE o \in Objects
      <4>1. drm_obj'[o] = drm_obj[o] /\ drm_obj[o].paddr >= DisplayPages
            /\ drm_obj[o].paddr + drm_obj[o].size <= DmaPages
        BY <1>4, <2>1, <3>2 DEF PoolInv, DrmBuffersApart
      <4>2. ASSUME NEW p \in Objects' \ {o}
            PROVE  \/ drm_obj'[o].paddr + drm_obj'[o].size <= drm_obj'[p].paddr
                   \/ drm_obj'[p].paddr + drm_obj'[p].size <= drm_obj'[o].paddr
        <5>1. CASE p = x
          BY <1>3, <1>4, <2>3, <3>2, <4>1, <5>1
        <5>2. CASE p \in Objects
          BY <1>4, <2>1, <3>2, <5>2 DEF PoolInv, DrmBuffersApart
        <5> QED
          BY <1>4, <5>1, <5>2
      <4> QED
        BY <4>1, <4>2
    <3> QED
      BY <1>4, <3>1, <3>2
  <2>5. \A o \in Objects' : drm_obj'[o].paddr + drm_obj'[o].size <= drm_dev'.used
    BY <1>1, <1>2, <1>3, <1>4, <1>5, <2>2, <2>3
  <2>6. DisplayPages <= drm_dev'.used /\ drm_dev'.used <= DmaPages
    BY <1>1, <1>2, <1>5, <2>1 DEF PoolInv
  <2> QED
    BY <2>4, <2>5, <2>6 DEF PoolInv
<1>11. ListsInv'
  <2>1. ListsInv
    BY DEF DrmInv, CountInv
  <2>2. ASSUME NEW g \in DrmFiles
        PROVE  /\ Len(drm_file'[g].objects) < drm_dev'.next_handle
               /\ \A i \in 1 .. Len(drm_file'[g].objects) : drm_file'[g].objects[i] \in Objects'
               /\ ~drm_file'[g].open => drm_file'[g].objects = <<>>
    <3>1. Len(drm_file'[g].objects) < drm_dev'.next_handle
      <4>1. drm_file'[g].objects \in Seq(Nat)
        BY <1>6 DEF FileStates, Listings
      <4>2. Len(drm_file'[g].objects) \in Nat
        BY <4>1
      <4> QED
        BY <1>2, <1>5, <1>6, <4>2
    <3>2. CASE g = f
      BY <1>2, <1>4, <1>6, <3>1, <3>2
    <3>3. CASE g # f
      BY <1>4, <1>6, <2>1, <3>1, <3>3 DEF ListsInv
    <3> QED
      BY <3>2, <3>3
  <2>3. drm_dev'.next_handle \in 1 .. MaxHandles + 1
    <3>1. MaxHandles \in Nat
      BY DrmConstants
    <3>2. drm_dev.next_handle \in Nat /\ drm_dev.next_handle <= MaxHandles
          /\ drm_dev'.next_handle = drm_dev.next_handle + 1
      BY <1>2, <1>5
    <3> QED
      BY <3>1, <3>2
  <2>4. Framebuffers' = Framebuffers
    BY <1>2 DEF Framebuffers
  <2>5. \A y \in 0 .. Len(drm_obj) : y \in 0 .. Len(drm_obj')
    BY <1>1, <1>4 DEF N, x
  <2>6. \A id \in Framebuffers' : \A j \in 1 .. Planes : drm_fb'[id][j] \in 0 .. Len(drm_obj')
    BY <1>2, <2>1, <2>4, <2>5 DEF ListsInv
  <2>7. Len(drm_fb') <= MaxFbs /\ drm_dev'.fbs \subseteq Framebuffers'
        /\ drm_dev'.destroyed \subseteq drm_dev'.fbs /\ drm_dev'.gem_objects \subseteq Objects'
    BY <1>2, <1>4, <1>5, <2>1, <2>4 DEF ListsInv
  <2> QED
    BY <2>2, <2>3, <2>6, <2>7 DEF ListsInv
<1>12. DrmRefcounts'
  <2>1. ASSUME NEW o \in Objects', o \notin drm_dev'.twice
        PROVE  /\ drm_obj'[o].refcount = Cardinality(FileUses(o)') + Cardinality(PlaneUses(o)')
               /\ o \in drm_dev'.gem_objects <=> drm_obj'[o].refcount > 0
    <3>1. PlaneUses(o)' = PlaneUses(o)
      BY <1>2, <1>5, PlanesKept
    <3>2. CASE o = x
      BY <1>3, <1>4, <1>5, <1>6, <1>7, <3>1, <3>2
    <3>3. CASE o \in Objects
      <4>1. /\ drm_obj[o].refcount = Cardinality(FileUses(o)) + Cardinality(PlaneUses(o))
            /\ o \in drm_dev.gem_objects <=> drm_obj[o].refcount > 0
        BY <1>5, <2>1, <3>3 DEF DrmInv, CountInv, DrmRefcounts
      <4>2. Cardinality(FileUses(o)') = Cardinality(FileUses(o))
        <5>1. Cardinality(FileUses(o)) \in Nat
          BY CountsTyped
        <5> QED
          BY <1>1, <1>6, <3>3, <5>1
      <4> QED
        BY <1>1, <1>4, <1>5, <3>1, <3>3, <4>1, <4>2
    <3> QED
      BY <1>4, <3>2, <3>3
  <2> QED
    BY <2>1 DEF DrmRefcounts
<1> QED
  BY <1>8, <1>9, <1>10, <1>11, <1>12 DEF DrmInv, CountInv

\* The planes of a new framebuffer have objects of the file, or none.
LEMMA AttachedTyped ==
    ASSUME DrmInv, NEW f \in DrmFiles, NEW handles \in [1 .. Planes -> 0 .. MaxHandles]
    PROVE  /\ Attached(f, handles) \in [1 .. Planes -> Nat]
           /\ \A i \in 1 .. Planes :
                 /\ Attached(f, handles)[i] \in 0 .. Len(drm_obj)
                 /\ Attached(f, handles)[i] # 0 =>
                       Occurrences(drm_file[f].objects, Attached(f, handles)[i]) > 0
<1> DEFINE A == Attached(f, handles)
<1>1. Len(drm_obj) \in Nat /\ Objects = 1 .. Len(drm_obj)
  BY DrmTyped DEF DrmInv
<1>2. ASSUME NEW i \in 1 .. Planes
      PROVE  /\ A[i] \in 0 .. Len(drm_obj)
             /\ A[i] # 0 => Occurrences(drm_file[f].objects, A[i]) > 0
  <2> DEFINE found == drm_gem_object_lookup(f, handles[i])
             gap == \E j \in 1 .. i : handles[j] # 0 /\ drm_gem_object_lookup(f, handles[j]) = {}
  <2>1. A[i] = IF gap THEN 0 ELSE IF handles[i] = 0 THEN 0 ELSE CHOOSE o \in found : TRUE
    BY DEF Attached
  <2>2. ASSUME ~gap, handles[i] # 0
        PROVE  found # {}
    <3>1. i \in 1 .. i
      BY DrmConstants
    <3> QED
      BY <2>2, <3>1
  <2> HIDE DEF gap, found
  <2>3. CASE gap \/ handles[i] = 0
    BY <1>1, <2>1, <2>3
  <2>4. CASE ~gap /\ handles[i] # 0
    <3>1. found # {} /\ A[i] = CHOOSE o \in found : TRUE
      BY <2>1, <2>2, <2>4
    <3>2. A[i] \in found
      BY <3>1
    <3>3. A[i] \in Objects /\ Occurrences(drm_file[f].objects, A[i]) > 0
      BY <3>2, Found DEF found
    <3> QED
      BY <1>1, <3>3
  <2> QED
    BY <2>3, <2>4
<1>3. A = [i \in 1 .. Planes |-> A[i]]
  BY DEF Attached
<1> HIDE DEF A
<1>4. A \in [1 .. Planes -> Nat]
  BY <1>1, <1>2, <1>3
<1> QED
  BY <1>2, <1>4 DEF A

LEMMA AddFbStep ==
    ASSUME DrmInv, NEW f \in DrmFiles, NEW handles \in [1 .. Planes -> 0 .. MaxHandles],
           drm_mode_addfb2(f, handles)
    PROVE  DrmInv'
<1> DEFINE A == Attached(f, handles)
           m == Len(drm_fb)
           id == m + 1
           all == AllFound(f, handles)
           keys == drm_dev.fbs \ drm_dev.destroyed
           n == [o \in Objects |-> Occurrences(A, o)]
<1>1. /\ A \in [1 .. Planes -> Nat]
      /\ \A i \in 1 .. Planes : /\ A[i] \in 0 .. Len(drm_obj)
                                /\ A[i] # 0 => Occurrences(drm_file[f].objects, A[i]) > 0
  BY AttachedTyped
<1>2. m \in Nat /\ m < MaxFbs /\ id \in Nat /\ Framebuffers = 1 .. m
      /\ drm_fb \in Seq([1 .. Planes -> Nat]) /\ drm_dev \in DrmDevices
  BY DrmTyped DEF DrmInv, DrmType, drm_mode_addfb2
<1>3. /\ drm_file' = drm_file /\ drm_fb' = Append(drm_fb, A)
      /\ drm_dev' = [drm_dev EXCEPT !.fbs = @ \cup {id},
                        !.destroyed = IF all THEN @ ELSE @ \cup {id}]
      /\ all => drm_obj' = [o \in Objects |->
                      [drm_obj[o] EXCEPT !.refcount = (@ + Occurrences(A, o)) % DrmWord]]
      /\ ~all => drm_obj' = drm_obj
  BY DEF drm_mode_addfb2
<1> HIDE DEF A, m, all
<1>4. /\ drm_dev' \in DrmDevices /\ drm_dev'.files = drm_dev.files
      /\ drm_dev'.fbs = drm_dev.fbs \cup {id}
      /\ drm_dev'.destroyed = IF all THEN drm_dev.destroyed ELSE drm_dev.destroyed \cup {id}
      /\ drm_dev'.gem_objects = drm_dev.gem_objects /\ drm_dev'.twice = drm_dev.twice
      /\ drm_dev'.used = drm_dev.used /\ drm_dev'.next_handle = drm_dev.next_handle
  <2> DEFINE gone == IF all THEN drm_dev.destroyed ELSE drm_dev.destroyed \cup {id}
  <2>1. drm_dev.fbs \cup {id} \in SUBSET Nat /\ gone \in SUBSET Nat
    BY <1>2 DEF DrmDevices
  <2>2. drm_dev' = [drm_dev EXCEPT !.fbs = drm_dev.fbs \cup {id}, !.destroyed = gone]
    BY <1>3
  <2> HIDE DEF id, gone
  <2>3. /\ drm_dev' \in DrmDevices /\ drm_dev'.files = drm_dev.files
        /\ drm_dev'.fbs = drm_dev.fbs \cup {id} /\ drm_dev'.destroyed = gone
        /\ drm_dev'.gem_objects = drm_dev.gem_objects /\ drm_dev'.twice = drm_dev.twice
        /\ drm_dev'.used = drm_dev.used /\ drm_dev'.next_handle = drm_dev.next_handle
    BY <1>2, <2>1, <2>2 DEF DrmDevices
  <2> QED
    BY <2>3 DEF gone
<1>5. /\ drm_fb' \in Seq([1 .. Planes -> Nat]) /\ Len(drm_fb') = id
      /\ Framebuffers' = Framebuffers \cup {id} /\ Framebuffers' = 1 .. id /\ id \notin Framebuffers
      /\ drm_fb'[id] = A /\ \A j \in Framebuffers : drm_fb'[j] = drm_fb[j]
  <2>1. Len(Append(drm_fb, A)) = id /\ Append(drm_fb, A) \in Seq([1 .. Planes -> Nat])
    BY <1>1, <1>2 DEF m
  <2>2. Append(drm_fb, A)[id] = A /\ \A j \in Framebuffers : Append(drm_fb, A)[j] = drm_fb[j]
    BY <1>1, <1>2 DEF m
  <2>3. 1 .. id = (1 .. m) \cup {id} /\ id \notin 1 .. m
    BY <1>2
  <2> QED
    BY <1>2, <1>3, <2>1, <2>2, <2>3 DEF Framebuffers
<1>6. ListsInv /\ keys \subseteq Framebuffers
  BY DEF DrmInv, CountInv, ListsInv
<1>7. IsFiniteSet(keys \cup {id}) /\ Planes \in Nat
  <2>1. IsFiniteSet(1 .. id)
    BY <1>2, FS_Interval
  <2>2. keys \cup {id} \in SUBSET (1 .. id)
    BY <1>5, <1>6
  <2> HIDE DEF keys, id
  <2> QED
    BY <2>1, <2>2, FS_Subset, DrmConstants
<1>8. ASSUME NEW o
      PROVE  /\ Occurrences(A, o) \in Nat
             /\ Cardinality(PlaneUses(o)')
                   = Cardinality(PlaneUses(o)) + IF all THEN Occurrences(A, o) ELSE 0
             /\ Occurrences(A, o) > 0 <=> \E i \in 1 .. Planes : A[i] = o
  <2> DEFINE more == keys \cup {id}
  <2>1. DOMAIN A = 1 .. Planes
    BY <1>1
  <2>2. Occurrences(A, o) \in Nat /\ (Occurrences(A, o) > 0 <=> \E i \in 1 .. Planes : A[i] = o)
    BY <1>7, <2>1, OccurrencesNat
  <2>3. drm_dev'.fbs \ drm_dev'.destroyed = IF all THEN more ELSE keys
    BY <1>4, <1>5, <1>6 DEF ListsInv
  <2>4. more \ {id} = keys /\ id \in more
    BY <1>5, <1>6
  <2>5. DOMAIN drm_fb'[id] \subseteq 1 .. Planes
    BY <1>5, <2>1
  <2>6. IsFiniteSet(more)
    BY <1>7
  <2>7. PlaneUses(o) = Places(keys, Planes, drm_fb, o)
        /\ PlaneUses(o)' = Places(drm_dev'.fbs \ drm_dev'.destroyed, Planes, drm_fb', o)
    BY DEF PlaneUses
  <2>8. \A j \in keys : drm_fb'[j] = drm_fb[j]
    BY <1>5, <1>6
  <2>9. Places(keys, Planes, drm_fb', o) = PlaneUses(o)
    <3> HIDE DEF keys
    <3> QED
      BY <2>7, <2>8, PlacesSame
  <2>10. Cardinality(PlaneUses(o)) \in Nat
    BY CountsTyped
  <2> HIDE DEF more, keys, id
  <2>11. Cardinality(Places(more, Planes, drm_fb', o))
            = Cardinality(Places(more \ {id}, Planes, drm_fb', o)) + Occurrences(drm_fb'[id], o)
    <3> DEFINE new == drm_fb'
    <3>1. id \in more /\ Planes \in Nat /\ DOMAIN new[id] \subseteq 1 .. Planes
      BY <1>7, <2>4, <2>5
    <3> HIDE DEF new
    <3>2. Cardinality(Places(more, Planes, new, o))
             = Cardinality(Places(more \ {id}, Planes, new, o)) + Occurrences(new[id], o)
      BY ONLY <2>6, <3>1, PlacesSplit
    <3> QED
      BY <3>2 DEF new
  <2>12. CASE all
    BY <1>5, <2>2, <2>3, <2>4, <2>7, <2>9, <2>11, <2>12
  <2>13. CASE ~all
    <3>1. PlaneUses(o)' = PlaneUses(o)
      BY <2>3, <2>7, <2>9, <2>13
    <3> QED
      BY <2>2, <2>10, <2>13, <3>1
  <2> QED
    BY <2>12, <2>13
<1>9. \A o : FileUses(o)' = FileUses(o)
  BY <1>3 DEF FileUses
<1>10. /\ drm_obj' \in Seq(GemObjects) /\ Len(drm_obj') = Len(drm_obj) /\ Objects' = Objects
       /\ \A o \in Objects :
             /\ drm_obj'[o].paddr = drm_obj[o].paddr /\ drm_obj'[o].size = drm_obj[o].size
             /\ all => drm_obj'[o].refcount = (drm_obj[o].refcount + Occurrences(A, o)) % DrmWord
             /\ ~all => drm_obj'[o].refcount = drm_obj[o].refcount
  <2>1. Len(drm_obj) \in Nat /\ Objects = 1 .. Len(drm_obj) /\ drm_obj \in Seq(GemObjects)
        /\ \A o \in Objects : drm_obj[o] \in GemObjects
    BY DrmTyped DEF DrmInv, DrmType
  <2>2. CASE ~all
    BY <1>3, <2>1, <2>2 DEF Objects
  <2>3. CASE all
    <3> DEFINE new(o) == [drm_obj[o] EXCEPT !.refcount = (@ + Occurrences(A, o)) % DrmWord]
    <3>1. drm_obj' = [o \in 1 .. Len(drm_obj) |-> new(o)]
      BY <1>3, <2>1, <2>3
    <3>2. ASSUME NEW o \in Objects
          PROVE  /\ new(o) \in GemObjects /\ new(o).paddr = drm_obj[o].paddr
                 /\ new(o).size = drm_obj[o].size
                 /\ new(o).refcount = (drm_obj[o].refcount + Occurrences(A, o)) % DrmWord
      <4> DEFINE c == (drm_obj[o].refcount + Occurrences(A, o)) % DrmWord
      <4>1. drm_obj[o].refcount \in Nat /\ Occurrences(A, o) \in Nat
        BY <1>8, <2>1 DEF GemObjects
      <4>2. c \in Nat
        <5>1. \A y \in Nat : y % DrmWord \in Nat
          BY DrmConstants
        <5>2. drm_obj[o].refcount + Occurrences(A, o) \in Nat
          BY <4>1
        <5> QED
          BY <5>1, <5>2
      <4>3. new(o) = [drm_obj[o] EXCEPT !.refcount = c]
        OBVIOUS
      <4> HIDE DEF c, new
      <4>4. new(o) \in GemObjects /\ new(o).paddr = drm_obj[o].paddr
            /\ new(o).size = drm_obj[o].size /\ new(o).refcount = c
        BY <2>1, <4>2, <4>3 DEF GemObjects
      <4> QED
        BY <4>4 DEF c
    <3> HIDE DEF new
    <3>3. drm_obj' \in [1 .. Len(drm_obj) -> GemObjects]
      BY <2>1, <3>1, <3>2
    <3>4. drm_obj' \in Seq(GemObjects) /\ Len(drm_obj') = Len(drm_obj)
      BY <2>1, <3>3
    <3>5. \A o \in Objects : drm_obj'[o] = new(o)
      BY <2>1, <3>1
    <3>6. Objects' = Objects
      BY <3>4 DEF Objects
    <3> QED
      BY <2>3, <3>2, <3>4, <3>5, <3>6
  <2> QED
    BY <2>2, <2>3
<1>11. DrmType'
  BY <1>3, <1>4, <1>5, <1>10 DEF DrmInv, DrmType
<1>12. MasterInv'
  BY <1>3, <1>4, MasterKept DEF DrmInv
<1>13. PoolInv'
  BY <1>4, <1>10, PoolKept DEF DrmInv
<1>14. ListsInv'
  <2>1. Len(drm_fb') <= MaxFbs
    BY <1>2, <1>5, DrmConstants
  <2>2. drm_dev'.fbs \subseteq Framebuffers' /\ drm_dev'.destroyed \subseteq drm_dev'.fbs
    BY <1>4, <1>5, <1>6 DEF ListsInv
  <2>3. ASSUME NEW j \in Framebuffers'
        PROVE  \A i \in 1 .. Planes : drm_fb'[j][i] \in 0 .. Len(drm_obj')
    <3>1. CASE j = id
      BY <1>1, <1>5, <1>10, <3>1
    <3>2. CASE j \in Framebuffers
      BY <1>5, <1>6, <1>10, <3>2 DEF ListsInv
    <3> QED
      BY <1>5, <3>1, <3>2
  <2>4. /\ drm_dev'.next_handle \in 1 .. MaxHandles + 1
        /\ \A g \in DrmFiles :
              /\ Len(drm_file'[g].objects) < drm_dev'.next_handle
              /\ \A i \in 1 .. Len(drm_file'[g].objects) : drm_file'[g].objects[i] \in Objects'
              /\ ~drm_file'[g].open => drm_file'[g].objects = <<>>
        /\ drm_dev'.gem_objects \subseteq Objects'
    BY <1>3, <1>4, <1>6, <1>10 DEF ListsInv
  <2> QED
    BY <2>1, <2>2, <2>3, <2>4 DEF ListsInv
<1>15. DrmRefcounts'
  <2>1. CASE ~all
    <3>1. \A o : Cardinality(PlaneUses(o)') = Cardinality(PlaneUses(o))
      <4> SUFFICES ASSUME NEW o PROVE Cardinality(PlaneUses(o)') = Cardinality(PlaneUses(o))
        OBVIOUS
      <4>1. Cardinality(PlaneUses(o)) \in Nat
        BY CountsTyped
      <4> QED
        BY <1>8, <2>1, <4>1
    <3> QED
      BY <1>4, <1>9, <1>10, <2>1, <3>1 DEF DrmInv, CountInv, DrmRefcounts
  <2>2. CASE all
    <3>1. n \in [Objects -> Nat] /\ \A o \in Objects : n[o] = Occurrences(A, o)
      BY <1>8
    <3> HIDE DEF n
    <3>2. ASSUME NEW o \in Objects, o \notin drm_dev.twice
          PROVE  /\ drm_obj'[o].refcount = (drm_obj[o].refcount + n[o]) % DrmWord
                 /\ n[o] > 0 => drm_obj[o].refcount > 0
                 /\ Cardinality(FileUses(o)') + Cardinality(PlaneUses(o)')
                       = Cardinality(FileUses(o)) + Cardinality(PlaneUses(o)) + n[o]
                 /\ Cardinality(FileUses(o)') + Cardinality(PlaneUses(o)') < DrmWord
      <4>1. Cardinality(FileUses(o)) \in Nat /\ Cardinality(PlaneUses(o)) \in Nat
        BY CountsTyped
      <4>2. drm_obj[o].refcount = Cardinality(FileUses(o)) + Cardinality(PlaneUses(o))
        BY <3>2 DEF DrmInv, CountInv, DrmRefcounts
      <4>3. ASSUME n[o] > 0
            PROVE  drm_obj[o].refcount > 0
        <5>1. o # 0
          BY DrmTyped DEF DrmInv
        <5>2. Occurrences(drm_file[f].objects, o) > 0
          BY <1>1, <1>8, <3>1, <4>3, <5>1
        <5>3. Occurrences(drm_file[f].objects, o) \in Nat
              /\ Occurrences(drm_file[f].objects, o) <= Cardinality(FileUses(o))
          <6>1. drm_file' \in [DrmFiles -> FileStates]
            BY <1>11 DEF DrmType
          <6>2. Len(drm_file'[f].objects) <= MaxHandles
            <7>1. /\ Len(drm_file[f].objects) < drm_dev.next_handle
                  /\ drm_dev.next_handle \in 1 .. MaxHandles + 1
                  /\ drm_file[f].objects \in Seq(Nat)
              BY <1>6, DrmTyped DEF ListsInv, DrmInv
            <7>2. Len(drm_file[f].objects) \in Nat /\ MaxHandles \in Nat
              BY <7>1, DrmConstants
            <7> QED
              BY <1>3, <7>1, <7>2
          <6> QED
            BY <1>3, <6>1, <6>2, FileChanged
        <5> QED
          BY <4>1, <4>2, <5>2, <5>3
      <4>4. Cardinality(FileUses(o)') + Cardinality(PlaneUses(o)')
               = Cardinality(FileUses(o)) + Cardinality(PlaneUses(o)) + n[o]
        BY <1>8, <1>9, <2>2, <3>1, <4>1
      <4>5. Cardinality(FileUses(o)') + Cardinality(PlaneUses(o)') < DrmWord
        <5> DEFINE ids == drm_dev'.fbs \ drm_dev'.destroyed
        <5>1. id \in Nat /\ id <= MaxFbs /\ ids \in SUBSET (1 .. id)
          BY <1>2, <1>5, <1>14 DEF ListsInv
        <5> HIDE DEF id, ids
        <5> QED
          BY <5>1, CountBound DEF FileUses, PlaneUses, ids
      <4>6. drm_obj'[o].refcount = (drm_obj[o].refcount + n[o]) % DrmWord
        BY <1>10, <2>2, <3>1
      <4> QED
        BY <4>3, <4>4, <4>5, <4>6
    <3> QED
      BY <1>4, <1>10, <3>1, <3>2, ReferencesTaken
  <2> QED
    BY <2>1, <2>2
<1> QED
  BY <1>11, <1>12, <1>13, <1>14, <1>15 DEF DrmInv, CountInv

LEMMA RmFbStep ==
    ASSUME DrmInv, NEW f \in DrmFiles, NEW id \in Framebuffers, drm_mode_rmfb(f, id)
    PROVE  DrmInv'
<1> DEFINE fb == drm_fb[id]
           n == [o \in Objects |-> Occurrences(fb, o)]
           keys == drm_dev.fbs \ drm_dev.destroyed
           again == {fb[i] : i \in IF id \in drm_dev.destroyed THEN 1 .. Planes ELSE {}}
<1>1. fb \in [1 .. Planes -> Nat] /\ drm_dev \in DrmDevices
      /\ Framebuffers = 1 .. Len(drm_fb) /\ Len(drm_fb) \in Nat
  BY DrmTyped DEF DrmInv
<1>2. /\ drm_file' = drm_file /\ drm_fb' = drm_fb /\ id \in drm_dev.fbs
      /\ drm_obj' = Released(drm_obj, n)
      /\ drm_dev' = [drm_dev EXCEPT !.fbs = @ \ {id}, !.destroyed = @ \ {id},
                        !.twice = @ \cup again, !.gem_objects = @ \ Freed(drm_obj, n)]
  <2>1. drm_dev' = [[drm_dev EXCEPT !.fbs = @ \ {id}, !.destroyed = @ \ {id},
                       !.twice = @ \cup again] EXCEPT !.gem_objects = @ \ Freed(drm_obj, n)]
    BY DEF drm_mode_rmfb, drm_gem_object_destroy
  <2> HIDE DEF again, n
  <2>2. drm_dev' = [drm_dev EXCEPT !.fbs = @ \ {id}, !.destroyed = @ \ {id},
                       !.twice = @ \cup again, !.gem_objects = @ \ Freed(drm_obj, n)]
    BY <1>1, <2>1 DEF DrmDevices
  <2> QED
    BY <2>2 DEF drm_mode_rmfb, drm_gem_object_destroy, n
<1>3. again \in SUBSET Nat
  BY <1>1
<1> HIDE DEF fb, n, again
<1>4. /\ drm_dev' \in DrmDevices /\ drm_dev'.files = drm_dev.files
      /\ drm_dev'.fbs = drm_dev.fbs \ {id} /\ drm_dev'.destroyed = drm_dev.destroyed \ {id}
      /\ drm_dev'.gem_objects = drm_dev.gem_objects \ Freed(drm_obj, n)
      /\ drm_dev'.twice = drm_dev.twice \cup again
      /\ drm_dev'.used = drm_dev.used /\ drm_dev'.next_handle = drm_dev.next_handle
  <2>1. /\ drm_dev.fbs \ {id} \in SUBSET Nat /\ drm_dev.destroyed \ {id} \in SUBSET Nat
        /\ drm_dev.gem_objects \ Freed(drm_obj, n) \in SUBSET Nat
        /\ drm_dev.twice \cup again \in SUBSET Nat
    BY <1>1, <1>3 DEF DrmDevices
  <2> QED
    BY <1>1, <1>2, <2>1 DEF DrmDevices
<1>5. ListsInv /\ keys \subseteq Framebuffers
  BY DEF DrmInv, CountInv, ListsInv
<1>6. IsFiniteSet(keys) /\ Planes \in Nat
  <2>1. IsFiniteSet(1 .. Len(drm_fb))
    BY <1>1, FS_Interval
  <2>2. keys \in SUBSET (1 .. Len(drm_fb))
    BY <1>1, <1>5
  <2> HIDE DEF keys
  <2> QED
    BY <2>1, <2>2, FS_Subset, DrmConstants
<1>7. DOMAIN fb = 1 .. Planes
  BY <1>1
<1>8. ASSUME NEW o
      PROVE  Occurrences(fb, o) \in Nat /\ (Occurrences(fb, o) > 0 <=> \E i \in 1 .. Planes : fb[i] = o)
  BY <1>6, <1>7, OccurrencesNat
<1>9. n \in [Objects -> Nat] /\ \A o \in Objects : n[o] = Occurrences(fb, o)
  BY <1>8 DEF n
<1>10. \A o : FileUses(o)' = FileUses(o)
  BY <1>2 DEF FileUses
<1>11. ASSUME NEW o \in Objects, o \notin drm_dev'.twice
       PROVE  /\ n[o] <= Cardinality(FileUses(o)) + Cardinality(PlaneUses(o))
              /\ Cardinality(FileUses(o)') + Cardinality(PlaneUses(o)')
                    = (Cardinality(FileUses(o)) + Cardinality(PlaneUses(o))) - n[o]
  <2>1. Cardinality(FileUses(o)) \in Nat /\ Cardinality(PlaneUses(o)) \in Nat
    BY CountsTyped
  <2>2. PlaneUses(o) = Places(keys, Planes, drm_fb, o)
        /\ PlaneUses(o)' = Places(drm_dev'.fbs \ drm_dev'.destroyed, Planes, drm_fb, o)
    BY <1>2 DEF PlaneUses
  <2>3. CASE id \in drm_dev.destroyed
    <3>1. again = {fb[i] : i \in 1 .. Planes}
      BY <2>3 DEF again
    <3>2. \A i \in 1 .. Planes : fb[i] # o
      BY <1>4, <1>11, <3>1
    <3>3. n[o] = 0
      BY <1>8, <1>9, <3>2
    <3>4. drm_dev'.fbs \ drm_dev'.destroyed = keys
      BY <1>4, <2>3
    <3>5. PlaneUses(o)' = PlaneUses(o) /\ FileUses(o)' = FileUses(o)
      BY <1>10, <2>2, <3>4
    <3> QED
      BY <2>1, <3>3, <3>5
  <2>4. CASE id \notin drm_dev.destroyed
    <3>1. drm_dev'.fbs \ drm_dev'.destroyed = keys \ {id} /\ id \in keys
      BY <1>2, <1>4, <2>4
    <3>2. DOMAIN drm_fb[id] \subseteq 1 .. Planes
      BY <1>7 DEF fb
    <3> HIDE DEF keys
    <3>3. Cardinality(Places(keys, Planes, drm_fb, o))
             = Cardinality(Places(keys \ {id}, Planes, drm_fb, o)) + Occurrences(drm_fb[id], o)
      BY ONLY <1>6, <3>1, <3>2, PlacesSplit
    <3>4. Cardinality(Places(keys \ {id}, Planes, drm_fb, o)) \in Nat
      <4>1. IsFiniteSet(keys \ {id})
        BY <1>6, FS_RemoveElement
      <4> QED
        BY <1>6, <4>1, PlacesFinite
    <3>5. n[o] = Occurrences(drm_fb[id], o) /\ n[o] \in Nat
      BY <1>9 DEF fb
    <3>6. FileUses(o)' = FileUses(o) /\ PlaneUses(o)' = Places(keys \ {id}, Planes, drm_fb, o)
      BY <1>10, <2>2, <3>1
    <3>7. Cardinality(PlaneUses(o)) = Cardinality(PlaneUses(o)') + n[o]
          /\ Cardinality(PlaneUses(o)') \in Nat
      BY <2>2, <3>3, <3>4, <3>5, <3>6
    <3> QED
      BY <2>1, <3>5, <3>6, <3>7
  <2> QED
    BY <2>3, <2>4
<1>12. /\ drm_obj' \in Seq(GemObjects) /\ Objects' = Objects /\ Len(drm_obj') = Len(drm_obj)
       /\ \A o \in Objects : /\ drm_obj'[o].paddr = drm_obj[o].paddr
                              /\ drm_obj'[o].size = drm_obj[o].size
       /\ drm_dev'.gem_objects \subseteq Objects
       /\ DrmRefcounts'
  BY <1>2, <1>4, <1>9, <1>11, ReferencesGiven
<1>13. DrmType'
  BY <1>2, <1>4, <1>12 DEF DrmInv, DrmType
<1>14. MasterInv'
  BY <1>2, <1>4, MasterKept DEF DrmInv
<1>15. PoolInv'
  BY <1>4, <1>12, PoolKept DEF DrmInv
<1>16. ListsInv'
  <2>1. Framebuffers' = Framebuffers
    BY <1>2 DEF Framebuffers
  <2> QED
    BY <1>2, <1>4, <1>5, <1>12, <2>1 DEF ListsInv
<1> QED
  BY <1>12, <1>13, <1>14, <1>15, <1>16 DEF DrmInv, CountInv

\* Objects of the DRM core are freed when the last reference goes and not before, one
\* file at most is master, and no two objects share memory: for any number of files,
\* calls and planes.
THEOREM DrmObjectsSafe == DrmSpec => []DrmSafe
<1>1. DrmInit => DrmInv
  BY DrmStarts
<1>2. DrmInv /\ [DrmNext]_drm_vars => DrmInv'
  <2> SUFFICES ASSUME DrmInv, [DrmNext]_drm_vars PROVE DrmInv'
    OBVIOUS
  <2>1. CASE UNCHANGED drm_vars
    BY <2>1, CrtcStep DEF drm_vars
  <2>2. CASE drm_spin
    BY <2>2, CrtcStep DEF drm_spin, drm_vars
  <2>3. ASSUME NEW f \in DrmFiles,
               \/ drm_open(f)
               \/ drm_close(f)
               \/ \E pages \in DumbSizes : drm_mode_create_dumb(f, pages)
               \/ \E h \in 1 .. MaxHandles : drm_gem_handle_delete(f, h)
               \/ \E h \in 1 .. MaxHandles : drm_gem_flink(f, h)
               \/ \E n \in 1 .. MaxNames : drm_gem_open(f, n)
               \/ \E hs \in [1 .. Planes -> 0 .. MaxHandles] : drm_mode_addfb2(f, hs)
               \/ \E id \in Framebuffers : drm_mode_rmfb(f, id)
        PROVE  DrmInv'
    BY <2>3, OpenStep, CloseStep, CreateStep, DeleteStep, FlinkStep, GemOpenStep, AddFbStep,
       RmFbStep
  <2>4. ASSUME NEW f \in DrmFiles, NEW id, drm_mode_set_crtc(f, id) \/ drm_mode_page_flip(f, id)
        PROVE  DrmInv'
    BY <2>4, CrtcStep DEF drm_mode_set_crtc, drm_mode_page_flip
  <2> QED
    BY <2>1, <2>2, <2>3, <2>4 DEF DrmNext
<1>3. DrmInv => DrmSafe
  BY DEF DrmInv, MasterInv, PoolInv, CountInv, DrmSafe
<1> QED
  BY <1>1, <1>2, <1>3, PTL DEF DrmSpec
-----------------------------------------------------------------------------
\* The place k steps behind place a of a ring of n places.
Place(a, k, n) == IF a + k < n THEN a + k ELSE (a + k) - n

\* Stepping k places and wrapping is taking the remainder.
LEMMA PlaceIs ==
    ASSUME NEW n \in Nat \ {0}, NEW a \in 0 .. n - 1, NEW k \in 0 .. n
    PROVE  (a + k) % n = Place(a, k, n) /\ Place(a, k, n) \in 0 .. n - 1
<1>1. CASE a + k < n
  <2> DEFINE x == a + k
  <2>1. x \in 0 .. n - 1 /\ x \in Int /\ x = 0 * n + x
    BY <1>1
  <2> HIDE DEF x
  <2>2. x % n = x
    BY <2>1, 0 \in Int, Remainder
  <2> QED BY <1>1, <2>1, <2>2 DEF x, Place
<1>2. CASE ~(a + k < n)
  <2> DEFINE x == a + k
             r == (a + k) - n
  <2>1. r \in 0 .. n - 1 /\ x \in Int /\ x = 1 * n + r
    BY <1>2
  <2> HIDE DEF x, r
  <2>2. x % n = r
    BY <2>1, 1 \in Int, Remainder
  <2> QED BY <1>2, <2>1, <2>2 DEF x, r, Place
<1> QED BY <1>1, <1>2

\* A number below the modulus is its own remainder.
LEMMA Small ==
    ASSUME NEW n \in Nat \ {0}, NEW a \in 0 .. n - 1
    PROVE  a % n = a
<1>1. (a + 0) % n = Place(a, 0, n)
  BY 0 \in 0 .. n, PlaceIs
<1> QED BY <1>1 DEF Place

\* The indices of a queue wrap at a multiple of the length of the queue.
LEMMA Multiple ==
    ASSUME NEW n \in Nat \ {0}, NEW w \in Nat \ {0}, w % n = 0
    PROVE  \E k \in Nat \ {0} : w = k * n
<1> DEFINE k == w \div n
<1>1. k \in Int /\ w = k * n + (w % n)
  BY Division
<1> HIDE DEF k
<1>2. w = k * n
  BY <1>1
<1>3. k > 0
  BY <1>1, <1>2, SMT
<1> QED BY <1>1, <1>2, <1>3

\* A 16-bit wrap does not disturb the place in the ring.
LEMMA WrapMod ==
    ASSUME NEW n \in Nat \ {0}, NEW w \in Nat \ {0}, w % n = 0, NEW a \in Nat
    PROVE  (a % w) % n = a % n
<1>1. PICK k \in Nat \ {0} : w = k * n
  BY Multiple
<1> DEFINE q == a \div w
           r == a % w
           q2 == r \div n
           r2 == r % n
<1>2. q \in Int /\ r \in 0 .. w - 1 /\ a = q * w + r
  BY Division
<1>3. r \in Int
  BY <1>2
<1> HIDE DEF r, q
<1>4. q2 \in Int /\ r2 \in 0 .. n - 1 /\ r = q2 * n + r2
  BY <1>3, Division
<1> HIDE DEF q2, r2
<1> DEFINE t == q * k + q2
<1>5. t \in Int /\ a = t * n + r2
  BY <1>1, <1>2, <1>4, SMT
<1> HIDE DEF t
<1>6. a % n = r2
  BY <1>4, <1>5, Remainder
<1> QED BY <1>6 DEF r2, r

\* How far the index a is ahead of the index d.
Lag(a, d, w) == ((a + w) - d) % w

\* The lag without its remainder.
LEMMA LagIs ==
    ASSUME NEW w \in Nat \ {0}, NEW a \in 0 .. w - 1, NEW d \in 0 .. w - 1
    PROVE  Lag(a, d, w) = IF a >= d THEN a - d ELSE (a + w) - d
<1> DEFINE x == (a + w) - d
<1>1. x \in Int
  OBVIOUS
<1>2. CASE a >= d
  <2> DEFINE r == a - d
  <2>1. r \in 0 .. w - 1 /\ x = 1 * w + r
    BY <1>2
  <2> HIDE DEF x, r
  <2>2. x % w = r
    BY <1>1, <2>1, 1 \in Int, Remainder
  <2> QED BY <1>2, <2>2 DEF x, r, Lag
<1>3. CASE ~(a >= d)
  <2>1. x \in 0 .. w - 1
    BY <1>3
  <2> HIDE DEF x
  <2>2. x % w = x
    BY <2>1, Small
  <2> QED BY <1>3, <2>2 DEF x, Lag
<1> QED BY <1>2, <1>3

\* An index that is incremented wraps to zero.
LEMMA NextIndex ==
    ASSUME NEW w \in Nat \ {0}, NEW a \in 0 .. w - 1
    PROVE  (a + 1) % w = IF a + 1 < w THEN a + 1 ELSE 0
<1>1. (a + 1) % w = Place(a, 1, w)
  BY 1 \in 0 .. w, PlaceIs
<1> QED BY <1>1 DEF Place

\* What incrementing either index does to the lag.
LEMMA LagSteps ==
    ASSUME NEW w \in Nat \ {0}, NEW a \in 0 .. w - 1, NEW d \in 0 .. w - 1
    PROVE  /\ Lag(a, d, w) \in 0 .. w - 1
           /\ a = Place(d, Lag(a, d, w), w)
           /\ Lag(a, d, w) = 0 <=> a = d
           /\ Lag(a, d, w) + 1 < w => Lag((a + 1) % w, d, w) = Lag(a, d, w) + 1
           /\ a # d => Lag(a, (d + 1) % w, w) = Lag(a, d, w) - 1
<1>0. /\ (a + 1) % w = IF a + 1 < w THEN a + 1 ELSE 0
      /\ (d + 1) % w = IF d + 1 < w THEN d + 1 ELSE 0
  BY NextIndex
<1>1. (a + 1) % w \in 0 .. w - 1 /\ (d + 1) % w \in 0 .. w - 1
  BY <1>0
<1> DEFINE a1 == (a + 1) % w
           d1 == (d + 1) % w
<1>2. Lag(a, d, w) = IF a >= d THEN a - d ELSE (a + w) - d
  BY LagIs
<1> HIDE DEF a1, d1
<1>3. Lag(a1, d, w) = IF a1 >= d THEN a1 - d ELSE (a1 + w) - d
  BY <1>1, LagIs DEF a1
<1>4. Lag(a, d1, w) = IF a >= d1 THEN a - d1 ELSE (a + w) - d1
  BY <1>1, LagIs DEF d1
<1>5. /\ a1 = IF a + 1 < w THEN a + 1 ELSE 0
      /\ d1 = IF d + 1 < w THEN d + 1 ELSE 0
  BY <1>0 DEF a1, d1
<1>6. Lag(a, d, w) \in 0 .. w - 1 /\ a = Place(d, Lag(a, d, w), w) /\ (Lag(a, d, w) = 0 <=> a = d)
  BY <1>2 DEF Place
<1>7. Lag(a, d, w) + 1 < w => Lag(a1, d, w) = Lag(a, d, w) + 1
  BY <1>2, <1>3, <1>5
<1>8. a # d => Lag(a, d1, w) = Lag(a, d, w) - 1
  BY <1>2, <1>4, <1>5
<1> QED BY <1>6, <1>7, <1>8 DEF a1, d1

\* The place of an index that is k ahead of another.
LEMMA ModShift ==
    ASSUME NEW n \in Nat \ {0}, NEW a \in Nat, NEW k \in 0 .. n
    PROVE  (a + k) % n = Place(a % n, k, n) /\ a % n \in 0 .. n - 1
<1> DEFINE q == a \div n
           r == a % n
<1>1. q \in Int /\ r \in 0 .. n - 1 /\ a = q * n + r
  BY Division
<1> HIDE DEF q, r
<1> DEFINE p == Place(r, k, n)
           q1 == IF r + k < n THEN q ELSE q + 1
           x == a + k
<1>2. p \in 0 .. n - 1
  BY <1>1, PlaceIs
<1>3. q1 \in Int /\ x \in Int
  BY <1>1
<1>4. CASE r + k < n
  <2>1. p = r + k /\ q1 = q
    BY <1>4 DEF Place
  <2> QED BY <2>1, <1>1, <1>2, <1>3, Remainder, a + k = q * n + (r + k) DEF r
<1>5. CASE ~(r + k < n)
  <2>1. p = (r + k) - n /\ q1 = q + 1
    BY <1>5 DEF Place
  <2>2. x = q1 * n + p
    BY <1>1, <2>1
  <2> HIDE DEF p, q1, x
  <2>3. x % n = p
    BY <1>2, <1>3, <2>2, Remainder
  <2> QED BY <1>1, <2>3 DEF p, x, r
<1> QED BY <1>4, <1>5

\* The same for a remainder that is not expanded, and one step of an index.
Rem(a, n) == a % n
LEMMA RemShift ==
    ASSUME NEW n \in Nat \ {0}, NEW a \in Nat, NEW k \in 0 .. n, NEW x, x = a + k
    PROVE  Rem(x, n) = Place(Rem(a, n), k, n) /\ Rem(a, n) \in 0 .. n - 1
BY ModShift DEF Rem

Step(a, w) == (a + 1) % w
\* The index in front moves on.
LEMMA LagUp ==
    ASSUME NEW w \in Nat \ {0}, NEW a \in 0 .. w - 1, NEW d \in 0 .. w - 1, Lag(a, d, w) + 1 < w
    PROVE  Lag(Step(a, w), d, w) = Lag(a, d, w) + 1
BY LagSteps DEF Step

\* The index behind moves on.
LEMMA LagDown ==
    ASSUME NEW w \in Nat \ {0}, NEW a \in 0 .. w - 1, NEW d \in 0 .. w - 1, a # d
    PROVE  Lag(a, Step(d, w), w) = Lag(a, d, w) - 1
BY LagSteps DEF Step
-----------------------------------------------------------------------------
\* A ring has n entries, from the place start on, all of them different.
RingSound(ring, start, n, length) ==
    /\ ring \in [0 .. length - 1 -> 0 .. length - 1]
    /\ start \in 0 .. length - 1 /\ n \in 0 .. length
    /\ \A j, k \in 0 .. n - 1 :
          ring[Place(start, j, length)] = ring[Place(start, k, length)] => j = k
RingSet(ring, start, n, length) == {ring[Place(start, k, length)] : k \in 0 .. n - 1}

\* Different steps from one place end in different places.
LEMMA PlacesDiffer ==
    ASSUME NEW n \in Nat \ {0}, NEW a \in 0 .. n - 1, NEW j \in 0 .. n - 1, NEW k \in 0 .. n - 1,
           Place(a, j, n) = Place(a, k, n)
    PROVE  j = k
BY DEF Place

\* The rings ring and new differ at most in place p, where new has x.
ChangedAt(ring, new, p, x, length) ==
    /\ new \in [0 .. length - 1 -> 0 .. length - 1] /\ new[p] = x
    /\ \A i \in 0 .. length - 1 : i # p => new[i] = ring[i]

\* An assignment to one entry of a ring.
LEMMA ChangedIs ==
    ASSUME NEW length \in Nat \ {0}, NEW ring \in [0 .. length - 1 -> 0 .. length - 1],
           NEW p \in 0 .. length - 1, NEW x \in 0 .. length - 1
    PROVE  ChangedAt(ring, [ring EXCEPT ![p] = x], p, x, length)
BY DEF ChangedAt

\* The ring new has one entry more than ring, x.
PutRing(ring, new, start, n, x, length) ==
    /\ RingSound(new, start, n + 1, length)
    /\ RingSet(new, start, n + 1, length) = RingSet(ring, start, n, length) \cup {x}

\* An entry is added behind the last one.
LEMMA RingPut ==
    ASSUME NEW length \in Nat \ {0}, NEW ring, NEW start, NEW n,
           RingSound(ring, start, n, length), n < length,
           NEW x \in 0 .. length - 1, x \notin RingSet(ring, start, n, length),
           NEW new, ChangedAt(ring, new, Place(start, n, length), x, length)
    PROVE  PutRing(ring, new, start, n, x, length)
<1> DEFINE p == Place(start, n, length)
<1>1. start \in 0 .. length - 1 /\ n \in 0 .. length - 1
  BY DEF RingSound
<1>2. p \in 0 .. length - 1
  BY <1>1 DEF Place
<1>3. ring \in [0 .. length - 1 -> 0 .. length - 1]
  BY DEF RingSound
<1>4. new \in [0 .. length - 1 -> 0 .. length - 1] /\ new[p] = x
  BY DEF ChangedAt
<1>5. \A k \in 0 .. n - 1 : /\ Place(start, k, length) \in 0 .. length - 1
                            /\ Place(start, k, length) # p
  BY <1>1 DEF Place
<1>6. \A k \in 0 .. n - 1 : new[Place(start, k, length)] = ring[Place(start, k, length)]
  <2> HIDE DEF p
  <2> QED BY <1>5 DEF ChangedAt, p
<1>7. \A k \in 0 .. n - 1 : ring[Place(start, k, length)] # x
  BY DEF RingSet
<1>8. RingSound(new, start, n + 1, length)
  <2>1. n + 1 \in 0 .. length
    BY <1>1
  <2>2. ASSUME NEW j \in 0 .. (n + 1) - 1, NEW k \in 0 .. (n + 1) - 1,
               new[Place(start, j, length)] = new[Place(start, k, length)]
        PROVE  j = k
    <3>1. (j \in 0 .. n - 1 \/ j = n) /\ (k \in 0 .. n - 1 \/ k = n)
      BY <1>1
    <3> QED BY <3>1, <2>2, <1>4, <1>6, <1>7 DEF RingSound, p
  <2> QED BY <1>1, <1>4, <2>1, <2>2 DEF RingSound
<1>9. RingSet(new, start, n + 1, length) = RingSet(ring, start, n, length) \cup {x}
  <2>1. \A k : k \in 0 .. (n + 1) - 1 <=> k \in 0 .. n - 1 \/ k = n
    BY <1>1
  <2> QED BY <2>1, <1>4, <1>6 DEF RingSet, p
<1> QED BY <1>8, <1>9 DEF PutRing

\* The first entry is taken from a ring.
LEMMA RingTake ==
    ASSUME NEW length \in Nat \ {0}, NEW ring, NEW start, NEW n,
           RingSound(ring, start, n, length), n > 0,
           NEW new, ChangedAt(ring, new, start, 0, length)
    PROVE  /\ RingSound(new, Place(start, 1, length), n - 1, length)
           /\ ring[start] \in RingSet(ring, start, n, length)
           /\ RingSet(new, Place(start, 1, length), n - 1, length)
                = RingSet(ring, start, n, length) \ {ring[start]}
<1> DEFINE s1 == Place(start, 1, length)
<1>1. start \in 0 .. length - 1 /\ n \in 1 .. length
  BY DEF RingSound
<1>2. ring \in [0 .. length - 1 -> 0 .. length - 1] /\ 0 \in 0 .. length - 1
  BY DEF RingSound
<1>3. new \in [0 .. length - 1 -> 0 .. length - 1]
  BY DEF ChangedAt
<1>4. s1 \in 0 .. length - 1
  BY <1>1 DEF Place
<1>5. \A k \in 0 .. (n - 1) - 1 : /\ Place(s1, k, length) = Place(start, k + 1, length)
                            /\ Place(start, k + 1, length) \in 0 .. length - 1
                            /\ Place(start, k + 1, length) # start
                            /\ k + 1 \in 0 .. n - 1
  BY <1>1 DEF Place
<1>6. \A k \in 0 .. (n - 1) - 1 : new[Place(s1, k, length)] = ring[Place(start, k + 1, length)]
  <2> HIDE DEF s1
  <2> QED BY <1>5 DEF ChangedAt
<1>7. Place(start, 0, length) = start /\ 0 \in 0 .. n - 1
  BY <1>1 DEF Place
<1> HIDE DEF s1
<1>8. ring[start] \in RingSet(ring, start, n, length)
  BY <1>7 DEF RingSet
<1>9. RingSound(new, s1, n - 1, length)
  <2>1. n - 1 \in 0 .. length
    BY <1>1
  <2>2. ASSUME NEW j \in 0 .. (n - 1) - 1, NEW k \in 0 .. (n - 1) - 1,
               new[Place(s1, j, length)] = new[Place(s1, k, length)]
        PROVE  j = k
    <3>1. j + 1 = k + 1
      BY <2>2, <1>5, <1>6 DEF RingSound
    <3> QED BY <3>1, <1>1
  <2> QED BY <1>3, <1>4, <2>1, <2>2 DEF RingSound
<1>10. RingSet(new, s1, n - 1, length) = RingSet(ring, start, n, length) \ {ring[start]}
  <2>1. ASSUME NEW k \in 0 .. (n - 1) - 1
        PROVE  new[Place(s1, k, length)] \in RingSet(ring, start, n, length) \ {ring[start]}
    <3>1. k + 1 # 0 /\ k + 1 \in 0 .. n - 1
      BY <1>1
    <3>2. ring[Place(start, k + 1, length)] # ring[Place(start, 0, length)]
      BY <3>1, <1>7 DEF RingSound
    <3> QED BY <3>1, <3>2, <1>6, <1>7 DEF RingSet
  <2>2. ASSUME NEW k \in 0 .. n - 1, ring[Place(start, k, length)] # ring[start]
        PROVE  ring[Place(start, k, length)] \in RingSet(new, s1, n - 1, length)
    <3>1. k # 0
      BY <2>2, <1>7
    <3>2. k - 1 \in 0 .. (n - 1) - 1 /\ (k - 1) + 1 = k
      BY <3>1, <1>1
    <3>3. new[Place(s1, k - 1, length)] = ring[Place(start, k, length)]
      BY <3>2, <1>6
    <3> QED BY <3>2, <3>3 DEF RingSet
  <2> QED BY <2>1, <2>2 DEF RingSet
<1> QED BY <1>8, <1>9, <1>10 DEF s1

\* A ring whose entries leave out some number below its length is not full.
LEMMA RingFits ==
    ASSUME NEW length \in Nat \ {0}, NEW ring, NEW start, NEW n,
           RingSound(ring, start, n, length),
           NEW y \in 0 .. length - 1, y \notin RingSet(ring, start, n, length)
    PROVE  n < length
<1> SUFFICES ASSUME n = length PROVE FALSE
  BY DEF RingSound
<1> DEFINE S == 0 .. length - 1
           T == S \ {y}
           f == [k \in S |-> ring[Place(start, k, length)]]
<1>1. start \in S /\ ring \in [S -> S]
  BY DEF RingSound
<1>2. ASSUME NEW k \in S PROVE Place(start, k, length) \in S
  <2>1. length \in Nat \ {0} /\ start \in 0 .. length - 1 /\ k \in 0 .. length - 1 /\ k \in 0 .. length
    BY <1>1
  <2> QED BY <2>1, PlaceIs
<1>3. \A k \in S : ring[Place(start, k, length)] \in T
  BY <1>1, <1>2 DEF RingSet
<1>4. f \in [S -> T]
  BY <1>3
<1>5. IsFiniteSet(S) /\ Cardinality(S) = length
  <2>1. 0 \in Int /\ length - 1 \in Int /\ 0 <= length - 1
    OBVIOUS
  <2>2. /\ IsFiniteSet(0 .. length - 1)
        /\ Cardinality(0 .. length - 1) = IF 0 > length - 1 THEN 0 ELSE (length - 1) - 0 + 1
    BY <2>1, FS_Interval
  <2> QED BY <2>1, <2>2
<1>6. IsFiniteSet(T) /\ Cardinality(T) = length - 1
  <2>1. y \in S
    OBVIOUS
  <2> HIDE DEF S
  <2> QED BY <1>5, <2>1, FS_RemoveElement
<1>7. \A j, k \in S : f[j] = f[k] => j = k
  BY DEF RingSound
<1> HIDE DEF S, T, f
<1>8. \E j, k \in S : j # k /\ f[j] = f[k]
  <2>1. Cardinality(T) < Cardinality(S)
    BY <1>5, <1>6
  <2> QED BY <1>4, <1>5, <1>6, <2>1, FS_PigeonHole
<1> QED BY <1>7, <1>8
-----------------------------------------------------------------------------
\* s is the free list that begins with the descriptor first and follows next.
FreeSeq(s, n, next, first, length) ==
    /\ n \in 0 .. length /\ s \in [1 .. n -> 0 .. length - 1]
    /\ \A i, j \in 1 .. n : s[i] = s[j] => i = j
    /\ first = IF n = 0 THEN length ELSE s[1]
    /\ \A i \in 1 .. n : next[s[i]] = IF i = n THEN length ELSE s[i + 1]
Members(s, n) == {s[i] : i \in 1 .. n}

\* What the walk of FreeList visits.
LEMMA WalkIs ==
    ASSUME NEW q, NEW s, q.length \in Nat \ {0},
           FreeSeq(s, q.num_free_descs, q.next, q.free_desc_index, q.length)
    PROVE  FreeList(q) = Members(s, q.num_free_descs)
<1> DEFINE n == q.num_free_descs
           length == q.length
           Def(f) == [k \in 0 .. length |->
                        IF k = 0 THEN q.free_desc_index
                        ELSE LET i == f[k - 1] IN IF i = length THEN i ELSE q.next[i]]
           g == [k \in 0 .. length |-> IF k < n THEN s[k + 1] ELSE length]
           walk == CHOOSE f : f = Def(f)
<1>0. length \in Nat \ {0} /\ n \in 0 .. length /\ s \in [1 .. n -> 0 .. length - 1]
  BY DEF FreeSeq
<1>1. g = Def(g)
  <2>1. ASSUME NEW k \in 0 .. length PROVE g[k] = Def(g)[k]
    <3>1. CASE k = 0
      BY <3>1, <1>0 DEF FreeSeq
    <3>2. CASE k # 0 /\ k - 1 < n
      <4>1. k - 1 \in 0 .. length /\ g[k - 1] = s[k] /\ k \in 1 .. n
        BY <3>2, <1>0
      <4>2. s[k] # length
        BY <4>1, <1>0
      <4>3. q.next[s[k]] = IF k = n THEN length ELSE s[k + 1]
        BY <4>1 DEF FreeSeq
      <4> QED BY <4>1, <4>2, <4>3, <3>2, <1>0
    <3>3. CASE k # 0 /\ ~(k - 1 < n)
      <4>1. k - 1 \in 0 .. length /\ g[k - 1] = length /\ ~(k < n)
        BY <3>3, <1>0
      <4> QED BY <4>1, <3>3, <1>0
    <3> QED BY <3>1, <3>2, <3>3
  <2> QED BY <2>1
<1>2. walk = Def(walk)
  <2> HIDE DEF Def, g
  <2> QED BY <1>1
<1>3. \A k \in 0 .. length : walk[k] = IF k = 0 THEN q.free_desc_index
                        ELSE IF walk[k - 1] = length THEN length ELSE q.next[walk[k - 1]]
  <2> HIDE DEF walk
  <2> QED BY <1>2
<1>4. \A k \in 0 .. length : g[k] = IF k = 0 THEN q.free_desc_index
                        ELSE IF g[k - 1] = length THEN length ELSE q.next[g[k - 1]]
  <2> HIDE DEF g
  <2> QED BY <1>1
<1> DEFINE E == {k \in 0 .. length : walk[k] = g[k]}
<1> HIDE DEF walk, g, n, length
<1>5. 0 \in E
  BY <1>0, <1>3, <1>4
<1>6. ASSUME NEW i \in 0 .. length - 1, i \in E PROVE i + 1 \in E
  <2>1. i + 1 \in 0 .. length /\ i + 1 # 0 /\ (i + 1) - 1 = i /\ walk[i] = g[i]
    BY <1>0, <1>6
  <2> QED BY <2>1, <1>3, <1>4
<1>7. 0 .. length \subseteq E
  <2> HIDE DEF E
  <2> QED BY <1>0, <1>5, <1>6, UpTo
<1>8. \A k \in 0 .. n - 1 : walk[k] = s[k + 1]
  BY <1>0, <1>7 DEF g
<1>9. FreeList(q) = {walk[k] : k \in 0 .. n - 1}
  BY DEF FreeList, walk, n, length
<1>10. {walk[k] : k \in 0 .. n - 1} = Members(s, n)
  <2>1. ASSUME NEW i \in 1 .. n PROVE i - 1 \in 0 .. n - 1 /\ walk[i - 1] = s[i]
    BY <1>0, <1>8
  <2>2. ASSUME NEW k \in 0 .. n - 1 PROVE k + 1 \in 1 .. n /\ walk[k] = s[k + 1]
    BY <1>0, <1>8
  <2> QED BY <2>1, <2>2 DEF Members
<1> QED BY <1>9, <1>10 DEF n

\* The free list without its first descriptor.
LEMMA FreeSeqPop ==
    ASSUME NEW length \in Nat \ {0}, NEW s, NEW n, NEW next, NEW first,
           FreeSeq(s, n, next, first, length), first # length
    PROVE  /\ n \in 1 .. length /\ first \in Members(s, n)
           /\ \E t : /\ FreeSeq(t, n - 1, next, next[first], length)
                     /\ Members(t, n - 1) = Members(s, n) \ {first}
<1>1. n \in 1 .. length /\ first = s[1] /\ 1 \in 1 .. n
  BY DEF FreeSeq
<1> DEFINE t == [i \in 1 .. n - 1 |-> s[i + 1]]
<1>2. s \in [1 .. n -> 0 .. length - 1]
  BY DEF FreeSeq
<1>3. \A i \in 1 .. n - 1 : i + 1 \in 1 .. n /\ t[i] = s[i + 1] /\ i + 1 # 1
  BY <1>1
<1>4. t \in [1 .. n - 1 -> 0 .. length - 1]
  BY <1>2, <1>3
<1> HIDE DEF t
<1>5. FreeSeq(t, n - 1, next, next[first], length)
  <2>1. ASSUME NEW i \in 1 .. n - 1, NEW j \in 1 .. n - 1, t[i] = t[j] PROVE i = j
    <3>1. i + 1 = j + 1
      BY <2>1, <1>3 DEF FreeSeq
    <3> QED BY <3>1, <1>1
  <2>2. next[first] = IF n - 1 = 0 THEN length ELSE t[1]
    <3>1. next[s[1]] = IF 1 = n THEN length ELSE s[1 + 1]
      BY <1>1 DEF FreeSeq
    <3> QED BY <3>1, <1>1, <1>3
  <2>3. ASSUME NEW i \in 1 .. n - 1
        PROVE  next[t[i]] = IF i = n - 1 THEN length ELSE t[i + 1]
    <3>1. next[s[i + 1]] = IF i + 1 = n THEN length ELSE s[(i + 1) + 1]
      BY <1>3 DEF FreeSeq
    <3>2. i # n - 1 => i + 1 \in 1 .. n - 1
      BY <1>1
    <3> QED BY <3>1, <3>2, <1>1, <1>3
  <2>4. n - 1 \in 0 .. length
    BY <1>1
  <2> QED BY <1>4, <2>1, <2>2, <2>3, <2>4 DEF FreeSeq
<1>6. Members(t, n - 1) = Members(s, n) \ {first}
  <2>1. \A i \in 1 .. n - 1 : t[i] \in Members(s, n) /\ t[i] # first
    BY <1>1, <1>3 DEF Members, FreeSeq
  <2>2. ASSUME NEW i \in 1 .. n, s[i] # first PROVE s[i] \in Members(t, n - 1)
    <3>1. i # 1
      BY <1>1, <2>2
    <3>2. i - 1 \in 1 .. n - 1 /\ (i - 1) + 1 = i
      BY <3>1, <1>1
    <3> QED BY <3>2, <1>3 DEF Members
  <2> QED BY <2>1, <2>2 DEF Members
<1>7. first \in Members(s, n)
  BY <1>1 DEF Members
<1> QED BY <1>1, <1>5, <1>6, <1>7

\* A list without repetition has as many members as entries.
LEMMA FreeSeqSize ==
    ASSUME NEW length \in Nat \ {0}, NEW n \in Nat, NEW s \in [1 .. n -> 0 .. length - 1],
           \A i, j \in 1 .. n : s[i] = s[j] => i = j
    PROVE  /\ n <= length
           /\ IsFiniteSet(Members(s, n)) /\ Cardinality(Members(s, n)) = n
<1> DEFINE S == 0 .. length - 1
<1>1. IsFiniteSet(S) /\ Cardinality(S) = length
  <2>1. 0 \in Int /\ length - 1 \in Int /\ 0 <= length - 1
    OBVIOUS
  <2>2. /\ IsFiniteSet(0 .. length - 1)
        /\ Cardinality(0 .. length - 1) = IF 0 > length - 1 THEN 0 ELSE (length - 1) - 0 + 1
    BY <2>1, FS_Interval
  <2> QED BY <2>1, <2>2
<1>2. IsFiniteSet(1 .. n) /\ Cardinality(1 .. n) = n
  <2>1. 1 \in Int /\ n \in Int
    OBVIOUS
  <2>2. /\ IsFiniteSet(1 .. n)
        /\ Cardinality(1 .. n) = IF 1 > n THEN 0 ELSE n - 1 + 1
    BY <2>1, FS_Interval
  <2> QED BY <2>2
<1>3. s \in Injection(1 .. n, S)
  BY DEF Injection, IsInjective
<1>4. n <= length
  <2> HIDE DEF S
  <2> QED BY <1>1, <1>2, <1>3, FS_Injection
<1> DEFINE M == Members(s, n)
<1>5. s \in [1 .. n -> M] /\ \A y \in M : \E x \in 1 .. n : s[x] = y
  BY DEF Members
<1>6. s \in Bijection(1 .. n, M)
  <2> HIDE DEF M
  <2> QED BY <1>5 DEF Bijection, Injection, Surjection, IsInjective
<1>7. ExistsBijection(1 .. n, M)
  <2> HIDE DEF M
  <2> QED BY <1>6 DEF ExistsBijection
<1>8. IsFiniteSet(M) /\ Cardinality(M) = Cardinality(1 .. n)
  <2> HIDE DEF M
  <2> QED BY <1>2, <1>7, FS_Bijection
<1> QED BY <1>2, <1>4, <1>8

FreePushed(s, n, next, first, x, length) ==
    \E t : /\ FreeSeq(t, n + 1, [next EXCEPT ![x] = first], x, length)
           /\ Members(t, n + 1) = Members(s, n) \cup {x}

\* A descriptor that is not in the free list becomes its first.
LEMMA FreeSeqPush ==
    ASSUME NEW length \in Nat \ {0}, NEW s, NEW n, NEW next, NEW first,
           FreeSeq(s, n, next, first, length), next \in [0 .. length - 1 -> 0 .. length],
           NEW x \in 0 .. length - 1, x \notin Members(s, n)
    PROVE  FreePushed(s, n, next, first, x, length)
<1> DEFINE t == [i \in 1 .. n + 1 |-> IF i = 1 THEN x ELSE s[i - 1]]
           new == [next EXCEPT ![x] = first]
<1>1. n \in 0 .. length /\ s \in [1 .. n -> 0 .. length - 1]
  BY DEF FreeSeq
<1>2. /\ \A i \in 1 .. n + 1 : i = 1 \/ i - 1 \in 1 .. n
      /\ \A i \in 1 .. n : i + 1 \in 1 .. n + 1 /\ (i + 1) - 1 = i /\ i + 1 # 1
      /\ 1 \in 1 .. n + 1
  BY <1>1
<1>3. t \in [1 .. n + 1 -> 0 .. length - 1] /\ t[1] = x /\ \A i \in 1 .. n : t[i + 1] = s[i]
  BY <1>1, <1>2
<1>4. \A i \in 1 .. n : s[i] # x /\ s[i] \in 0 .. length - 1
  BY <1>1 DEF Members
<1>5. new[x] = first /\ \A i \in 1 .. n : new[s[i]] = next[s[i]]
  BY <1>4
<1>6. \A i \in 1 .. n + 1 : i = 1 \/ (i - 1 \in 1 .. n /\ t[i] = s[i - 1])
  BY <1>2
<1> HIDE DEF t, new
<1>7. ASSUME NEW i \in 1 .. n + 1, NEW j \in 1 .. n + 1, t[i] = t[j] PROVE i = j
  <2>1. CASE i = 1 \/ j = 1
    BY <2>1, <1>3, <1>4, <1>6, <1>7
  <2>2. CASE i # 1 /\ j # 1
    <3>1. i - 1 = j - 1
      BY <2>2, <1>6, <1>7 DEF FreeSeq
    <3> QED BY <3>1, <1>1
  <2> QED BY <2>1, <2>2
<1>8. n + 1 <= length
  BY <1>1, <1>3, <1>7, FreeSeqSize, n + 1 \in Nat
<1>9. ASSUME NEW i \in 1 .. n + 1
      PROVE  new[t[i]] = IF i = n + 1 THEN length ELSE t[i + 1]
  <2>1. CASE i = 1
    <3>1. first = IF n = 0 THEN length ELSE s[1]
      BY DEF FreeSeq
    <3>2. n # 0 => 1 \in 1 .. n
      BY <1>1
    <3> QED BY <2>1, <3>1, <3>2, <1>1, <1>3, <1>5
  <2>2. CASE i # 1
    <3>1. i - 1 \in 1 .. n /\ t[i] = s[i - 1]
      BY <2>2, <1>6
    <3>2. next[s[i - 1]] = IF i - 1 = n THEN length ELSE s[(i - 1) + 1]
      BY <3>1 DEF FreeSeq
    <3>3. i - 1 # n => i \in 1 .. n
      BY <3>1, <1>1
    <3>4. (i - 1) + 1 = i /\ (i - 1 = n <=> i = n + 1)
      BY <1>1
    <3>5. new[t[i]] = IF i = n + 1 THEN length ELSE s[i]
      BY <3>1, <3>2, <3>4, <1>5
    <3>6. i # n + 1 => t[i + 1] = s[i]
      BY <3>3, <3>4, <1>3
    <3> QED BY <3>5, <3>6
  <2> QED BY <2>1, <2>2
<1>10. FreeSeq(t, n + 1, new, x, length)
  <2>1. n + 1 \in 0 .. length /\ n + 1 # 0
    BY <1>1, <1>8
  <2> QED BY <2>1, <1>3, <1>7, <1>9 DEF FreeSeq
<1>11. Members(t, n + 1) = Members(s, n) \cup {x}
  <2>1. \A i \in 1 .. n + 1 : t[i] \in Members(s, n) \cup {x}
    BY <1>3, <1>6 DEF Members
  <2>2. \A i \in 1 .. n : s[i] \in Members(t, n + 1)
    BY <1>2, <1>3 DEF Members
  <2>3. x \in Members(t, n + 1)
    BY <1>2, <1>3 DEF Members
  <2> QED BY <2>1, <2>2, <2>3 DEF Members
<1> QED BY <1>10, <1>11 DEF new, FreePushed
-----------------------------------------------------------------------------
\* A queue of n descriptors.
DescSet(n) == 0 .. n - 1
DescOrNone(n) == 0 .. n
NextFcns(n) == [0 .. n - 1 -> 0 .. n]
RingFcns(n) == [0 .. n - 1 -> 0 .. n - 1]
HeldSets(n) == SUBSET (0 .. n - 1)
RingIndices == 0 .. IndexWord - 1
VioQueues(n) ==
    [length : {n}, next : NextFcns(n), free_desc_index : DescOrNone(n),
     num_free_descs : Int, last_seen_used : DescSet(n),
     avail : RingFcns(n), avail_index : RingIndices,
     used : RingFcns(n), used_index : RingIndices,
     dev_index : RingIndices, held : HeldSets(n), chains : Nat]

\* The types of the fields of a queue.
LEMMA QueueFields ==
    ASSUME NEW n, NEW q \in VioQueues(n)
    PROVE  /\ q.length = n /\ q.next \in NextFcns(n) /\ q.free_desc_index \in DescOrNone(n)
           /\ q.num_free_descs \in Int /\ q.last_seen_used \in DescSet(n)
           /\ q.avail \in RingFcns(n) /\ q.avail_index \in RingIndices
           /\ q.used \in RingFcns(n) /\ q.used_index \in RingIndices
           /\ q.dev_index \in RingIndices /\ q.held \in HeldSets(n) /\ q.chains \in Nat
BY DEF VioQueues

\* The entries of the available ring that the device has not taken.
Available(q) == Lag(q.avail_index, q.dev_index, IndexWord)
Untaken(q) == RingSet(q.avail, q.dev_index % q.length, Available(q), q.length)

\* Both rings hold different descriptors.
RingsSound(q) ==
    /\ RingSound(q.avail, q.dev_index % q.length, Available(q), q.length)
    /\ RingSound(q.used, q.last_seen_used, Unseen(q), q.length)

\* The free list is one.
FreeSound(q) ==
    \E s : FreeSeq(s, q.num_free_descs, q.next, q.free_desc_index, q.length)

\* The lengths that queues have.
QueueLength(n) == n \in Nat \ {0} /\ IndexWord \in Nat \ {0} /\ IndexWord % n = 0

\* The first part of LagSteps.
LEMMA LagPlace ==
    ASSUME NEW w \in Nat \ {0}, NEW a \in 0 .. w - 1, NEW d \in 0 .. w - 1
    PROVE  /\ Lag(a, d, w) \in 0 .. w - 1
           /\ a = Place(d, Lag(a, d, w), w)
           /\ Lag(a, d, w) = 0 <=> a = d
BY LagSteps

\* The used entries that the handler has not seen.
LEMMA UnseenIs ==
    ASSUME NEW n, QueueLength(n), NEW q \in VioQueues(n)
    PROVE  /\ q.used_index % n \in 0 .. n - 1
           /\ Unseen(q) = Lag(q.used_index % n, q.last_seen_used, n)
           /\ Unseen(q) \in 0 .. n - 1
           /\ UsedUnseen(q) = RingSet(q.used, q.last_seen_used, Unseen(q), n)
<1> DEFINE u == q.used_index
           a == q.last_seen_used
           k == n - a
           v == u % n
<1>1. q.length = n /\ a \in 0 .. n - 1 /\ u \in Nat /\ n \in Nat \ {0}
  BY QueueFields DEF QueueLength, DescSet, RingIndices
<1>2. k \in 0 .. n /\ (u + n) - a = u + k
  BY <1>1
<1> HIDE DEF k, u, a
<1>3. (u + k) % n = Place(v, k, n) /\ v \in 0 .. n - 1
  BY <1>1, <1>2, ModShift
<1> HIDE DEF v
<1>4. (v + k) % n = Place(v, k, n)
  BY <1>1, <1>2, <1>3, PlaceIs
<1>5. (v + n) - a = v + k
  BY <1>1, <1>3 DEF k
<1>6. Unseen(q) = Lag(v, a, n)
  BY <1>1, <1>2, <1>3, <1>4, <1>5 DEF Unseen, Lag, u, a
<1>7. Lag(v, a, n) \in 0 .. n - 1
  BY <1>1, <1>3, LagSteps
<1> DEFINE m == Unseen(q)
<1>8. m \in 0 .. n - 1
  BY <1>6, <1>7
<1>9. UsedUnseen(q) = {q.used[(a + i) % n] : i \in 0 .. m - 1}
  BY <1>1 DEF UsedUnseen, a
<1> HIDE DEF m
<1>10. \A i \in 0 .. m - 1 : i \in 0 .. n
  BY <1>1, <1>8
<1>11. \A i \in 0 .. m - 1 : (a + i) % n = Place(a, i, n)
  BY <1>1, <1>10, PlaceIs
<1>12. UsedUnseen(q) = RingSet(q.used, a, m, n)
  BY <1>9, <1>11 DEF RingSet
<1> QED BY <1>3, <1>6, <1>8, <1>12 DEF m, a, u, v

\* What the free list does not see, and what the rings do not see.
SameRings(q, r) ==
    /\ r.length = q.length /\ r.held = q.held
    /\ r.last_seen_used = q.last_seen_used /\ r.used = q.used /\ r.used_index = q.used_index
    /\ r.avail = q.avail /\ r.avail_index = q.avail_index /\ r.dev_index = q.dev_index
SameFree(q, r) ==
    /\ r.length = q.length /\ r.next = q.next
    /\ r.free_desc_index = q.free_desc_index /\ r.num_free_descs = q.num_free_descs

\* Changing the free list leaves the rings alone.
LEMMA RingsKept ==
    ASSUME NEW q, NEW r, SameRings(q, r)
    PROVE  /\ RingsSound(q) => RingsSound(r)
           /\ Untaken(r) = Untaken(q) /\ UsedUnseen(r) = UsedUnseen(q) /\ Unseen(r) = Unseen(q)
           /\ Available(r) = Available(q)
BY DEF SameRings, RingsSound, Untaken, UsedUnseen, Unseen, Available

\* Changing the rings leaves the free list alone.
LEMMA FreeKept ==
    ASSUME NEW q, NEW r, SameFree(q, r)
    PROVE  (FreeSound(q) => FreeSound(r)) /\ FreeList(r) = FreeList(q)
BY DEF SameFree, FreeSound, FreeList

\* The free list has num_free_descs members; it is empty when it begins with none.
LEMMA FreeFacts ==
    ASSUME NEW n, QueueLength(n), NEW q \in VioQueues(n), FreeSound(q)
    PROVE  /\ FreeList(q) \subseteq 0 .. n - 1 /\ Cardinality(FreeList(q)) = q.num_free_descs
           /\ q.num_free_descs \in 0 .. n /\ q.length = n
           /\ q.free_desc_index = n <=> q.num_free_descs = 0
           /\ q.free_desc_index # n => q.free_desc_index \in FreeList(q)
<1>1. n \in Nat \ {0} /\ q.length = n
  BY QueueFields DEF QueueLength
<1>2. PICK s : FreeSeq(s, q.num_free_descs, q.next, q.free_desc_index, n)
  BY <1>1 DEF FreeSound
<1> DEFINE m == q.num_free_descs
<1>3. FreeList(q) = Members(s, m)
  BY <1>1, <1>2, WalkIs
<1>4. /\ m \in 0 .. n /\ s \in [1 .. m -> 0 .. n - 1] /\ m \in Nat
      /\ \A i, j \in 1 .. m : s[i] = s[j] => i = j
      /\ q.free_desc_index = IF m = 0 THEN n ELSE s[1]
  BY <1>1, <1>2 DEF FreeSeq
<1> HIDE DEF m
<1>5. Cardinality(Members(s, m)) = m
  BY <1>1, <1>4, FreeSeqSize
<1>6. Members(s, m) \subseteq 0 .. n - 1
  BY <1>4 DEF Members
<1>7. m # 0 => 1 \in 1 .. m /\ s[1] \in 0 .. n - 1 /\ s[1] # n
  BY <1>1, <1>4
<1>8. m # 0 => s[1] \in Members(s, m)
  BY <1>7 DEF Members
<1> QED BY <1>1, <1>3, <1>4, <1>5, <1>6, <1>7, <1>8 DEF m

\* A queue with another free list.
WithFree(q, next, first, n) ==
    [q EXCEPT !.next = next, !.free_desc_index = first, !.num_free_descs = n]

\* The fields of a queue with another free list.
LEMMA WithFreeFields ==
    ASSUME NEW n, NEW q \in VioQueues(n), NEW next \in NextFcns(n), NEW first \in DescOrNone(n),
           NEW m \in Int
    PROVE  LET r == WithFree(q, next, first, m)
           IN  /\ r \in VioQueues(n) /\ SameRings(q, r) /\ r.chains = q.chains
               /\ r.next = next /\ r.free_desc_index = first /\ r.num_free_descs = m
<1>1. WithFree(q, next, first, m) \in VioQueues(n)
  BY DEF VioQueues, WithFree
<1> QED BY <1>1 DEF VioQueues, WithFree, SameRings

\* Queue::alloc_descriptor takes the first descriptor of the free list.
LEMMA AllocStep ==
    ASSUME NEW n, QueueLength(n), NEW q \in VioQueues(n), FreeSound(q), q.free_desc_index # n
    PROVE  LET r == alloc_descriptor(q)
           IN  /\ r \in VioQueues(n) /\ FreeSound(r) /\ SameRings(q, r)
               /\ FreeList(r) = FreeList(q) \ {q.free_desc_index}
               /\ r.num_free_descs = q.num_free_descs - 1
               /\ r.next = q.next /\ r.chains = q.chains
<1> DEFINE r == alloc_descriptor(q)
<1>1. n \in Nat \ {0} /\ q.length = n
  BY QueueFields DEF QueueLength
<1>2. q.next[q.free_desc_index] \in DescOrNone(n)
  BY <1>1, QueueFields DEF NextFcns, DescOrNone
<1> DEFINE f == q.next[q.free_desc_index]
           m == q.num_free_descs - 1
<1>a. r = WithFree(q, q.next, f, m)
  BY DEF alloc_descriptor, WithFree, VioQueues
<1>b. q.next \in NextFcns(n) /\ f \in DescOrNone(n) /\ m \in Int
  BY <1>2, QueueFields
<1> HIDE DEF r, f, m
<1>c. /\ r \in VioQueues(n) /\ SameRings(q, r) /\ r.chains = q.chains
      /\ r.next = q.next /\ r.free_desc_index = f /\ r.num_free_descs = m
  BY <1>a, <1>b, WithFreeFields
<1>3. /\ r \in VioQueues(n)
      /\ r.num_free_descs = q.num_free_descs - 1 /\ r.next = q.next
      /\ r.free_desc_index = q.next[q.free_desc_index] /\ r.length = n
      /\ SameRings(q, r) /\ r.chains = q.chains
  BY <1>1, <1>c DEF f, m, SameRings
<1>4. PICK s : FreeSeq(s, q.num_free_descs, q.next, q.free_desc_index, n)
  BY <1>1 DEF FreeSound
<1>5. PICK t : /\ FreeSeq(t, q.num_free_descs - 1, q.next, q.next[q.free_desc_index], n)
               /\ Members(t, q.num_free_descs - 1)
                    = Members(s, q.num_free_descs) \ {q.free_desc_index}
  BY <1>1, <1>4, FreeSeqPop
<1>6. FreeSeq(t, r.num_free_descs, r.next, r.free_desc_index, r.length)
  BY <1>3, <1>5
<1>7. FreeSound(r)
  BY <1>6 DEF FreeSound
<1>8. FreeList(r) = Members(t, r.num_free_descs)
  BY <1>1, <1>3, <1>6, WalkIs
<1>9. FreeList(q) = Members(s, q.num_free_descs)
  BY <1>1, <1>4, WalkIs
<1>10. FreeList(r) = FreeList(q) \ {q.free_desc_index}
  BY <1>3, <1>5, <1>8, <1>9
<1> QED BY <1>3, <1>7, <1>10 DEF r

\* Queue::free_descriptor puts a descriptor back.
LEMMA FreeStep ==
    ASSUME NEW n, QueueLength(n), NEW q \in VioQueues(n), FreeSound(q),
           NEW x \in 0 .. n - 1, x \notin FreeList(q)
    PROVE  LET r == free_descriptor(q, x)
           IN  /\ r \in VioQueues(n) /\ FreeSound(r) /\ SameRings(q, r)
               /\ FreeList(r) = FreeList(q) \cup {x}
               /\ r.num_free_descs = q.num_free_descs + 1
               /\ \A y \in (0 .. n - 1) \ {x} : r.next[y] = q.next[y]
               /\ r.chains = q.chains
<1> DEFINE r == free_descriptor(q, x)
<1>1. n \in Nat \ {0} /\ q.length = n /\ q.next \in [0 .. n - 1 -> 0 .. n]
  BY QueueFields DEF QueueLength, NextFcns
<1>2. [q.next EXCEPT ![x] = q.free_desc_index] \in NextFcns(n) /\ x \in DescOrNone(n)
  BY <1>1, QueueFields DEF NextFcns, DescOrNone
<1> DEFINE g == [q.next EXCEPT ![x] = q.free_desc_index]
           m == q.num_free_descs + 1
<1>a. r = WithFree(q, g, x, m)
  BY DEF free_descriptor, WithFree, VioQueues
<1>b. g \in NextFcns(n) /\ x \in DescOrNone(n) /\ m \in Int
  BY <1>2, QueueFields
<1> HIDE DEF r, g, m
<1>c. /\ r \in VioQueues(n) /\ SameRings(q, r) /\ r.chains = q.chains
      /\ r.next = g /\ r.free_desc_index = x /\ r.num_free_descs = m
  BY <1>a, <1>b, WithFreeFields
<1>3. /\ r \in VioQueues(n)
      /\ r.num_free_descs = q.num_free_descs + 1
      /\ r.next = [q.next EXCEPT ![x] = q.free_desc_index]
      /\ r.free_desc_index = x /\ r.length = n
      /\ SameRings(q, r) /\ r.chains = q.chains
  BY <1>1, <1>c DEF g, m, SameRings
<1>4. PICK s : FreeSeq(s, q.num_free_descs, q.next, q.free_desc_index, n)
  BY <1>1 DEF FreeSound
<1>5. FreeList(q) = Members(s, q.num_free_descs)
  BY <1>1, <1>4, WalkIs
<1>6. PICK t : /\ FreeSeq(t, q.num_free_descs + 1,
                          [q.next EXCEPT ![x] = q.free_desc_index], x, n)
               /\ Members(t, q.num_free_descs + 1) = Members(s, q.num_free_descs) \cup {x}
  <2> DEFINE k == q.num_free_descs
             next == q.next
             first == q.free_desc_index
  <2>1. /\ FreeSeq(s, k, next, first, n) /\ next \in [0 .. n - 1 -> 0 .. n]
        /\ x \notin Members(s, k)
    BY <1>1, <1>4, <1>5
  <2> HIDE DEF k, next, first
  <2>2. FreePushed(s, k, next, first, x, n)
    BY <1>1, <2>1, FreeSeqPush
  <2> QED BY <2>2 DEF FreePushed, k, next, first
<1>7. FreeSeq(t, r.num_free_descs, r.next, r.free_desc_index, r.length)
  BY <1>3, <1>6
<1>8. FreeSound(r)
  BY <1>7 DEF FreeSound
<1>9. FreeList(r) = Members(t, r.num_free_descs)
  BY <1>1, <1>3, <1>7, WalkIs
<1>10. FreeList(r) = FreeList(q) \cup {x}
  BY <1>3, <1>5, <1>6, <1>9
<1>11. \A y \in (0 .. n - 1) \ {x} : r.next[y] = q.next[y]
  BY <1>1, <1>3
<1> QED BY <1>3, <1>8, <1>10, <1>11 DEF r

\* Linking a chain outside the free list leaves that list alone.
LEMMA LinkedStep ==
    ASSUME NEW n, QueueLength(n), NEW q \in VioQueues(n), FreeSound(q), NEW h,
           h[1] \in (0 .. n - 1) \ FreeList(q), h[2] \in (0 .. n - 1) \ FreeList(q),
           h[3] \in 0 .. n - 1, h[1] # h[2]
    PROVE  LET r == Linked(q, h)
           IN  /\ r \in VioQueues(n) /\ FreeSound(r) /\ SameRings(q, r)
               /\ FreeList(r) = FreeList(q) /\ r.num_free_descs = q.num_free_descs
               /\ r.next[h[1]] = h[2] /\ r.next[h[2]] = h[3]
               /\ \A y \in (0 .. n - 1) \ {h[1], h[2]} : r.next[y] = q.next[y]
<1> DEFINE r == Linked(q, h)
           g == [q.next EXCEPT ![h[1]] = h[2], ![h[2]] = h[3]]
           m == q.chains + 1
<1>1. n \in Nat \ {0} /\ q.length = n /\ q.next \in [0 .. n - 1 -> 0 .. n]
  BY QueueFields DEF QueueLength, NextFcns
<1>2. /\ g \in [0 .. n - 1 -> 0 .. n] /\ g[h[1]] = h[2] /\ g[h[2]] = h[3]
      /\ \A y \in (0 .. n - 1) \ {h[1], h[2]} : g[y] = q.next[y]
  <2> DEFINE a == h[1]
             b == h[2]
             c == h[3]
             f == q.next
  <2>0. a \in 0 .. n - 1 /\ b \in 0 .. n - 1 /\ c \in 0 .. n - 1 /\ a # b
    OBVIOUS
  <2>a. 0 .. n - 1 \subseteq 0 .. n
    BY <1>1
  <2>1. /\ a \in 0 .. n - 1 /\ b \in 0 .. n - 1 /\ b \in 0 .. n /\ c \in 0 .. n /\ a # b
        /\ f \in [0 .. n - 1 -> 0 .. n]
    <3> HIDE DEF a, b, c
    <3> QED BY <1>1, <2>0, <2>a
  <2>2. g = [f EXCEPT ![a] = b, ![b] = c]
    OBVIOUS
  <2> HIDE DEF a, b, c, f, g
  <2>3. /\ g \in [0 .. n - 1 -> 0 .. n] /\ g[a] = b /\ g[b] = c
        /\ \A y \in (0 .. n - 1) \ {a, b} : g[y] = f[y]
    BY <2>1, <2>2
  <2> QED BY <2>3 DEF a, b, c, f
<1>3. r = [q EXCEPT !.next = g, !.chains = m]
  BY DEF Linked, VioQueues
<1>4. g \in NextFcns(n) /\ m \in Nat
  <2> HIDE DEF g
  <2> QED BY <1>2, QueueFields DEF NextFcns
<1> HIDE DEF r, g, m
<1>5. /\ r \in VioQueues(n) /\ r.next = g /\ SameRings(q, r) /\ r.length = n
      /\ r.num_free_descs = q.num_free_descs /\ r.free_desc_index = q.free_desc_index
  <2>1. r \in VioQueues(n)
    BY <1>3, <1>4 DEF VioQueues
  <2> QED BY <1>1, <2>1, <1>3 DEF VioQueues, SameRings
<1>6. PICK s : FreeSeq(s, q.num_free_descs, q.next, q.free_desc_index, n)
  BY <1>1 DEF FreeSound
<1>7. FreeList(q) = Members(s, q.num_free_descs)
  BY <1>1, <1>6, WalkIs
<1>8. \A i \in 1 .. q.num_free_descs : g[s[i]] = q.next[s[i]]
  <2>1. \A i \in 1 .. q.num_free_descs : s[i] \in FreeList(q) /\ s[i] \in 0 .. n - 1
    BY <1>6, <1>7 DEF Members, FreeSeq
  <2> QED BY <1>2, <2>1
<1>9. FreeSeq(s, r.num_free_descs, r.next, r.free_desc_index, r.length)
  BY <1>5, <1>6, <1>8 DEF FreeSeq
<1>10. FreeSound(r) /\ FreeList(r) = FreeList(q)
  BY <1>1, <1>5, <1>7, <1>9, WalkIs DEF FreeSound
<1> QED BY <1>2, <1>5, <1>10 DEF r

\* The places of the rings that the indices stand for.
LEMMA SlotFacts ==
    ASSUME NEW n, QueueLength(n), NEW q \in VioQueues(n), RingsSound(q)
    PROVE  /\ q.dev_index % n \in 0 .. n - 1 /\ q.last_seen_used \in 0 .. n - 1
           /\ Available(q) \in 0 .. n /\ Unseen(q) \in 0 .. n - 1
           /\ Available(q) = 0 <=> q.avail_index = q.dev_index
           /\ Unseen(q) = 0 <=> q.used_index % n = q.last_seen_used
           /\ q.avail_index % n = Place(q.dev_index % n, Available(q), n)
           /\ q.used_index % n = Place(q.last_seen_used, Unseen(q), n)
           /\ ((q.dev_index + 1) % IndexWord) % n = Place(q.dev_index % n, 1, n)
           /\ ((q.used_index + 1) % IndexWord) % n = ((q.used_index % n) + 1) % n
           /\ (q.last_seen_used + 1) % n = Place(q.last_seen_used, 1, n)
<1>1. /\ n \in Nat \ {0} /\ IndexWord \in Nat \ {0} /\ IndexWord % n = 0 /\ q.length = n
      /\ q.avail_index \in 0 .. IndexWord - 1 /\ q.dev_index \in 0 .. IndexWord - 1
      /\ q.used_index \in 0 .. IndexWord - 1 /\ q.last_seen_used \in 0 .. n - 1
      /\ 1 \in 0 .. n
  BY QueueFields DEF QueueLength, RingIndices, DescSet
<1> DEFINE a == q.avail_index
           d == q.dev_index
           u == q.used_index
           l == q.last_seen_used
           k == Available(q)
           v == u % n
<1>2. k \in 0 .. n /\ k = Lag(a, d, IndexWord)
  BY <1>1 DEF RingsSound, RingSound, Available
<1>3. /\ v \in 0 .. n - 1 /\ Unseen(q) = Lag(v, l, n) /\ Unseen(q) \in 0 .. n - 1
  BY UnseenIs
<1> HIDE DEF a, d, u, l, k, v
<1>4. /\ a \in 0 .. IndexWord - 1 /\ d \in 0 .. IndexWord - 1
      /\ u \in 0 .. IndexWord - 1 /\ l \in 0 .. n - 1
  BY <1>1 DEF a, d, u, l
<1>5. /\ k \in 0 .. IndexWord - 1 /\ a = Place(d, k, IndexWord) /\ (k = 0 <=> a = d)
  <2>1. /\ Lag(a, d, IndexWord) \in 0 .. IndexWord - 1
        /\ a = Place(d, Lag(a, d, IndexWord), IndexWord)
        /\ Lag(a, d, IndexWord) = 0 <=> a = d
    <3>1. IndexWord \in Nat \ {0} /\ a \in 0 .. IndexWord - 1 /\ d \in 0 .. IndexWord - 1
      BY <1>1, <1>4
    <3> QED BY <3>1, LagPlace
  <2> QED BY <1>2, <2>1
<1>6. v = Place(l, Unseen(q), n) /\ (Unseen(q) = 0 <=> v = l)
  <2>1. v = Place(l, Lag(v, l, n), n) /\ (Lag(v, l, n) = 0 <=> v = l)
    <3>1. n \in Nat \ {0} /\ v \in 0 .. n - 1 /\ l \in 0 .. n - 1
      BY <1>1, <1>3, <1>4
    <3> QED BY <3>1, LagPlace
  <2> QED BY <1>3, <2>1
<1>7. a % n = Place(d % n, k, n) /\ d % n \in 0 .. n - 1
  <2>1. (d + k) % IndexWord = a
    BY <1>1, <1>4, <1>5, PlaceIs, k \in 0 .. IndexWord
  <2>2. d + k \in Nat /\ d \in Nat
    BY <1>2, <1>4
  <2> DEFINE x == d + k
  <2>3. (x % IndexWord) % n = x % n
    <3> HIDE DEF x
    <3> QED BY <1>1, <2>2, WrapMod DEF x
  <2>4. x % n = Place(d % n, k, n) /\ d % n \in 0 .. n - 1
    BY <1>1, <1>2, <2>2, ModShift
  <2> QED BY <2>1, <2>3, <2>4
<1>8. ((d + 1) % IndexWord) % n = Place(d % n, 1, n)
  <2> DEFINE x == d + 1
  <2>1. x \in Nat /\ d \in Nat
    BY <1>4
  <2>2. (x % IndexWord) % n = x % n
    <3> HIDE DEF x
    <3> QED BY <1>1, <2>1, WrapMod
  <2>3. Rem(x, n) = Place(Rem(d, n), 1, n)
    BY <1>1, <2>1, RemShift
  <2> QED BY <2>2, <2>3 DEF Rem
<1>9. ((u + 1) % IndexWord) % n = (v + 1) % n
  <2> DEFINE x == u + 1
  <2>1. x \in Nat /\ u \in Nat
    BY <1>4
  <2>2. (x % IndexWord) % n = x % n
    <3> HIDE DEF x
    <3> QED BY <1>1, <2>1, WrapMod
  <2>3. Rem(x, n) = Place(Rem(u, n), 1, n)
    BY <1>1, <2>1, RemShift
  <2>4. (v + 1) % n = Place(v, 1, n)
    BY <1>1, <1>3, PlaceIs
  <2> QED BY <2>2, <2>3, <2>4 DEF Rem, v
<1>10. (l + 1) % n = Place(l, 1, n)
  BY <1>1, <1>4, PlaceIs
<1> QED BY <1>2, <1>3, <1>4, <1>5, <1>6, <1>7, <1>8, <1>9, <1>10 DEF a, d, u, l, k, v

\* A queue with other rings.
WithRings(q, avail, ai, used, ui, di, last, held) ==
    [q EXCEPT !.avail = avail, !.avail_index = ai, !.used = used, !.used_index = ui,
              !.dev_index = di, !.last_seen_used = last, !.held = held]

RingFields(n, q, r, avail, ai, used, ui, di, last, held) ==
    /\ r \in VioQueues(n) /\ SameFree(q, r) /\ r.chains = q.chains
    /\ r.avail = avail /\ r.avail_index = ai /\ r.used = used /\ r.used_index = ui
    /\ r.dev_index = di /\ r.last_seen_used = last /\ r.held = held

\* The fields of a queue with other rings.
LEMMA WithRingsFields ==
    ASSUME NEW n, NEW q \in VioQueues(n), NEW avail \in RingFcns(n), NEW ai \in RingIndices,
           NEW used \in RingFcns(n), NEW ui \in RingIndices, NEW di \in RingIndices,
           NEW last \in DescSet(n), NEW held \in HeldSets(n)
    PROVE  RingFields(n, q, WithRings(q, avail, ai, used, ui, di, last, held),
                      avail, ai, used, ui, di, last, held)
<1> DEFINE r == WithRings(q, avail, ai, used, ui, di, last, held)
<1>1. r \in VioQueues(n)
  BY DEF VioQueues, WithRings
<1>2. /\ SameFree(q, r) /\ r.chains = q.chains
      /\ r.avail = avail /\ r.avail_index = ai /\ r.used = used /\ r.used_index = ui
      /\ r.dev_index = di /\ r.last_seen_used = last /\ r.held = held
  BY <1>1 DEF VioQueues, WithRings, SameFree
<1> HIDE DEF r
<1> QED BY <1>1, <1>2 DEF RingFields, r

\* An index that is incremented is one.
LEMMA IndexType ==
    ASSUME NEW n, QueueLength(n), NEW i \in RingIndices
    PROVE  (i + 1) % IndexWord \in RingIndices
<1>1. IndexWord \in Nat \ {0} /\ i + 1 \in Int
  BY DEF QueueLength, RingIndices
<1> DEFINE x == i + 1
<1> HIDE DEF x
<1>2. x % IndexWord \in 0 .. IndexWord - 1
  BY <1>1, Division DEF x
<1> QED BY <1>2 DEF x, RingIndices

\* Queue::submit_descriptor puts a descriptor into the available ring.
LEMMA SubmitStep ==
    ASSUME NEW n, QueueLength(n), NEW q \in VioQueues(n), RingsSound(q),
           NEW x \in 0 .. n - 1, x \notin Untaken(q), Available(q) < n,
           Available(q) + 1 < IndexWord
    PROVE  LET r == submit_descriptor(q, x)
           IN  /\ r \in VioQueues(n) /\ RingsSound(r) /\ SameFree(q, r) /\ r.chains = q.chains
               /\ Untaken(r) = Untaken(q) \cup {x} /\ UsedUnseen(r) = UsedUnseen(q)
               /\ Available(r) = Available(q) + 1 /\ Unseen(r) = Unseen(q) /\ r.held = q.held
               /\ r.used = q.used /\ r.used_index = q.used_index
               /\ r.last_seen_used = q.last_seen_used
<1> DEFINE r == submit_descriptor(q, x)
           slot == q.avail_index % n
           avail == [q.avail EXCEPT ![slot] = x]
           ai == (q.avail_index + 1) % IndexWord
           k == Available(q)
           d == q.dev_index % n
<1>1. n \in Nat \ {0} /\ q.length = n /\ q.avail \in [0 .. n - 1 -> 0 .. n - 1]
  BY QueueFields DEF QueueLength, RingFcns
<1>2. slot = Place(d, k, n) /\ d \in 0 .. n - 1 /\ k \in 0 .. n
  BY SlotFacts
<1>3. RingSound(q.avail, d, k, n) /\ Untaken(q) = RingSet(q.avail, d, k, n)
  BY <1>1 DEF RingsSound, Untaken
<1>4. r = WithRings(q, avail, ai, q.used, q.used_index, q.dev_index, q.last_seen_used, q.held)
  BY <1>1 DEF submit_descriptor, WithRings, VioQueues
<1>5. ai \in RingIndices
  BY QueueFields, IndexType
<1>6. Lag(ai, q.dev_index, IndexWord) = k + 1
  <2>1. /\ IndexWord \in Nat \ {0} /\ q.avail_index \in 0 .. IndexWord - 1
        /\ q.dev_index \in 0 .. IndexWord - 1 /\ k = Lag(q.avail_index, q.dev_index, IndexWord)
    BY QueueFields DEF QueueLength, RingIndices, Available
  <2>2. Lag(q.avail_index, q.dev_index, IndexWord) + 1 < IndexWord
    BY <2>1
  <2> DEFINE a == q.avail_index
             e == q.dev_index
  <2> HIDE DEF a, e
  <2>3. Lag(Step(a, IndexWord), e, IndexWord) = Lag(a, e, IndexWord) + 1
    BY <2>1, <2>2, LagUp DEF a, e
  <2> QED BY <2>1, <2>3 DEF a, e, Step
<1> HIDE DEF r, ai, k, d, slot
<1>7. /\ RingSound(avail, d, k + 1, n)
      /\ RingSet(avail, d, k + 1, n) = RingSet(q.avail, d, k, n) \cup {x}
  <2>1. k < n /\ x \notin RingSet(q.avail, d, k, n)
    BY <1>3 DEF k
  <2>2. ChangedAt(q.avail, avail, Place(d, k, n), x, n)
    <3>1. slot \in 0 .. n - 1
      BY <1>1, <1>2, PlaceIs
    <3>2. ChangedAt(q.avail, avail, slot, x, n)
      BY <1>1, <3>1, ChangedIs
    <3> QED BY <1>2, <3>2
  <2> DEFINE f == q.avail
             p == Place(d, k, n)
  <2>3. RingSound(f, d, k, n) /\ x \notin RingSet(f, d, k, n) /\ ChangedAt(f, avail, p, x, n)
    BY <1>3, <2>1, <2>2
  <2> HIDE DEF avail, f
  <2>4. PutRing(f, avail, d, k, x, n)
    BY <1>1, <2>1, <2>3, RingPut
  <2> QED BY <2>4 DEF f, PutRing
<1> HIDE DEF avail
<1>8. avail \in RingFcns(n)
  BY <1>7 DEF RingSound, RingFcns
<1>9. /\ r \in VioQueues(n) /\ SameFree(q, r) /\ r.chains = q.chains
      /\ r.avail = avail /\ r.avail_index = ai /\ r.used = q.used
      /\ r.used_index = q.used_index /\ r.dev_index = q.dev_index
      /\ r.last_seen_used = q.last_seen_used /\ r.held = q.held
  <2>1. /\ q.used_index \in RingIndices /\ q.used \in RingFcns(n) /\ q.held \in HeldSets(n)
        /\ q.last_seen_used \in DescSet(n) /\ q.dev_index \in RingIndices
    BY QueueFields
  <2>2. RingFields(n, q, r, avail, ai, q.used, q.used_index, q.dev_index, q.last_seen_used, q.held)
    BY <1>4, <1>5, <1>8, <2>1, WithRingsFields
  <2> QED BY <2>2 DEF RingFields
<1>10. r.length = n
  BY <1>1, <1>9 DEF SameFree
<1>11. Unseen(r) = Unseen(q) /\ UsedUnseen(r) = UsedUnseen(q)
  BY <1>1, <1>9, <1>10 DEF Unseen, UsedUnseen
<1>12. Available(r) = k + 1 /\ r.dev_index % r.length = d
  BY <1>6, <1>9, <1>10 DEF Available, d
<1>13. Untaken(r) = Untaken(q) \cup {x}
  BY <1>3, <1>7, <1>9, <1>10, <1>12 DEF Untaken
<1>14. RingsSound(r)
  BY <1>1, <1>7, <1>9, <1>10, <1>11, <1>12 DEF RingsSound
<1> QED BY <1>9, <1>11, <1>12, <1>13, <1>14 DEF r, k

\* The device takes the next available descriptor.
LEMMA TakeStep ==
    ASSUME NEW n, QueueLength(n), NEW q \in VioQueues(n), RingsSound(q),
           q.dev_index # q.avail_index
    PROVE  LET r == DeviceTakes(q)
           IN  /\ r \in VioQueues(n) /\ RingsSound(r) /\ SameFree(q, r)
               /\ UsedUnseen(r) = UsedUnseen(q) /\ Available(r) = Available(q) - 1
               /\ Unseen(r) = Unseen(q)
               /\ \E x \in Untaken(q) : /\ r.held = q.held \cup {x}
                                        /\ Untaken(r) = Untaken(q) \ {x}
<1> DEFINE r == DeviceTakes(q)
           d == q.dev_index % n
           avail == [q.avail EXCEPT ![d] = 0]
           di == (q.dev_index + 1) % IndexWord
           k == Available(q)
           x == q.avail[d]
           held == q.held \cup {x}
<1>1. n \in Nat \ {0} /\ q.length = n /\ q.avail \in [0 .. n - 1 -> 0 .. n - 1]
  BY QueueFields DEF QueueLength, RingFcns
<1>2. /\ d \in 0 .. n - 1 /\ k \in 0 .. n /\ k # 0
      /\ di % n = Place(d, 1, n)
  BY SlotFacts
<1>3. RingSound(q.avail, d, k, n) /\ Untaken(q) = RingSet(q.avail, d, k, n)
  BY <1>1 DEF RingsSound, Untaken
<1>4. r = WithRings(q, avail, q.avail_index, q.used, q.used_index, di, q.last_seen_used, held)
  BY <1>1 DEF DeviceTakes, WithRings, VioQueues
<1>5. di \in RingIndices
  BY QueueFields, IndexType
<1>6. Lag(q.avail_index, di, IndexWord) = k - 1
  <2>1. /\ IndexWord \in Nat \ {0} /\ q.avail_index \in 0 .. IndexWord - 1
        /\ q.dev_index \in 0 .. IndexWord - 1 /\ k = Lag(q.avail_index, q.dev_index, IndexWord)
    BY QueueFields DEF QueueLength, RingIndices, Available
  <2> DEFINE a == q.avail_index
             e == q.dev_index
  <2> HIDE DEF a, e
  <2>3. Lag(a, Step(e, IndexWord), IndexWord) = Lag(a, e, IndexWord) - 1
    BY <2>1, LagDown DEF a, e
  <2> QED BY <2>1, <2>3 DEF a, e, Step
<1> HIDE DEF r, di, k, d
<1>7. /\ RingSound(avail, Place(d, 1, n), k - 1, n)
      /\ x \in RingSet(q.avail, d, k, n)
      /\ RingSet(avail, Place(d, 1, n), k - 1, n) = RingSet(q.avail, d, k, n) \ {x}
  <2>1. k > 0
    BY <1>2
  <2>2. ChangedAt(q.avail, avail, d, 0, n)
    BY <1>1, <1>2, 0 \in 0 .. n - 1, ChangedIs
  <2> DEFINE f == q.avail
             p == Place(d, 1, n)
  <2>3. RingSound(f, d, k, n) /\ ChangedAt(f, avail, d, 0, n) /\ n \in Nat \ {0}
    BY <1>1, <1>3, <2>2
  <2> HIDE DEF avail, f
  <2>4. /\ RingSound(avail, p, k - 1, n)
        /\ f[d] \in RingSet(f, d, k, n)
        /\ RingSet(avail, p, k - 1, n) = RingSet(f, d, k, n) \ {f[d]}
    BY <2>1, <2>3, RingTake
  <2> QED BY <2>4 DEF f
<1>8. x \in 0 .. n - 1
  BY <1>1, <1>2
<1>9. held \in HeldSets(n)
  <2> HIDE DEF x
  <2> QED BY <1>8, QueueFields DEF HeldSets
<1> HIDE DEF avail, x, held
<1>10. avail \in RingFcns(n)
  BY <1>7 DEF RingSound, RingFcns
<1>11. /\ r \in VioQueues(n) /\ SameFree(q, r)
      /\ r.avail = avail /\ r.avail_index = q.avail_index /\ r.used = q.used
      /\ r.used_index = q.used_index /\ r.dev_index = di
      /\ r.last_seen_used = q.last_seen_used /\ r.held = held
  <2>1. /\ q.avail_index \in RingIndices /\ q.used \in RingFcns(n)
        /\ q.used_index \in RingIndices /\ q.last_seen_used \in DescSet(n)
    BY QueueFields
  <2>2. RingFields(n, q, r, avail, q.avail_index, q.used, q.used_index, di, q.last_seen_used, held)
    BY <1>4, <1>5, <1>9, <1>10, <2>1, WithRingsFields
  <2> QED BY <2>2 DEF RingFields
<1>12. r.length = n
  BY <1>1, <1>11 DEF SameFree
<1>13. Unseen(r) = Unseen(q) /\ UsedUnseen(r) = UsedUnseen(q)
  BY <1>1, <1>11, <1>12 DEF Unseen, UsedUnseen
<1>14. Available(r) = k - 1 /\ r.dev_index % r.length = Place(d, 1, n)
  BY <1>2, <1>6, <1>11, <1>12 DEF Available
<1>15. Untaken(r) = Untaken(q) \ {x}
  BY <1>3, <1>7, <1>11, <1>12, <1>14 DEF Untaken
<1>16. RingsSound(r)
  BY <1>1, <1>7, <1>11, <1>12, <1>13, <1>14 DEF RingsSound
<1>17. x \in Untaken(q)
  BY <1>3, <1>7
<1> QED BY <1>11, <1>13, <1>14, <1>15, <1>16, <1>17 DEF r, k, held

\* The device returns a descriptor through the used ring.
LEMMA ReturnStep ==
    ASSUME NEW n, QueueLength(n), NEW q \in VioQueues(n), RingsSound(q),
           NEW x \in 0 .. n - 1, x \notin UsedUnseen(q), Unseen(q) + 1 < n
    PROVE  LET r == DeviceReturns(q, x)
           IN  /\ r \in VioQueues(n) /\ RingsSound(r) /\ SameFree(q, r)
               /\ UsedUnseen(r) = UsedUnseen(q) \cup {x} /\ Unseen(r) = Unseen(q) + 1
               /\ Untaken(r) = Untaken(q) /\ Available(r) = Available(q)
               /\ r.held = q.held \ {x}
<1> DEFINE r == DeviceReturns(q, x)
           v == q.used_index % n
           used == [q.used EXCEPT ![v] = x]
           ui == (q.used_index + 1) % IndexWord
           l == q.last_seen_used
           k == Unseen(q)
           held == q.held \ {x}
<1>1. n \in Nat \ {0} /\ q.length = n /\ q.used \in [0 .. n - 1 -> 0 .. n - 1]
  BY QueueFields DEF QueueLength, RingFcns
<1>2. /\ l \in 0 .. n - 1 /\ k \in 0 .. n - 1 /\ v = Place(l, k, n)
      /\ ui % n = (v + 1) % n
  BY SlotFacts
<1>3. RingSound(q.used, l, k, n) /\ UsedUnseen(q) = RingSet(q.used, l, k, n) /\ v \in 0 .. n - 1
      /\ k = Lag(v, l, n)
  BY <1>1, UnseenIs DEF RingsSound
<1>4. r = WithRings(q, q.avail, q.avail_index, used, ui, q.dev_index, l, held)
  BY <1>1 DEF DeviceReturns, WithRings, VioQueues
<1>5. ui \in RingIndices
  BY QueueFields, IndexType
<1>6. held \in HeldSets(n)
  BY QueueFields DEF HeldSets
<1> HIDE DEF r, ui, k, l, held, v
<1>7. Lag((v + 1) % n, l, n) = k + 1
  <2>1. Lag(v, l, n) + 1 < n
    BY <1>3 DEF k
  <2>2. Lag((v + 1) % n, l, n) = Lag(v, l, n) + 1
    BY <1>1, <1>2, <1>3, <2>1, LagSteps
  <2> QED BY <1>3, <2>2
<1>8. /\ RingSound(used, l, k + 1, n)
      /\ RingSet(used, l, k + 1, n) = RingSet(q.used, l, k, n) \cup {x}
  <2>1. k < n /\ x \notin RingSet(q.used, l, k, n)
    <3>1. n \in Nat /\ k \in Nat /\ k + 1 < n
      BY <1>1, <1>2 DEF k
    <3>2. k < n
      BY <3>1
    <3> QED BY <1>3, <3>2
  <2>2. ChangedAt(q.used, used, Place(l, k, n), x, n)
    <3>1. v \in 0 .. n - 1
      BY <1>1, <1>2, PlaceIs
    <3>2. ChangedAt(q.used, used, v, x, n)
      BY <1>1, <3>1, ChangedIs
    <3> QED BY <1>2, <3>2
  <2> HIDE DEF used
  <2>3. PutRing(q.used, used, l, k, x, n)
    BY <1>1, <1>3, <2>1, <2>2, RingPut
  <2> QED BY <2>3 DEF PutRing
<1> HIDE DEF used
<1>9. used \in RingFcns(n)
  BY <1>8 DEF RingSound, RingFcns
<1>10. /\ r \in VioQueues(n) /\ SameFree(q, r)
      /\ r.avail = q.avail /\ r.avail_index = q.avail_index /\ r.used = used
      /\ r.used_index = ui /\ r.dev_index = q.dev_index
      /\ r.last_seen_used = l /\ r.held = held
  <2>1. /\ q.avail_index \in RingIndices /\ q.avail \in RingFcns(n)
        /\ l \in DescSet(n) /\ q.dev_index \in RingIndices
    BY QueueFields DEF l
  <2>2. RingFields(n, q, r, q.avail, q.avail_index, used, ui, q.dev_index, l, held)
    BY <1>4, <1>5, <1>6, <1>9, <2>1, WithRingsFields
  <2> QED BY <2>2 DEF RingFields
<1>11. r.length = n
  BY <1>1, <1>10 DEF SameFree
<1>12. Available(r) = Available(q) /\ Untaken(r) = Untaken(q)
  BY <1>1, <1>10, <1>11 DEF Available, Untaken
<1>13. Unseen(r) = k + 1
  <2>1. Unseen(r) = Lag(r.used_index % n, r.last_seen_used, n)
    BY <1>10, UnseenIs
  <2> QED BY <1>2, <1>7, <1>10, <2>1
<1>14. UsedUnseen(r) = UsedUnseen(q) \cup {x}
  <2>1. UsedUnseen(r) = RingSet(r.used, r.last_seen_used, Unseen(r), n)
    BY <1>10, UnseenIs
  <2> QED BY <1>3, <1>8, <1>10, <1>13, <2>1
<1>15. RingsSound(r)
  BY <1>1, <1>8, <1>10, <1>11, <1>12, <1>13 DEF RingsSound
<1> QED BY <1>10, <1>12, <1>13, <1>14, <1>15 DEF r, k, held

\* The handler takes the next used entry.
LEMMA SeenStep ==
    ASSUME NEW n, QueueLength(n), NEW q \in VioQueues(n), RingsSound(q),
           q.last_seen_used # q.used_index % n
    PROVE  LET r == Seen(q)
               x == q.used[q.last_seen_used]
           IN  /\ r \in VioQueues(n) /\ RingsSound(r) /\ SameFree(q, r) /\ r.chains = q.chains
               /\ x \in UsedUnseen(q) /\ UsedUnseen(r) = UsedUnseen(q) \ {x}
               /\ Unseen(r) = Unseen(q) - 1
               /\ Untaken(r) = Untaken(q) /\ Available(r) = Available(q)
               /\ r.held = q.held
<1> DEFINE r == Seen(q)
           l == q.last_seen_used
           used == [q.used EXCEPT ![l] = 0]
           v == q.used_index % n
           last == (l + 1) % n
           k == Unseen(q)
           x == q.used[l]
<1>1. n \in Nat \ {0} /\ q.length = n /\ q.used \in [0 .. n - 1 -> 0 .. n - 1]
  BY QueueFields DEF QueueLength, RingFcns
<1>2. /\ l \in 0 .. n - 1 /\ k \in 0 .. n - 1 /\ k # 0
      /\ last = Place(l, 1, n)
  BY SlotFacts
<1>3. RingSound(q.used, l, k, n) /\ UsedUnseen(q) = RingSet(q.used, l, k, n) /\ v \in 0 .. n - 1
      /\ k = Lag(v, l, n)
  BY <1>1, UnseenIs DEF RingsSound
<1>4. r = WithRings(q, q.avail, q.avail_index, used, q.used_index, q.dev_index, last, q.held)
  BY <1>1 DEF Seen, WithRings, VioQueues
<1>5. v # l
  OBVIOUS
<1> HIDE DEF r, k, l, last, v
<1>6. last \in DescSet(n)
  BY <1>1, <1>2, PlaceIs, 1 \in 0 .. n DEF DescSet
<1>7. Lag(v, last, n) = k - 1
  <2>2. Lag(v, (l + 1) % n, n) = Lag(v, l, n) - 1
    BY <1>1, <1>2, <1>3, <1>5, LagSteps
  <2> QED BY <1>3, <2>2 DEF last
<1>8. /\ RingSound(used, last, k - 1, n) /\ x \in RingSet(q.used, l, k, n)
      /\ RingSet(used, last, k - 1, n) = RingSet(q.used, l, k, n) \ {x}
  <2>1. k > 0
    BY <1>2
  <2>2. /\ RingSound(used, Place(l, 1, n), k - 1, n) /\ x \in RingSet(q.used, l, k, n)
        /\ RingSet(used, Place(l, 1, n), k - 1, n) = RingSet(q.used, l, k, n) \ {x}
    <3>1. ChangedAt(q.used, used, l, 0, n)
      BY <1>1, <1>2, 0 \in 0 .. n - 1, ChangedIs
    <3> DEFINE f == q.used
               p == Place(l, 1, n)
    <3>2. RingSound(f, l, k, n) /\ ChangedAt(f, used, l, 0, n) /\ n \in Nat \ {0}
      BY <1>1, <1>3, <3>1
    <3> HIDE DEF used, f
    <3>3. /\ RingSound(used, p, k - 1, n)
          /\ f[l] \in RingSet(f, l, k, n)
          /\ RingSet(used, p, k - 1, n) = RingSet(f, l, k, n) \ {f[l]}
      BY <2>1, <3>2, RingTake
    <3> QED BY <3>3 DEF f
  <2> QED BY <1>2, <2>2
<1> HIDE DEF used, x
<1>9. used \in RingFcns(n)
  BY <1>8 DEF RingSound, RingFcns
<1>10. /\ r \in VioQueues(n) /\ SameFree(q, r) /\ r.chains = q.chains
      /\ r.avail = q.avail /\ r.avail_index = q.avail_index /\ r.used = used
      /\ r.used_index = q.used_index /\ r.dev_index = q.dev_index
      /\ r.last_seen_used = last /\ r.held = q.held
  <2>1. /\ q.avail_index \in RingIndices /\ q.avail \in RingFcns(n) /\ q.held \in HeldSets(n)
        /\ q.used_index \in RingIndices /\ q.dev_index \in RingIndices
    BY QueueFields
  <2>2. RingFields(n, q, r, q.avail, q.avail_index, used, q.used_index, q.dev_index, last, q.held)
    BY <1>4, <1>6, <1>9, <2>1, WithRingsFields
  <2> QED BY <2>2 DEF RingFields
<1>11. r.length = n
  BY <1>1, <1>10 DEF SameFree
<1>12. Available(r) = Available(q) /\ Untaken(r) = Untaken(q)
  BY <1>1, <1>10, <1>11 DEF Available, Untaken
<1>13. Unseen(r) = k - 1
  <2>1. Unseen(r) = Lag(r.used_index % n, r.last_seen_used, n)
    BY <1>10, UnseenIs
  <2> QED BY <1>7, <1>10, <2>1 DEF v
<1>14. UsedUnseen(r) = UsedUnseen(q) \ {x}
  <2>1. UsedUnseen(r) = RingSet(r.used, r.last_seen_used, Unseen(r), n)
    BY <1>10, UnseenIs
  <2> QED BY <1>3, <1>8, <1>10, <1>13, <2>1
<1>15. RingsSound(r)
  BY <1>1, <1>8, <1>10, <1>11, <1>12, <1>13 DEF RingsSound
<1>16. x \in UsedUnseen(q)
  BY <1>3, <1>8
<1> QED BY <1>10, <1>12, <1>13, <1>14, <1>15, <1>16 DEF r, k, x, l
-----------------------------------------------------------------------------
\* A ring that lacks two descriptors has room for one and is not full then.
LEMMA RingHasRoom ==
    ASSUME NEW n \in Nat \ {0}, NEW ring, NEW start, NEW k, RingSound(ring, start, k, n),
           NEW x \in 0 .. n - 1, NEW y \in 0 .. n - 1, x # y,
           x \notin RingSet(ring, start, k, n), y \notin RingSet(ring, start, k, n)
    PROVE  k < n /\ k + 1 < n
<1>1. k < n
  BY RingFits
<1>2. /\ start \in 0 .. n - 1 /\ k \in 0 .. n /\ ring \in [0 .. n - 1 -> 0 .. n - 1]
      /\ Place(start, k, n) \in 0 .. n - 1
  <2>1. start \in 0 .. n - 1 /\ k \in 0 .. n /\ ring \in [0 .. n - 1 -> 0 .. n - 1]
    BY DEF RingSound
  <2> QED BY <2>1, PlaceIs
<1> DEFINE p == Place(start, k, n)
           new == [ring EXCEPT ![p] = x]
<1>3. ChangedAt(ring, new, p, x, n)
  BY <1>2, ChangedIs
<1> HIDE DEF new
<1>4. /\ RingSound(new, start, k + 1, n)
      /\ RingSet(new, start, k + 1, n) = RingSet(ring, start, k, n) \cup {x}
  <2>1. PutRing(ring, new, start, k, x, n)
    BY <1>1, <1>3, RingPut
  <2> QED BY <2>1 DEF PutRing
<1>5. y \notin RingSet(new, start, k + 1, n)
  BY <1>4
<1>6. k + 1 < n
  <2> DEFINE m == k + 1
  <2> HIDE DEF m
  <2>1. RingSound(new, start, m, n) /\ y \notin RingSet(new, start, m, n)
    BY <1>4, <1>5 DEF m
  <2>2. m < n
    BY <2>1, RingFits
  <2> QED BY <2>2 DEF m
<1> QED BY <1>1, <1>6

\* A queue is not longer than its indices count.
LEMMA WordFits ==
    ASSUME NEW n, QueueLength(n)
    PROVE  n <= IndexWord
<1>1. n \in Nat \ {0} /\ IndexWord \in Nat \ {0}
  BY DEF QueueLength
<1>2. PICK k \in Nat \ {0} : IndexWord = k * n
  BY <1>1, Multiple DEF QueueLength
<1>3. k * n >= 1 * n
  BY <1>1
<1> QED BY <1>1, <1>2, <1>3

\* Handing over one of two descriptors that the available ring lacks.
LEMMA SubmitFits ==
    ASSUME NEW n, QueueLength(n), NEW q \in VioQueues(n), RingsSound(q),
           NEW x \in 0 .. n - 1, NEW y \in 0 .. n - 1, x # y,
           x \notin Untaken(q), y \notin Untaken(q)
    PROVE  Available(q) < n /\ Available(q) + 1 < IndexWord
<1>1. n \in Nat \ {0} /\ q.length = n /\ IndexWord \in Nat \ {0}
  BY QueueFields DEF QueueLength
<1> DEFINE k == Available(q)
           d == q.dev_index % n
<1>2. RingSound(q.avail, d, k, n) /\ Untaken(q) = RingSet(q.avail, d, k, n) /\ k \in 0 .. n
  BY <1>1 DEF RingsSound, Untaken, RingSound
<1> HIDE DEF k, d
<1>3. k < n /\ k + 1 < n
  BY <1>1, <1>2, RingHasRoom
<1>4. n <= IndexWord
  BY WordFits
<1> QED BY <1>1, <1>2, <1>3, <1>4 DEF k

\* Returning one of two descriptors that the used ring lacks.
LEMMA ReturnFits ==
    ASSUME NEW n, QueueLength(n), NEW q \in VioQueues(n), RingsSound(q),
           NEW x \in 0 .. n - 1, NEW y \in 0 .. n - 1, x # y,
           x \notin UsedUnseen(q), y \notin UsedUnseen(q)
    PROVE  Unseen(q) + 1 < n
<1>1. n \in Nat \ {0} /\ q.length = n
  BY QueueFields DEF QueueLength
<1> DEFINE k == Unseen(q)
           l == q.last_seen_used
<1>2. RingSound(q.used, l, k, n) /\ UsedUnseen(q) = RingSet(q.used, l, k, n)
  BY <1>1, UnseenIs DEF RingsSound
<1> HIDE DEF k, l
<1>3. k < n /\ k + 1 < n
  BY <1>1, <1>2, RingHasRoom
<1> QED BY <1>3 DEF k

\* Two changes that leave the rings alone.
LEMMA SameRingsTrans ==
    ASSUME NEW p, NEW q, NEW r, SameRings(p, q), SameRings(q, r)
    PROVE  SameRings(p, r)
BY DEF SameRings

\* The three descriptors of a chain go back.
LEMMA FreeChainStep ==
    ASSUME NEW n, QueueLength(n), NEW q \in VioQueues(n), FreeSound(q),
           NEW a \in (0 .. n - 1) \ FreeList(q), NEW b \in (0 .. n - 1) \ FreeList(q),
           NEW c \in (0 .. n - 1) \ FreeList(q), a # b, a # c, b # c,
           q.next[a] = b, q.next[b] = c
    PROVE  LET r == FreeChain(q, a)
           IN  /\ r \in VioQueues(n) /\ FreeSound(r) /\ SameRings(q, r)
               /\ FreeList(r) = FreeList(q) \cup {a, b, c}
               /\ \A y \in (0 .. n - 1) \ {a, b, c} : r.next[y] = q.next[y]
<1> DEFINE q1 == free_descriptor(q, c)
           q2 == free_descriptor(q1, b)
           r == free_descriptor(q2, a)
<1>1. /\ q1 \in VioQueues(n) /\ FreeSound(q1) /\ SameRings(q, q1)
      /\ FreeList(q1) = FreeList(q) \cup {c}
      /\ \A y \in (0 .. n - 1) \ {c} : q1.next[y] = q.next[y]
  BY FreeStep
<1> HIDE DEF q1
<1>2. /\ q2 \in VioQueues(n) /\ FreeSound(q2) /\ SameRings(q1, q2)
      /\ FreeList(q2) = FreeList(q1) \cup {b}
      /\ \A y \in (0 .. n - 1) \ {b} : q2.next[y] = q1.next[y]
  <2>1. b \notin FreeList(q1)
    BY <1>1
  <2> QED BY <1>1, <2>1, FreeStep
<1> HIDE DEF q2
<1>3. /\ r \in VioQueues(n) /\ FreeSound(r) /\ SameRings(q2, r)
      /\ FreeList(r) = FreeList(q2) \cup {a}
      /\ \A y \in (0 .. n - 1) \ {a} : r.next[y] = q2.next[y]
  <2>1. a \notin FreeList(q2)
    BY <1>1, <1>2
  <2> QED BY <1>2, <2>1, FreeStep
<1>4. FreeChain(q, a) = r
  BY DEF FreeChain, q1, q2
<1> HIDE DEF r
<1>5. SameRings(q, r)
  BY <1>1, <1>2, <1>3, SameRingsTrans
<1>6. FreeList(r) = FreeList(q) \cup {a, b, c}
  BY <1>1, <1>2, <1>3
<1>7. \A y \in (0 .. n - 1) \ {a, b, c} : r.next[y] = q.next[y]
  BY <1>1, <1>2, <1>3
<1> QED BY <1>3, <1>4, <1>5, <1>6, <1>7

\* Three descriptors are taken from a list that has them.
ThreeTaken(n, q, q3, d1, d2, d3) ==
    /\ q3 \in VioQueues(n) /\ FreeSound(q3) /\ SameRings(q, q3) /\ q3.next = q.next
    /\ {d1, d2, d3} \subseteq FreeList(q) /\ FreeList(q3) = FreeList(q) \ {d1, d2, d3}
    /\ d1 # d2 /\ d1 # d3 /\ d2 # d3 /\ {d1, d2, d3} \subseteq 0 .. n - 1
\* Three descriptors are allocated when three are free.
LEMMA ThreeStep ==
    ASSUME NEW n, QueueLength(n), NEW q \in VioQueues(n), FreeSound(q), q.num_free_descs >= 3
    PROVE  LET q1 == alloc_descriptor(q)
               q2 == alloc_descriptor(q1)
           IN  ThreeTaken(n, q, alloc_descriptor(q2), q.free_desc_index, q1.free_desc_index,
                          q2.free_desc_index)
<1> DEFINE d1 == q.free_desc_index
           q1 == alloc_descriptor(q)
           d2 == q1.free_desc_index
           q2 == alloc_descriptor(q1)
           d3 == q2.free_desc_index
           q3 == alloc_descriptor(q2)
<1>1. q.num_free_descs \in Nat /\ FreeList(q) \subseteq 0 .. n - 1 /\ d1 # n /\ d1 \in FreeList(q)
  BY FreeFacts
<1>2. /\ q1 \in VioQueues(n) /\ FreeSound(q1) /\ SameRings(q, q1)
      /\ FreeList(q1) = FreeList(q) \ {d1}
      /\ q1.num_free_descs = q.num_free_descs - 1 /\ q1.next = q.next
  BY <1>1, AllocStep
<1> HIDE DEF q1, d1
<1>3. d2 # n /\ d2 \in FreeList(q1) /\ q1.num_free_descs >= 2 /\ q1.num_free_descs \in Nat
  BY <1>1, <1>2, FreeFacts
<1>4. /\ q2 \in VioQueues(n) /\ FreeSound(q2) /\ SameRings(q1, q2)
      /\ FreeList(q2) = FreeList(q1) \ {d2}
      /\ q2.num_free_descs = q1.num_free_descs - 1 /\ q2.next = q1.next
  BY <1>2, <1>3, AllocStep
<1> HIDE DEF q2, d2
<1>5. d3 # n /\ d3 \in FreeList(q2)
  BY <1>3, <1>4, FreeFacts
<1>6. /\ q3 \in VioQueues(n) /\ FreeSound(q3) /\ SameRings(q2, q3)
      /\ FreeList(q3) = FreeList(q2) \ {d3} /\ q3.next = q2.next
  BY <1>4, <1>5, AllocStep
<1> HIDE DEF q3, d3
<1>7. SameRings(q, q3)
  BY <1>2, <1>4, <1>6, SameRingsTrans
<1>8. {d1, d2, d3} \subseteq FreeList(q) /\ FreeList(q3) = FreeList(q) \ {d1, d2, d3}
      /\ d1 # d2 /\ d1 # d3 /\ d2 # d3 /\ {d1, d2, d3} \subseteq 0 .. n - 1
  BY <1>1, <1>2, <1>3, <1>4, <1>5, <1>6
<1>9. ThreeTaken(n, q, q3, d1, d2, d3)
  BY <1>2, <1>4, <1>6, <1>7, <1>8 DEF ThreeTaken
<1> QED BY <1>9 DEF q1, q2, q3, d1, d2, d3
-----------------------------------------------------------------------------
\* A call of read_write_block: what it holds, and the head of its chain while the
\* chain is on its way.
CallRecords == [pc : {"idle", "allocating", "failing", "waiting"}, held : Seq(0 .. BlockLength - 1)]
Own(r) == {r.held[i] : i \in DOMAIN r.held}
HeadOf(r) == IF r.pc = "waiting" THEN {r.held[1]} ELSE {}
CallSound(q, r) ==
    /\ r \in CallRecords /\ Len(r.held) <= 3
    /\ \A i, j \in 1 .. Len(r.held) : r.held[i] = r.held[j] => i = j
    /\ r.pc = "idle" => r.held = <<>>
    /\ r.pc = "waiting" => /\ Len(r.held) = 3 /\ q.next[r.held[1]] = r.held[2]
                           /\ q.next[r.held[2]] = r.held[3]

\* The chains on their way: handed over, taken by the device, returned.
Transit(q) == Untaken(q) \cup q.held \cup UsedUnseen(q)
TransitSound(q) ==
    /\ Untaken(q) \cap q.held = {} /\ Untaken(q) \cap UsedUnseen(q) = {}
    /\ UsedUnseen(q) \cap q.held = {}

\* Every descriptor is free or held by one call.
Shared(F, call) ==
    /\ \A x \in 0 .. BlockLength - 1 : x \in F \/ \E c \in VioCallers : x \in Own(call[c])
    /\ \A c \in VioCallers : F \cap Own(call[c]) = {}
    /\ \A c, d \in VioCallers : c # d => Own(call[c]) \cap Own(call[d]) = {}

BlockOK(q, call) ==
    /\ q \in VioQueues(BlockLength) /\ RingsSound(q) /\ FreeSound(q)
    /\ \A c \in VioCallers : CallSound(q, call[c])
    /\ Shared(FreeList(q), call)
    /\ Transit(q) = UNION {HeadOf(call[c]) : c \in VioCallers} /\ TransitSound(q)
BlockInv == vio_call \in [VioCallers -> CallRecords] /\ BlockOK(vio_queue, vio_call)

\* The lengths of both queues divide the range of the indices.
LEMMA BlockQueue == QueueLength(BlockLength) /\ QueueLength(RxLength)
BY VirtioAssumption DEF QueueLength

\* The head of a call's chain is one of its descriptors.
LEMMA HeadIsHeld ==
    ASSUME NEW q, NEW r, CallSound(q, r)
    PROVE  /\ HeadOf(r) \subseteq Own(r) /\ Own(r) \subseteq 0 .. BlockLength - 1
           /\ r.held \in Seq(0 .. BlockLength - 1) /\ DOMAIN r.held = 1 .. Len(r.held)
           /\ Len(r.held) \in Nat
<1>1. r.held \in Seq(0 .. BlockLength - 1)
  BY DEF CallSound, CallRecords
<1>2. DOMAIN r.held = 1 .. Len(r.held) /\ Len(r.held) \in Nat
  BY <1>1
<1>3. r.pc = "waiting" => 1 \in DOMAIN r.held
  BY <1>2 DEF CallSound
<1>4. Own(r) \subseteq 0 .. BlockLength - 1
  <2> DEFINE S == 0 .. BlockLength - 1
             h == r.held
  <2> HIDE DEF S, h
  <2>1. h \in Seq(S) /\ DOMAIN h = 1 .. Len(h)
    BY <1>1, <1>2 DEF S, h
  <2>2. \A i \in 1 .. Len(h) : h[i] \in S
    BY <2>1
  <2> QED BY <2>1, <2>2 DEF Own, S, h
<1> QED BY <1>1, <1>2, <1>3, <1>4 DEF HeadOf, Own

\* What a call that waits holds.
LEMMA ChainFacts ==
    ASSUME NEW q, NEW r, CallSound(q, r), r.pc = "waiting"
    PROVE  /\ {r.held[1], r.held[2], r.held[3]} \subseteq 0 .. BlockLength - 1
           /\ Own(r) = {r.held[1], r.held[2], r.held[3]}
           /\ r.held[1] # r.held[2] /\ r.held[1] # r.held[3] /\ r.held[2] # r.held[3]
           /\ q.next[r.held[1]] = r.held[2] /\ q.next[r.held[2]] = r.held[3]
<1>1. /\ DOMAIN r.held = 1 .. 3 /\ Own(r) \subseteq 0 .. BlockLength - 1 /\ Len(r.held) = 3
      /\ \A i, j \in 1 .. 3 : r.held[i] = r.held[j] => i = j
  BY HeadIsHeld DEF CallSound
<1>2. 1 .. 3 = {1, 2, 3}
  OBVIOUS
<1>3. Own(r) = {r.held[1], r.held[2], r.held[3]}
  BY <1>1, <1>2 DEF Own
<1>4. r.held[1] # r.held[2] /\ r.held[1] # r.held[3] /\ r.held[2] # r.held[3]
  BY <1>1
<1> QED BY <1>1, <1>3, <1>4 DEF CallSound

\* One call and the queue change.
LEMMA BlockChange ==
    ASSUME NEW q, NEW call \in [VioCallers -> CallRecords], BlockOK(q, call),
           NEW c \in VioCallers, NEW r, NEW q2 \in VioQueues(BlockLength),
           RingsSound(q2), FreeSound(q2), CallSound(q2, r),
           FreeList(q2) \cup Own(r) = FreeList(q) \cup Own(call[c]), FreeList(q2) \cap Own(r) = {},
           \A y \in (0 .. BlockLength - 1) \ (FreeList(q) \cup Own(call[c])) : q2.next[y] = q.next[y],
           TransitSound(q2), Transit(q2) = (Transit(q) \ HeadOf(call[c])) \cup HeadOf(r),
           NEW call2, call2 = [call EXCEPT ![c] = r]
    PROVE  call2 \in [VioCallers -> CallRecords] /\ BlockOK(q2, call2)
<1>1. /\ \A d \in VioCallers : CallSound(q, call[d])
      /\ Shared(FreeList(q), call)
      /\ Transit(q) = UNION {HeadOf(call[d]) : d \in VioCallers}
  BY DEF BlockOK
<1>2. /\ call2 \in [VioCallers -> CallRecords] /\ call2[c] = r
      /\ \A d \in VioCallers \ {c} : call2[d] = call[d]
  <2>1. r \in CallRecords
    BY DEF CallSound
  <2> QED BY <2>1
<1>3. \A d \in VioCallers : /\ HeadOf(call[d]) \subseteq Own(call[d])
                            /\ Own(call[d]) \subseteq 0 .. BlockLength - 1
  BY <1>1, HeadIsHeld
<1>4. ASSUME NEW d \in VioCallers PROVE CallSound(q2, call2[d])
  <2>1. CASE d = c
    BY <1>2, <2>1
  <2>2. CASE d # c
    <3>1. call2[d] = call[d] /\ CallSound(q, call[d])
      BY <1>1, <1>2, <2>2
    <3>2. \A y \in Own(call[d]) : q2.next[y] = q.next[y]
      BY <1>1, <1>3, <2>2 DEF Shared
    <3> DEFINE s == call[d]
    <3> HIDE DEF s
    <3>3. CallSound(q, s) /\ \A y \in Own(s) : q2.next[y] = q.next[y]
      BY <3>1, <3>2 DEF s
    <3>4. s.pc = "waiting" => {s.held[1], s.held[2]} \subseteq Own(s)
      BY <3>3, ChainFacts
    <3>5. CallSound(q2, s)
      BY <3>3, <3>4 DEF CallSound
    <3> QED BY <3>1, <3>5 DEF s
  <2> QED BY <2>1, <2>2
<1>5. Shared(FreeList(q2), call2)
  <2> DEFINE F == FreeList(q)
             F2 == FreeList(q2)
             S == 0 .. BlockLength - 1
  <2>1. F2 \cup Own(r) = F \cup Own(call[c]) /\ F2 \cap Own(r) = {}
    OBVIOUS
  <2>2. /\ \A x \in S : x \in F \/ \E d \in VioCallers : x \in Own(call[d])
        /\ \A d \in VioCallers : F \cap Own(call[d]) = {}
        /\ \A d, e \in VioCallers : d # e => Own(call[d]) \cap Own(call[e]) = {}
    BY <1>1 DEF Shared
  <2> HIDE DEF F, F2, S
  <2>3. \A x \in S : x \in F2 \/ \E d \in VioCallers : x \in Own(call2[d])
    BY <1>2, <2>1, <2>2
  <2>4. \A d \in VioCallers : F2 \cap Own(call2[d]) = {}
    BY <1>2, <2>1, <2>2
  <2>5. \A d, e \in VioCallers : d # e => Own(call2[d]) \cap Own(call2[e]) = {}
    BY <1>2, <2>1, <2>2
  <2> QED BY <2>3, <2>4, <2>5 DEF Shared, F2, S
<1>6. Transit(q2) = UNION {HeadOf(call2[d]) : d \in VioCallers}
  <2>1. \A d \in VioCallers \ {c} : HeadOf(call[d]) \cap HeadOf(call[c]) = {}
    BY <1>1, <1>3 DEF Shared
  <2>2. \A d \in VioCallers \ {c} : HeadOf(call2[d]) = HeadOf(call[d])
    BY <1>2
  <2>3. HeadOf(call2[c]) = HeadOf(r)
    BY <1>2
  <2>4. UNION {HeadOf(call2[d]) : d \in VioCallers}
           = ((UNION {HeadOf(call[d]) : d \in VioCallers}) \ HeadOf(call[c])) \cup HeadOf(r)
    BY <2>1, <2>2, <2>3
  <2> QED BY <1>1, <2>4
<1> QED BY <1>2, <1>4, <1>5, <1>6 DEF BlockOK

\* Neither a free descriptor nor one behind the head of a chain is on its way.
LEMMA NotInTransit ==
    ASSUME NEW q, NEW call, BlockOK(q, call), NEW x,
           x \in FreeList(q) \/ \E c \in VioCallers : x \in Own(call[c]) \ HeadOf(call[c])
    PROVE  x \notin Untaken(q) /\ x \notin q.held /\ x \notin UsedUnseen(q)
<1> SUFFICES ASSUME x \in Transit(q) PROVE FALSE
  BY DEF Transit
<1>1. \A c \in VioCallers : HeadOf(call[c]) \subseteq Own(call[c])
  BY HeadIsHeld DEF BlockOK
<1>2. PICK d \in VioCallers : x \in HeadOf(call[d])
  BY DEF BlockOK
<1>3. x \notin FreeList(q)
  BY <1>1, <1>2 DEF BlockOK, Shared
<1>4. PICK c \in VioCallers : x \in Own(call[c]) \ HeadOf(call[c])
  BY <1>3
<1>5. c = d
  BY <1>1, <1>2, <1>4 DEF BlockOK, Shared
<1> QED BY <1>2, <1>4, <1>5

\* Changing the free list moves no chain.
LEMMA TransitKept ==
    ASSUME NEW q, NEW r, SameRings(q, r)
    PROVE  Transit(r) = Transit(q) /\ (TransitSound(q) => TransitSound(r))
<1>1. r.held = q.held /\ Untaken(r) = Untaken(q) /\ UsedUnseen(r) = UsedUnseen(q)
  BY RingsKept DEF SameRings
<1> QED BY <1>1 DEF Transit, TransitSound

\* A queue has its own rings.
LEMMA SameRingsSelf == \A q : SameRings(q, q)
BY DEF SameRings

\* A call starts.
LEMMA CallStep ==
    ASSUME BlockInv, NEW c \in VioCallers, read_write_block(c)
    PROVE  BlockInv'
<1> DEFINE q == vio_queue
           call == vio_call
           r == [call[c] EXCEPT !.pc = "allocating"]
<1>1. /\ BlockOK(q, call) /\ call \in [VioCallers -> CallRecords] /\ CallSound(q, call[c])
      /\ call[c].pc = "idle" /\ call[c].held = <<>> /\ call[c] \in CallRecords
  BY DEF BlockInv, BlockOK, CallSound, read_write_block
<1>2. vio_call' = [call EXCEPT ![c] = r] /\ vio_queue' = q
  BY <1>1 DEF read_write_block
<1>3. r \in CallRecords /\ r.pc = "allocating" /\ r.held = <<>>
  BY <1>1 DEF CallRecords
<1> HIDE DEF r
<1>4. CallSound(q, r) /\ Own(r) = {} /\ HeadOf(r) = {} /\ Own(call[c]) = {} /\ HeadOf(call[c]) = {}
  BY <1>1, <1>3 DEF CallSound, Own, HeadOf
<1>5. q \in VioQueues(BlockLength) /\ RingsSound(q) /\ FreeSound(q) /\ TransitSound(q)
  BY <1>1 DEF BlockOK
<1> HIDE DEF q, call
<1>6. vio_call' \in [VioCallers -> CallRecords] /\ BlockOK(q, vio_call')
  <2>1. /\ FreeList(q) \cup Own(r) = FreeList(q) \cup Own(call[c]) /\ FreeList(q) \cap Own(r) = {}
        /\ Transit(q) = (Transit(q) \ HeadOf(call[c])) \cup HeadOf(r)
    BY <1>4
  <2> QED BY <1>1, <1>2, <1>4, <1>5, <2>1, BlockChange
<1> QED BY <1>2, <1>6 DEF BlockInv, BlockOK

\* One more descriptor.
LEMMA AllocateStep ==
    ASSUME BlockInv, NEW c \in VioCallers, allocate(c)
    PROVE  BlockInv'
<1> DEFINE q == vio_queue
           call == vio_call
           h == call[c].held
           x == q.free_desc_index
           r == [call[c] EXCEPT !.held = Append(h, x)]
           q2 == alloc_descriptor(q)
<1>1. /\ BlockOK(q, call) /\ call \in [VioCallers -> CallRecords] /\ CallSound(q, call[c])
      /\ call[c].pc = "allocating" /\ call[c] \in CallRecords
      /\ Len(h) < 3 /\ x # BlockLength
  BY DEF BlockInv, BlockOK, CallSound, allocate
<1>2. vio_call' = [call EXCEPT ![c] = r] /\ vio_queue' = q2
  BY <1>1 DEF allocate
<1>3. q \in VioQueues(BlockLength) /\ RingsSound(q) /\ FreeSound(q) /\ TransitSound(q)
      /\ Shared(FreeList(q), call)
  BY <1>1 DEF BlockOK
<1> HIDE DEF q, call
<1>4. x \in FreeList(q) /\ FreeList(q) \subseteq 0 .. BlockLength - 1
  BY <1>1, <1>3, FreeFacts, BlockQueue
<1>5. /\ q2 \in VioQueues(BlockLength) /\ FreeSound(q2) /\ SameRings(q, q2)
      /\ FreeList(q2) = FreeList(q) \ {x} /\ q2.next = q.next
  BY <1>1, <1>3, AllocStep, BlockQueue
<1>6. /\ h \in Seq(0 .. BlockLength - 1) /\ Len(h) \in Nat /\ Own(call[c]) = {h[i] : i \in 1 .. Len(h)}
      /\ \A i, j \in 1 .. Len(h) : h[i] = h[j] => i = j
  BY <1>1, HeadIsHeld DEF CallSound, Own
<1> DEFINE g == Append(h, x)
<1>7. /\ g \in Seq(0 .. BlockLength - 1) /\ Len(g) = Len(h) + 1 /\ g[Len(h) + 1] = x
      /\ \A i \in 1 .. Len(h) : g[i] = h[i]
  <2> HIDE DEF h, x
  <2> QED BY <1>4, <1>6
<1> HIDE DEF g
<1>8. r \in CallRecords /\ r.pc = "allocating" /\ r.held = g
  BY <1>1, <1>7 DEF CallRecords, g
<1>9. x \notin Own(call[c])
  BY <1>3, <1>4 DEF Shared
<1> HIDE DEF r, q2, x, h
<1>a. \A i \in 1 .. Len(h) + 1 : i \in 1 .. Len(h) \/ i = Len(h) + 1
  BY <1>6
<1>b. Own(r) = Own(call[c]) \cup {x} /\ HeadOf(r) = {} /\ HeadOf(call[c]) = {}
  <2>1. DOMAIN g = 1 .. Len(h) + 1
    BY <1>6, <1>7
  <2>2. \A i \in 1 .. Len(h) : i \in 1 .. Len(h) + 1
    BY <1>6
  <2>3. Len(h) + 1 \in 1 .. Len(h) + 1
    BY <1>6
  <2>4. Own(r) = {g[i] : i \in 1 .. Len(h) + 1}
    BY <1>8, <2>1 DEF Own
  <2>5. Own(r) = Own(call[c]) \cup {x}
    <3>1. \A y \in Own(r) : y \in Own(call[c]) \cup {x}
      BY <1>6, <1>7, <1>a, <2>4
    <3>2. \A y \in Own(call[c]) \cup {x} : y \in Own(r)
      BY <1>6, <1>7, <2>2, <2>3, <2>4
    <3> QED BY <3>1, <3>2
  <2> QED BY <1>1, <1>8, <2>5 DEF HeadOf
<1>10. CallSound(q2, r)
  <2>1. Len(g) <= 3
    BY <1>1, <1>6, <1>7
  <2>2. ASSUME NEW i \in 1 .. Len(g), NEW j \in 1 .. Len(g), g[i] = g[j]
        PROVE  i = j
    BY <1>6, <1>7, <1>9, <1>a, <2>2
  <2> QED BY <1>8, <2>1, <2>2 DEF CallSound
<1>11. RingsSound(q2) /\ TransitSound(q2) /\ Transit(q2) = Transit(q)
  BY <1>3, <1>5, RingsKept, TransitKept
<1>12. vio_call' \in [VioCallers -> CallRecords] /\ BlockOK(q2, vio_call')
  <2>1. /\ FreeList(q2) \cup Own(r) = FreeList(q) \cup Own(call[c]) /\ FreeList(q2) \cap Own(r) = {}
        /\ Transit(q2) = (Transit(q) \ HeadOf(call[c])) \cup HeadOf(r)
    BY <1>3, <1>4, <1>5, <1>b, <1>11 DEF Shared
  <2> QED BY <1>1, <1>2, <1>5, <1>10, <1>11, <2>1, BlockChange
<1> QED BY <1>2, <1>12 DEF BlockInv, BlockOK

\* A sequence without its last element.
LEMMA DropLast ==
    ASSUME NEW S, NEW h \in Seq(S), Len(h) # 0
    PROVE  /\ SubSeq(h, 1, Len(h) - 1) \in Seq(S) /\ Len(SubSeq(h, 1, Len(h) - 1)) = Len(h) - 1
           /\ \A i \in 1 .. Len(h) - 1 : SubSeq(h, 1, Len(h) - 1)[i] = h[i]
<1> DEFINE m == Len(h) - 1
           g == SubSeq(h, 1, m)
<1>1. m \in Nat /\ \A i \in 1 .. m : h[i] \in S
  OBVIOUS
<1>2. m \in Int /\ 1 \in Int
  BY <1>1
<1> HIDE DEF m
<1>3. /\ g \in Seq(S) /\ Len(g) = IF 1 <= m THEN m - 1 + 1 ELSE 0
      /\ \A i \in 1 .. m - 1 + 1 : g[i] = h[1 + i - 1]
  BY <1>1, <1>2, SubSeqProperties
<1> HIDE DEF g
<1>4. m - 1 + 1 = m /\ \A i \in 1 .. m : 1 + i - 1 = i
  BY <1>1
<1>5. Len(g) = m /\ \A i \in 1 .. m : g[i] = h[i]
  BY <1>1, <1>3, <1>4
<1> QED BY <1>3, <1>5 DEF g, m

\* A call that cannot get three gives one back, or ends.
LEMMA FailStep ==
    ASSUME BlockInv, NEW c \in VioCallers, fail(c)
    PROVE  BlockInv'
<1> DEFINE q == vio_queue
           call == vio_call
           h == call[c].held
<1>1. /\ BlockOK(q, call) /\ call \in [VioCallers -> CallRecords] /\ CallSound(q, call[c])
      /\ call[c].pc \in {"allocating", "failing"} /\ call[c] \in CallRecords
  BY DEF BlockInv, BlockOK, CallSound, fail
<1>2. q \in VioQueues(BlockLength) /\ RingsSound(q) /\ FreeSound(q) /\ TransitSound(q)
      /\ Shared(FreeList(q), call) /\ HeadOf(call[c]) = {}
  BY <1>1 DEF BlockOK, HeadOf
<1>3. CASE h = <<>>
  <2>1. vio_call' = [call EXCEPT ![c] = Idle] /\ vio_queue' = q
    BY <1>3 DEF fail
  <2>2. CallSound(q, Idle) /\ Own(Idle) = {} /\ HeadOf(Idle) = {} /\ Own(call[c]) = {}
    BY <1>3 DEF CallSound, Own, HeadOf, Idle, CallRecords
  <2> HIDE DEF q, call
  <2>3. vio_call' \in [VioCallers -> CallRecords] /\ BlockOK(q, vio_call')
    <3>1. /\ FreeList(q) \cup Own(Idle) = FreeList(q) \cup Own(call[c])
          /\ FreeList(q) \cap Own(Idle) = {}
          /\ Transit(q) = (Transit(q) \ HeadOf(call[c])) \cup HeadOf(Idle)
      BY <1>2, <2>2
    <3> QED BY <1>1, <1>2, <2>1, <2>2, <3>1, BlockChange
  <2> QED BY <2>1, <2>3 DEF BlockInv, BlockOK
<1>4. CASE h # <<>>
  <2> DEFINE m == Len(h)
             x == h[m]
             g == SubSeq(h, 1, m - 1)
             r == [pc |-> "failing", held |-> g]
             q2 == free_descriptor(q, x)
  <2>1. vio_call' = [call EXCEPT ![c] = r] /\ vio_queue' = q2
    BY <1>4 DEF fail
  <2>2. /\ h \in Seq(0 .. BlockLength - 1) /\ m \in Nat /\ m <= 3
        /\ Own(call[c]) = {h[i] : i \in 1 .. m}
        /\ \A i, j \in 1 .. m : h[i] = h[j] => i = j
    BY <1>1, HeadIsHeld DEF CallSound, Own
  <2> HIDE DEF q, call, h
  <2>3. m # 0 /\ m \in 1 .. m
    BY <1>4, <2>2
  <2>4. x \in Own(call[c]) /\ x \in 0 .. BlockLength - 1
    <3> DEFINE S == 0 .. BlockLength - 1
    <3>1. h \in Seq(S) /\ m \in 1 .. Len(h)
      BY <2>2, <2>3
    <3> HIDE DEF S, m
    <3>2. h[m] \in S
      BY <3>1
    <3> QED BY <2>2, <2>3, <3>2 DEF S
  <2>5. g \in Seq(0 .. BlockLength - 1) /\ Len(g) = m - 1 /\ \A i \in 1 .. m - 1 : g[i] = h[i]
    <3> DEFINE S == 0 .. BlockLength - 1
    <3>1. h \in Seq(S) /\ m = Len(h) /\ Len(h) # 0
      BY <2>2, <2>3
    <3> HIDE DEF S, m
    <3>2. /\ SubSeq(h, 1, m - 1) \in Seq(S) /\ Len(SubSeq(h, 1, m - 1)) = m - 1
          /\ \A i \in 1 .. m - 1 : SubSeq(h, 1, m - 1)[i] = h[i]
      BY <3>1, DropLast
    <3> QED BY <3>2 DEF S
  <2> HIDE DEF g, m
  <2>6. r \in CallRecords /\ r.pc = "failing" /\ r.held = g
    BY <2>5 DEF CallRecords
  <2> HIDE DEF r, x
  <2>7. Own(r) = Own(call[c]) \ {x} /\ HeadOf(r) = {}
    <3>1. DOMAIN g = 1 .. m - 1
      BY <2>2, <2>3, <2>5
    <3>2. Own(r) = {h[i] : i \in 1 .. m - 1}
      BY <2>5, <2>6, <3>1 DEF Own
    <3>3. \A i \in 1 .. m : i \in 1 .. m - 1 \/ i = m
      BY <2>2
    <3>4. \A i \in 1 .. m - 1 : i \in 1 .. m /\ i # m
      BY <2>2
    <3>5. Own(r) = Own(call[c]) \ {x}
      BY <2>2, <2>3, <3>2, <3>3, <3>4 DEF x
    <3> QED BY <2>6, <3>5 DEF HeadOf
  <2>8. x \notin FreeList(q)
    BY <1>2, <2>4 DEF Shared
  <2>9. /\ q2 \in VioQueues(BlockLength) /\ FreeSound(q2) /\ SameRings(q, q2)
        /\ FreeList(q2) = FreeList(q) \cup {x}
        /\ \A y \in (0 .. BlockLength - 1) \ {x} : q2.next[y] = q.next[y]
    BY <1>2, <2>4, <2>8, FreeStep, BlockQueue
  <2> HIDE DEF q2
  <2>10. CallSound(q2, r)
    <3>1. Len(g) <= 3 /\ \A i \in 1 .. Len(g) : i \in 1 .. m /\ g[i] = h[i]
      BY <2>2, <2>3, <2>5
    <3> QED BY <2>2, <2>6, <3>1 DEF CallSound
  <2>11. RingsSound(q2) /\ TransitSound(q2) /\ Transit(q2) = Transit(q)
    BY <1>2, <2>9, RingsKept, TransitKept
  <2>12. vio_call' \in [VioCallers -> CallRecords] /\ BlockOK(q2, vio_call')
    <3>1. /\ FreeList(q2) \cup Own(r) = FreeList(q) \cup Own(call[c])
          /\ FreeList(q2) \cap Own(r) = {}
          /\ Transit(q2) = (Transit(q) \ HeadOf(call[c])) \cup HeadOf(r)
      BY <1>2, <2>4, <2>7, <2>9, <2>11 DEF Shared
    <3>2. \A y \in (0 .. BlockLength - 1) \ (FreeList(q) \cup Own(call[c])) : q2.next[y] = q.next[y]
      BY <2>4, <2>9
    <3> QED BY <1>1, <2>1, <2>9, <2>10, <2>11, <3>1, <3>2, BlockChange
  <2> QED BY <2>1, <2>12 DEF BlockInv, BlockOK
<1> QED BY <1>3, <1>4

\* A chain of three descriptors outside the free list is handed over.
Handed(n, q, q2, d1, d2, d3) ==
    /\ q2 \in VioQueues(n) /\ RingsSound(q2) /\ FreeSound(q2) /\ FreeList(q2) = FreeList(q)
    /\ q2.next[d1] = d2 /\ q2.next[d2] = d3
    /\ \A y \in (0 .. n - 1) \ {d1, d2} : q2.next[y] = q.next[y]
    /\ Untaken(q2) = Untaken(q) \cup {d1} /\ UsedUnseen(q2) = UsedUnseen(q) /\ q2.held = q.held
    /\ q2.used = q.used /\ q2.used_index = q.used_index
    /\ q2.last_seen_used = q.last_seen_used /\ q2.length = q.length
\* A chain of three that nobody else holds is linked and handed over.
LEMMA HandStep ==
    ASSUME NEW n, QueueLength(n), NEW q \in VioQueues(n), RingsSound(q), FreeSound(q), NEW h,
           h[1] \in (0 .. n - 1) \ FreeList(q), h[2] \in (0 .. n - 1) \ FreeList(q),
           h[3] \in 0 .. n - 1, h[1] # h[2], h[1] \notin Untaken(q), h[2] \notin Untaken(q)
    PROVE  Handed(n, q, submit_descriptor(Linked(q, h), h[1]), h[1], h[2], h[3])
<1> DEFINE p == Linked(q, h)
           d1 == h[1]
           d2 == h[2]
           d3 == h[3]
           r == submit_descriptor(p, d1)
<1>1. /\ p \in VioQueues(n) /\ FreeSound(p) /\ SameRings(q, p)
      /\ FreeList(p) = FreeList(q)
      /\ p.next[d1] = d2 /\ p.next[d2] = d3
      /\ \A y \in (0 .. n - 1) \ {d1, d2} : p.next[y] = q.next[y]
  BY LinkedStep
<1> HIDE DEF p
<1>2. RingsSound(p) /\ Untaken(p) = Untaken(q) /\ UsedUnseen(p) = UsedUnseen(q)
      /\ p.held = q.held /\ p.used = q.used /\ p.used_index = q.used_index
      /\ p.last_seen_used = q.last_seen_used /\ p.length = q.length
  BY <1>1, RingsKept DEF SameRings
<1>3. /\ d1 \in 0 .. n - 1 /\ d2 \in 0 .. n - 1 /\ d1 # d2 /\ d1 \notin Untaken(p)
      /\ d2 \notin Untaken(p)
  BY <1>2
<1> HIDE DEF d1, d2, d3
<1>4. Available(p) < n /\ Available(p) + 1 < IndexWord
  BY <1>1, <1>2, <1>3, SubmitFits
<1>5. /\ r \in VioQueues(n) /\ RingsSound(r) /\ SameFree(p, r)
      /\ Untaken(r) = Untaken(p) \cup {d1} /\ UsedUnseen(r) = UsedUnseen(p)
      /\ r.held = p.held /\ r.used = p.used /\ r.used_index = p.used_index
      /\ r.last_seen_used = p.last_seen_used
  BY <1>1, <1>2, <1>3, <1>4, SubmitStep
<1> HIDE DEF r
<1>6. FreeSound(r) /\ FreeList(r) = FreeList(p) /\ r.next = p.next /\ r.length = p.length
  BY <1>1, <1>5, FreeKept DEF SameFree
<1>7. Handed(n, q, r, d1, d2, d3)
  BY <1>1, <1>2, <1>5, <1>6 DEF Handed
<1> QED BY <1>7 DEF r, p, d1, d2, d3

\* The chain is handed over.
LEMMA SubmitCall ==
    ASSUME BlockInv, NEW c \in VioCallers, submit(c)
    PROVE  BlockInv'
<1> DEFINE q == vio_queue
           call == vio_call
           h == call[c].held
           r == [call[c] EXCEPT !.pc = "waiting"]
           q2 == submit_descriptor(Linked(q, h), h[1])
<1>1. /\ BlockOK(q, call) /\ call \in [VioCallers -> CallRecords] /\ CallSound(q, call[c])
      /\ call[c].pc = "allocating" /\ call[c] \in CallRecords /\ Len(h) = 3
  BY DEF BlockInv, BlockOK, CallSound, submit
<1>2. vio_call' = [call EXCEPT ![c] = r] /\ vio_queue' = q2
  BY <1>1 DEF submit
<1>3. q \in VioQueues(BlockLength) /\ RingsSound(q) /\ FreeSound(q) /\ TransitSound(q)
      /\ Shared(FreeList(q), call) /\ HeadOf(call[c]) = {}
  BY <1>1 DEF BlockOK, HeadOf
<1>4. /\ \A i, j \in 1 .. 3 : h[i] = h[j] => i = j
      /\ DOMAIN h = 1 .. 3 /\ Own(call[c]) = {h[i] : i \in 1 .. 3}
      /\ Own(call[c]) \subseteq 0 .. BlockLength - 1
  BY <1>1, HeadIsHeld DEF CallSound, Own
<1>5. r \in CallRecords /\ r.pc = "waiting" /\ r.held = h
  BY <1>1 DEF CallRecords
<1> HIDE DEF q, call, h, r
<1>6. /\ {h[1], h[2], h[3]} = Own(call[c]) /\ {h[1], h[2], h[3]} \subseteq 0 .. BlockLength - 1
      /\ h[1] # h[2] /\ h[1] # h[3] /\ h[2] # h[3]
  <2>1. 1 .. 3 = {1, 2, 3}
    OBVIOUS
  <2> QED BY <1>4, <2>1
<1>7. \A x \in Own(call[c]) : x \notin FreeList(q) /\ x \notin Untaken(q) /\ x \notin q.held
                              /\ x \notin UsedUnseen(q)
  <2>1. \A x \in Own(call[c]) : x \in Own(call[c]) \ HeadOf(call[c])
    BY <1>3
  <2>2. \A x \in Own(call[c]) : x \notin Untaken(q) /\ x \notin q.held /\ x \notin UsedUnseen(q)
    BY <1>1, <2>1, NotInTransit
  <2> QED BY <1>3, <2>2 DEF Shared
<1>8. Handed(BlockLength, q, q2, h[1], h[2], h[3])
  <2>1. /\ h[1] \in (0 .. BlockLength - 1) \ FreeList(q)
        /\ h[2] \in (0 .. BlockLength - 1) \ FreeList(q) /\ h[3] \in 0 .. BlockLength - 1
        /\ h[1] \notin Untaken(q) /\ h[2] \notin Untaken(q)
    BY <1>6, <1>7
  <2> QED BY <1>3, <1>6, <2>1, HandStep, BlockQueue
<1> HIDE DEF q2
<1>9. CallSound(q2, r)
  <2>1. Len(r.held) = 3 /\ \A i, j \in 1 .. 3 : r.held[i] = r.held[j] => i = j
    BY <1>1, <1>4, <1>5 DEF h
  <2>2. q2.next[r.held[1]] = r.held[2] /\ q2.next[r.held[2]] = r.held[3]
    BY <1>5, <1>8 DEF Handed
  <2> QED BY <1>5, <2>1, <2>2 DEF CallSound
<1>10. Own(r) = Own(call[c]) /\ HeadOf(r) = {h[1]}
  BY <1>4, <1>5 DEF Own, HeadOf
<1>11. TransitSound(q2) /\ Transit(q2) = (Transit(q) \ HeadOf(call[c])) \cup HeadOf(r)
  <2>1. h[1] \notin q.held /\ h[1] \notin UsedUnseen(q)
    BY <1>6, <1>7
  <2> QED BY <1>3, <1>8, <1>10, <2>1 DEF Handed, TransitSound, Transit
<1>12. vio_call' \in [VioCallers -> CallRecords] /\ BlockOK(q2, vio_call')
  <2>1. /\ q2 \in VioQueues(BlockLength) /\ RingsSound(q2) /\ FreeSound(q2)
        /\ FreeList(q2) \cup Own(r) = FreeList(q) \cup Own(call[c])
        /\ FreeList(q2) \cap Own(r) = {}
    BY <1>3, <1>8, <1>10 DEF Handed, Shared
  <2>2. \A y \in (0 .. BlockLength - 1) \ (FreeList(q) \cup Own(call[c])) : q2.next[y] = q.next[y]
    BY <1>6, <1>8 DEF Handed
  <2> QED BY <1>1, <1>2, <1>9, <1>11, <2>1, <2>2, BlockChange
<1> QED BY <1>2, <1>12 DEF BlockInv, BlockOK

\* The handler finds the chain of c; c is done, or hands over another chain.
Completed(c) ==
    /\ vio_call[c].pc = "waiting"
    /\ vio_call[c].held[1] = vio_queue.used[vio_queue.last_seen_used]
    /\ vio_queue.last_seen_used # vio_queue.used_index % vio_queue.length
Finishes(c) ==
    /\ Completed(c) /\ vio_call' = [vio_call EXCEPT ![c] = Idle]
    /\ vio_queue' = Seen(FreeChain(vio_queue, vio_call[c].held[1]))
Repeats(c) ==
    /\ Completed(c) /\ vio_queue.num_free_descs >= 3
    /\ vio_call' = [vio_call EXCEPT ![c] = CallAgain(vio_queue).call]
    /\ vio_queue' = Seen(FreeChain(CallAgain(vio_queue).queue, vio_call[c].held[1]))

\* BlockDevice::irq ends the call of the chain that came back.
LEMMA CompleteStep ==
    ASSUME BlockInv, NEW c \in VioCallers, Finishes(c)
    PROVE  BlockInv'
<1> DEFINE q == vio_queue
           call == vio_call
           h == call[c].held
           desc == h[1]
           p == FreeChain(q, desc)
           q2 == Seen(p)
<1>1. /\ BlockOK(q, call) /\ call \in [VioCallers -> CallRecords] /\ CallSound(q, call[c])
      /\ call[c].pc = "waiting"
  BY DEF BlockInv, BlockOK, Completed, Finishes
<1>2. vio_call' = [call EXCEPT ![c] = Idle] /\ vio_queue' = q2
      /\ desc = q.used[q.last_seen_used] /\ q.last_seen_used # q.used_index % q.length
  BY DEF Completed, Finishes
<1>3. q \in VioQueues(BlockLength) /\ RingsSound(q) /\ FreeSound(q) /\ TransitSound(q)
      /\ Shared(FreeList(q), call) /\ HeadOf(call[c]) = {desc}
  BY <1>1 DEF BlockOK, HeadOf
<1>4. /\ {h[1], h[2], h[3]} \subseteq 0 .. BlockLength - 1
      /\ Own(call[c]) = {h[1], h[2], h[3]}
      /\ h[1] # h[2] /\ h[1] # h[3] /\ h[2] # h[3]
      /\ q.next[h[1]] = h[2] /\ q.next[h[2]] = h[3]
  BY <1>1, ChainFacts
<1> HIDE DEF q, call, h
<1>5. /\ p \in VioQueues(BlockLength) /\ FreeSound(p) /\ SameRings(q, p)
      /\ FreeList(p) = FreeList(q) \cup {h[1], h[2], h[3]}
      /\ \A y \in (0 .. BlockLength - 1) \ {h[1], h[2], h[3]} : p.next[y] = q.next[y]
  <2>1. /\ h[1] \in (0 .. BlockLength - 1) \ FreeList(q)
        /\ h[2] \in (0 .. BlockLength - 1) \ FreeList(q)
        /\ h[3] \in (0 .. BlockLength - 1) \ FreeList(q)
    BY <1>3, <1>4 DEF Shared
  <2> QED BY <1>3, <1>4, <2>1, FreeChainStep, BlockQueue
<1> HIDE DEF p
<1>6. RingsSound(p) /\ Transit(p) = Transit(q) /\ TransitSound(p)
      /\ desc = p.used[p.last_seen_used] /\ p.last_seen_used # p.used_index % BlockLength
  <2>1. q.length = BlockLength
    BY <1>3, QueueFields
  <2> QED BY <1>2, <1>3, <1>5, <2>1, RingsKept, TransitKept DEF SameRings
<1> HIDE DEF desc
<1>7. /\ q2 \in VioQueues(BlockLength) /\ RingsSound(q2) /\ SameFree(p, q2)
      /\ desc \in UsedUnseen(p) /\ UsedUnseen(q2) = UsedUnseen(p) \ {desc}
      /\ Untaken(q2) = Untaken(p) /\ q2.held = p.held
  BY <1>5, <1>6, SeenStep, BlockQueue
<1> HIDE DEF q2
<1>8. FreeSound(q2) /\ FreeList(q2) = FreeList(p) /\ q2.next = p.next
  BY <1>5, <1>7, FreeKept DEF SameFree
<1>9. CallSound(q2, Idle) /\ Own(Idle) = {} /\ HeadOf(Idle) = {}
  BY DEF CallSound, Own, HeadOf, Idle, CallRecords
<1>10. TransitSound(q2) /\ Transit(q2) = (Transit(q) \ HeadOf(call[c])) \cup HeadOf(Idle)
  BY <1>3, <1>6, <1>7, <1>9 DEF TransitSound, Transit
<1>11. vio_call' \in [VioCallers -> CallRecords] /\ BlockOK(q2, vio_call')
  <2>1. /\ FreeList(q2) \cup Own(Idle) = FreeList(q) \cup Own(call[c])
        /\ FreeList(q2) \cap Own(Idle) = {}
    BY <1>4, <1>5, <1>8, <1>9
  <2>2. \A y \in (0 .. BlockLength - 1) \ (FreeList(q) \cup Own(call[c])) : q2.next[y] = q.next[y]
    BY <1>4, <1>5, <1>8
  <2>3. /\ q2 \in VioQueues(BlockLength) /\ RingsSound(q2) /\ FreeSound(q2) /\ CallSound(q2, Idle)
        /\ vio_call' = [call EXCEPT ![c] = Idle]
    BY <1>2, <1>7, <1>8, <1>9
  <2> QED BY <1>1, <1>10, <2>1, <2>2, <2>3, BlockChange
<1> QED BY <1>2, <1>11 DEF BlockInv, BlockOK

\* BlockDevice::irq, when the callback submits another chain before this one is freed.
LEMMA AgainStep ==
    ASSUME BlockInv, NEW c \in VioCallers, Repeats(c)
    PROVE  BlockInv'
<1> DEFINE q == vio_queue
           call == vio_call
           h == call[c].held
           desc == h[1]
           d1 == q.free_desc_index
           q1 == alloc_descriptor(q)
           d2 == q1.free_desc_index
           p2 == alloc_descriptor(q1)
           d3 == p2.free_desc_index
           q3 == alloc_descriptor(p2)
           g == <<d1, d2, d3>>
           r == [pc |-> "waiting", held |-> g]
           q4 == submit_descriptor(Linked(q3, g), d1)
           p == FreeChain(q4, desc)
           q2 == Seen(p)
<1>1. /\ BlockOK(q, call) /\ call \in [VioCallers -> CallRecords] /\ CallSound(q, call[c])
      /\ call[c].pc = "waiting"
  BY DEF BlockInv, BlockOK, Completed, Repeats
<1>2. vio_call' = [call EXCEPT ![c] = r] /\ vio_queue' = q2
      /\ desc = q.used[q.last_seen_used] /\ q.last_seen_used # q.used_index % q.length
  BY DEF CallAgain, Completed, Repeats
<1>3. q \in VioQueues(BlockLength) /\ RingsSound(q) /\ FreeSound(q) /\ TransitSound(q)
      /\ Shared(FreeList(q), call) /\ HeadOf(call[c]) = {desc} /\ q.length = BlockLength
  BY <1>1, QueueFields DEF BlockOK, HeadOf
<1>4. /\ {h[1], h[2], h[3]} \subseteq 0 .. BlockLength - 1
      /\ Own(call[c]) = {h[1], h[2], h[3]}
      /\ h[1] # h[2] /\ h[1] # h[3] /\ h[2] # h[3]
      /\ q.next[h[1]] = h[2] /\ q.next[h[2]] = h[3]
  BY <1>1, ChainFacts
<1>5. ThreeTaken(BlockLength, q, q3, d1, d2, d3)
  BY <1>3, ThreeStep, BlockQueue DEF Repeats
<1> HIDE DEF q, call, h, q3, d1, d2, d3
<1>6. g[1] = d1 /\ g[2] = d2 /\ g[3] = d3 /\ g \in Seq({d1, d2, d3}) /\ Len(g) = 3
  OBVIOUS
<1>7. /\ r.pc = "waiting" /\ r.held = g
  OBVIOUS
<1> HIDE DEF g, r
<1>8. /\ \A x \in {d1, d2, d3} : x \notin Untaken(q) /\ x \notin q.held /\ x \notin UsedUnseen(q)
  <2>1. \A x \in {d1, d2, d3} : x \in FreeList(q)
    BY <1>5 DEF ThreeTaken
  <2> QED BY <1>1, <2>1, NotInTransit
<1>9. /\ q3 \in VioQueues(BlockLength) /\ RingsSound(q3) /\ FreeSound(q3)
      /\ Untaken(q3) = Untaken(q) /\ UsedUnseen(q3) = UsedUnseen(q) /\ q3.held = q.held
      /\ q3.used = q.used /\ q3.used_index = q.used_index
      /\ q3.last_seen_used = q.last_seen_used /\ q3.length = q.length
      /\ FreeList(q3) = FreeList(q) \ {d1, d2, d3} /\ q3.next = q.next
  BY <1>3, <1>5, RingsKept DEF ThreeTaken, SameRings
<1>10. Handed(BlockLength, q3, q4, d1, d2, d3)
  <2>1. /\ g[1] \in (0 .. BlockLength - 1) \ FreeList(q3)
        /\ g[2] \in (0 .. BlockLength - 1) \ FreeList(q3) /\ g[3] \in 0 .. BlockLength - 1
        /\ g[1] # g[2] /\ g[1] \notin Untaken(q3) /\ g[2] \notin Untaken(q3)
    BY <1>5, <1>6, <1>8, <1>9 DEF ThreeTaken
  <2>2. Handed(BlockLength, q3, submit_descriptor(Linked(q3, g), g[1]), g[1], g[2], g[3])
    BY <1>9, <2>1, HandStep, BlockQueue
  <2> QED BY <1>6, <2>2
<1> HIDE DEF q4
<1>11. /\ {h[1], h[2], h[3]} \cap FreeList(q) = {} /\ {d1, d2, d3} \subseteq FreeList(q)
       /\ d1 # d2 /\ d1 # d3 /\ d2 # d3 /\ {d1, d2, d3} \subseteq 0 .. BlockLength - 1
  BY <1>3, <1>4, <1>5 DEF Shared, ThreeTaken
<1>12. /\ p \in VioQueues(BlockLength) /\ FreeSound(p) /\ SameRings(q4, p)
       /\ FreeList(p) = FreeList(q4) \cup {h[1], h[2], h[3]}
       /\ \A y \in (0 .. BlockLength - 1) \ {h[1], h[2], h[3]} : p.next[y] = q4.next[y]
  <2>1. /\ q4 \in VioQueues(BlockLength) /\ FreeSound(q4)
        /\ FreeList(q4) = FreeList(q) \ {d1, d2, d3}
        /\ \A y \in (0 .. BlockLength - 1) \ {d1, d2} : q4.next[y] = q.next[y]
    BY <1>9, <1>10 DEF Handed
  <2>2. /\ h[1] \in (0 .. BlockLength - 1) \ FreeList(q4)
        /\ h[2] \in (0 .. BlockLength - 1) \ FreeList(q4)
        /\ h[3] \in (0 .. BlockLength - 1) \ FreeList(q4)
        /\ h[1] \notin {d1, d2} /\ h[2] \notin {d1, d2}
    BY <1>4, <1>11, <2>1
  <2>3. q4.next[h[1]] = h[2] /\ q4.next[h[2]] = h[3]
    BY <1>4, <2>1, <2>2
  <2> QED BY <1>4, <2>1, <2>2, <2>3, FreeChainStep, BlockQueue
<1> HIDE DEF p
<1>13. /\ RingsSound(p) /\ desc = p.used[p.last_seen_used]
       /\ p.last_seen_used # p.used_index % BlockLength
       /\ Untaken(p) = Untaken(q) \cup {d1} /\ UsedUnseen(p) = UsedUnseen(q) /\ p.held = q.held
  <2>1. /\ RingsSound(q4) /\ q4.used = q.used /\ q4.used_index = q.used_index
        /\ q4.last_seen_used = q.last_seen_used /\ Untaken(q4) = Untaken(q) \cup {d1}
        /\ UsedUnseen(q4) = UsedUnseen(q) /\ q4.held = q.held
    BY <1>9, <1>10 DEF Handed
  <2>2. /\ RingsSound(p) /\ p.used = q4.used /\ p.used_index = q4.used_index
        /\ p.last_seen_used = q4.last_seen_used /\ Untaken(p) = Untaken(q4)
        /\ UsedUnseen(p) = UsedUnseen(q4) /\ p.held = q4.held
    BY <1>12, <2>1, RingsKept DEF SameRings
  <2> QED BY <1>2, <1>3, <2>1, <2>2
<1> HIDE DEF desc
<1>14. /\ q2 \in VioQueues(BlockLength) /\ RingsSound(q2) /\ SameFree(p, q2)
      /\ desc \in UsedUnseen(p) /\ UsedUnseen(q2) = UsedUnseen(p) \ {desc}
      /\ Untaken(q2) = Untaken(p) /\ q2.held = p.held
  BY <1>12, <1>13, SeenStep, BlockQueue
<1> HIDE DEF q2
<1>15. FreeSound(q2) /\ FreeList(q2) = (FreeList(q) \ {d1, d2, d3}) \cup {h[1], h[2], h[3]}
       /\ q2.next = p.next
  BY <1>9, <1>10, <1>12, <1>14, FreeKept DEF SameFree, Handed
<1>16. /\ q2.next[d1] = d2 /\ q2.next[d2] = d3
       /\ \A y \in (0 .. BlockLength - 1) \ (FreeList(q) \cup Own(call[c])) : q2.next[y] = q.next[y]
  <2>1. /\ q4.next[d1] = d2 /\ q4.next[d2] = d3
        /\ \A y \in (0 .. BlockLength - 1) \ {d1, d2} : q4.next[y] = q.next[y]
    BY <1>9, <1>10 DEF Handed
  <2>2. {d1, d2} \cap {h[1], h[2], h[3]} = {}
    BY <1>11
  <2>3. q2.next[d1] = d2 /\ q2.next[d2] = d3
    BY <1>11, <1>12, <1>15, <2>1, <2>2
  <2> QED BY <1>4, <1>11, <1>12, <1>15, <2>1, <2>3
<1>17. CallSound(q2, r) /\ Own(r) = {d1, d2, d3} /\ HeadOf(r) = {d1}
  <2>1. DOMAIN g = 1 .. 3 /\ 1 .. 3 = {1, 2, 3}
    BY <1>6
  <2>2. Own(r) = {d1, d2, d3} /\ HeadOf(r) = {d1}
    BY <1>6, <1>7, <2>1 DEF Own, HeadOf
  <2>3. r \in CallRecords
    <3>1. g \in Seq(0 .. BlockLength - 1)
      <4> DEFINE S == 0 .. BlockLength - 1
      <4>1. d1 \in S /\ d2 \in S /\ d3 \in S
        BY <1>11
      <4> HIDE DEF S
      <4>2. <<d1, d2, d3>> \in Seq(S)
        BY <4>1
      <4> QED BY <4>2 DEF g, S
    <3> QED BY <3>1 DEF CallRecords, r
  <2>4. \A i, j \in 1 .. 3 : g[i] = g[j] => i = j
    BY <1>6, <1>11, <2>1
  <2>5. q2.next[r.held[1]] = r.held[2] /\ q2.next[r.held[2]] = r.held[3] /\ Len(r.held) = 3
        /\ \A i, j \in 1 .. 3 : r.held[i] = r.held[j] => i = j
    BY <1>6, <1>7, <1>16, <2>4
  <2> QED BY <1>7, <2>2, <2>3, <2>5 DEF CallSound
<1>18. TransitSound(q2) /\ Transit(q2) = (Transit(q) \ HeadOf(call[c])) \cup HeadOf(r)
  <2>1. d1 \notin Untaken(q) /\ d1 \notin q.held /\ d1 \notin UsedUnseen(q)
    BY <1>8
  <2> QED BY <1>3, <1>13, <1>14, <1>17, <2>1 DEF TransitSound, Transit
<1>19. vio_call' \in [VioCallers -> CallRecords] /\ BlockOK(q2, vio_call')
  <2>1. /\ FreeList(q2) \cup Own(r) = FreeList(q) \cup Own(call[c])
        /\ FreeList(q2) \cap Own(r) = {}
    BY <1>4, <1>11, <1>15, <1>17
  <2>2. /\ q2 \in VioQueues(BlockLength) /\ RingsSound(q2) /\ FreeSound(q2) /\ CallSound(q2, r)
        /\ vio_call' = [call EXCEPT ![c] = r]
        /\ \A y \in (0 .. BlockLength - 1) \ (FreeList(q) \cup Own(call[c])) : q2.next[y] = q.next[y]
    BY <1>2, <1>14, <1>15, <1>16, <1>17
  <2> QED BY <1>1, <1>18, <2>1, <2>2, BlockChange
<1> QED BY <1>2, <1>19 DEF BlockInv, BlockOK

\* The rings change and the calls do not.
LEMMA DeviceChange ==
    ASSUME NEW q, NEW call, BlockOK(q, call), NEW q2 \in VioQueues(BlockLength), RingsSound(q2),
           SameFree(q, q2), TransitSound(q2), Transit(q2) = Transit(q)
    PROVE  BlockOK(q2, call)
<1>1. FreeSound(q2) /\ FreeList(q2) = FreeList(q) /\ q2.next = q.next
  BY FreeKept DEF BlockOK, SameFree
<1>2. \A c \in VioCallers : CallSound(q2, call[c])
  BY <1>1 DEF BlockOK, CallSound
<1> QED BY <1>1, <1>2 DEF BlockOK

\* The device takes a chain or returns one.
LEMMA BlockDeviceStep ==
    ASSUME BlockInv, block_device
    PROVE  BlockInv'
<1> DEFINE q == vio_queue
           call == vio_call
           n == BlockLength
<1>1. /\ BlockOK(q, call) /\ call \in [VioCallers -> CallRecords] /\ vio_call' = call
      /\ q \in VioQueues(n) /\ RingsSound(q) /\ TransitSound(q) /\ QueueLength(n)
  BY BlockQueue DEF BlockInv, BlockOK, block_device
<1>2. \/ q.dev_index # q.avail_index /\ vio_queue' = DeviceTakes(q)
      \/ \E i \in q.held : vio_queue' = DeviceReturns(q, i)
  BY DEF block_device
<1> HIDE DEF q, call, n
<1>3. CASE q.dev_index # q.avail_index /\ vio_queue' = DeviceTakes(q)
  <2> DEFINE q2 == DeviceTakes(q)
  <2>1. /\ q2 \in VioQueues(n) /\ RingsSound(q2) /\ SameFree(q, q2)
        /\ UsedUnseen(q2) = UsedUnseen(q)
        /\ \E x \in Untaken(q) : /\ q2.held = q.held \cup {x}
                                 /\ Untaken(q2) = Untaken(q) \ {x}
    BY <1>1, <1>3, TakeStep
  <2> HIDE DEF q2
  <2>2. TransitSound(q2) /\ Transit(q2) = Transit(q)
    BY <1>1, <2>1 DEF TransitSound, Transit
  <2>3. BlockOK(q2, call)
    BY <1>1, <2>1, <2>2, DeviceChange DEF n
  <2> QED BY <1>1, <1>3, <2>3 DEF BlockInv, q2
<1>4. CASE \E i \in q.held : vio_queue' = DeviceReturns(q, i)
  <2>1. PICK x \in q.held : vio_queue' = DeviceReturns(q, x)
    BY <1>4
  <2>2. PICK c \in VioCallers : x \in HeadOf(call[c])
    BY <1>1 DEF BlockOK, Transit
  <2>3. CallSound(q, call[c]) /\ call[c].pc = "waiting" /\ x = call[c].held[1]
    BY <1>1, <2>2 DEF BlockOK, HeadOf
  <2> DEFINE y == call[c].held[2]
  <2>4. x \in 0 .. n - 1 /\ y \in 0 .. n - 1 /\ x # y /\ y \in Own(call[c]) \ HeadOf(call[c])
    <3>1. /\ call[c].held[1] \in 0 .. n - 1 /\ y \in 0 .. n - 1 /\ y \in Own(call[c])
          /\ call[c].held[1] # y
      BY <2>3, ChainFacts DEF n
    <3> QED BY <2>3, <3>1 DEF HeadOf
  <2>5. y \notin UsedUnseen(q) /\ x \notin UsedUnseen(q)
    <3>1. y \notin UsedUnseen(q)
      BY <1>1, <2>4, NotInTransit
    <3> QED BY <1>1, <3>1 DEF TransitSound
  <2> DEFINE q2 == DeviceReturns(q, x)
  <2> HIDE DEF y
  <2>6. Unseen(q) + 1 < n
    BY <1>1, <2>4, <2>5, ReturnFits
  <2>7. /\ q2 \in VioQueues(n) /\ RingsSound(q2) /\ SameFree(q, q2)
        /\ UsedUnseen(q2) = UsedUnseen(q) \cup {x}
        /\ Untaken(q2) = Untaken(q) /\ q2.held = q.held \ {x}
    BY <1>1, <2>4, <2>5, <2>6, ReturnStep
  <2> HIDE DEF q2
  <2>8. TransitSound(q2) /\ Transit(q2) = Transit(q)
    BY <1>1, <2>7 DEF TransitSound, Transit
  <2>9. BlockOK(q2, call)
    BY <1>1, <2>7, <2>8, DeviceChange DEF n
  <2> QED BY <1>1, <2>1, <2>9 DEF BlockInv, q2
<1> QED BY <1>2, <1>3, <1>4

\* The queue that Queue::init makes.
LEMMA NewQueue ==
    ASSUME NEW n, QueueLength(n)
    PROVE  LET q == Queue_init(n)
           IN  /\ q \in VioQueues(n) /\ RingsSound(q) /\ FreeSound(q)
               /\ FreeList(q) = 0 .. n - 1 /\ q.num_free_descs = n
               /\ Untaken(q) = {} /\ UsedUnseen(q) = {} /\ q.held = {}
               /\ Available(q) = 0 /\ Unseen(q) = 0
               /\ q.dev_index = 0 /\ q.free_desc_index = 0
               /\ \A i \in 0 .. n - 1 : q.next[i] = i + 1
<1> DEFINE q == Queue_init(n)
           zero == [i \in 0 .. n - 1 |-> 0]
           succ == [i \in 0 .. n - 1 |-> i + 1]
<1>1. n \in Nat \ {0} /\ IndexWord \in Nat \ {0}
  BY DEF QueueLength
<1>2. zero \in RingFcns(n) /\ succ \in NextFcns(n) /\ 0 \in RingIndices /\ 0 \in DescSet(n)
      /\ 0 \in DescOrNone(n) /\ {} \in HeldSets(n) /\ n \in Int
  BY <1>1 DEF RingFcns, NextFcns, RingIndices, DescSet, DescOrNone, HeldSets
<1>a. \A i \in 0 .. n - 1 : succ[i] = i + 1
  OBVIOUS
<1>3. q = [length |-> n, next |-> succ, free_desc_index |-> 0, num_free_descs |-> n,
           last_seen_used |-> 0, avail |-> zero, avail_index |-> 0, used |-> zero,
           used_index |-> 0, dev_index |-> 0, held |-> {}, chains |-> 0]
  BY DEF Queue_init
<1> HIDE DEF q, zero, succ
<1>4. /\ q \in VioQueues(n) /\ q.length = n /\ q.next = succ /\ q.free_desc_index = 0
      /\ q.num_free_descs = n /\ q.last_seen_used = 0 /\ q.avail = zero /\ q.avail_index = 0
      /\ q.used = zero /\ q.used_index = 0 /\ q.dev_index = 0 /\ q.held = {}
  BY <1>2, <1>3 DEF VioQueues
<1>5. 0 \in 0 .. n - 1 /\ 0 \in 0 .. IndexWord - 1 /\ 0 \in 0 .. n
  BY <1>1
<1>6. 0 % n = 0
  <2>1. (0 + 0) % n = Place(0, 0, n)
    BY <1>1, <1>5, PlaceIs
  <2>2. 0 + 0 = 0 /\ Place(0, 0, n) = 0
    BY <1>1 DEF Place
  <2> QED BY <2>1, <2>2
<1>7. Available(q) = 0
  BY <1>1, <1>4, <1>5, LagSteps DEF Available
<1>8. Unseen(q) = 0
  <2>1. Unseen(q) = Lag(q.used_index % n, q.last_seen_used, n)
    BY <1>4, UnseenIs
  <2>2. Lag(0, 0, n) = 0
    BY <1>1, <1>5, LagSteps
  <2> QED BY <1>4, <1>6, <2>1, <2>2
<1>9. RingSound(zero, 0, 0, n) /\ RingSet(zero, 0, 0, n) = {}
  <2>1. 0 .. 0 - 1 = {}
    OBVIOUS
  <2> QED BY <1>2, <1>5, <2>1 DEF RingSound, RingSet, RingFcns
<1>10. RingsSound(q) /\ Untaken(q) = {}
  BY <1>4, <1>6, <1>7, <1>8, <1>9 DEF RingsSound, Untaken
<1>11. UsedUnseen(q) = {}
  <2>1. UsedUnseen(q) = RingSet(q.used, q.last_seen_used, Unseen(q), n)
    BY <1>4, UnseenIs
  <2> QED BY <1>4, <1>8, <1>9, <2>1
<1> DEFINE s == [i \in 1 .. n |-> i - 1]
<1>12. FreeSeq(s, n, succ, 0, n)
  <2>1. /\ n \in 0 .. n /\ s \in [1 .. n -> 0 .. n - 1] /\ s[1] = 0
        /\ \A i \in 1 .. n : s[i] = i - 1 /\ s[i] \in 0 .. n - 1
    BY <1>1
  <2> HIDE DEF s
  <2>2. \A i, j \in 1 .. n : s[i] = s[j] => i = j
    BY <2>1
  <2>3. ASSUME NEW i \in 1 .. n PROVE succ[s[i]] = IF i = n THEN n ELSE s[i + 1]
    <3>1. succ[s[i]] = i
      BY <1>a, <2>1
    <3>2. i # n => i + 1 \in 1 .. n
      BY <1>1
    <3>3. i # n => s[i + 1] = i
      BY <2>1, <3>2
    <3> QED BY <3>1, <3>3
  <2> QED BY <1>1, <2>1, <2>2, <2>3 DEF FreeSeq
<1>13. Members(s, n) = 0 .. n - 1
  <2>1. \A i \in 1 .. n : s[i] = i - 1 /\ s[i] \in 0 .. n - 1
    BY <1>1
  <2>2. \A x \in 0 .. n - 1 : x + 1 \in 1 .. n /\ s[x + 1] = x
    BY <1>1
  <2> HIDE DEF s
  <2> QED BY <2>1, <2>2 DEF Members
<1> HIDE DEF s
<1>14. FreeSound(q)
  BY <1>4, <1>12 DEF FreeSound
<1>15. FreeList(q) = 0 .. n - 1
  BY <1>1, <1>4, <1>12, <1>13, WalkIs
<1> QED BY <1>4, <1>7, <1>8, <1>10, <1>11, <1>14, <1>15, <1>a DEF q

\* The invariant of the block device holds when its queue is new.
LEMMA BlockInit == VioInit => BlockInv
<1> SUFFICES ASSUME VioInit PROVE BlockInv
  OBVIOUS
<1> DEFINE q == vio_queue
           n == BlockLength
<1>1. q = Queue_init(n) /\ vio_call = [c \in VioCallers |-> Idle]
  BY DEF VioInit
<1> HIDE DEF n
<1>2. /\ q \in VioQueues(n) /\ RingsSound(q) /\ FreeSound(q) /\ FreeList(q) = 0 .. n - 1
      /\ Untaken(q) = {} /\ UsedUnseen(q) = {} /\ q.held = {}
  BY <1>1, NewQueue, BlockQueue DEF n
<1>3. CallSound(q, Idle) /\ Own(Idle) = {} /\ HeadOf(Idle) = {} /\ Idle \in CallRecords
  BY DEF CallSound, Own, HeadOf, Idle, CallRecords
<1>4. \A c \in VioCallers : vio_call[c] = Idle
  BY <1>1
<1>5. Shared(FreeList(q), vio_call)
  BY <1>2, <1>3, <1>4 DEF Shared, n
<1>6. Transit(q) = UNION {HeadOf(vio_call[c]) : c \in VioCallers} /\ TransitSound(q)
  BY <1>2, <1>3, <1>4 DEF Transit, TransitSound
<1>7. vio_call \in [VioCallers -> CallRecords]
  BY <1>1, <1>3
<1> QED BY <1>2, <1>3, <1>4, <1>5, <1>6, <1>7 DEF BlockInv, BlockOK, n

\* Every step of the block device keeps its invariant.
LEMMA BlockStep == BlockInv /\ [BlockNext]_<<vio_queue, vio_call>> => BlockInv'
<1> SUFFICES ASSUME BlockInv, [BlockNext]_<<vio_queue, vio_call>> PROVE BlockInv'
  OBVIOUS
<1>1. ASSUME NEW c \in VioCallers, read_write_block(c) \/ allocate(c) \/ fail(c) \/ submit(c)
      PROVE  BlockInv'
  BY <1>1, CallStep, AllocateStep, FailStep, SubmitCall
<1>2. ASSUME block_irq PROVE BlockInv'
  <2>1. PICK c \in VioCallers : Finishes(c) \/ Repeats(c)
    BY <1>2 DEF block_irq, Completed, Finishes, Repeats
  <2> QED BY <2>1, CompleteStep, AgainStep
<1>3. ASSUME UNCHANGED <<vio_queue, vio_call>> PROVE BlockInv'
  BY <1>3 DEF BlockInv
<1> QED BY <1>1, <1>2, <1>3, BlockDeviceStep DEF BlockNext
-----------------------------------------------------------------------------
\* The receive queue after k descriptors were given to the device.
InOrder(n, k) == [i \in 0 .. n - 1 |-> IF i < k THEN i ELSE 0]
Filled(n, k) ==
    [length |-> n, next |-> [i \in 0 .. n - 1 |-> i + 1],
     free_desc_index |-> k, num_free_descs |-> n - k, last_seen_used |-> 0,
     avail |-> InOrder(n, k), avail_index |-> k,
     used |-> [i \in 0 .. n - 1 |-> 0], used_index |-> 0,
     dev_index |-> 0, held |-> {}, chains |-> 0]

\* The fields of the receive queue while it is filled.
LEMMA FilledFields ==
    ASSUME NEW n, QueueLength(n), n < IndexWord, NEW k \in 0 .. n
    PROVE  LET q == Filled(n, k)
           IN  /\ q \in VioQueues(n) /\ q.length = n /\ q.free_desc_index = k
               /\ q.next = [i \in 0 .. n - 1 |-> i + 1] /\ q.num_free_descs = n - k
               /\ q.last_seen_used = 0 /\ q.avail = InOrder(n, k) /\ q.avail_index = k
               /\ q.used = [i \in 0 .. n - 1 |-> 0] /\ q.used_index = 0 /\ q.dev_index = 0
               /\ q.held = {} /\ q.chains = 0
<1> DEFINE zero == [i \in 0 .. n - 1 |-> 0]
           succ == [i \in 0 .. n - 1 |-> i + 1]
           avail == InOrder(n, k)
           free == n - k
<1>1. n \in Nat \ {0} /\ IndexWord \in Nat \ {0}
  BY DEF QueueLength
<1>2. /\ zero \in RingFcns(n) /\ succ \in NextFcns(n) /\ 0 \in RingIndices /\ k \in RingIndices
      /\ 0 \in DescSet(n) /\ k \in DescOrNone(n) /\ {} \in HeldSets(n) /\ free \in Int
  BY <1>1 DEF RingFcns, NextFcns, RingIndices, DescSet, DescOrNone, HeldSets
<1>3. avail \in RingFcns(n)
  BY <1>1 DEF RingFcns, InOrder
<1> HIDE DEF zero, succ, avail, free
<1>4. Filled(n, k) =
        [length |-> n, next |-> succ, free_desc_index |-> k, num_free_descs |-> free,
         last_seen_used |-> 0, avail |-> avail, avail_index |-> k, used |-> zero,
         used_index |-> 0, dev_index |-> 0, held |-> {}, chains |-> 0]
  BY DEF Filled, zero, succ, avail, free
<1> DEFINE q == Filled(n, k)
<1> HIDE DEF q
<1>5. /\ q \in VioQueues(n) /\ q.length = n /\ q.next = succ /\ q.free_desc_index = k
      /\ q.num_free_descs = free /\ q.last_seen_used = 0 /\ q.avail = avail /\ q.avail_index = k
      /\ q.used = zero /\ q.used_index = 0 /\ q.dev_index = 0 /\ q.held = {} /\ q.chains = 0
  BY <1>2, <1>3, <1>4 DEF VioQueues, q
<1> QED BY <1>5 DEF q, succ, free, avail, zero

\* Queues with equal fields are equal.
LEMMA QueueEqual ==
    ASSUME NEW n, NEW p \in VioQueues(n), NEW q \in VioQueues(n),
           SameRings(p, q), SameFree(p, q), p.chains = q.chains
    PROVE  p = q
BY DEF VioQueues, SameRings, SameFree

\* The fields of a queue after submit_descriptor.
LEMMA SubmitFields ==
    ASSUME NEW n, NEW q \in VioQueues(n), NEW x, NEW avail \in RingFcns(n), NEW ai \in RingIndices,
           [q.avail EXCEPT ![q.avail_index % q.length] = x] = avail,
           (q.avail_index + 1) % IndexWord = ai
    PROVE  LET r == submit_descriptor(q, x)
           IN  /\ r \in VioQueues(n) /\ SameFree(q, r) /\ r.chains = q.chains
               /\ r.avail = avail /\ r.avail_index = ai /\ r.used = q.used
               /\ r.used_index = q.used_index /\ r.dev_index = q.dev_index
               /\ r.last_seen_used = q.last_seen_used /\ r.held = q.held
<1> DEFINE r == submit_descriptor(q, x)
<1>1. r = WithRings(q, avail, ai, q.used, q.used_index, q.dev_index, q.last_seen_used, q.held)
  BY DEF submit_descriptor, WithRings, VioQueues
<1>2. /\ q.used \in RingFcns(n) /\ q.used_index \in RingIndices /\ q.dev_index \in RingIndices
      /\ q.last_seen_used \in DescSet(n) /\ q.held \in HeldSets(n)
  BY QueueFields
<1> HIDE DEF r
<1>3. RingFields(n, q, r, avail, ai, q.used, q.used_index, q.dev_index, q.last_seen_used, q.held)
  BY <1>1, <1>2, WithRingsFields
<1> QED BY <1>3 DEF r, RingFields

\* NetDevice::init gives one more descriptor to the device.
LEMMA FilledStep ==
    ASSUME NEW n, QueueLength(n), n < IndexWord, NEW k \in 0 .. n - 1
    PROVE  /\ Filled(n, k).free_desc_index = k
           /\ submit_descriptor(alloc_descriptor(Filled(n, k)), k) = Filled(n, k + 1)
<1> DEFINE p == Filled(n, k)
           q == Filled(n, k + 1)
           q1 == alloc_descriptor(p)
           q2 == submit_descriptor(q1, k)
           zero == [i \in 0 .. n - 1 |-> 0]
           succ == [i \in 0 .. n - 1 |-> i + 1]
           old == InOrder(n, k)
           new == InOrder(n, k + 1)
           k1 == k + 1
           m == n - k
           m1 == n - (k + 1)
<1>1. n \in Nat \ {0} /\ IndexWord \in Nat \ {0}
  BY DEF QueueLength
<1>2. k % n = k
  BY <1>1, Small
<1>3. (k + 1) % IndexWord = k1
  <2>1. k1 \in 0 .. IndexWord - 1
    BY <1>1
  <2> HIDE DEF k1
  <2>2. k1 % IndexWord = k1
    BY <1>1, <2>1, Small
  <2> QED BY <2>2 DEF k1
<1>4. [old EXCEPT ![k] = k] = new
  <2>1. \A i \in 0 .. n - 1 : i < k + 1 <=> i < k \/ i = k
    BY <1>1
  <2> QED BY <2>1 DEF InOrder
<1>5. succ[k] = k1 /\ m - 1 = m1 /\ k \in 0 .. n /\ k1 \in 0 .. n /\ m1 \in Int
  BY <1>1
<1>6. /\ p \in VioQueues(n) /\ p.length = n /\ p.next = succ /\ p.free_desc_index = k
      /\ p.num_free_descs = m /\ p.last_seen_used = 0 /\ p.avail = old /\ p.avail_index = k
      /\ p.used = zero /\ p.used_index = 0 /\ p.dev_index = 0 /\ p.held = {} /\ p.chains = 0
  BY <1>5, FilledFields
<1>7. /\ q \in VioQueues(n) /\ q.length = n /\ q.next = succ /\ q.free_desc_index = k1
      /\ q.num_free_descs = m1 /\ q.last_seen_used = 0 /\ q.avail = new /\ q.avail_index = k1
      /\ q.used = zero /\ q.used_index = 0 /\ q.dev_index = 0 /\ q.held = {} /\ q.chains = 0
  BY <1>5, FilledFields
<1> HIDE DEF p, q, zero, succ, old, new, m, m1, k1
<1>8. q1 = WithFree(p, p.next, k1, m1)
  BY <1>5, <1>6 DEF alloc_descriptor, WithFree, VioQueues
<1>9. p.next \in NextFcns(n) /\ k1 \in DescOrNone(n) /\ new \in RingFcns(n) /\ k1 \in RingIndices
  <2>1. p.next \in NextFcns(n)
    BY <1>6, QueueFields
  <2>2. q.free_desc_index \in DescOrNone(n) /\ q.avail \in RingFcns(n) /\ q.avail_index \in RingIndices
    BY <1>7, QueueFields
  <2> QED BY <1>7, <2>1, <2>2
<1> HIDE DEF q1
<1>10. /\ q1 \in VioQueues(n) /\ SameRings(p, q1) /\ q1.chains = p.chains
       /\ q1.next = p.next /\ q1.free_desc_index = k1 /\ q1.num_free_descs = m1
  BY <1>5, <1>6, <1>8, <1>9, WithFreeFields
<1>11. [q1.avail EXCEPT ![q1.avail_index % q1.length] = k] = new /\ (q1.avail_index + 1) % IndexWord = k1
  BY <1>2, <1>3, <1>4, <1>6, <1>10 DEF SameRings
<1>12. new \in RingFcns(n) /\ k1 \in RingIndices
  BY <1>9
<1> HIDE DEF q2
<1>13. /\ q2 \in VioQueues(n) /\ SameFree(q1, q2) /\ q2.chains = q1.chains
       /\ q2.avail = new /\ q2.avail_index = k1 /\ q2.used = q1.used
       /\ q2.used_index = q1.used_index /\ q2.dev_index = q1.dev_index
       /\ q2.last_seen_used = q1.last_seen_used /\ q2.held = q1.held
  BY <1>10, <1>11, <1>12, SubmitFields DEF q2
<1>14. SameRings(q2, q) /\ SameFree(q2, q) /\ q2.chains = q.chains
  BY <1>6, <1>7, <1>10, <1>13 DEF SameRings, SameFree
<1>15. q2 = q
  BY <1>7, <1>13, <1>14, QueueEqual
<1> QED BY <1>6, <1>15 DEF p, q, q1, q2

\* NetDevice::init gives every descriptor to the device, in order.
LEMMA NetQueueFilled == NetDevice_init = Filled(RxLength, RxLength)
<1> DEFINE n == RxLength
           Def(f) == [k \in 0 .. n |->
                        IF k = 0 THEN Queue_init(n)
                        ELSE submit_descriptor(alloc_descriptor(f[k - 1]), f[k - 1].free_desc_index)]
           g == [k \in 0 .. n |-> Filled(n, k)]
           after == CHOOSE f : f = Def(f)
<1>1. n \in Nat \ {0} /\ QueueLength(n) /\ n < IndexWord
  BY VirtioAssumption, BlockQueue DEF QueueLength
<1>2. Filled(n, 0) = Queue_init(n)
  <2>1. InOrder(n, 0) = [i \in 0 .. n - 1 |-> 0] /\ n - 0 = n
    BY <1>1 DEF InOrder
  <2> QED BY <2>1 DEF Filled, Queue_init
<1>3. ASSUME NEW k \in 1 .. n
      PROVE  submit_descriptor(alloc_descriptor(Filled(n, k - 1)), Filled(n, k - 1).free_desc_index)
               = Filled(n, k)
  <2> DEFINE j == k - 1
  <2>1. j \in 0 .. n - 1 /\ j + 1 = k
    BY <1>1
  <2> HIDE DEF j
  <2>2. /\ Filled(n, j).free_desc_index = j
        /\ submit_descriptor(alloc_descriptor(Filled(n, j)), j) = Filled(n, j + 1)
    BY <1>1, <2>1, FilledStep
  <2>3. submit_descriptor(alloc_descriptor(Filled(n, j)), Filled(n, j).free_desc_index) = Filled(n, k)
    BY <2>1, <2>2
  <2> QED BY <2>3 DEF j
<1>4. \A k \in 0 .. n : g[k] = IF k = 0 THEN Queue_init(n)
           ELSE submit_descriptor(alloc_descriptor(g[k - 1]), g[k - 1].free_desc_index)
  <2> SUFFICES ASSUME NEW k \in 0 .. n
               PROVE  g[k] = IF k = 0 THEN Queue_init(n)
           ELSE submit_descriptor(alloc_descriptor(g[k - 1]), g[k - 1].free_desc_index)
    OBVIOUS
  <2>1. CASE k = 0
    BY <2>1, <1>2
  <2>2. CASE k # 0
    <3>1. k \in 1 .. n /\ k - 1 \in 0 .. n
      BY <2>2, <1>1
    <3>2. g[k - 1] = Filled(n, k - 1) /\ g[k] = Filled(n, k)
      BY <3>1
    <3> QED BY <2>2, <3>1, <3>2, <1>3
  <2> QED BY <2>1, <2>2
<1>5. g = Def(g)
  <2>1. g = [k \in 0 .. n |-> g[k]]
    OBVIOUS
  <2> HIDE DEF g
  <2> QED BY <1>4, <2>1
<1>6. after = Def(after)
  <2> HIDE DEF Def, g
  <2> QED BY <1>5
<1>7. \A k \in 0 .. n : after[k] = IF k = 0 THEN Queue_init(n)
           ELSE submit_descriptor(alloc_descriptor(after[k - 1]), after[k - 1].free_desc_index)
  <2> HIDE DEF after
  <2> QED BY <1>6
<1> DEFINE E == {k \in 0 .. n : after[k] = g[k]}
<1> HIDE DEF after, g
<1>8. 0 \in E
  BY <1>1, <1>4, <1>7
<1>9. ASSUME NEW i \in 0 .. n - 1, i \in E PROVE i + 1 \in E
  <2>1. i + 1 \in 0 .. n /\ i + 1 # 0 /\ (i + 1) - 1 = i /\ after[i] = g[i]
    BY <1>1, <1>9
  <2> QED BY <2>1, <1>4, <1>7
<1>10. 0 .. n \subseteq E
  <2> HIDE DEF E
  <2> QED BY <1>1, <1>8, <1>9, UpTo
<1>11. after[n] = g[n]
  BY <1>1, <1>10
<1>12. NetDevice_init = after[n]
  BY DEF NetDevice_init, after
<1> QED BY <1>1, <1>11, <1>12 DEF g

\* The receive queue and the I/O service: the tasks, and the task at work.
TaskSet(tasks) == {tasks[i] : i \in DOMAIN tasks}
IoRecords == [tasks : Seq(0 .. RxLength - 1), pc : {"pop", "empty", "waits", "task"},
              task : 0 .. RxLength]
IoSound(io) ==
    /\ io \in IoRecords
    /\ \A i, j \in 1 .. Len(io.tasks) : io.tasks[i] = io.tasks[j] => i = j
    /\ io.pc = "task" <=> io.task # RxLength

\* Every buffer is in one place.
Placed(q, T, t) ==
    /\ \A x \in 0 .. RxLength - 1 : x \in Transit(q) \/ x \in T \/ x = t
    /\ Transit(q) \cap T = {} /\ t \notin Transit(q) /\ t \notin T
RxInv ==
    /\ vio_rx \in VioQueues(RxLength) /\ RingsSound(vio_rx) /\ TransitSound(vio_rx)
    /\ Transit(vio_rx) \subseteq 0 .. RxLength - 1
    /\ IoSound(vio_io) /\ Placed(vio_rx, TaskSet(vio_io.tasks), vio_io.task)

\* The receive queue with every descriptor given to the device.
LEMMA FilledQueue ==
    ASSUME NEW n, QueueLength(n), n < IndexWord
    PROVE  LET q == Filled(n, n)
           IN  /\ q \in VioQueues(n) /\ RingsSound(q) /\ Untaken(q) = 0 .. n - 1
               /\ UsedUnseen(q) = {} /\ q.held = {}
<1> DEFINE q == Filled(n, n)
           zero == [i \in 0 .. n - 1 |-> 0]
           all == InOrder(n, n)
<1>1. n \in Nat \ {0} /\ IndexWord \in Nat \ {0} /\ n \in 0 .. n
  BY DEF QueueLength
<1>2. /\ q \in VioQueues(n) /\ q.length = n /\ q.last_seen_used = 0 /\ q.avail = all
      /\ q.avail_index = n /\ q.used = zero /\ q.used_index = 0 /\ q.dev_index = 0 /\ q.held = {}
  <2> DEFINE k == n
             p == Filled(n, k)
  <2>1. k \in 0 .. n
    BY <1>1
  <2> HIDE DEF k
  <2>2. /\ p \in VioQueues(n) /\ p.length = n /\ p.free_desc_index = k
        /\ p.next = [i \in 0 .. n - 1 |-> i + 1] /\ p.num_free_descs = n - k
        /\ p.last_seen_used = 0 /\ p.avail = InOrder(n, k) /\ p.avail_index = k
        /\ p.used = [i \in 0 .. n - 1 |-> 0] /\ p.used_index = 0 /\ p.dev_index = 0
        /\ p.held = {} /\ p.chains = 0
    BY <2>1, FilledFields
  <2> QED BY <2>2 DEF k
<1> HIDE DEF q
<1>3. 0 \in 0 .. n - 1 /\ 0 \in 0 .. IndexWord - 1 /\ n \in 0 .. IndexWord - 1
  BY <1>1
<1>4. 0 % n = 0
  BY <1>1, <1>3, Small
<1>5. Available(q) = n
  <2>1. Lag(n, 0, IndexWord) = IF n >= 0 THEN n - 0 ELSE (n + IndexWord) - 0
    BY <1>1, <1>3, LagIs
  <2> QED BY <1>1, <1>2, <2>1 DEF Available
<1>6. Unseen(q) = 0 /\ UsedUnseen(q) = RingSet(zero, 0, 0, n)
  <2>1. /\ Unseen(q) = Lag(q.used_index % n, q.last_seen_used, n)
        /\ UsedUnseen(q) = RingSet(q.used, q.last_seen_used, Unseen(q), n)
    BY <1>2, UnseenIs
  <2>2. Lag(0, 0, n) = 0
    BY <1>1, <1>3, LagSteps
  <2> QED BY <1>2, <1>4, <2>1, <2>2
<1>7. RingSound(zero, 0, 0, n) /\ RingSet(zero, 0, 0, n) = {}
  <2>1. 0 .. 0 - 1 = {}
    OBVIOUS
  <2>2. zero \in [0 .. n - 1 -> 0 .. n - 1]
    BY <1>3
  <2> HIDE DEF zero
  <2>3. RingSound(zero, 0, 0, n)
    BY <1>1, <1>3, <2>1, <2>2 DEF RingSound
  <2>4. RingSet(zero, 0, 0, n) = {}
    BY <2>1 DEF RingSet
  <2> QED BY <2>3, <2>4
<1>8. RingSound(all, 0, n, n) /\ RingSet(all, 0, n, n) = 0 .. n - 1
  <2>1. \A k \in 0 .. n - 1 : all[Place(0, k, n)] = k
    BY <1>1 DEF InOrder, Place
  <2>2. all \in [0 .. n - 1 -> 0 .. n - 1]
    BY <1>1 DEF InOrder
  <2> HIDE DEF all
  <2>3. RingSound(all, 0, n, n)
    BY <1>1, <1>3, <2>1, <2>2 DEF RingSound
  <2>4. RingSet(all, 0, n, n) = 0 .. n - 1
    BY <2>1 DEF RingSet
  <2> QED BY <2>3, <2>4
<1> HIDE DEF zero, all
<1>9. RingsSound(q)
  BY <1>2, <1>4, <1>5, <1>6, <1>7, <1>8 DEF RingsSound
<1>10. Untaken(q) = 0 .. n - 1
  BY <1>2, <1>4, <1>5, <1>8 DEF Untaken
<1> QED BY <1>2, <1>6, <1>7, <1>9, <1>10 DEF q

\* The receive invariant holds when all buffers are with the device.
LEMMA RxInit == VioInit => RxInv
<1> SUFFICES ASSUME VioInit PROVE RxInv
  OBVIOUS
<1> DEFINE q == vio_rx
           n == RxLength
<1>1. n \in Nat \ {0} /\ QueueLength(n) /\ n < IndexWord
  BY VirtioAssumption, BlockQueue DEF QueueLength
<1>2. q = Filled(n, n) /\ vio_io = [tasks |-> <<>>, pc |-> "pop", task |-> n]
  BY NetQueueFilled DEF VioInit
<1>3. /\ q \in VioQueues(n) /\ RingsSound(q) /\ Untaken(q) = 0 .. n - 1
      /\ UsedUnseen(q) = {} /\ q.held = {}
  BY <1>1, <1>2, FilledQueue
<1>4. Transit(q) = 0 .. n - 1 /\ TransitSound(q)
  BY <1>3 DEF Transit, TransitSound
<1>5. vio_io \in IoRecords /\ vio_io.tasks = <<>> /\ vio_io.pc = "pop" /\ vio_io.task = n
  BY <1>1, <1>2 DEF IoRecords
<1>6. IoSound(vio_io)
  BY <1>5 DEF IoSound
<1>7. TaskSet(vio_io.tasks) = {} /\ n \notin 0 .. n - 1
  BY <1>1, <1>5 DEF TaskSet
<1>8. Placed(q, TaskSet(vio_io.tasks), vio_io.task)
  BY <1>4, <1>5, <1>7 DEF Placed
<1> QED BY <1>3, <1>4, <1>6, <1>8 DEF RxInv

\* IoService::push and pop on a task list without repetition.
LEMMA TaskPush ==
    ASSUME NEW S, NEW tasks \in Seq(S), NEW x \in S, x \notin TaskSet(tasks),
           \A i, j \in 1 .. Len(tasks) : tasks[i] = tasks[j] => i = j
    PROVE  LET new == Append(tasks, x)
           IN  /\ new \in Seq(S) /\ TaskSet(new) = TaskSet(tasks) \cup {x}
               /\ \A i, j \in 1 .. Len(new) : new[i] = new[j] => i = j
<1> DEFINE new == Append(tasks, x)
           m == Len(tasks)
<1>1. /\ m \in Nat /\ DOMAIN tasks = 1 .. m /\ new \in Seq(S) /\ Len(new) = m + 1
      /\ DOMAIN new = 1 .. m + 1
      /\ new[m + 1] = x /\ \A i \in 1 .. m : new[i] = tasks[i]
  OBVIOUS
<1>2. \A i \in 1 .. m : tasks[i] # x
  BY <1>1 DEF TaskSet
<1> HIDE DEF new, m
<1>3. \A i : i \in 1 .. m + 1 <=> i \in 1 .. m \/ i = m + 1
  BY <1>1
<1>4. TaskSet(new) = TaskSet(tasks) \cup {x}
  BY <1>1, <1>3 DEF TaskSet
<1>5. \A i, j \in 1 .. m + 1 : new[i] = new[j] => i = j
  BY <1>1, <1>2, <1>3 DEF m
<1> QED BY <1>1, <1>4, <1>5 DEF new

\* The task list without its first task.
LEMMA TaskPop ==
    ASSUME NEW S, NEW tasks \in Seq(S), tasks # <<>>,
           \A i, j \in 1 .. Len(tasks) : tasks[i] = tasks[j] => i = j
    PROVE  LET new == Tail(tasks)
           IN  /\ new \in Seq(S) /\ TaskSet(new) = TaskSet(tasks) \ {Head(tasks)}
               /\ Head(tasks) \in TaskSet(tasks) /\ Head(tasks) \in S
               /\ \A i, j \in 1 .. Len(new) : new[i] = new[j] => i = j
<1> DEFINE new == Tail(tasks)
           m == Len(tasks)
           x == Head(tasks)
<1>1. /\ m \in Nat \ {0} /\ DOMAIN tasks = 1 .. m /\ new \in Seq(S) /\ Len(new) = m - 1
      /\ DOMAIN new = 1 .. m - 1
      /\ x = tasks[1] /\ x \in S /\ \A i \in 1 .. m - 1 : new[i] = tasks[i + 1]
  OBVIOUS
<1> HIDE DEF new, m, x
<1>2. \A i \in 1 .. m - 1 : i + 1 \in 1 .. m /\ i + 1 # 1
  BY <1>1
<1>3. \A i \in 1 .. m : i = 1 \/ (i - 1 \in 1 .. m - 1 /\ (i - 1) + 1 = i)
  BY <1>1
<1>4. 1 \in 1 .. m /\ x \in TaskSet(tasks)
  BY <1>1 DEF TaskSet
<1>5. TaskSet(new) = TaskSet(tasks) \ {x}
  <2>1. ASSUME NEW i \in 1 .. m - 1 PROVE new[i] \in TaskSet(tasks) /\ new[i] # x
    BY <1>1, <1>2, <1>4 DEF TaskSet, m
  <2>2. ASSUME NEW i \in 1 .. m, tasks[i] # x PROVE tasks[i] \in TaskSet(new)
    <3>1. i - 1 \in 1 .. m - 1 /\ new[i - 1] = tasks[i]
      BY <1>1, <1>3, <2>2
    <3> QED BY <1>1, <3>1 DEF TaskSet
  <2>3. ASSUME NEW y \in TaskSet(new) PROVE y \in TaskSet(tasks) /\ y # x
    <3>1. PICK i \in 1 .. m - 1 : y = new[i]
      BY <1>1 DEF TaskSet
    <3> QED BY <2>1, <3>1
  <2>4. ASSUME NEW y \in TaskSet(tasks), y # x PROVE y \in TaskSet(new)
    <3>1. PICK i \in 1 .. m : y = tasks[i]
      BY <1>1 DEF TaskSet
    <3> QED BY <2>2, <2>4, <3>1
  <2> QED BY <2>3, <2>4
<1>6. ASSUME NEW i \in 1 .. m - 1, NEW j \in 1 .. m - 1, new[i] = new[j] PROVE i = j
  <2>1. i + 1 = j + 1
    BY <1>1, <1>2, <1>6 DEF m
  <2> QED BY <2>1
<1> QED BY <1>1, <1>4, <1>5, <1>6 DEF new, x

\* The fields of the I/O service's record.
LEMMA IoFields ==
    ASSUME NEW tasks \in Seq(0 .. RxLength - 1), NEW pc \in {"pop", "empty", "waits", "task"},
           NEW task \in 0 .. RxLength
    PROVE  LET io == [tasks |-> tasks, pc |-> pc, task |-> task]
           IN  io \in IoRecords /\ io.tasks = tasks /\ io.pc = pc /\ io.task = task
BY DEF IoRecords

\* The types of the fields of the I/O service.
LEMMA IoParts ==
    ASSUME NEW io \in IoRecords
    PROVE  /\ io.tasks \in Seq(0 .. RxLength - 1) /\ io.task \in 0 .. RxLength
           /\ io.pc \in {"pop", "empty", "waits", "task"}
           /\ io = [tasks |-> io.tasks, pc |-> io.pc, task |-> io.task]
BY DEF IoRecords

\* NetDevice::rx_irq moves a buffer from the used ring to the task list.
LEMMA RxIrqStep ==
    ASSUME RxInv, rx_irq
    PROVE  RxInv'
<1> DEFINE q == vio_rx
           q2 == Seen(q)
           n == RxLength
           S == 0 .. n - 1
           x == q.used[q.last_seen_used]
           tasks == vio_io.tasks
           new == Append(tasks, x)
           pc == IF vio_io.pc = "waits" THEN "pop" ELSE vio_io.pc
           task == vio_io.task
<1>1. /\ q \in VioQueues(n) /\ RingsSound(q) /\ TransitSound(q) /\ QueueLength(n)
      /\ Transit(q) \subseteq S
      /\ vio_io \in IoRecords /\ IoSound(vio_io) /\ Placed(q, TaskSet(tasks), task)
  BY BlockQueue DEF RxInv, IoSound
<1>2. q.last_seen_used # q.used_index % n /\ vio_rx' = q2
  BY DEF rx_irq
<1>3. vio_io' = [vio_io EXCEPT !.tasks = new, !.pc = pc]
  BY <1>1 DEF rx_irq, IoRecords
<1>4. /\ tasks \in Seq(S) /\ task \in 0 .. n /\ pc \in {"pop", "empty", "waits", "task"}
      /\ pc = "task" <=> vio_io.pc = "task"
  BY <1>1, IoParts
<1>5. vio_io' = [tasks |-> new, pc |-> pc, task |-> task]
  BY <1>1, <1>3, <1>4 DEF IoRecords
<1> HIDE DEF q, n, x, tasks, pc, task, new
<1>6. /\ q2 \in VioQueues(n) /\ RingsSound(q2)
      /\ x \in UsedUnseen(q) /\ UsedUnseen(q2) = UsedUnseen(q) \ {x}
      /\ Untaken(q2) = Untaken(q) /\ q2.held = q.held
  BY <1>1, <1>2, SeenStep DEF x
<1> HIDE DEF q2
<1>7. TransitSound(q2) /\ Transit(q2) = Transit(q) \ {x} /\ x \in Transit(q)
  BY <1>1, <1>6 DEF TransitSound, Transit
<1>8. x \in S /\ x \notin TaskSet(tasks)
  BY <1>1, <1>7 DEF Placed
<1>9. \A i, j \in 1 .. Len(tasks) : tasks[i] = tasks[j] => i = j
  BY <1>1 DEF IoSound, tasks
<1> HIDE DEF S
<1>10. /\ new \in Seq(S) /\ TaskSet(new) = TaskSet(tasks) \cup {x}
       /\ \A i, j \in 1 .. Len(new) : new[i] = new[j] => i = j
  BY <1>4, <1>8, <1>9, TaskPush DEF new
<1>11. /\ vio_io' \in IoRecords /\ vio_io'.tasks = new /\ vio_io'.pc = pc /\ vio_io'.task = task
  <2>1. new \in Seq(0 .. RxLength - 1) /\ task \in 0 .. RxLength
    BY <1>4, <1>10 DEF S, n
  <2> QED BY <1>4, <1>5, <2>1, IoFields
<1>12. IoSound(vio_io)'
  BY <1>1, <1>4, <1>10, <1>11 DEF IoSound, task
<1>13. Placed(q2, TaskSet(new), task)
  BY <1>1, <1>7, <1>10 DEF Placed, S, n
<1> QED BY <1>1, <1>2, <1>6, <1>7, <1>11, <1>12, <1>13 DEF RxInv, S, n

\* IoService::pop takes the buffer of the first task.
LEMMA PopStep ==
    ASSUME RxInv, pop
    PROVE  RxInv'
<1> DEFINE q == vio_rx
           n == RxLength
           S == 0 .. n - 1
           tasks == vio_io.tasks
           x == Head(tasks)
           new == Tail(tasks)
<1>1. /\ q \in VioQueues(n) /\ RingsSound(q) /\ TransitSound(q) /\ n \in Nat
      /\ Transit(q) \subseteq S /\ vio_rx' = q
      /\ vio_io \in IoRecords /\ IoSound(vio_io) /\ Placed(q, TaskSet(tasks), vio_io.task)
  BY BlockQueue DEF RxInv, IoSound, pop, QueueLength
<1>2. vio_io.pc = "pop" /\ tasks \in Seq(S) /\ vio_io.task = n
  BY <1>1, IoParts DEF pop, IoSound
<1>3. CASE tasks = <<>>
  <2>1. vio_io' = [vio_io EXCEPT !.pc = "empty"]
    BY <1>3 DEF pop
  <2>2. /\ vio_io' \in IoRecords /\ vio_io'.tasks = tasks /\ vio_io'.pc = "empty"
        /\ vio_io'.task = vio_io.task
    BY <1>1, <2>1 DEF IoRecords
  <2> QED BY <1>1, <1>2, <2>2 DEF RxInv, IoSound
<1>4. CASE tasks # <<>>
  <2>1. vio_io' = [tasks |-> new, pc |-> "task", task |-> x]
    BY <1>4 DEF pop
  <2>2. \A i, j \in 1 .. Len(tasks) : tasks[i] = tasks[j] => i = j
    BY <1>1 DEF IoSound
  <2> HIDE DEF q, n, S, tasks, x, new
  <2>3. /\ new \in Seq(S) /\ TaskSet(new) = TaskSet(tasks) \ {x}
        /\ x \in TaskSet(tasks) /\ x \in S
        /\ \A i, j \in 1 .. Len(new) : new[i] = new[j] => i = j
    BY <1>2, <1>4, <2>2, TaskPop DEF new, x
  <2>4. x \in 0 .. n /\ x # n /\ n \notin S
    BY <1>1, <2>3 DEF S
  <2>5. /\ vio_io' \in IoRecords /\ vio_io'.tasks = new /\ vio_io'.pc = "task" /\ vio_io'.task = x
    <3>1. new \in Seq(0 .. RxLength - 1) /\ x \in 0 .. RxLength
      BY <2>3, <2>4 DEF S, n
    <3> QED BY <2>1, <3>1, IoFields
  <2>6. IoSound(vio_io)'
    BY <2>3, <2>4, <2>5 DEF IoSound, n
  <2>7. Placed(q, TaskSet(new), x)
    BY <1>1, <1>2, <2>3, <2>4 DEF Placed, S, n
  <2> QED BY <1>1, <2>5, <2>6, <2>7 DEF RxInv, S, n, q
<1> QED BY <1>3, <1>4

\* The thread of the I/O service waits.
LEMMA WaitStep ==
    ASSUME RxInv, wait_queue_event
    PROVE  RxInv'
<1>1. /\ vio_io \in IoRecords /\ vio_io.pc = "empty" /\ vio_rx' = vio_rx
      /\ vio_io' = [vio_io EXCEPT !.pc = "waits"]
  BY DEF RxInv, IoSound, wait_queue_event
<1>2. /\ vio_io' \in IoRecords /\ vio_io'.tasks = vio_io.tasks /\ vio_io'.pc = "waits"
      /\ vio_io'.task = vio_io.task
  BY <1>1 DEF IoRecords
<1>3. IoSound(vio_io)'
  BY <1>1, <1>2 DEF RxInv, IoSound
<1> QED BY <1>1, <1>2, <1>3 DEF RxInv

\* A ring that lacks a descriptor has room for it.
LEMMA LackFits ==
    ASSUME NEW n, QueueLength(n), n < IndexWord, NEW q \in VioQueues(n), RingsSound(q),
           NEW x \in 0 .. n - 1, x \notin Untaken(q)
    PROVE  Available(q) < n /\ Available(q) + 1 < IndexWord
<1>1. n \in Nat \ {0} /\ q.length = n /\ IndexWord \in Nat \ {0}
  BY QueueFields DEF QueueLength
<1> DEFINE k == Available(q)
           d == q.dev_index % n
<1>2. RingSound(q.avail, d, k, n) /\ Untaken(q) = RingSet(q.avail, d, k, n) /\ k \in 0 .. n
  BY <1>1 DEF RingsSound, Untaken, RingSound
<1> HIDE DEF k, d
<1>3. k < n
  BY <1>1, <1>2, RingFits
<1> QED BY <1>1, <1>2, <1>3 DEF k

\* The task gives its buffer back to the device.
LEMMA TaskStep ==
    ASSUME RxInv, rx_task
    PROVE  RxInv'
<1> DEFINE q == vio_rx
           n == RxLength
           S == 0 .. n - 1
           tasks == vio_io.tasks
           x == vio_io.task
           q2 == submit_descriptor(q, x)
<1>1. /\ q \in VioQueues(n) /\ RingsSound(q) /\ TransitSound(q) /\ QueueLength(n) /\ n \in Nat
      /\ Transit(q) \subseteq S /\ n < IndexWord
      /\ vio_io \in IoRecords /\ IoSound(vio_io) /\ Placed(q, TaskSet(tasks), x)
  BY BlockQueue, VirtioAssumption DEF RxInv, IoSound, QueueLength
<1>2. /\ vio_rx' = q2 /\ vio_io' = [vio_io EXCEPT !.pc = "pop", !.task = n]
      /\ vio_io.pc = "task" /\ n \in 0 .. n
  BY <1>1 DEF rx_task
<1>3. x # n /\ x \in 0 .. n /\ x \in S
  BY <1>1, <1>2, IoParts DEF IoSound
<1>4. /\ vio_io' \in IoRecords /\ vio_io'.tasks = tasks /\ vio_io'.pc = "pop" /\ vio_io'.task = n
  BY <1>1, <1>2 DEF IoRecords
<1>5. TaskSet(tasks) \subseteq S /\ n \notin S
  <2>1. tasks \in Seq(S)
    BY <1>1, IoParts
  <2> QED BY <1>1, <2>1 DEF TaskSet
<1> HIDE DEF q, n, x, tasks
<1>6. x \notin Transit(q)
  BY <1>1 DEF Placed
<1>7. x \notin Untaken(q)
  BY <1>6 DEF Transit
<1>8. Available(q) < n /\ Available(q) + 1 < IndexWord
  BY <1>1, <1>3, <1>7, LackFits
<1>9. /\ q2 \in VioQueues(n) /\ RingsSound(q2)
      /\ Untaken(q2) = Untaken(q) \cup {x} /\ UsedUnseen(q2) = UsedUnseen(q)
      /\ q2.held = q.held
  BY <1>1, <1>3, <1>7, <1>8, SubmitStep
<1> HIDE DEF q2
<1>10. TransitSound(q2) /\ Transit(q2) = Transit(q) \cup {x}
  BY <1>1, <1>6, <1>9 DEF TransitSound, Transit
<1>11. IoSound(vio_io)'
  BY <1>1, <1>4 DEF IoSound, tasks, n
<1>12. Placed(q2, TaskSet(tasks), n)
  BY <1>1, <1>3, <1>5, <1>10 DEF Placed, n
<1> QED BY <1>1, <1>2, <1>3, <1>4, <1>9, <1>10, <1>11, <1>12 DEF RxInv, n

\* The device takes a buffer or returns one.
LEMMA NetDeviceStep ==
    ASSUME RxInv, net_device
    PROVE  RxInv'
<1> DEFINE q == vio_rx
           n == RxLength
           S == 0 .. n - 1
           T == TaskSet(vio_io.tasks)
<1>1. /\ q \in VioQueues(n) /\ RingsSound(q) /\ TransitSound(q) /\ QueueLength(n)
      /\ Transit(q) \subseteq S /\ vio_io' = vio_io
      /\ IoSound(vio_io) /\ Placed(q, T, vio_io.task)
  BY BlockQueue DEF RxInv, net_device
<1>2. \/ q.dev_index # q.avail_index /\ vio_rx' = DeviceTakes(q)
      \/ \E i \in q.held : Unseen(q) < MaxBurst /\ vio_rx' = DeviceReturns(q, i)
  BY DEF net_device
<1>3. n \in Nat \ {0} /\ MaxBurst \in 1 .. n - 1
  BY VirtioAssumption
<1> HIDE DEF q, n
<1>4. ASSUME NEW q2 \in VioQueues(n), RingsSound(q2), TransitSound(q2), Transit(q2) = Transit(q),
             vio_rx' = q2
      PROVE  RxInv'
  <2>1. Placed(q2, T, vio_io.task)
    BY <1>1, <1>4 DEF Placed
  <2> QED BY <1>1, <1>4, <2>1 DEF RxInv, n
<1>5. CASE q.dev_index # q.avail_index /\ vio_rx' = DeviceTakes(q)
  <2> DEFINE q2 == DeviceTakes(q)
  <2>1. /\ q2 \in VioQueues(n) /\ RingsSound(q2) /\ SameFree(q, q2)
        /\ UsedUnseen(q2) = UsedUnseen(q)
        /\ \E x \in Untaken(q) : /\ q2.held = q.held \cup {x}
                                 /\ Untaken(q2) = Untaken(q) \ {x}
    BY <1>1, <1>5, TakeStep
  <2> HIDE DEF q2
  <2>2. TransitSound(q2) /\ Transit(q2) = Transit(q)
    BY <1>1, <2>1 DEF TransitSound, Transit
  <2> QED BY <1>4, <1>5, <2>1, <2>2 DEF q2
<1>6. CASE \E i \in q.held : Unseen(q) < MaxBurst /\ vio_rx' = DeviceReturns(q, i)
  <2>1. PICK x \in q.held : Unseen(q) < MaxBurst /\ vio_rx' = DeviceReturns(q, x)
    BY <1>6
  <2>2. x \in S /\ x \notin UsedUnseen(q)
    BY <1>1 DEF TransitSound, Transit
  <2>3. Unseen(q) \in 0 .. n - 1
    BY <1>1, UnseenIs
  <2>4. Unseen(q) + 1 < n
    BY <1>3, <2>1, <2>3
  <2> DEFINE q2 == DeviceReturns(q, x)
  <2>5. /\ q2 \in VioQueues(n) /\ RingsSound(q2) /\ SameFree(q, q2)
        /\ UsedUnseen(q2) = UsedUnseen(q) \cup {x}
        /\ Untaken(q2) = Untaken(q) /\ q2.held = q.held \ {x}
    BY <1>1, <2>2, <2>4, ReturnStep
  <2> HIDE DEF q2
  <2>6. TransitSound(q2) /\ Transit(q2) = Transit(q)
    BY <1>1, <2>5 DEF TransitSound, Transit
  <2> QED BY <1>4, <2>1, <2>5, <2>6 DEF q2
<1> QED BY <1>2, <1>5, <1>6

\* Every step of the receive side keeps its invariant.
LEMMA RxStep == RxInv /\ [RxNext]_<<vio_rx, vio_io>> => RxInv'
<1> SUFFICES ASSUME RxInv, [RxNext]_<<vio_rx, vio_io>> PROVE RxInv'
  OBVIOUS
<1>1. ASSUME UNCHANGED <<vio_rx, vio_io>> PROVE RxInv'
  BY <1>1 DEF RxInv
<1> QED BY <1>1, RxIrqStep, PopStep, WaitStep, TaskStep, NetDeviceStep DEF RxNext
-----------------------------------------------------------------------------
\* What the free list and the calls share.
LEMMA DescriptorsShared == BlockInv => VioDescriptors
<1> SUFFICES ASSUME BlockInv PROVE VioDescriptors
  OBVIOUS
<1> DEFINE q == vio_queue
           n == BlockLength
           F == FreeList(q)
<1>1. /\ q \in VioQueues(n) /\ FreeSound(q) /\ QueueLength(n)
      /\ Shared(F, vio_call) /\ \A c \in VioCallers : CallSound(q, vio_call[c])
  BY BlockQueue DEF BlockInv, BlockOK
<1>2. \A c : HeldBy(c) = Own(vio_call[c])
  BY DEF HeldBy, Own
<1>3. \A c \in VioCallers : Own(vio_call[c]) \subseteq 0 .. n - 1
  BY <1>1, HeadIsHeld
<1> HIDE DEF q, n
<1>4. F \subseteq 0 .. n - 1 /\ Cardinality(F) = q.num_free_descs
  BY <1>1, FreeFacts
<1> HIDE DEF F
<1>5. F \cup UNION {HeldBy(c) : c \in VioCallers} = 0 .. n - 1
  <2>1. ASSUME NEW x \in F \cup UNION {HeldBy(c) : c \in VioCallers} PROVE x \in 0 .. n - 1
    BY <1>2, <1>3, <1>4
  <2>2. ASSUME NEW x \in 0 .. n - 1
        PROVE  x \in F \cup UNION {HeldBy(c) : c \in VioCallers}
    <3>1. x \in F \/ \E c \in VioCallers : x \in HeldBy(c)
      BY <1>1, <1>2 DEF Shared, n
    <3> QED BY <3>1
  <2> QED BY <2>1, <2>2
<1>6. /\ \A c \in VioCallers : F \cap HeldBy(c) = {}
      /\ \A c, d \in VioCallers : c # d => HeldBy(c) \cap HeldBy(d) = {}
  BY <1>1, <1>2 DEF Shared
<1> QED BY <1>4, <1>5, <1>6 DEF VioDescriptors, F, q, n

\* What the device returns belongs to a call that waits.
LEMMA CompletionsOwned == BlockInv => VioCompletion
<1> SUFFICES ASSUME BlockInv PROVE VioCompletion
  OBVIOUS
<1> DEFINE q == vio_queue
<1>1. /\ Transit(q) = UNION {HeadOf(vio_call[c]) : c \in VioCallers} /\ TransitSound(q)
      /\ \A c \in VioCallers : CallSound(q, vio_call[c])
  BY DEF BlockInv, BlockOK
<1>2. ASSUME NEW desc \in UsedUnseen(q) \cup q.held
      PROVE  \E c \in VioCallers : /\ vio_call[c].pc = "waiting" /\ vio_call[c].held[1] = desc
                                   /\ q.next[desc] = vio_call[c].held[2]
                                   /\ q.next[vio_call[c].held[2]] = vio_call[c].held[3]
  <2>1. PICK c \in VioCallers : desc \in HeadOf(vio_call[c])
    BY <1>1 DEF Transit
  <2>2. vio_call[c].pc = "waiting" /\ vio_call[c].held[1] = desc
    BY <2>1 DEF HeadOf
  <2> QED BY <1>1, <2>2 DEF CallSound
<1> QED BY <1>1, <1>2 DEF VioCompletion, TransitSound

\* Every receive buffer is in one place.
LEMMA BuffersPlaced == RxInv => VioBuffers
<1> SUFFICES ASSUME RxInv PROVE VioBuffers
  OBVIOUS
<1> DEFINE q == vio_rx
           n == RxLength
           tasks == vio_io.tasks
           k == Available(q)
           d == q.dev_index
           U == UsedUnseen(q)
           W == {vio_io.task} \ {n}
<1>1. /\ q \in VioQueues(n) /\ RingsSound(q) /\ TransitSound(q) /\ n \in Nat \ {0}
      /\ Transit(q) \subseteq 0 .. n - 1
      /\ vio_io \in IoRecords /\ IoSound(vio_io) /\ Placed(q, TaskSet(tasks), vio_io.task)
  BY BlockQueue DEF RxInv, IoSound, QueueLength
<1>2. q.length = n /\ d \in Nat
  BY <1>1, QueueFields DEF RingIndices
<1>3. k \in 0 .. n
  BY <1>1, <1>2 DEF RingsSound, RingSound
<1>4. k = (q.avail_index + IndexWord - d) % IndexWord
  <2>1. q.avail_index \in Nat /\ IndexWord \in Nat
    BY <1>1, QueueFields, VirtioAssumption DEF RingIndices
  <2>2. (q.avail_index + IndexWord) - d = q.avail_index + IndexWord - d
    BY <1>2, <2>1
  <2> QED BY <2>2 DEF Available, Lag
<1>5. WithDevice = q.held \cup {q.avail[(d + i) % n] : i \in 0 .. k - 1}
  BY <1>4 DEF WithDevice
<1> HIDE DEF k, d, n, q
<1>6. \A i \in 0 .. k - 1 : i \in 0 .. n
  BY <1>1, <1>3
<1>7. \A i \in 0 .. k - 1 : (d + i) % n = Place(d % n, i, n)
  BY <1>1, <1>2, <1>6, ModShift
<1>8. WithDevice = q.held \cup Untaken(q)
  BY <1>2, <1>5, <1>7 DEF Untaken, RingSet, k, d
<1>9. InTasks = TaskSet(tasks)
  BY DEF InTasks, TaskSet
<1>10. tasks \in Seq(0 .. n - 1) /\ vio_io.task \in 0 .. n
  BY <1>1, IoParts DEF n
<1>11. TaskSet(tasks) \subseteq 0 .. n - 1 /\ Len(tasks) \in Nat /\ DOMAIN tasks = 1 .. Len(tasks)
       /\ tasks \in [1 .. Len(tasks) -> 0 .. n - 1]
  <2> DEFINE S == 0 .. n - 1
  <2>1. tasks \in Seq(S)
    BY <1>10
  <2> HIDE DEF tasks, S
  <2>2. /\ Len(tasks) \in Nat /\ DOMAIN tasks = 1 .. Len(tasks)
        /\ tasks \in [1 .. Len(tasks) -> S]
    BY <2>1
  <2>3. TaskSet(tasks) \subseteq S
    BY <2>2 DEF TaskSet
  <2> QED BY <2>2, <2>3 DEF S
<1>12. Cardinality(TaskSet(tasks)) = Len(tasks)
  <2> DEFINE m == Len(tasks)
  <2>1. \A i, j \in 1 .. m : tasks[i] = tasks[j] => i = j
    BY <1>1 DEF IoSound
  <2>2. TaskSet(tasks) = Members(tasks, m)
    BY <1>11 DEF TaskSet, Members
  <2> HIDE DEF tasks, m
  <2>3. m \in Nat /\ tasks \in [1 .. m -> 0 .. n - 1]
    BY <1>11 DEF m
  <2>4. Cardinality(Members(tasks, m)) = m
    BY <1>1, <2>1, <2>3, FreeSeqSize
  <2> QED BY <2>2, <2>4 DEF m
<1> DEFINE T == TaskSet(tasks)
           D == WithDevice
<1> HIDE DEF tasks, T
<1>13. D \cup U \cup T \cup W = 0 .. n - 1
  <2>1. W \subseteq 0 .. n - 1
    BY <1>1, <1>10
  <2>2. D \cup U = Transit(q)
    BY <1>8 DEF Transit
  <2>3. \A x \in 0 .. n - 1 : x \in Transit(q) \/ x \in T \/ x \in W
    BY <1>1 DEF Placed, T, n
  <2> QED BY <1>1, <1>11, <2>1, <2>2, <2>3 DEF T
<1>14. D \cap U = {} /\ D \cap T = {} /\ D \cap W = {} /\ U \cap T = {} /\ U \cap W = {} /\ T \cap W = {}
  BY <1>1, <1>8 DEF Placed, TransitSound, Transit, T
<1> HIDE DEF D, U, W
<1> DEFINE parts == <<D, U, T, W>>
<1>15. /\ DOMAIN parts = {1, 2, 3, 4}
       /\ parts[1] = D /\ parts[2] = U /\ parts[3] = T /\ parts[4] = W
  OBVIOUS
<1> HIDE DEF parts
<1>16. UNION {parts[i] : i \in DOMAIN parts} = 0 .. n - 1
  BY <1>13, <1>15
<1>17. \A i, j \in DOMAIN parts : i # j => parts[i] \cap parts[j] = {}
  BY <1>14, <1>15
<1> QED BY <1>9, <1>12, <1>16, <1>17 DEF VioBuffers, parts, D, U, T, W, q, n, tasks

\* The block device's descriptors, its completions and the receive buffers are
\* safe for queues of every length, any number of callers and a device that
\* returns what it took in any order.
THEOREM VirtioSafe == VioSpec => []VioSafe
<1>1. VioInit => BlockInv /\ RxInv
  BY BlockInit, RxInit
<1>2. BlockInv /\ RxInv /\ [VioNext]_vio_vars => (BlockInv /\ RxInv)'
  <2> SUFFICES ASSUME BlockInv, RxInv, [VioNext]_vio_vars PROVE BlockInv' /\ RxInv'
    OBVIOUS
  <2>1. ASSUME BlockNext PROVE BlockInv' /\ RxInv'
    <3>1. UNCHANGED <<vio_rx, vio_io>>
      BY <2>1 DEF BlockNext, read_write_block, allocate, fail, submit, block_irq, block_device
    <3> QED BY <2>1, <3>1, BlockStep, RxStep
  <2>2. ASSUME RxNext PROVE BlockInv' /\ RxInv'
    <3>1. UNCHANGED <<vio_queue, vio_call>>
      BY <2>2 DEF RxNext, rx_irq, pop, wait_queue_event, rx_task, net_device
    <3> QED BY <2>2, <3>1, BlockStep, RxStep
  <2>3. ASSUME UNCHANGED vio_vars PROVE BlockInv' /\ RxInv'
    BY <2>3, BlockStep, RxStep DEF vio_vars
  <2> QED BY <2>1, <2>2, <2>3 DEF VioNext
<1>3. BlockInv /\ RxInv => VioSafe
  BY DescriptorsShared, CompletionsOwned, BuffersPlaced DEF VioSafe
<1> QED BY <1>1, <1>2, <1>3, PTL DEF VioSpec
-----------------------------------------------------------------------------
KeyEvents == Nat \X {0, 1, 2}
PlainEvents == KeyEvents \cup {Syn, Moved}
InputEvents == PlainEvents \cup {Dropped}
Views == SUBSET Nat

LEMMA EventKinds ==
    /\ Dropped \notin PlainEvents /\ Syn # Dropped /\ Moved # Dropped
    /\ \A e \in KeyEvents : e # Dropped /\ e # Syn /\ e # Moved /\ e[1] \in Nat /\ e[2] \in {0, 1, 2}
    /\ Syn \in PlainEvents /\ Moved \in PlainEvents
<1>1. \A e \in KeyEvents : e # Dropped /\ e # Syn /\ e # Moved /\ e[1] \in Nat /\ e[2] \in {0, 1, 2}
  BY DEF KeyEvents, Dropped, Syn, Moved
<1>2. Syn # Dropped /\ Moved # Dropped
  BY DEF Dropped, Syn, Moved
<1> QED BY <1>1, <1>2 DEF PlainEvents

\* A reader's idea of the keys after an event.
LEMMA FollowIs ==
    ASSUME NEW keys, NEW view
    PROVE  /\ Follow(keys, view, Dropped) = keys
           /\ Follow(keys, view, Syn) = view /\ Follow(keys, view, Moved) = view
           /\ \A e \in KeyEvents : Follow(keys, view, e) =
                 IF e[2] = 0 THEN view \ {e[1]} ELSE view \cup {e[1]}
  BY EventKinds DEF Follow

LEMMA FollowKey ==
    ASSUME NEW keys, NEW view, NEW e \in KeyEvents
    PROVE  Follow(keys, view, e) = IF e[2] = 0 THEN view \ {e[1]} ELSE view \cup {e[1]}
<1>1. e # Dropped /\ e # Syn /\ e # Moved
  BY EventKinds
<1> QED BY <1>1 DEF Follow

LEMMA FollowType ==
    ASSUME NEW keys \in Views, NEW view \in Views, NEW e \in InputEvents
    PROVE  Follow(keys, view, e) \in Views
<1>1. CASE e \in KeyEvents
  <2>1. Follow(keys, view, e) = IF e[2] = 0 THEN view \ {e[1]} ELSE view \cup {e[1]}
    BY <1>1, FollowKey
  <2>2. e[1] \in Nat
    BY <1>1, EventKinds
  <2> QED BY <2>1, <2>2 DEF Views
<1>2. CASE e \in {Syn, Moved, Dropped}
  BY <1>2, FollowIs
<1> QED BY <1>1, <1>2 DEF InputEvents, PlainEvents

\* The ideas of a reader, event by event.
FollowRun(f, keys, view, events) ==
    /\ f \in [0 .. Len(events) -> Views] /\ f[0] = view
    /\ \A i \in 1 .. Len(events) : f[i] = Follow(keys, f[i - 1], events[i])
\* The recursion has one solution.
LEMMA FollowedIs ==
    ASSUME NEW keys, NEW view, NEW events, Len(events) \in Nat, NEW f, FollowRun(f, keys, view, events)
    PROVE  Followed(keys, view, events) = f[Len(events)]
<1> DEFINE n == Len(events)
           Body(k) == [i \in 0 .. n |-> IF i = 0 THEN view ELSE Follow(keys, k[i - 1], events[i])]
           F == CHOOSE k : k = Body(k)
<1>1. n \in Nat /\ f \in [0 .. n -> Views] /\ f[0] = view
      /\ \A i \in 1 .. n : f[i] = Follow(keys, f[i - 1], events[i])
  BY DEF FollowRun
<1>10. Followed(keys, view, events) = F[n]
  BY DEF Followed
<1> HIDE DEF n
<1>8. f = Body(f)
  <2>1. \A i \in 0 .. n : f[i] = Body(f)[i]
    <3> SUFFICES ASSUME NEW i \in 0 .. n PROVE f[i] = Body(f)[i]
      OBVIOUS
    <3>1. CASE i = 0
      BY <1>1, <3>1
    <3>2. CASE i # 0
      <4>1. i \in 1 .. n
        BY <1>1, <3>2
      <4> QED BY <1>1, <3>2, <4>1
    <3> QED BY <3>1, <3>2
  <2>2. f = [i \in 0 .. n |-> f[i]] /\ Body(f) = [i \in 0 .. n |-> Body(f)[i]]
    BY <1>1
  <2> HIDE DEF Body
  <2> QED BY <2>1, <2>2
<1>9. F = Body(F)
  <2> HIDE DEF Body
  <2> QED BY <1>8
<1> HIDE DEF F
<1>11. F[n] = f[n]
  <2> DEFINE E == {m \in 0 .. n : F[m] = f[m]}
  <2>1. 0 \in E
    BY <1>1, <1>9
  <2>2. ASSUME NEW m \in 0 .. n - 1, m \in E PROVE m + 1 \in E
    <3>1. m + 1 \in 1 .. n /\ (m + 1) - 1 = m /\ m + 1 \in 0 .. n /\ m + 1 # 0
      BY <1>1
    <3>2. F[m + 1] = Follow(keys, F[m], events[m + 1])
      <4>1. F[m + 1] = Body(F)[m + 1]
        <5> HIDE DEF Body
        <5> QED BY <1>9
      <4> QED BY <3>1, <4>1
    <3>3. f[m + 1] = Follow(keys, f[m], events[m + 1])
      BY <1>1, <3>1
    <3> QED BY <2>2, <3>1, <3>2, <3>3
  <2>3. 0 .. n \subseteq E
    <3> HIDE DEF E
    <3> QED BY <1>1, <2>1, <2>2, UpTo
  <2> QED BY <1>1, <2>3
<1> QED BY <1>10, <1>11 DEF n

LEMMA FollowedRuns ==
    ASSUME NEW keys \in Views, NEW view \in Views, NEW events \in Seq(InputEvents)
    PROVE  \E f : FollowRun(f, keys, view, events)
<1> DEFINE n == Len(events)
           next == [i \in 1 .. n |-> [v \in Views |-> Follow(keys, v, events[i])]]
<1>1. n \in Nat /\ \A i \in 1 .. n : events[i] \in InputEvents
  OBVIOUS
<1>2. next \in [1 .. n -> [Views -> Views]]
  BY <1>1, FollowType
<1>3. \A i \in 1 .. n, v \in Views : next[i][v] = Follow(keys, v, events[i])
  OBVIOUS
<1> HIDE DEF next, n
<1>4. PICK f : f \in [0 .. n -> Views] /\ f[0] = view /\ \A i \in 1 .. n : f[i] = next[i][f[i - 1]]
  <2>1. LoopSteps(next, n, Views)
    BY <1>1, <1>2 DEF LoopSteps
  <2>2. \E f : LoopRun(f, next, n, Views, view)
    BY <2>1, LoopRuns
  <2> QED BY <2>2 DEF LoopRun
<1>5. \A i \in 1 .. n : f[i] = Follow(keys, f[i - 1], events[i])
  <2> SUFFICES ASSUME NEW i \in 1 .. n PROVE f[i] = Follow(keys, f[i - 1], events[i])
    OBVIOUS
  <2>1. i - 1 \in 0 .. n
    BY <1>1
  <2> QED BY <1>3, <1>4, <2>1
<1> QED BY <1>4, <1>5 DEF FollowRun, n

LEMMA FollowedType ==
    ASSUME NEW keys \in Views, NEW view \in Views, NEW events \in Seq(InputEvents)
    PROVE  Followed(keys, view, events) \in Views
<1>1. PICK f : FollowRun(f, keys, view, events)
  BY FollowedRuns
<1>2. Len(events) \in Nat
  OBVIOUS
<1>3. Followed(keys, view, events) = f[Len(events)]
  BY <1>1, <1>2, FollowedIs
<1> QED BY <1>1, <1>2, <1>3 DEF FollowRun

\* Events one after the other.
LEMMA FollowedMore ==
    ASSUME NEW keys \in Views, NEW view \in Views, NEW a \in Seq(InputEvents), NEW b \in Seq(InputEvents)
    PROVE  Followed(keys, view, a \o b) = Followed(keys, Followed(keys, view, a), b)
<1> DEFINE ab == a \o b
           m == Len(a)
           n == Len(b)
<1>1. /\ ab \in Seq(InputEvents) /\ Len(ab) = m + n /\ m \in Nat /\ n \in Nat
      /\ \A i \in 1 .. m + n : ab[i] = IF i <= m THEN a[i] ELSE b[i - m]
  BY ConcatProperties
<1> HIDE DEF ab, m, n
<1>2. PICK f : FollowRun(f, keys, view, ab)
  BY <1>1, FollowedRuns
<1>3. /\ f \in [0 .. m + n -> Views] /\ f[0] = view
      /\ \A i \in 1 .. m + n : f[i] = Follow(keys, f[i - 1], ab[i])
  BY <1>1, <1>2 DEF FollowRun
<1>4. Followed(keys, view, ab) = f[m + n]
  <2>1. Len(ab) \in Nat
    BY <1>1
  <2> QED BY <1>1, <1>2, <2>1, FollowedIs
<1> DEFINE g == [i \in 0 .. m |-> f[i]]
           h == [i \in 0 .. n |-> f[m + i]]
<1>5. FollowRun(g, keys, view, a)
  <2>1. g \in [0 .. m -> Views] /\ g[0] = view
    BY <1>1, <1>3
  <2>2. ASSUME NEW i \in 1 .. m PROVE g[i] = Follow(keys, g[i - 1], a[i])
    <3>1. i \in 1 .. m + n /\ i \in 0 .. m /\ i - 1 \in 0 .. m /\ i <= m
      BY <1>1
    <3>2. g[i] = f[i] /\ g[i - 1] = f[i - 1] /\ ab[i] = a[i]
      BY <1>1, <3>1
    <3>3. f[i] = Follow(keys, f[i - 1], ab[i])
      BY <1>3, <3>1
    <3> QED BY <3>2, <3>3
  <2> HIDE DEF g
  <2> QED BY <2>1, <2>2 DEF FollowRun, m
<1>6. Followed(keys, view, a) = f[m]
  <2>1. Len(a) \in Nat /\ g[Len(a)] = f[m]
    BY <1>1 DEF m
  <2> HIDE DEF g
  <2> QED BY <1>5, <2>1, FollowedIs
<1>7. FollowRun(h, keys, f[m], b)
  <2>1. h \in [0 .. n -> Views] /\ h[0] = f[m]
    BY <1>1, <1>3
  <2>2. ASSUME NEW i \in 1 .. n PROVE h[i] = Follow(keys, h[i - 1], b[i])
    <3>1. /\ m + i \in 1 .. m + n /\ i \in 0 .. n /\ i - 1 \in 0 .. n /\ ~(m + i <= m)
          /\ (m + i) - m = i /\ m + (i - 1) = (m + i) - 1
      BY <1>1
    <3>2. h[i] = f[m + i] /\ h[i - 1] = f[(m + i) - 1] /\ ab[m + i] = b[i]
      BY <1>1, <3>1
    <3>3. f[m + i] = Follow(keys, f[(m + i) - 1], ab[m + i])
      BY <1>3, <3>1
    <3> QED BY <3>2, <3>3
  <2> HIDE DEF h
  <2> QED BY <2>1, <2>2 DEF FollowRun, n
<1>8. Followed(keys, f[m], b) = f[m + n]
  <2>1. Len(b) \in Nat /\ h[Len(b)] = f[m + n]
    BY <1>1 DEF n
  <2> HIDE DEF h
  <2> QED BY <1>7, <2>1, FollowedIs
<1> QED BY <1>4, <1>6, <1>8 DEF ab
LEMMA PlainType ==
    /\ \A s \in Seq(PlainEvents) : s \in Seq(InputEvents)
    /\ \A e \in PlainEvents : e \in InputEvents /\ e # Dropped
    /\ Dropped \in InputEvents /\ <<Dropped>> \in Seq(InputEvents) /\ KeyEvents \subseteq PlainEvents
<1>1. PlainEvents \subseteq InputEvents /\ Dropped \in InputEvents /\ KeyEvents \subseteq PlainEvents
  BY DEF InputEvents, PlainEvents
<1>2. \A e \in PlainEvents : e # Dropped
  BY EventKinds
<1>3. \A s \in Seq(PlainEvents) : s \in Seq(InputEvents)
  BY <1>1, SeqMonotonic
<1>4. <<Dropped>> \in Seq(InputEvents)
  BY <1>1
<1> QED BY <1>1, <1>2, <1>3, <1>4

\* Nothing read, and one event read.
LEMMA FollowedNone ==
    ASSUME NEW keys, NEW view \in Views
    PROVE  Followed(keys, view, <<>>) = view
<1> DEFINE f == [i \in 0 .. 0 |-> view]
<1>1. f \in [0 .. 0 -> Views] /\ f[0] = view /\ Len(<<>>) = 0
  OBVIOUS
<1>2. \A i \in 1 .. 0 : FALSE
  OBVIOUS
<1> HIDE DEF f
<1>3. FollowRun(f, keys, view, <<>>)
  BY <1>1, <1>2 DEF FollowRun
<1>4. Len(<<>>) \in Nat
  OBVIOUS
<1> QED BY <1>1, <1>3, <1>4, FollowedIs
LEMMA FollowedOne ==
    ASSUME NEW keys \in Views, NEW view \in Views, NEW e \in InputEvents
    PROVE  Followed(keys, view, <<e>>) = Follow(keys, view, e)
<1> DEFINE x == Follow(keys, view, e)
           s == <<e>>
           f == [i \in 0 .. 1 |-> IF i = 0 THEN view ELSE x]
<1>1. x \in Views
  BY FollowType
<1>2. Len(s) = 1 /\ s[1] = e
  OBVIOUS
<1> HIDE DEF x, s
<1>3. f \in [0 .. 1 -> Views] /\ f[0] = view /\ f[1] = x
  BY <1>1
<1> HIDE DEF f
<1>4. \A i \in 1 .. 1 : f[i] = Follow(keys, f[i - 1], s[i])
  <2>1. \A i \in 1 .. 1 : i = 1
    OBVIOUS
  <2>2. 1 - 1 = 0
    OBVIOUS
  <2>3. f[1] = Follow(keys, f[1 - 1], s[1])
    BY <1>2, <1>3, <2>2 DEF x
  <2> QED BY <2>1, <2>3
<1>5. FollowRun(f, keys, view, s)
  BY <1>2, <1>3, <1>4 DEF FollowRun
<1>6. Len(s) \in Nat
  BY <1>2
<1>7. Followed(keys, view, s) = f[Len(s)]
  BY <1>5, <1>6, FollowedIs
<1> QED BY <1>2, <1>3, <1>7 DEF x, s

\* What events other than SYN_DROPPED do to a view: they set the keys of B to
\* what A has of them.
Sets(events, A, B) ==
    \A keys \in Views, view \in Views : Followed(keys, view, events) = (view \ B) \cup A
LEMMA FollowSets ==
    ASSUME NEW e \in PlainEvents
    PROVE  \E A, B \in Views : \A keys \in Views, view \in Views :
              Follow(keys, view, e) = (view \ B) \cup A
<1>1. CASE e \in KeyEvents
  <2>1. e[1] \in Nat
    BY <1>1, EventKinds
  <2>2. ASSUME NEW keys \in Views, NEW view \in Views
        PROVE  Follow(keys, view, e) = IF e[2] = 0 THEN view \ {e[1]} ELSE view \cup {e[1]}
    BY <1>1, FollowKey
  <2>3. CASE e[2] = 0
    <3>1. {} \in Views /\ {e[1]} \in Views
      BY <2>1 DEF Views
    <3>2. \A keys \in Views, view \in Views : Follow(keys, view, e) = (view \ {e[1]}) \cup {}
      BY <2>2, <2>3
    <3> QED BY <3>1, <3>2
  <2>4. CASE e[2] # 0
    <3>1. {} \in Views /\ {e[1]} \in Views
      BY <2>1 DEF Views
    <3>2. \A keys \in Views, view \in Views : Follow(keys, view, e) = (view \ {}) \cup {e[1]}
      BY <2>2, <2>4
    <3> QED BY <3>1, <3>2
  <2> QED BY <2>3, <2>4
<1>2. CASE e \in {Syn, Moved}
  <2>1. \A keys \in Views, view \in Views : Follow(keys, view, e) = (view \ {}) \cup {}
    BY <1>2, FollowIs
  <2>2. {} \in Views
    BY DEF Views
  <2> QED BY <2>1, <2>2
<1> QED BY <1>1, <1>2 DEF PlainEvents
LEMMA EventsSet ==
    ASSUME NEW s \in Seq(PlainEvents)
    PROVE  \E A, B \in Views : Sets(s, A, B)
<1> DEFINE n == Len(s)
           Pre(i) == SubSeq(s, 1, i)
           D == {i \in 0 .. n : \E A, B \in Views : Sets(Pre(i), A, B)}
<1>1. n \in Nat
  OBVIOUS
<1>2. ASSUME NEW i \in 0 .. n PROVE Pre(i) \in Seq(PlainEvents) /\ Pre(i) \in Seq(InputEvents)
  <2>1. Pre(i) \in Seq(PlainEvents)
    <3>1. \A j \in 1 .. i : s[j] \in PlainEvents
      OBVIOUS
    <3> QED BY <3>1, SubSeqProperties
  <2> QED BY <2>1, PlainType
<1>3. 0 \in D
  <2>1. Pre(0) = <<>>
    OBVIOUS
  <2>2. {} \in Views
    BY DEF Views
  <2>3. Sets(<<>>, {}, {})
    <3>1. \A view : (view \ {}) \cup {} = view
      OBVIOUS
    <3> QED BY <3>1, FollowedNone DEF Sets
  <2>4. 0 \in 0 .. n
    BY <1>1
  <2> HIDE DEF Pre, n
  <2>5. Sets(Pre(0), {}, {})
    BY <2>1, <2>3
  <2> QED BY <2>2, <2>4, <2>5
<1>4. ASSUME NEW i \in 0 .. n - 1, i \in D PROVE i + 1 \in D
  <2>1. PICK A1 \in Views, B1 \in Views : Sets(Pre(i), A1, B1)
    BY <1>4
  <2>2. i + 1 \in 1 .. n /\ i + 1 \in 0 .. n /\ i \in 0 .. n /\ (i + 1) - 1 = i
    BY <1>1
  <2>3. s[i + 1] \in PlainEvents /\ s[i + 1] \in InputEvents
    BY <2>2, PlainType
  <2>4. PICK A2 \in Views, B2 \in Views : \A keys \in Views, view \in Views :
              Follow(keys, view, s[i + 1]) = (view \ B2) \cup A2
    BY <2>3, FollowSets
  <2>5. Pre(i + 1) = Pre(i) \o <<s[i + 1]>>
    <3>1. 1 \in 1 .. Len(s) /\ i + 1 \in 1 .. Len(s)
      BY <2>2
    <3>2. SubSeq(s, 1, i + 1) = SubSeq(s, 1, (i + 1) - 1) \o <<s[i + 1]>>
      BY <3>1, SubSeqRecursiveSecond
    <3> QED BY <2>2, <3>2
  <2>6. <<s[i + 1]>> \in Seq(InputEvents)
    BY <2>3
  <2>7. Pre(i) \in Seq(InputEvents)
    BY <1>2, <2>2
  <2> DEFINE A == (A1 \ B2) \cup A2
             B == B1 \cup B2
  <2> HIDE DEF Pre, n
  <2>8. ASSUME NEW keys \in Views, NEW view \in Views
        PROVE  Followed(keys, view, Pre(i + 1)) = (view \ B) \cup A
    <3>1. Followed(keys, view, Pre(i)) = (view \ B1) \cup A1
      BY <2>1 DEF Sets
    <3>2. (view \ B1) \cup A1 \in Views
      BY DEF Views
    <3>3. Followed(keys, (view \ B1) \cup A1, <<s[i + 1]>>) = (((view \ B1) \cup A1) \ B2) \cup A2
      BY <2>3, <2>4, <3>2, FollowedOne
    <3>4. Followed(keys, view, Pre(i) \o <<s[i + 1]>>)
             = Followed(keys, Followed(keys, view, Pre(i)), <<s[i + 1]>>)
      <4> DEFINE t == <<s[i + 1]>>
                 p == Pre(i)
      <4>1. t \in Seq(InputEvents) /\ p \in Seq(InputEvents)
        BY <2>6, <2>7
      <4> HIDE DEF t, p
      <4>2. Followed(keys, view, p \o t) = Followed(keys, Followed(keys, view, p), t)
        BY <4>1, FollowedMore
      <4> QED BY <4>2 DEF t, p
    <3>5. (((view \ B1) \cup A1) \ B2) \cup A2 = (view \ B) \cup A
      OBVIOUS
    <3> QED BY <2>5, <3>1, <3>3, <3>4, <3>5
  <2>9. Sets(Pre(i + 1), A, B)
    BY <2>8 DEF Sets
  <2>10. A \in Views /\ B \in Views
    BY DEF Views
  <2> HIDE DEF A, B
  <2> QED BY <2>2, <2>9, <2>10
<1>5. n \in D
  <2> HIDE DEF D
  <2>1. 0 .. n \subseteq D
    BY <1>1, <1>3, <1>4, UpTo
  <2> QED BY <1>1, <2>1
<1>6. Pre(n) = s
  BY SubSeqFull
<1> HIDE DEF Pre
<1> QED BY <1>5, <1>6

\* The events of a device that takes its keys from K to K2.
Effect(K, events, K2) ==
    /\ K \in Views /\ K2 \in Views /\ events \in Seq(PlainEvents)
    /\ \A keys \in Views : Followed(keys, K, events) = K2
LEMMA EffectNone == ASSUME NEW K \in Views PROVE Effect(K, <<>>, K)
<1>1. <<>> \in Seq(PlainEvents)
  OBVIOUS
<1> QED BY <1>1, FollowedNone DEF Effect
LEMMA EffectMore ==
    ASSUME NEW K, NEW a, NEW K1, NEW b, NEW K2, Effect(K, a, K1), Effect(K1, b, K2)
    PROVE  Effect(K, a \o b, K2)
<1>1. /\ K \in Views /\ K1 \in Views /\ K2 \in Views
      /\ a \in Seq(PlainEvents) /\ b \in Seq(PlainEvents)
      /\ a \in Seq(InputEvents) /\ b \in Seq(InputEvents)
  BY PlainType DEF Effect
<1>2. a \o b \in Seq(PlainEvents)
  BY <1>1, ConcatProperties
<1>3. ASSUME NEW keys \in Views PROVE Followed(keys, K, a \o b) = K2
  <2>1. Followed(keys, K, a \o b) = Followed(keys, Followed(keys, K, a), b)
    BY <1>1, FollowedMore
  <2>2. Followed(keys, K, a) = K1 /\ Followed(keys, K1, b) = K2
    BY DEF Effect
  <2> QED BY <2>1, <2>2
<1> QED BY <1>1, <1>2, <1>3 DEF Effect
LEMMA EffectOne ==
    ASSUME NEW K \in Views, NEW e \in PlainEvents
    PROVE  Effect(K, <<e>>, Follow({}, K, e))
<1>1. <<e>> \in Seq(PlainEvents) /\ e \in InputEvents /\ {} \in Views
  BY PlainType DEF Views
<1>2. Follow({}, K, e) \in Views
  BY <1>1, FollowType
<1>3. ASSUME NEW keys \in Views PROVE Followed(keys, K, <<e>>) = Follow({}, K, e)
  <2>1. Followed(keys, K, <<e>>) = Follow(keys, K, e)
    BY <1>1, FollowedOne
  <2>2. CASE e \in KeyEvents
    <3>1. Follow(keys, K, e) = IF e[2] = 0 THEN K \ {e[1]} ELSE K \cup {e[1]}
      BY <2>2, FollowKey
    <3>2. Follow({}, K, e) = IF e[2] = 0 THEN K \ {e[1]} ELSE K \cup {e[1]}
      BY <2>2, FollowKey
    <3> QED BY <2>1, <3>1, <3>2
  <2>3. CASE e \in {Syn, Moved}
    <3>1. Follow(keys, K, e) = K /\ Follow({}, K, e) = K
      BY <2>3, FollowIs
    <3> QED BY <2>1, <3>1
  <2> QED BY <2>2, <2>3 DEF PlainEvents
<1> QED BY <1>1, <1>2, <1>3 DEF Effect
LEMMA EffectSyn == ASSUME NEW K \in Views PROVE Effect(K, <<Syn>>, K)
<1>1. Follow({}, K, Syn) = K
  BY FollowIs
<1> QED BY <1>1, EffectOne, EventKinds
LEMMA EffectKey ==
    ASSUME NEW K \in Views, NEW code \in Nat, NEW value \in {0, 1, 2}
    PROVE  Effect(K, <<<<code, value>>>>, IF value = 0 THEN K \ {code} ELSE K \cup {code})
<1> DEFINE e == <<code, value>>
<1>1. e \in KeyEvents /\ e[1] = code /\ e[2] = value
  BY DEF KeyEvents
<1> HIDE DEF e
<1>2. Follow({}, K, e) = IF value = 0 THEN K \ {code} ELSE K \cup {code}
  BY <1>1, FollowKey
<1>3. e \in PlainEvents
  BY <1>1, PlainType
<1>4. Effect(K, <<e>>, Follow({}, K, e))
  BY <1>3, EffectOne
<1> QED BY <1>2, <1>4 DEF e
LEMMA EffectMoves ==
    ASSUME NEW K \in Views, NEW n \in Nat
    PROVE  Effect(K, [i \in 1 .. n |-> Moved], K)
<1> DEFINE s == [i \in 1 .. n |-> Moved]
           f == [i \in 0 .. n |-> K]
<1>1. Moved \in PlainEvents
  BY EventKinds
<1>2. s \in Seq(PlainEvents) /\ Len(s) = n /\ \A i \in 1 .. n : s[i] = Moved
  BY <1>1
<1>3. f \in [0 .. n -> Views] /\ f[0] = K /\ f[n] = K /\ \A i \in 1 .. n : f[i] = K /\ f[i - 1] = K
  OBVIOUS
<1> HIDE DEF s, f
<1>4. ASSUME NEW keys \in Views PROVE Followed(keys, K, s) = K
  <2>1. Follow(keys, K, Moved) = K
    BY FollowIs
  <2>2. FollowRun(f, keys, K, s)
    BY <1>2, <1>3, <2>1 DEF FollowRun
  <2>3. Len(s) \in Nat
    BY <1>2
  <2>4. Followed(keys, K, s) = f[Len(s)]
    BY <2>2, <2>3, FollowedIs
  <2> QED BY <1>2, <1>3, <2>4
<1>5. Effect(K, s, K)
  BY <1>2, <1>4 DEF Effect
<1> QED BY <1>5 DEF s
\* Events that are followed once more change nothing.
LEMMA EffectAgain ==
    ASSUME NEW K, NEW s, NEW K2, Effect(K, s, K2)
    PROVE  Effect(K2, s, K2)
<1>1. s \in Seq(PlainEvents) /\ K \in Views /\ K2 \in Views
  BY DEF Effect
<1>2. PICK A \in Views, B \in Views : Sets(s, A, B)
  BY <1>1, EventsSet
<1>3. ASSUME NEW keys \in Views PROVE Followed(keys, K2, s) = K2
  <2>1. Followed(keys, K, s) = K2
    BY DEF Effect
  <2>2. Followed(keys, K, s) = (K \ B) \cup A /\ Followed(keys, K2, s) = (K2 \ B) \cup A
    BY <1>1, <1>2 DEF Sets
  <2> QED BY <2>1, <2>2
<1> QED BY <1>1, <1>3 DEF Effect
-----------------------------------------------------------------------------
\* The reader of a listener gets to know the keys K: from its view, or from
\* SYN_DROPPED, which only ever is the first event.
Tracks(view, buffer, K) ==
    /\ view \in Views /\ K \in Views
    /\ \/ Effect(view, buffer, K)
       \/ \E b \in Seq(PlainEvents) : buffer = <<Dropped>> \o b /\ Effect(K, b, K)
LEMMA TracksDelivered ==
    ASSUME NEW view, NEW buffer, NEW K, NEW all, NEW K2, Tracks(view, buffer, K), Effect(K, all, K2)
    PROVE  Tracks(view, Delivered(buffer, all), K2)
<1>1. view \in Views /\ K2 \in Views /\ all \in Seq(PlainEvents) /\ all \in Seq(InputEvents)
  BY PlainType DEF Tracks, Effect
<1>2. CASE Delivered(buffer, all) = <<Dropped>> \o all
  <2>1. Effect(K2, all, K2)
    BY EffectAgain
  <2> QED BY <1>1, <1>2, <2>1 DEF Tracks
<1>3. CASE Delivered(buffer, all) = buffer \o all
  <2>1. CASE Effect(view, buffer, K)
    <3>1. Effect(view, buffer \o all, K2)
      BY <2>1, EffectMore
    <3> QED BY <1>1, <1>3, <3>1 DEF Tracks
  <2>2. CASE \E b \in Seq(PlainEvents) : buffer = <<Dropped>> \o b /\ Effect(K, b, K)
    <3>1. PICK b \in Seq(PlainEvents) : buffer = <<Dropped>> \o b /\ Effect(K, b, K)
      BY <2>2
    <3> DEFINE d == <<Dropped>>
               c == b \o all
    <3>2. d \in Seq(InputEvents) /\ b \in Seq(InputEvents)
      BY PlainType
    <3>3. Effect(K, c, K2)
      BY <3>1, EffectMore
    <3>4. Effect(K2, c, K2)
      BY <3>3, EffectAgain
    <3>5. c \in Seq(PlainEvents)
      BY <3>4 DEF Effect
    <3> HIDE DEF d
    <3>6. (d \o b) \o all = d \o c
      <4>1. d \in Seq(InputEvents) /\ b \in Seq(InputEvents) /\ all \in Seq(InputEvents)
        BY <1>1, <3>2
      <4> QED BY ONLY <4>1, ConcatAssociative
    <3>7. Delivered(buffer, all) = <<Dropped>> \o c
      BY <1>3, <3>1, <3>6 DEF d
    <3> HIDE DEF c
    <3> QED BY <1>1, <3>4, <3>5, <3>7 DEF Tracks
  <2> QED BY <2>1, <2>2 DEF Tracks
<1> QED BY <1>2, <1>3 DEF Delivered

LEMMA TracksType ==
    ASSUME NEW view, NEW buffer, NEW K, Tracks(view, buffer, K)
    PROVE  buffer \in Seq(InputEvents) /\ view \in Views /\ K \in Views
<1>1. CASE Effect(view, buffer, K)
  BY <1>1, PlainType DEF Effect, Tracks
<1>2. CASE \E b \in Seq(PlainEvents) : buffer = <<Dropped>> \o b /\ Effect(K, b, K)
  <2>1. PICK b \in Seq(PlainEvents) : buffer = <<Dropped>> \o b
    BY <1>2
  <2> DEFINE d == <<Dropped>>
  <2>2. d \in Seq(InputEvents) /\ b \in Seq(InputEvents) /\ buffer = d \o b
    BY <2>1, PlainType
  <2> HIDE DEF d
  <2> QED BY <2>2, ConcatProperties DEF Tracks
<1> QED BY <1>1, <1>2 DEF Tracks
\* The rest of a list of events, after the first ones.
LEMMA EffectSplit ==
    ASSUME NEW K, NEW s, NEW K2, Effect(K, s, K2), NEW n \in 0 .. Len(s), NEW keys \in Views
    PROVE  Effect(Followed(keys, K, SubSeq(s, 1, n)), SubSeq(s, n + 1, Len(s)), K2)
<1> DEFINE p == SubSeq(s, 1, n)
           q == SubSeq(s, n + 1, Len(s))
           V == Followed(keys, K, p)
<1>1. s \in Seq(PlainEvents) /\ K \in Views /\ K2 \in Views /\ Len(s) \in Nat
  BY DEF Effect
<1>2. p \in Seq(PlainEvents) /\ q \in Seq(PlainEvents)
  <2>1. \A j \in 1 .. n : s[j] \in PlainEvents
    BY <1>1
  <2>2. \A j \in n + 1 .. Len(s) : s[j] \in PlainEvents
    BY <1>1
  <2> QED BY <1>1, <2>1, <2>2, SubSeqProperties
<1>3. p \o q = s
  <2>1. 1 \in 1 .. Len(s) + 1 /\ n \in 1 - 1 .. Len(s) /\ Len(s) \in n .. Len(s)
    BY <1>1
  <2>2. p \o q = SubSeq(s, 1, Len(s))
    BY <1>1, <2>1, ConcatAdjacentSubSeq
  <2> QED BY <1>1, <2>2, SubSeqFull
<1> HIDE DEF p, q
<1>4. p \in Seq(InputEvents) /\ q \in Seq(InputEvents)
  BY <1>2, PlainType
<1>5. V \in Views
  BY <1>1, <1>4, FollowedType
<1>6. PICK A \in Views, B \in Views : Sets(p, A, B)
  BY <1>2, EventsSet
<1>7. ASSUME NEW k \in Views PROVE Followed(k, V, q) = K2
  <2>1. Followed(k, K, p) = V
    BY <1>1, <1>6 DEF Sets
  <2>2. Followed(k, K, p \o q) = Followed(k, Followed(k, K, p), q)
    BY <1>1, <1>4, FollowedMore
  <2>3. Followed(k, K, s) = K2
    BY DEF Effect
  <2> QED BY <1>3, <2>1, <2>2, <2>3
<1>8. Effect(V, q, K2)
  BY <1>1, <1>2, <1>5, <1>7 DEF Effect
<1> QED BY <1>8 DEF p, q
LEMMA TracksRead ==
    ASSUME NEW view, NEW buffer, NEW K, Tracks(view, buffer, K), NEW n \in 1 .. Len(buffer)
    PROVE  Tracks(Followed(K, view, SubSeq(buffer, 1, n)), SubSeq(buffer, n + 1, Len(buffer)), K)
<1>1. buffer \in Seq(InputEvents) /\ view \in Views /\ K \in Views /\ Len(buffer) \in Nat
  BY TracksType
<1> DEFINE p == SubSeq(buffer, 1, n)
<1>2. p \in Seq(InputEvents)
  <2>1. \A j \in 1 .. n : buffer[j] \in InputEvents
    BY <1>1
  <2> QED BY <1>1, <2>1, SubSeqProperties
<1> HIDE DEF p
<1>3. Followed(K, view, p) \in Views
  BY <1>1, <1>2, FollowedType
<1>4. CASE Effect(view, buffer, K)
  <2>1. n \in 0 .. Len(buffer)
    BY <1>1
  <2>2. Effect(Followed(K, view, SubSeq(buffer, 1, n)), SubSeq(buffer, n + 1, Len(buffer)), K)
    BY <1>1, <1>4, <2>1, EffectSplit
  <2> QED BY <1>1, <1>3, <2>2 DEF Tracks, p
<1>5. CASE \E b \in Seq(PlainEvents) : buffer = <<Dropped>> \o b /\ Effect(K, b, K)
  <2>1. PICK b \in Seq(PlainEvents) : buffer = <<Dropped>> \o b /\ Effect(K, b, K)
    BY <1>5
  <2> DEFINE d == <<Dropped>>
             p1 == SubSeq(b, 1, n - 1)
             q1 == SubSeq(b, n, Len(b))
             q == SubSeq(buffer, n + 1, Len(buffer))
  <2>2. d \in Seq(InputEvents) /\ Len(d) = 1 /\ d[1] = Dropped /\ b \in Seq(InputEvents) /\ Len(b) \in Nat
    BY PlainType
  <2>3. Len(buffer) = 1 + Len(b) /\ \A i \in 1 .. 1 + Len(b) : buffer[i] = IF i <= 1 THEN d[i] ELSE b[i - 1]
    <3>1. buffer = d \o b
      BY <2>1
    <3> HIDE DEF d
    <3>2. /\ Len(d \o b) = Len(d) + Len(b)
          /\ \A i \in 1 .. Len(d) + Len(b) : (d \o b)[i] = IF i <= Len(d) THEN d[i] ELSE b[i - Len(d)]
      BY <2>2, ConcatProperties
    <3> QED BY <2>2, <3>1, <3>2
  <2>4. n - 1 \in 0 .. Len(b) /\ (n - 1) + 1 = n
    BY <2>2, <2>3
  <2>5. p1 \in Seq(InputEvents) /\ Len(p1) = n - 1 /\ \A i \in 1 .. n - 1 : p1[i] = b[i]
    <3>1. \A j \in 1 .. n - 1 : b[j] \in InputEvents
      BY <2>2, <2>4
    <3>2. \A i \in 1 .. n - 1 : 1 + i - 1 = i
      OBVIOUS
    <3>3. /\ p1 \in Seq(InputEvents) /\ Len(p1) = IF 1 <= n - 1 THEN (n - 1) - 1 + 1 ELSE 0
          /\ \A i \in 1 .. (n - 1) - 1 + 1 : p1[i] = b[1 + i - 1]
      BY <2>4, <3>1, SubSeqProperties
    <3> HIDE DEF p1
    <3> QED BY <2>4, <3>2, <3>3
  <2>6. q1 \in Seq(InputEvents) /\ Len(q1) = Len(b) - n + 1 /\ \A i \in 1 .. Len(b) - n + 1 : q1[i] = b[n + i - 1]
    <3>1. \A j \in n .. Len(b) : b[j] \in InputEvents
      BY <2>2
    <3>2. /\ q1 \in Seq(InputEvents) /\ Len(q1) = IF n <= Len(b) THEN Len(b) - n + 1 ELSE 0
          /\ \A i \in 1 .. Len(b) - n + 1 : q1[i] = b[n + i - 1]
      BY <2>2, <3>1, SubSeqProperties
    <3> HIDE DEF q1
    <3> QED BY <2>2, <2>4, <3>2
  <2>7. p = d \o p1
    <3>1. /\ Len(p) = IF 1 <= n THEN n - 1 + 1 ELSE 0
          /\ \A i \in 1 .. n - 1 + 1 : p[i] = buffer[1 + i - 1]
      <4>1. \A j \in 1 .. n : buffer[j] \in InputEvents
        BY <1>1
      <4> QED BY <4>1, <1>1, SubSeqProperties DEF p
    <3> DEFINE t == d \o p1
    <3> HIDE DEF d, p1
    <3>2. /\ t \in Seq(InputEvents) /\ Len(t) = 1 + (n - 1)
          /\ \A i \in 1 .. 1 + (n - 1) : t[i] = IF i <= 1 THEN d[i] ELSE p1[i - 1]
      <4>1. /\ t \in Seq(InputEvents) /\ Len(t) = Len(d) + Len(p1)
            /\ \A i \in 1 .. Len(d) + Len(p1) : t[i] = IF i <= Len(d) THEN d[i] ELSE p1[i - Len(d)]
        BY <2>2, <2>5, ConcatProperties
      <4> HIDE DEF t
      <4> QED BY <2>2, <2>5, <4>1
    <3> HIDE DEF t
    <3>3. Len(p) = n /\ Len(t) = n
      BY <3>1, <3>2
    <3>4. ASSUME NEW i \in 1 .. n PROVE p[i] = t[i]
      <4>1. p[i] = buffer[i]
        <5>1. i \in 1 .. n - 1 + 1 /\ 1 + i - 1 = i
          OBVIOUS
        <5> QED BY <3>1, <5>1
      <4>2. buffer[i] = IF i <= 1 THEN d[i] ELSE b[i - 1]
        BY <2>2, <2>3
      <4>3. t[i] = IF i <= 1 THEN d[i] ELSE p1[i - 1]
        <5>1. i \in 1 .. 1 + (n - 1)
          OBVIOUS
        <5> QED BY <3>2, <5>1
      <4>4. CASE i <= 1
        BY <4>1, <4>2, <4>3, <4>4
      <4>5. CASE ~(i <= 1)
        <5>1. i - 1 \in 1 .. n - 1
          BY <4>5
        <5> QED BY <2>5, <4>1, <4>2, <4>3, <4>5, <5>1
      <4> QED BY <4>4, <4>5
    <3>5. p = t
      BY <1>2, <3>2, <3>3, <3>4, SeqEqual
    <3> QED BY <3>5 DEF t
  <2>8. q = q1
    <3>1. /\ q \in Seq(InputEvents) /\ Len(q) = IF n + 1 <= Len(buffer) THEN Len(buffer) - (n + 1) + 1 ELSE 0
          /\ \A i \in 1 .. Len(buffer) - (n + 1) + 1 : q[i] = buffer[(n + 1) + i - 1]
      <4>1. \A j \in n + 1 .. Len(buffer) : buffer[j] \in InputEvents
        BY <1>1
      <4> QED BY <1>1, <4>1, SubSeqProperties
    <3> HIDE DEF q, q1, d
    <3>2. Len(q) = Len(b) - n + 1
      BY <2>2, <2>3, <3>1
    <3>3. ASSUME NEW i \in 1 .. Len(b) - n + 1 PROVE q[i] = q1[i]
      <4>1. /\ i \in 1 .. Len(buffer) - (n + 1) + 1 /\ (n + 1) + i - 1 = n + i /\ n + i \in 1 .. 1 + Len(b)
            /\ ~(n + i <= 1) /\ n + i - 1 = (n + i) - 1
        BY <2>2, <2>3
      <4>2. q[i] = buffer[n + i]
        BY <3>1, <4>1
      <4>3. buffer[n + i] = b[(n + i) - 1]
        BY <2>3, <4>1
      <4> QED BY <2>6, <4>1, <4>2, <4>3
    <3> QED BY <2>6, <3>1, <3>2, <3>3, SeqEqual
  <2>9. Followed(K, view, p) = Followed(K, K, p1)
    <3>1. Followed(K, view, d \o p1) = Followed(K, Followed(K, view, d), p1)
      <4> HIDE DEF d, p1
      <4> QED BY <1>1, <2>2, <2>5, FollowedMore
    <3>2. Followed(K, view, d) = Follow(K, view, Dropped)
      BY <1>1, PlainType, FollowedOne
    <3>3. Follow(K, view, Dropped) = K
      BY FollowIs
    <3> HIDE DEF d, p1
    <3> QED BY <2>7, <3>1, <3>2, <3>3
  <2>10. Effect(Followed(K, K, p1), q1, K)
    <3>1. Effect(Followed(K, K, SubSeq(b, 1, n - 1)), SubSeq(b, (n - 1) + 1, Len(b)), K)
      BY <1>1, <2>1, <2>4, EffectSplit
    <3> QED BY <2>4, <3>1
  <2> HIDE DEF p1, q1, q
  <2>11. Effect(Followed(K, view, p), q, K)
    BY <2>8, <2>9, <2>10
  <2> QED BY <1>1, <1>3, <2>11 DEF Tracks, p, q
<1> QED BY <1>4, <1>5 DEF Tracks

-----------------------------------------------------------------------------
ListenerType == [buffer : Seq(InputEvents), reader : {"idle", "asleep", "woken"}, view : Views]
ListenerWell(r, K) ==
    /\ r \in ListenerType /\ Tracks(r.view, r.buffer, K)
    /\ r.reader = "asleep" => r.buffer = <<>>
ListenersWell ==
    /\ key_status \in Views
    /\ DOMAIN listener = Listeners /\ listener = [l \in Listeners |-> listener[l]]
    /\ \A l \in Listeners : ListenerWell(listener[l], key_status)

\* A listener that is given events, and one that is read.
LEMMA ListenerGets ==
    ASSUME NEW r, NEW K, NEW all, NEW K2, ListenerWell(r, K), Effect(K, all, K2)
    PROVE  ListenerWell([r EXCEPT !.buffer = Delivered(@, all),
                                  !.reader = IF @ = "asleep" THEN "woken" ELSE @], K2)
<1> DEFINE b == Delivered(r.buffer, all)
           w == IF r.reader = "asleep" THEN "woken" ELSE r.reader
           t == [r EXCEPT !.buffer = Delivered(@, all), !.reader = IF @ = "asleep" THEN "woken" ELSE @]
<1>1. Tracks(r.view, b, K2)
  BY TracksDelivered DEF ListenerWell
<1>2. b \in Seq(InputEvents) /\ r.view \in Views
  <2> HIDE DEF b
  <2> QED BY <1>1, TracksType
<1>3. r \in ListenerType
  BY DEF ListenerWell
<1>4. t = [r EXCEPT !.buffer = b, !.reader = w]
  BY <1>3 DEF ListenerType
<1>5. w \in {"idle", "woken"}
  BY <1>3 DEF ListenerType
<1> HIDE DEF b, w, t
<1>6. t \in ListenerType /\ t.buffer = b /\ t.reader = w /\ t.view = r.view
  BY <1>2, <1>3, <1>4, <1>5 DEF ListenerType
<1>7. ListenerWell(t, K2)
  BY <1>1, <1>5, <1>6 DEF ListenerWell
<1> QED BY <1>7 DEF t
\* The events of the device and the end of a report.
LEMMA FlushKeeps ==
    ASSUME ListenersWell, NEW events, NEW K2, Effect(key_status, events, K2), flush_events(events),
           key_status' = K2
    PROVE  ListenersWell'
<1> DEFINE all == IF events = <<>> THEN <<>> ELSE Append(events, Syn)
           Given(l) == [listener[l] EXCEPT !.buffer = Delivered(@, all),
                                           !.reader = IF @ = "asleep" THEN "woken" ELSE @]
<1>1. key_status \in Views /\ K2 \in Views /\ events \in Seq(PlainEvents)
  BY DEF Effect
<1>2. Effect(key_status, all, K2)
  <2>1. CASE events = <<>>
    BY <2>1
  <2>2. CASE events # <<>>
    <3>1. Append(events, Syn) = events \o <<Syn>>
      BY <1>1, EventKinds, AppendIsConcat
    <3>2. Effect(K2, <<Syn>>, K2)
      BY <1>1, EffectSyn
    <3>3. Effect(key_status, events \o <<Syn>>, K2)
      BY <3>2, EffectMore
    <3> QED BY <2>2, <3>1, <3>3
  <2> QED BY <2>1, <2>2
<1>3. listener' = [l \in Listeners |-> Given(l)]
  BY DEF flush_events
<1> HIDE DEF all
<1>4. ASSUME NEW l \in Listeners PROVE ListenerWell(Given(l), K2)
  <2>1. ListenerWell(listener[l], key_status)
    BY DEF ListenersWell
  <2> QED BY <1>2, <2>1, ListenerGets
<1> HIDE DEF Given
<1> QED BY <1>1, <1>3, <1>4 DEF ListenersWell

LEMMA ReadKeeps ==
    ASSUME ListenersWell, NEW l \in Listeners, NEW n \in 1 .. 3, evdev_read(l, n)
    PROVE  ListenersWell'
<1> DEFINE r == listener[l]
           b == r.buffer
           count == IF n < Len(b) THEN n ELSE Len(b)
           t == IF b = <<>> THEN [r EXCEPT !.reader = "asleep"]
                ELSE [buffer |-> SubSeq(b, count + 1, Len(b)), reader |-> "idle",
                      view |-> Followed(key_status, r.view, SubSeq(b, 1, count))]
<1>1. ListenerWell(r, key_status) /\ r \in ListenerType /\ b \in Seq(InputEvents) /\ r.view \in Views
  BY DEF ListenersWell, ListenerWell, ListenerType
<1>2. listener' = [listener EXCEPT ![l] = t] /\ key_status' = key_status
  BY DEF evdev_read
<1>3. ListenerWell(t, key_status)
  <2>1. CASE b = <<>>
    <3>1. t \in ListenerType /\ t.buffer = b /\ t.view = r.view
      BY <1>1, <2>1 DEF ListenerType
    <3> HIDE DEF t
    <3> QED BY <1>1, <2>1, <3>1 DEF ListenerWell
  <2>2. CASE b # <<>>
    <3>1. count \in 1 .. Len(b)
      BY <1>1, <2>2
    <3> DEFINE v == Followed(key_status, r.view, SubSeq(b, 1, count))
               q == SubSeq(b, count + 1, Len(b))
    <3>2. Tracks(v, q, key_status)
      <4> HIDE DEF count
      <4> QED BY <1>1, <3>1, TracksRead DEF ListenerWell
    <3>3. t = [buffer |-> q, reader |-> "idle", view |-> v]
      BY <2>2
    <3> HIDE DEF v, q
    <3>4. q \in Seq(InputEvents) /\ v \in Views
      BY <3>2, TracksType
    <3> QED BY <3>2, <3>3, <3>4 DEF ListenerWell, ListenerType
  <2> QED BY <2>1, <2>2
<1> HIDE DEF t
<1>4. listener' = [k \in Listeners |-> IF k = l THEN t ELSE listener[k]]
  BY <1>2 DEF ListenersWell
<1>5. \A k \in Listeners : ListenerWell(listener'[k], key_status)
  BY <1>3, <1>4 DEF ListenersWell
<1>6. DOMAIN listener' = Listeners /\ listener' = [k \in Listeners |-> listener'[k]] /\ key_status' \in Views
  BY <1>2, <1>4 DEF ListenersWell
<1> QED BY <1>2, <1>5, <1>6 DEF ListenersWell
LEMMA InterruptedKeeps ==
    ASSUME ListenersWell, NEW l \in Listeners, evdev_interrupted(l)
    PROVE  ListenersWell'
<1> DEFINE r == listener[l]
           t == [r EXCEPT !.reader = "idle"]
<1>1. ListenerWell(r, key_status) /\ r \in ListenerType
  BY DEF ListenersWell, ListenerWell
<1>2. listener' = [listener EXCEPT ![l] = t] /\ key_status' = key_status
  BY DEF evdev_interrupted
<1>3. ListenerWell(t, key_status)
  <2>1. t \in ListenerType /\ t.buffer = r.buffer /\ t.view = r.view /\ t.reader = "idle"
    BY <1>1 DEF ListenerType
  <2> HIDE DEF t
  <2> QED BY <1>1, <2>1 DEF ListenerWell
<1> HIDE DEF t
<1>4. listener' = [k \in Listeners |-> IF k = l THEN t ELSE listener[k]]
  BY <1>2 DEF ListenersWell
<1>5. \A k \in Listeners : ListenerWell(listener'[k], key_status)
  BY <1>3, <1>4 DEF ListenersWell
<1>6. DOMAIN listener' = Listeners /\ listener' = [k \in Listeners |-> listener'[k]] /\ key_status' \in Views
  BY <1>2, <1>4 DEF ListenersWell
<1> QED BY <1>2, <1>5, <1>6 DEF ListenersWell
LEMMA IdleKeeps ==
    ASSUME ListenersWell, UNCHANGED <<key_status, listener>>
    PROVE  ListenersWell'
  BY DEF ListenersWell
\* What the listeners' invariant is for.
LEMMA ListenersSafe == ASSUME ListenersWell PROVE InputView /\ InputStranded
<1>1. InputStranded
  BY DEF ListenersWell, ListenerWell, InputStranded
<1>2. ASSUME NEW l \in Listeners,
             \A i \in DOMAIN listener[l].buffer : listener[l].buffer[i] # Dropped
      PROVE  Followed(key_status, listener[l].view, listener[l].buffer) = key_status
  <2> DEFINE b == listener[l].buffer
             v == listener[l].view
  <2>1. Tracks(v, b, key_status) /\ key_status \in Views
    BY DEF ListenersWell, ListenerWell
  <2>2. ASSUME NEW c \in Seq(PlainEvents), b = <<Dropped>> \o c PROVE FALSE
    <3> DEFINE d == <<Dropped>>
    <3>1. d \in Seq(InputEvents) /\ c \in Seq(InputEvents) /\ Len(d) = 1 /\ d[1] = Dropped /\ Len(c) \in Nat
      BY PlainType
    <3>2. b = d \o c
      BY <2>2
    <3> HIDE DEF d, b
    <3>3. /\ Len(b) = Len(d) + Len(c) /\ b \in Seq(InputEvents)
          /\ \A i \in 1 .. Len(d) + Len(c) : b[i] = IF i <= Len(d) THEN d[i] ELSE c[i - Len(d)]
      BY <3>1, <3>2, ConcatProperties
    <3>4. 1 \in DOMAIN b /\ b[1] = Dropped
      BY <3>1, <3>3
    <3> QED BY <1>2, <3>4 DEF b
  <2>3. Effect(v, b, key_status)
    BY <2>1, <2>2 DEF Tracks
  <2> QED BY <2>1, <2>3 DEF Effect
<1> QED BY <1>1, <1>2 DEF InputView

-----------------------------------------------------------------------------
LEMMA KeyboardKeeps ==
    ASSUME ListenersWell, NEW c \in ScanCodes, NEW r \in BOOLEAN, ps2_keyboard_irq(c, r)
    PROVE  ListenersWell'
<1> DEFINE keycode == IF extended THEN Extended[c] ELSE c
           value == IF r THEN 0 ELSE IF keycode \in key_status THEN 2 ELSE 1
<1>1. keycode \in Nat
  BY InputAssumption
<1>2. key_status \in Views
  BY DEF ListenersWell
<1>3. key_status' = Held(keycode, r) /\ flush_events(<<<<keycode, value>>>>)
  BY DEF ps2_keyboard_irq
<1>4. value \in {0, 1, 2} /\ (value = 0 <=> r)
  OBVIOUS
<1> HIDE DEF keycode, value
<1>5. Effect(key_status, <<<<keycode, value>>>>,
             IF value = 0 THEN key_status \ {keycode} ELSE key_status \cup {keycode})
  BY <1>1, <1>2, <1>4, EffectKey
<1>6. Effect(key_status, <<<<keycode, value>>>>, key_status')
  BY <1>3, <1>4, <1>5 DEF Held
<1> QED BY <1>3, <1>6, FlushKeeps

\* process_button keeps the events and the keys of a report together.
States == [keys : Views, events : Seq(PlainEvents)]
LEMMA ButtonEffect ==
    ASSUME NEW K, NEW st \in States, NEW code \in Nat, NEW down \in BOOLEAN, Effect(K, st.events, st.keys)
    PROVE  LET st2 == process_button(st, code, down) IN
           /\ st2 \in States /\ Effect(K, st2.events, st2.keys)
           /\ \A k : k \in st2.keys <=> IF k = code THEN down ELSE k \in st.keys
<1> DEFINE st2 == process_button(st, code, down)
           value == IF down THEN 1 ELSE 0
           e == <<code, value>>
           ks == IF down THEN st.keys \cup {code} ELSE st.keys \ {code}
           es == Append(st.events, e)
<1>1. st.keys \in Views /\ st.events \in Seq(PlainEvents)
  BY DEF States
<1>2. CASE (code \in st.keys) = down
  BY <1>2 DEF process_button
<1>3. CASE (code \in st.keys) # down
  <2>1. st2 = [keys |-> ks, events |-> es]
    BY <1>3 DEF process_button
  <2>2. value \in {0, 1, 2} /\ (value = 0 <=> ~down)
    OBVIOUS
  <2>3. e \in PlainEvents
    BY <2>2, PlainType DEF KeyEvents
  <2>4. Effect(st.keys, <<e>>, IF value = 0 THEN st.keys \ {code} ELSE st.keys \cup {code})
    BY <1>1, <2>2, EffectKey
  <2>5. Effect(st.keys, <<e>>, ks)
    BY <2>2, <2>4
  <2> HIDE DEF e
  <2>6. es = st.events \o <<e>>
    BY <1>1, <2>3, AppendIsConcat
  <2> HIDE DEF es, st2
  <2>7. Effect(K, es, ks)
    BY <2>5, <2>6, EffectMore
  <2>8. es \in Seq(PlainEvents) /\ ks \in Views
    BY <2>7 DEF Effect
  <2>9. \A k : k \in ks <=> IF k = code THEN down ELSE k \in st.keys
    OBVIOUS
  <2> HIDE DEF ks
  <2>10. st2 \in States /\ st2.keys = ks /\ st2.events = es
    BY <2>1, <2>8 DEF States
  <2>11. st2 \in States /\ Effect(K, st2.events, st2.keys)
           /\ \A k : k \in st2.keys <=> IF k = code THEN down ELSE k \in st.keys
    BY <2>7, <2>9, <2>10
  <2> QED BY <2>11 DEF st2
<1> QED BY <1>2, <1>3
-----------------------------------------------------------------------------
\* Bytes of the mouse.  Data that does not continue with the next byte has been
\* paid for: a byte was lost or one was taken for the first.
Byte(x) == x[1] \in Nat /\ x[2] \in Nat /\ x[3] \in BOOLEAN /\ x[4] \in BOOLEAN
Aligned(data, next) ==
    /\ next[2] = Len(data) + 1
    /\ \A i \in 1 .. Len(data) : data[i][1] = next[1] /\ data[i][2] = i
Bytes == {x \in Seq(Nat \cup BOOLEAN) : Len(x) = 4 /\ Byte(x)}
MouseType == [data : Seq(Bytes), next : Nat \X Nat, lost : Nat, misled : Nat, garbled : Nat]
MouseWell ==
    /\ mouse \in MouseType /\ mouse.next[2] \in 1 .. MousePacket
    /\ Len(mouse.data) < MousePacket /\ (mouse.data # <<>> => mouse.data[1][3])
    /\ mouse.garbled <= mouse.lost + mouse.misled
    /\ mouse.data # <<>> /\ ~Aligned(mouse.data, mouse.next) => mouse.garbled + 1 <= mouse.lost + mouse.misled
LEMMA ByteIs ==
    ASSUME NEW next \in Nat \X Nat, NEW bit \in BOOLEAN, NEW left \in BOOLEAN
    PROVE  /\ next \o <<bit, left>> \in Bytes
           /\ (next \o <<bit, left>>)[1] = next[1] /\ (next \o <<bit, left>>)[2] = next[2]
           /\ (next \o <<bit, left>>)[3] = bit /\ (next \o <<bit, left>>)[4] = left
<1> DEFINE S == Nat \cup BOOLEAN
           t == <<bit, left>>
           u == <<next[1], next[2]>>
<1>1. next = u /\ next[1] \in Nat /\ next[2] \in Nat
  OBVIOUS
<1>2. bit \in S /\ left \in S /\ next[1] \in S /\ next[2] \in S
  BY <1>1
<1>3. Len(u) = 2 /\ u[1] = next[1] /\ u[2] = next[2] /\ Len(t) = 2 /\ t[1] = bit /\ t[2] = left
  OBVIOUS
<1>4. t \in Seq(S) /\ u \in Seq(S)
  <2> HIDE DEF S
  <2> QED BY <1>2
<1> HIDE DEF S, t, u
<1> DEFINE x == u \o t
<1>5. /\ x \in Seq(S) /\ Len(x) = Len(u) + Len(t)
      /\ \A i \in 1 .. Len(u) + Len(t) : x[i] = IF i <= Len(u) THEN u[i] ELSE t[i - Len(u)]
  BY <1>4, ConcatProperties
<1> HIDE DEF x
<1>6. Len(x) = 4 /\ x[1] = u[1] /\ x[2] = u[2] /\ x[3] = t[1] /\ x[4] = t[2]
  <2>1. \A i \in 1 .. 4 : x[i] = IF i <= 2 THEN u[i] ELSE t[i - 2]
    BY <1>3, <1>5
  <2>2. 1 \in 1 .. 4 /\ 2 \in 1 .. 4 /\ 3 \in 1 .. 4 /\ 4 \in 1 .. 4 /\ 3 - 2 = 1 /\ 4 - 2 = 2
    OBVIOUS
  <2>3. x[1] = u[1] /\ x[2] = u[2]
    BY <2>1, <2>2
  <2>4. x[3] = t[1] /\ x[4] = t[2]
    BY <2>1, <2>2
  <2> QED BY <1>3, <1>5, <2>3, <2>4
<1>7. x \in Bytes
  BY <1>1, <1>3, <1>5, <1>6 DEF Bytes, Byte, S
<1> QED BY <1>1, <1>3, <1>6, <1>7 DEF x, t
LEMMA FollowingIs ==
    ASSUME NEW next \in Nat \X Nat, next[2] \in 1 .. MousePacket
    PROVE  /\ Following(next) \in Nat \X Nat /\ Following(next)[2] \in 1 .. MousePacket
           /\ next[2] < MousePacket => Following(next)[1] = next[1] /\ Following(next)[2] = next[2] + 1
  BY InputAssumption DEF Following

\* A byte that is received, whatever it starts, continues or ends.
LEMMA MouseTakes ==
    ASSUME MouseWell, NEW bit \in BOOLEAN, NEW left \in BOOLEAN, mouse_irq(bit, left)
    PROVE  /\ MouseWell'
           /\ Append(mouse.data, mouse.next \o <<bit, left>>) \in Seq(Bytes)
           /\ Append(mouse.data, mouse.next \o <<bit, left>>) # <<>>
<1> DEFINE old == mouse.data
           next == mouse.next
           L == Len(old)
           byte == next \o <<bit, left>>
           data == Append(old, byte)
           complete == ~BadPacket(data) /\ Len(data) = MousePacket
           whole == \A i \in DOMAIN data : data[i][1] = data[1][1] /\ data[i][2] = i
           d2 == IF BadPacket(data) \/ complete THEN <<>> ELSE data
           n2 == Following(next)
           ms == IF Len(data) = 1 /\ bit /\ byte[2] # 1 THEN mouse.misled + 1 ELSE mouse.misled
           g == IF complete /\ ~whole THEN mouse.garbled + 1 ELSE mouse.garbled
           slack == mouse.garbled + 1 <= mouse.lost + mouse.misled
<1>1. /\ mouse \in MouseType /\ old \in Seq(Bytes) /\ next \in Nat \X Nat /\ next[2] \in 1 .. MousePacket
      /\ mouse.lost \in Nat /\ mouse.misled \in Nat /\ mouse.garbled \in Nat
      /\ L \in Nat /\ L < MousePacket /\ (old # <<>> => old[1][3])
      /\ mouse.garbled <= mouse.lost + mouse.misled /\ (old # <<>> /\ ~Aligned(old, next) => slack)
  BY DEF MouseWell, MouseType
<1>2. /\ byte \in Bytes /\ byte[1] = next[1] /\ byte[2] = next[2] /\ byte[3] = bit /\ byte[4] = left
  <2>1. next \in Nat \X Nat
    BY <1>1
  <2> HIDE DEF next
  <2> QED BY ONLY <2>1, bit \in BOOLEAN, left \in BOOLEAN, ByteIs
<1>3. mouse' = [mouse EXCEPT !.data = d2, !.next = n2, !.misled = ms, !.garbled = g]
  BY <1>1 DEF mouse_irq, MouseType
<1> HIDE DEF byte
<1>4. /\ data \in Seq(Bytes) /\ data # <<>> /\ Len(data) = L + 1 /\ DOMAIN data = 1 .. L + 1
      /\ (\A i \in 1 .. L : data[i] = old[i]) /\ data[L + 1] = byte
  <2>1. old \in Seq(Bytes) /\ byte \in Bytes
    BY <1>1, <1>2
  <2> HIDE DEF old
  <2>2. /\ data \in Seq(Bytes) /\ data # <<>> /\ Len(data) = L + 1
        /\ (\A i \in 1 .. L : data[i] = old[i]) /\ data[L + 1] = byte
    BY ONLY <2>1, AppendProperties
  <2> HIDE DEF data, L
  <2>3. DOMAIN data = 1 .. L + 1
    BY ONLY <2>2
  <2> QED BY ONLY <2>2, <2>3
<1>5. MousePacket \in Nat \ {0}
  BY InputAssumption
<1>6. n2 \in Nat \X Nat /\ n2[2] \in 1 .. MousePacket
      /\ (next[2] < MousePacket => n2[1] = next[1] /\ n2[2] = next[2] + 1)
  BY <1>1, FollowingIs
<1>7. (L = 0 <=> old = <<>>) /\ (L > 0 => 1 \in 1 .. L)
  BY <1>1
<1> HIDE DEF data, n2
<1>8. d2 \in Seq(Bytes) /\ ms \in Nat /\ g \in Nat
  <2> HIDE DEF complete, whole
  <2>1. d2 \in Seq(Bytes)
    <3>1. <<>> \in Seq(Bytes)
      OBVIOUS
    <3> QED BY <1>4, <3>1
  <2>2. ms \in Nat /\ g \in Nat
    BY <1>1
  <2> QED BY <2>1, <2>2
<1> DEFINE Held2 == /\ Len(d2) < MousePacket /\ (d2 # <<>> => d2[1][3])
                    /\ g <= mouse.lost + ms
                    /\ d2 # <<>> /\ ~Aligned(d2, n2) => g + 1 <= mouse.lost + ms
<1>11. ASSUME Held2 PROVE MouseWell'
  <2> HIDE DEF d2, ms, g
  <2>1. /\ mouse' \in MouseType /\ mouse'.data = d2 /\ mouse'.next = n2 /\ mouse'.misled = ms
        /\ mouse'.garbled = g /\ mouse'.lost = mouse.lost
    BY <1>1, <1>3, <1>6, <1>8 DEF MouseType
  <2>2. mouse'.data # <<>> /\ ~Aligned(mouse'.data, mouse'.next)
           => mouse'.garbled + 1 <= mouse'.lost + mouse'.misled
    BY <1>11, <2>1
  <2>3. /\ mouse'.next[2] \in 1 .. MousePacket /\ Len(mouse'.data) < MousePacket
        /\ (mouse'.data # <<>> => mouse'.data[1][3]) /\ mouse'.garbled <= mouse'.lost + mouse'.misled
    BY <1>6, <1>11, <2>1
  <2> QED BY <2>1, <2>2, <2>3 DEF MouseWell
<1>12. data \in Seq(Bytes) /\ data # <<>>
  BY <1>4
<1> SUFFICES Held2
  BY <1>11, <1>12 DEF data, byte
<1>9. CASE old = <<>>
  <2>1. L = 0 /\ Len(data) = 1 /\ data[1] = byte /\ DOMAIN data = 1 .. 1 /\ (BadPacket(data) <=> ~bit)
    BY <1>2, <1>4, <1>7, <1>9 DEF BadPacket
  <2>2. CASE ~bit
    <3>1. d2 = <<>> /\ ms = mouse.misled /\ g = mouse.garbled
      BY <2>1, <2>2
    <3> QED BY <1>1, <1>5, <3>1
  <2>3. CASE bit /\ next[2] = 1
    <3>1. whole /\ ms = mouse.misled /\ g = mouse.garbled
      BY <1>2, <2>1, <2>3
    <3>2. CASE MousePacket = 1
      <4>1. d2 = <<>>
        BY <2>1, <2>3, <3>2
      <4> QED BY <1>1, <1>5, <3>1, <4>1
    <3>3. CASE MousePacket # 1
      <4>1. d2 = data
        BY <2>1, <2>3, <3>3
      <4>2. n2[1] = next[1] /\ n2[2] = 2
        BY <1>5, <1>6, <2>3, <3>3
      <4>3. Aligned(data, n2)
        BY <1>2, <2>1, <2>3, <4>2 DEF Aligned
      <4>4. data[1][3]
        BY <1>2, <2>1, <2>3
      <4> HIDE DEF d2, ms, g
      <4>5. Len(d2) < MousePacket
        <5>1. 1 < MousePacket
          BY <1>5, <3>3
        <5>2. Len(d2) = 1
          BY <2>1, <4>1
        <5> QED BY <5>1, <5>2
      <4>6. g <= mouse.lost + ms
        BY <1>1, <3>1
      <4> QED BY <4>1, <4>3, <4>4, <4>5, <4>6
    <3> QED BY <3>2, <3>3
  <2>4. CASE bit /\ next[2] # 1
    <3>1. ms = mouse.misled + 1 /\ g <= mouse.garbled + 1
      BY <1>1, <1>2, <2>1, <2>4
    <3>2. CASE MousePacket = 1
      BY <1>1, <2>4, <3>2
    <3>3. CASE MousePacket # 1
      <4>1. d2 = data /\ g = mouse.garbled
        BY <2>1, <2>4, <3>3
      <4>2. data[1][3]
        BY <1>2, <2>1, <2>4
      <4> HIDE DEF d2, ms, g
      <4>3. Len(d2) < MousePacket
        <5>1. 1 < MousePacket
          BY <1>5, <3>3
        <5>2. Len(d2) = 1
          BY <2>1, <4>1
        <5> QED BY <5>1, <5>2
      <4>4. g + 1 <= mouse.lost + ms /\ g <= mouse.lost + ms
        BY <1>1, <3>1, <4>1
      <4> QED BY <4>1, <4>2, <4>3, <4>4
    <3> QED BY <3>2, <3>3
  <2> QED BY <2>2, <2>3, <2>4
<1>10. CASE old # <<>>
  <2>1. /\ L \in Nat \ {0} /\ Len(data) # 1 /\ data[1] = old[1] /\ ~BadPacket(data) /\ data[1][3]
        /\ ms = mouse.misled
    BY <1>1, <1>4, <1>7, <1>10 DEF BadPacket
  <2>2. CASE Aligned(old, next)
    <3>1. next[2] = L + 1 /\ \A i \in 1 .. L : data[i][1] = next[1] /\ data[i][2] = i
      BY <1>4, <2>2 DEF Aligned
    <3>2. \A i \in 1 .. L + 1 : data[i][1] = next[1] /\ data[i][2] = i
      <4> SUFFICES ASSUME NEW i \in 1 .. L + 1 PROVE data[i][1] = next[1] /\ data[i][2] = i
        OBVIOUS
      <4>1. CASE i = L + 1
        BY <1>2, <1>4, <3>1, <4>1
      <4>2. CASE i # L + 1
        <5>1. i \in 1 .. L
          BY <1>1, <4>2
        <5> QED BY <3>1, <5>1
      <4> QED BY <4>1, <4>2
    <3>3. whole
      <4>1. 1 \in 1 .. L + 1
        BY <1>1
      <4> QED BY <1>4, <3>2, <4>1
    <3>4. g = mouse.garbled
      BY <3>3
    <3>5. CASE L + 1 = MousePacket
      <4>1. d2 = <<>>
        BY <1>4, <2>1, <3>5
      <4> HIDE DEF d2, ms, g
      <4> QED BY <1>1, <1>5, <2>1, <3>4, <4>1
    <3>6. CASE L + 1 # MousePacket
      <4>1. d2 = data /\ L + 1 < MousePacket
        BY <1>1, <1>4, <1>5, <2>1, <3>6
      <4>2. Aligned(data, n2)
        BY <1>1, <1>4, <1>5, <1>6, <3>1, <3>2, <4>1 DEF Aligned
      <4> HIDE DEF d2, ms, g
      <4> QED BY <1>1, <1>4, <2>1, <3>4, <4>1, <4>2
    <3> QED BY <3>5, <3>6
  <2>3. CASE ~Aligned(old, next)
    <3>1. slack
      BY <1>1, <1>10, <2>3
    <3>2. CASE L + 1 = MousePacket
      <4>1. d2 = <<>> /\ g <= mouse.garbled + 1
        BY <1>1, <1>4, <2>1, <3>2
      <4> HIDE DEF d2, ms, g
      <4>2. Len(d2) < MousePacket
        BY <1>5, <4>1
      <4>3. g <= mouse.lost + ms
        BY <1>1, <1>8, <2>1, <3>1, <4>1
      <4> QED BY <4>1, <4>2, <4>3
    <3>3. CASE L + 1 # MousePacket
      <4>1. d2 = data /\ L + 1 < MousePacket /\ g = mouse.garbled
        BY <1>1, <1>4, <1>5, <2>1, <3>3
      <4> HIDE DEF d2, ms, g
      <4> QED BY <1>1, <1>4, <2>1, <3>1, <4>1
    <3> QED BY <3>2, <3>3
  <2> QED BY <2>2, <2>3
<1> QED BY <1>9, <1>10

LEMMA MouseMisses ==
    ASSUME MouseWell, mouse_loses PROVE MouseWell'
<1> DEFINE n2 == Following(mouse.next)
<1>1. /\ mouse \in MouseType /\ mouse.data \in Seq(Bytes)
      /\ mouse.next \in Nat \X Nat /\ mouse.next[2] \in 1 .. MousePacket
      /\ mouse.lost \in Nat /\ mouse.misled \in Nat /\ mouse.garbled \in Nat
  BY DEF MouseWell, MouseType
<1>2. mouse' = [mouse EXCEPT !.next = n2, !.lost = mouse.lost + 1]
  BY <1>1 DEF mouse_loses, MouseType
<1>3. n2 \in Nat \X Nat /\ n2[2] \in 1 .. MousePacket
  BY <1>1, FollowingIs
<1> HIDE DEF n2
<1>4. /\ mouse' \in MouseType /\ mouse'.data = mouse.data /\ mouse'.next = n2 /\ mouse'.lost = mouse.lost + 1
      /\ mouse'.misled = mouse.misled /\ mouse'.garbled = mouse.garbled
  <2>1. mouse.lost + 1 \in Nat
    BY <1>1
  <2> QED BY <1>1, <1>2, <1>3, <2>1 DEF MouseType
<1>5. mouse'.garbled + 1 <= mouse'.lost + mouse'.misled /\ mouse'.garbled <= mouse'.lost + mouse'.misled
  BY <1>1, <1>4 DEF MouseWell
<1>6. /\ mouse'.next[2] \in 1 .. MousePacket /\ Len(mouse'.data) < MousePacket
      /\ (mouse'.data # <<>> => mouse'.data[1][3])
  BY <1>3, <1>4 DEF MouseWell
<1> QED BY <1>4, <1>5, <1>6 DEF MouseWell
LEMMA MouseKeeps ==
    ASSUME ListenersWell, MouseWell, NEW bit \in BOOLEAN, NEW left \in BOOLEAN, mouse_irq(bit, left)
    PROVE  ListenersWell'
<1> DEFINE byte == mouse.next \o <<bit, left>>
           data == Append(mouse.data, byte)
           complete == ~BadPacket(data) /\ Len(data) = MousePacket
           s0 == [keys |-> key_status, events |-> <<>>]
           st == process_button(s0, Button, data[1][4])
           count == Cardinality({j \in 2 .. Len(data) : data[j][3]})
           moves == [i \in 1 .. count |-> Moved]
<1>1. data \in Seq(Bytes) /\ data # <<>>
  BY MouseTakes
<1>2. key_status' = (IF complete THEN st.keys ELSE key_status)
      /\ IF complete THEN flush_events(st.events \o moves) ELSE UNCHANGED listener
  BY DEF mouse_irq
<1> HIDE DEF data
<1>3. data[1][4] \in BOOLEAN /\ Len(data) \in Nat
  <2>1. 1 \in 1 .. Len(data) /\ Len(data) \in Nat
    BY <1>1
  <2>2. data[1] \in Bytes
    BY <1>1, <2>1
  <2> QED BY <2>1, <2>2 DEF Bytes, Byte
<1>4. count \in Nat
  <2>1. IsFiniteSet(2 .. Len(data))
    BY <1>3, FS_Interval
  <2>2. IsFiniteSet({j \in 2 .. Len(data) : data[j][3]})
    BY <2>1, FS_Subset
  <2> QED BY <2>2, FS_CardinalityType
<1>5. s0 \in States /\ Effect(key_status, s0.events, s0.keys)
  <2>1. key_status \in Views
    BY DEF ListenersWell
  <2>2. <<>> \in Seq(PlainEvents)
    OBVIOUS
  <2> QED BY <2>1, <2>2, EffectNone DEF States
<1>6. Button \in Nat
  BY DEF Button
<1> HIDE DEF count, s0
<1>7. st \in States /\ Effect(key_status, st.events, st.keys)
  BY <1>3, <1>5, <1>6, ButtonEffect
<1> HIDE DEF st
<1>8. CASE complete
  <2>1. Effect(st.keys, moves, st.keys)
    BY <1>4, <1>7, EffectMoves DEF Effect
  <2> HIDE DEF moves
  <2>2. Effect(key_status, st.events \o moves, st.keys)
    BY <1>7, <2>1, EffectMore
  <2>3. flush_events(st.events \o moves) /\ key_status' = st.keys
    BY <1>2, <1>8
  <2> QED BY <2>2, <2>3, FlushKeeps
<1>9. CASE ~complete
  <2>1. UNCHANGED <<key_status, listener>>
    BY <1>2, <1>9
  <2> QED BY <2>1, IdleKeeps
<1> QED BY <1>8, <1>9

-----------------------------------------------------------------------------
\* One array field of a report: its new key is pressed and its old one released.
LEMMA FieldEffect ==
    ASSUME NEW K, NEW st \in States, NEW i, hid_previous[i] \in Nat, NEW value \in Nat,
           Effect(K, st.events, st.keys)
    PROVE  LET st2 == Field(st, i, value) IN
           /\ st2 \in States /\ Effect(K, st2.events, st2.keys)
           /\ \A k : k \in st2.keys <=> IF value = hid_previous[i] THEN k \in st.keys
                                        ELSE (k \in st.keys \/ k = value) /\ k # hid_previous[i]
<1> DEFINE st2 == Field(st, i, value)
           p == hid_previous[i]
           a == <<<<value, 1>>>>
           b == <<<<p, 0>>>>
           ab == <<<<value, 1>>, <<p, 0>>>>
           k1 == st.keys \cup {value}
           k2 == k1 \ {p}
           es == st.events \o ab
<1>1. st.keys \in Views /\ st.events \in Seq(PlainEvents) /\ p \in Nat
  BY DEF States
<1>2. CASE value = p
  BY <1>2 DEF Field
<1>3. CASE value # p
  <2>1. st2 = [keys |-> k2, events |-> es]
    BY <1>3 DEF Field
  <2>2. Effect(st.keys, a, k1)
    <3>1. 1 \in {0, 1, 2} /\ 1 # 0
      OBVIOUS
    <3>2. Effect(st.keys, a, IF 1 = 0 THEN st.keys \ {value} ELSE st.keys \cup {value})
      BY <1>1, <3>1, EffectKey
    <3> HIDE DEF a
    <3> QED BY <3>1, <3>2
  <2>3. Effect(k1, b, k2)
    <3>1. k1 \in Views
      BY <2>2 DEF Effect
    <3>2. 0 \in {0, 1, 2} /\ 0 = 0
      OBVIOUS
    <3> HIDE DEF k1
    <3>3. Effect(k1, b, IF 0 = 0 THEN k1 \ {p} ELSE k1 \cup {p})
      BY <1>1, <3>1, <3>2, EffectKey
    <3> HIDE DEF b
    <3> QED BY <3>2, <3>3
  <2>4. ab = a \o b
    <3> DEFINE x == <<value, 1>>
               y == <<p, 0>>
               S == {x, y}
               one == <<x>>
               other == <<y>>
               both == <<x, y>>
    <3>1. x \in S /\ y \in S
      OBVIOUS
    <3> HIDE DEF x, y, S
    <3>2. one \in Seq(S) /\ other \in Seq(S) /\ both \in Seq(S)
      BY <3>1
    <3>3. Len(one) = 1 /\ Len(other) = 1 /\ Len(both) = 2 /\ one[1] = x /\ other[1] = y /\ both[1] = x /\ both[2] = y
      OBVIOUS
    <3> HIDE DEF one, other, both
    <3>4. /\ one \o other \in Seq(S) /\ Len(one \o other) = Len(one) + Len(other)
          /\ \A j \in 1 .. Len(one) + Len(other) :
                (one \o other)[j] = IF j <= Len(one) THEN one[j] ELSE other[j - Len(one)]
      BY <3>2, ConcatProperties
    <3>5. \A j \in 1 .. 2 : (one \o other)[j] = both[j]
      BY <3>3, <3>4
    <3>6. one \o other = both
      BY <3>2, <3>3, <3>4, <3>5, SeqEqual
    <3> QED BY <3>6 DEF x, y, one, other, both
  <2> HIDE DEF ab, a, b, st2
  <2>5. Effect(st.keys, ab, k2)
    BY <2>2, <2>3, <2>4, EffectMore
  <2>6. Effect(K, es, k2)
    BY <2>5, EffectMore
  <2>7. es \in Seq(PlainEvents) /\ k2 \in Views
    BY <2>6 DEF Effect
  <2>8. \A k : k \in k2 <=> (k \in st.keys \/ k = value) /\ k # p
    OBVIOUS
  <2> HIDE DEF es, k2
  <2>9. st2 \in States /\ st2.keys = k2 /\ st2.events = es
    BY <2>1, <2>7 DEF States
  <2>10. /\ st2 \in States /\ Effect(K, st2.events, st2.keys)
         /\ \A k : k \in st2.keys <=> IF value = p THEN k \in st.keys
                                      ELSE (k \in st.keys \/ k = value) /\ k # p
    BY <1>3, <2>6, <2>8, <2>9
  <2> QED BY <2>10 DEF st2
<1> QED BY <1>2, <1>3

\* The fields of a report, one by one.
FieldRun(f, report, button) ==
    /\ f \in [0 .. HidSlots -> States]
    /\ f[0] = process_button([keys |-> key_status, events |-> <<>>], Button, button)
    /\ \A i \in 1 .. HidSlots : f[i] = Field(f[i - 1], i, report[i])
LEMMA FieldsSeenIs ==
    ASSUME NEW report, NEW button, NEW f, FieldRun(f, report, button)
    PROVE  FieldsSeen(report, button) = f[HidSlots]
<1> DEFINE n == HidSlots
           s1 == process_button([keys |-> key_status, events |-> <<>>], Button, button)
           Body(k) == [i \in 0 .. n |-> IF i = 0 THEN s1 ELSE Field(k[i - 1], i, report[i])]
           F == CHOOSE k : k = Body(k)
<1>1. n \in Nat /\ f \in [0 .. n -> States] /\ f[0] = s1
      /\ \A i \in 1 .. n : f[i] = Field(f[i - 1], i, report[i])
  BY InputAssumption DEF FieldRun
<1>10. FieldsSeen(report, button) = F[n]
  BY DEF FieldsSeen
<1> HIDE DEF s1
<1>8. f = Body(f)
  <2>1. \A i \in 0 .. n : f[i] = Body(f)[i]
    <3> SUFFICES ASSUME NEW i \in 0 .. n PROVE f[i] = Body(f)[i]
      OBVIOUS
    <3>1. CASE i = 0
      BY <1>1, <3>1
    <3>2. CASE i # 0
      <4>1. i \in 1 .. n
        BY <1>1, <3>2
      <4> QED BY <1>1, <3>2, <4>1
    <3> QED BY <3>1, <3>2
  <2>2. f = [i \in 0 .. n |-> f[i]] /\ Body(f) = [i \in 0 .. n |-> Body(f)[i]]
    BY <1>1
  <2> HIDE DEF Body
  <2> QED BY <2>1, <2>2
<1>9. F = Body(F)
  <2> HIDE DEF Body
  <2> QED BY <1>8
<1> HIDE DEF F
<1>11. F[n] = f[n]
  <2> DEFINE E == {m \in 0 .. n : F[m] = f[m]}
  <2>1. 0 \in E
    BY <1>1, <1>9
  <2>2. ASSUME NEW m \in 0 .. n - 1, m \in E PROVE m + 1 \in E
    <3>1. m + 1 \in 1 .. n /\ (m + 1) - 1 = m /\ m + 1 \in 0 .. n /\ m + 1 # 0
      BY <1>1
    <3>2. F[m + 1] = Field(F[m], m + 1, report[m + 1])
      <4>1. F[m + 1] = Body(F)[m + 1]
        <5> HIDE DEF Body
        <5> QED BY <1>9
      <4> QED BY <3>1, <4>1
    <3>3. f[m + 1] = Field(f[m], m + 1, report[m + 1])
      BY <1>1, <3>1
    <3> QED BY <2>2, <3>1, <3>2, <3>3
  <2>3. 0 .. n \subseteq E
    <3> HIDE DEF E
    <3> QED BY <1>1, <2>1, <2>2, UpTo
  <2> QED BY <1>1, <2>3
<1> QED BY <1>10, <1>11

\* The keys of a set are those of an array of fields, and the button.
Exact(K, keys, button) ==
    \A k : k # 0 => (k \in K <=> (\E i \in 1 .. HidSlots : keys[i] = k) \/ (k = Button /\ button))
HidReportType == [keys : Reports, button : BOOLEAN, moved : BOOLEAN]
HidWell ==
    /\ hid_report \in HidReportType /\ hid_previous = hid_report.keys
    /\ device = "usb" /\ ~hid_report.moved => Exact(key_status, hid_report.keys, hid_report.button)
LEMMA ReportIs ==
    ASSUME NEW r \in Reports
    PROVE  /\ \A i \in 1 .. HidSlots : r[i] \in Nat /\ r[i] # Button
           /\ \A i, j \in 1 .. HidSlots : r[i] = r[j] => i = j \/ r[i] = 0
<1>1. r \in [1 .. HidSlots -> HidKeys \cup {0}] /\ \A i, j \in 1 .. HidSlots : r[i] = r[j] => i = j \/ r[i] = 0
  BY DEF Reports
<1>2. HidKeys \cup {0} \subseteq Nat \ {Button}
  BY InputAssumption DEF Button
<1> HIDE DEF Reports
<1> QED BY <1>1, <1>2
LEMMA FieldRuns ==
    ASSUME NEW report \in Reports, NEW button \in BOOLEAN, hid_previous \in Reports, key_status \in Views
    PROVE  \E f : FieldRun(f, report, button)
<1> DEFINE n == HidSlots
           s0 == [keys |-> key_status, events |-> <<>>]
           s1 == process_button(s0, Button, button)
           next == [i \in 1 .. n |-> [st \in States |-> Field(st, i, report[i])]]
<1>1. n \in Nat /\ Button \in Nat
  BY InputAssumption DEF Button
<1>2. s1 \in States
  <2>1. <<>> \in Seq(PlainEvents)
    OBVIOUS
  <2>2. s0 \in States /\ Effect(key_status, s0.events, s0.keys)
    BY <2>1, EffectNone DEF States
  <2> HIDE DEF s0
  <2> QED BY <1>1, <2>2, ButtonEffect
<1>3. ASSUME NEW i \in 1 .. n, NEW st \in States PROVE Field(st, i, report[i]) \in States
  <2>1. hid_previous[i] \in Nat /\ report[i] \in Nat
    BY ReportIs
  <2>2. st.keys \in Views /\ st.events \in Seq(PlainEvents)
    BY DEF States
  <2>3. PICK A \in Views, B \in Views : Sets(st.events, A, B)
    BY <2>2, EventsSet
  <2> DEFINE p == hid_previous[i]
             v == report[i]
             ab == <<<<v, 1>>, <<p, 0>>>>
             es == st.events \o ab
             ks == (st.keys \cup {v}) \ {p}
  <2>4. CASE v = p
    BY <2>4 DEF Field
  <2>5. CASE v # p
    <3>1. Field(st, i, v) = [keys |-> ks, events |-> es]
      BY <2>5 DEF Field
    <3>2. ks \in Views
      BY <2>1, <2>2 DEF Views
    <3>3. <<v, 1>> \in PlainEvents /\ <<p, 0>> \in PlainEvents
      BY <2>1, PlainType DEF KeyEvents
    <3>4. ab \in Seq(PlainEvents)
      <4> DEFINE x == <<v, 1>>
                 y == <<p, 0>>
      <4>1. x \in PlainEvents /\ y \in PlainEvents
        BY <3>3
      <4> HIDE DEF x, y
      <4>2. <<x, y>> \in Seq(PlainEvents)
        BY <4>1
      <4> QED BY <4>2 DEF x, y
    <3> HIDE DEF ab
    <3>5. es \in Seq(PlainEvents)
      BY <2>2, <3>4, ConcatProperties
    <3> HIDE DEF es, ks
    <3> QED BY <3>1, <3>2, <3>5 DEF States
  <2> QED BY <2>4, <2>5
<1>4. next \in [1 .. n -> [States -> States]]
  BY <1>3
<1>5. \A i \in 1 .. n, st \in States : next[i][st] = Field(st, i, report[i])
  OBVIOUS
<1> HIDE DEF next, n, s1
<1>6. PICK f : f \in [0 .. n -> States] /\ f[0] = s1 /\ \A i \in 1 .. n : f[i] = next[i][f[i - 1]]
  <2>1. LoopSteps(next, n, States)
    BY <1>1, <1>4 DEF LoopSteps
  <2>2. \E f : LoopRun(f, next, n, States, s1)
    BY <1>2, <2>1, LoopRuns
  <2> QED BY <2>2 DEF LoopRun
<1>7. \A i \in 1 .. n : f[i] = Field(f[i - 1], i, report[i])
  <2> SUFFICES ASSUME NEW i \in 1 .. n PROVE f[i] = Field(f[i - 1], i, report[i])
    OBVIOUS
  <2>1. i - 1 \in 0 .. n
    BY <1>1
  <2> QED BY <1>5, <1>6, <2>1
<1> QED BY <1>6, <1>7 DEF FieldRun, n, s1
\* What a report does: its events take the keys where they are, and the keys are
\* those of the report unless one has changed its field.
LEMMA ReportEffect ==
    ASSUME NEW report \in Reports, NEW button \in BOOLEAN, hid_previous \in Reports, key_status \in Views
    PROVE  LET st == FieldsSeen(report, button) IN
           /\ Effect(key_status, st.events, st.keys)
           /\ \A b \in BOOLEAN :
                 Exact(key_status, hid_previous, b)
                   /\ (\A i, j \in 1 .. HidSlots : i # j /\ report[i] # 0 => report[i] # hid_previous[j])
                   => Exact(st.keys, report, button)
<1> DEFINE n == HidSlots
           s0 == [keys |-> key_status, events |-> <<>>]
           s1 == process_button(s0, Button, button)
           Still(i, k) == \/ \E j \in 1 .. i : report[j] = k
                          \/ \E j \in i + 1 .. n : hid_previous[j] = k
                          \/ k = Button /\ button
           Kept == \A i, j \in 1 .. HidSlots : i # j /\ report[i] # 0 => report[i] # hid_previous[j]
<1>1. n \in Nat \ {0} /\ Button \in Nat /\ Button # 0
  BY InputAssumption DEF Button
<1>2. PICK f : FieldRun(f, report, button)
  BY FieldRuns
<1>3. FieldsSeen(report, button) = f[n]
  BY <1>2, FieldsSeenIs
<1>4. f \in [0 .. n -> States] /\ f[0] = s1 /\ \A i \in 1 .. n : f[i] = Field(f[i - 1], i, report[i])
  BY <1>2 DEF FieldRun
<1>5. /\ s1 \in States /\ Effect(key_status, s1.events, s1.keys)
      /\ \A k : k \in s1.keys <=> IF k = Button THEN button ELSE k \in key_status
  <2>1. <<>> \in Seq(PlainEvents)
    OBVIOUS
  <2>2. s0 \in States /\ Effect(key_status, s0.events, s0.keys) /\ s0.keys = key_status
    BY <2>1, EffectNone DEF States
  <2> HIDE DEF s0
  <2>3. LET st2 == process_button(s0, Button, button) IN
           /\ st2 \in States /\ Effect(key_status, st2.events, st2.keys)
           /\ \A k : k \in st2.keys <=> IF k = Button THEN button ELSE k \in s0.keys
    BY <1>1, <2>2, ButtonEffect
  <2> QED BY <2>2, <2>3
<1> HIDE DEF s1
<1>6. ASSUME NEW i \in 1 .. n
      PROVE  i - 1 \in 0 .. n /\ i \in 0 .. n /\ f[i - 1] \in States /\ hid_previous[i] \in Nat /\ report[i] \in Nat
  <2>1. i - 1 \in 0 .. n /\ i \in 0 .. n
    BY <1>1
  <2> QED BY <1>4, <2>1, ReportIs
<1>7. Effect(key_status, f[n].events, f[n].keys)
  <2> DEFINE D == {i \in 0 .. n : Effect(key_status, f[i].events, f[i].keys)}
  <2>1. 0 \in D
    BY <1>1, <1>4, <1>5
  <2>2. ASSUME NEW i \in 0 .. n - 1, i \in D PROVE i + 1 \in D
    <3>1. i + 1 \in 1 .. n /\ (i + 1) - 1 = i /\ i + 1 \in 0 .. n
      BY <1>1
    <3>2. f[i] \in States /\ hid_previous[i + 1] \in Nat /\ report[i + 1] \in Nat
      BY <1>6, <3>1
    <3>3. Effect(key_status, f[i].events, f[i].keys)
      BY <2>2
    <3>4. f[i + 1] = Field(f[i], i + 1, report[i + 1])
      BY <1>4, <3>1
    <3>5. Effect(key_status, Field(f[i], i + 1, report[i + 1]).events, Field(f[i], i + 1, report[i + 1]).keys)
      BY <3>2, <3>3, FieldEffect
    <3> QED BY <3>1, <3>4, <3>5
  <2>3. 0 .. n \subseteq D
    <3> HIDE DEF D
    <3> QED BY <1>1, <2>1, <2>2, UpTo
  <2> QED BY <1>1, <2>3
<1>8. ASSUME NEW b \in BOOLEAN, Exact(key_status, hid_previous, b), Kept
      PROVE  Exact(f[n].keys, report, button)
  <2> DEFINE D == {i \in 0 .. n : /\ Effect(key_status, f[i].events, f[i].keys)
                                  /\ \A k : k # 0 => (k \in f[i].keys <=> Still(i, k))}
  <2>1. 0 \in D
    <3>1. ASSUME NEW k, k # 0 PROVE k \in s1.keys <=> Still(0, k)
      <4>1. Still(0, k) <=> (\E j \in 1 .. n : hid_previous[j] = k) \/ (k = Button /\ button)
        <5>1. 0 + 1 = 1 /\ \A j \in 1 .. 0 : FALSE
          OBVIOUS
        <5> QED BY <5>1
      <4>2. ~\E j \in 1 .. n : hid_previous[j] = Button
        BY ReportIs
      <4>3. k \in key_status <=> (\E j \in 1 .. n : hid_previous[j] = k) \/ (k = Button /\ b)
        BY <1>8, <3>1 DEF Exact
      <4> HIDE DEF Still
      <4>4. CASE k = Button
        BY <1>5, <4>1, <4>2, <4>4
      <4>5. CASE k # Button
        BY <1>5, <4>1, <4>3, <4>5
      <4> QED BY <4>4, <4>5
    <3>2. 0 \in 0 .. n
      BY <1>1
    <3> HIDE DEF Still
    <3> QED BY <1>4, <1>5, <3>1, <3>2
  <2>2. ASSUME NEW i \in 0 .. n - 1, i \in D PROVE i + 1 \in D
    <3> DEFINE v == report[i + 1]
               p == hid_previous[i + 1]
               st2 == Field(f[i], i + 1, v)
    <3>1. i + 1 \in 1 .. n /\ (i + 1) - 1 = i /\ i + 1 \in 0 .. n
      BY <1>1
    <3>2. f[i] \in States /\ p \in Nat /\ v \in Nat
      BY <1>6, <3>1
    <3>3. Effect(key_status, f[i].events, f[i].keys) /\ \A k : k # 0 => (k \in f[i].keys <=> Still(i, k))
      BY <2>2
    <3>4. f[i + 1] = st2
      BY <1>4, <3>1
    <3>5. /\ Effect(key_status, st2.events, st2.keys)
          /\ \A k : k \in st2.keys <=> IF v = p THEN k \in f[i].keys
                                       ELSE (k \in f[i].keys \/ k = v) /\ k # p
      <4>1. Effect(key_status, f[i].events, f[i].keys)
        BY <3>3
      <4> QED BY ONLY <3>2, <4>1, FieldEffect
    <3> HIDE DEF st2
    <3>6. ASSUME NEW k, k # 0 PROVE k \in st2.keys <=> Still(i + 1, k)
      <4> DEFINE Before == \E j \in 1 .. i : report[j] = k
                 After == \E j \in (i + 1) + 1 .. n : hid_previous[j] = k
      <4>1. Still(i, k) <=> Before \/ p = k \/ After \/ (k = Button /\ button)
        <5>1. \A j : j \in i + 1 .. n <=> j = i + 1 \/ j \in (i + 1) + 1 .. n
          BY <1>1
        <5> QED BY <5>1
      <4>2. Still(i + 1, k) <=> Before \/ v = k \/ After \/ (k = Button /\ button)
        <5>1. \A j : j \in 1 .. i + 1 <=> j = i + 1 \/ j \in 1 .. i
          BY <1>1
        <5> QED BY <5>1
      <4>3. p = k /\ v # p => ~Before
        <5> SUFFICES ASSUME p = k, v # p, NEW j \in 1 .. i, report[j] = k PROVE FALSE
          OBVIOUS
        <5>1. j \in 1 .. n /\ j # i + 1
          BY <1>1
        <5> QED BY <1>8, <3>1, <3>6, <5>1
      <4>4. p = k => ~After
        <5> SUFFICES ASSUME p = k, NEW j \in (i + 1) + 1 .. n, hid_previous[j] = k PROVE FALSE
          OBVIOUS
        <5>1. j \in 1 .. n /\ j # i + 1
          BY <1>1
        <5> QED BY <3>1, <3>6, <5>1, ReportIs
      <4>5. p # Button
        BY <3>1, ReportIs
      <4>6. k \in f[i].keys <=> Still(i, k)
        BY <3>3, <3>6
      <4>7. k \in st2.keys <=> IF v = p THEN k \in f[i].keys ELSE (k \in f[i].keys \/ k = v) /\ k # p
        BY <3>5
      <4> HIDE DEF Still, Before, After, v, p
      <4>8. CASE v = p
        BY <4>1, <4>2, <4>6, <4>7, <4>8
      <4>9. CASE v # p
        <5>1. CASE k = p
          BY <4>2, <4>3, <4>4, <4>5, <4>7, <4>9, <5>1
        <5>2. CASE k # p
          BY <4>1, <4>2, <4>6, <4>7, <4>9, <5>2
        <5> QED BY <5>1, <5>2
      <4> QED BY <4>8, <4>9
    <3> HIDE DEF Still
    <3> QED BY <3>1, <3>4, <3>5, <3>6
  <2>3. n \in D
    <3>1. 0 .. n \subseteq D
      <4> HIDE DEF D
      <4> QED BY <1>1, <2>1, <2>2, UpTo
    <3> QED BY <1>1, <3>1
  <2>4. ASSUME NEW k PROVE Still(n, k) <=> (\E j \in 1 .. n : report[j] = k) \/ (k = Button /\ button)
    <3>1. \A j \in n + 1 .. n : FALSE
      BY <1>1
    <3> QED BY <3>1
  <2> HIDE DEF Still
  <2> QED BY <2>3, <2>4 DEF Exact
<1> QED BY <1>3, <1>7, <1>8

LEMMA HidEventKeeps ==
    ASSUME ListenersWell, HidWell, NEW report \in Reports, NEW button \in BOOLEAN, usbhid_event(report, button)
    PROVE  ListenersWell' /\ HidWell'
<1> DEFINE st == FieldsSeen(report, button)
           Moving == \E i, j \in 1 .. HidSlots : i # j /\ report[i] # 0 /\ report[i] = hid_report.keys[j]
<1>1. /\ hid_report \in HidReportType /\ hid_previous = hid_report.keys /\ hid_previous \in Reports
      /\ hid_report.button \in BOOLEAN /\ hid_report.moved \in BOOLEAN /\ key_status \in Views
  BY DEF HidWell, HidReportType, ListenersWell
<1>2. /\ key_status' = st.keys /\ flush_events(st.events) /\ hid_previous' = report /\ device' = device
      /\ hid_report' = [keys |-> report, button |-> button, moved |-> hid_report.moved \/ Moving]
  BY DEF usbhid_event, Previous
<1>3. /\ Effect(key_status, st.events, st.keys)
      /\ \A b \in BOOLEAN :
            Exact(key_status, hid_previous, b)
              /\ (\A i, j \in 1 .. HidSlots : i # j /\ report[i] # 0 => report[i] # hid_previous[j])
              => Exact(st.keys, report, button)
  BY <1>1, ReportEffect
<1> HIDE DEF st
<1>4. ListenersWell'
  BY <1>2, <1>3, FlushKeeps
<1>5. hid_report' \in HidReportType /\ hid_report'.keys = report /\ hid_report'.button = button
      /\ (hid_report'.moved <=> hid_report.moved \/ Moving)
  BY <1>1, <1>2 DEF HidReportType
<1>6. ASSUME device' = "usb", ~hid_report'.moved PROVE Exact(key_status', hid_report'.keys, hid_report'.button)
  <2>1. ~hid_report.moved /\ ~Moving
    BY <1>5, <1>6
  <2>2. Exact(key_status, hid_previous, hid_report.button)
    BY <1>1, <1>2, <1>6, <2>1 DEF HidWell
  <2>3. \A i, j \in 1 .. HidSlots : i # j /\ report[i] # 0 => report[i] # hid_previous[j]
    BY <1>1, <2>1
  <2>4. Exact(st.keys, report, button)
    BY <1>1, <1>3, <2>2, <2>3
  <2> QED BY <1>2, <1>5, <2>4
<1>7. HidWell'
  BY <1>2, <1>5, <1>6 DEF HidWell
<1> QED BY <1>4, <1>7
LEMMA HidIdle ==
    ASSUME HidWell, UNCHANGED <<device, hid_previous, hid_report>>, key_status' = key_status \/ device # "usb"
    PROVE  HidWell'
<1>1. hid_report' \in HidReportType /\ hid_previous' = hid_report'.keys
  BY DEF HidWell
<1>2. ASSUME device' = "usb", ~hid_report'.moved PROVE Exact(key_status', hid_report'.keys, hid_report'.button)
  BY <1>2 DEF HidWell
<1> QED BY <1>1, <1>2 DEF HidWell
LEMMA HidSafe == ASSUME HidWell PROVE HidKeysExact
<1> SUFFICES ASSUME device = "usb", ~hid_report.moved
             PROVE  key_status \ {0} = ({hid_report.keys[i] : i \in 1 .. HidSlots} \ {0})
                                 \cup {k \in {Button} : hid_report.button}
  BY DEF HidKeysExact
<1>1. Exact(key_status, hid_report.keys, hid_report.button)
  BY DEF HidWell
<1>2. Button # 0
  BY DEF Button
<1> DEFINE ks == hid_report.keys
           A == {ks[i] : i \in 1 .. HidSlots}
           B == {k \in {Button} : hid_report.button}
<1>3. \A k : k \in A <=> \E i \in 1 .. HidSlots : ks[i] = k
  OBVIOUS
<1>4. \A k : k \in B <=> k = Button /\ hid_report.button
  OBVIOUS
<1> HIDE DEF A, B
<1>5. \A k : k # 0 => (k \in key_status <=> k \in A \/ k \in B)
  BY <1>1, <1>3, <1>4 DEF Exact
<1>6. 0 \notin B
  BY <1>2, <1>4
<1>7. key_status \ {0} = (A \ {0}) \cup B
  BY <1>5, <1>6
<1> QED BY <1>7 DEF A, B
-----------------------------------------------------------------------------
\* The sizes of the fields up to each of them.
Items == [size : Nat, typed : BOOLEAN]
SumRun(f, items) ==
    /\ f \in [0 .. Len(items) -> Nat] /\ f[0] = 0
    /\ \A i \in 1 .. Len(items) : f[i] = f[i - 1] + items[i].size
LEMMA SizeIs ==
    ASSUME NEW items \in Seq(Items), NEW f, SumRun(f, items)
    PROVE  SizeUpTo(items, Len(items)) = f[Len(items)]
<1> DEFINE n == Len(items)
           Body(k) == [i \in 0 .. n |-> IF i = 0 THEN 0 ELSE k[i - 1] + items[i].size]
           F == CHOOSE k : k = Body(k)
<1>1. n \in Nat /\ f \in [0 .. n -> Nat] /\ f[0] = 0
      /\ \A i \in 1 .. n : f[i] = f[i - 1] + items[i].size
  BY DEF SumRun
<1>10. SizeUpTo(items, n) = F[n]
  BY DEF SizeUpTo
<1> HIDE DEF n
<1>8. f = Body(f)
  <2>1. \A i \in 0 .. n : f[i] = Body(f)[i]
    <3> SUFFICES ASSUME NEW i \in 0 .. n PROVE f[i] = Body(f)[i]
      OBVIOUS
    <3>1. CASE i = 0
      BY <1>1, <3>1
    <3>2. CASE i # 0
      <4>1. i \in 1 .. n
        BY <1>1, <3>2
      <4> QED BY <1>1, <3>2, <4>1
    <3> QED BY <3>1, <3>2
  <2>2. f = [i \in 0 .. n |-> f[i]] /\ Body(f) = [i \in 0 .. n |-> Body(f)[i]]
    BY <1>1
  <2> HIDE DEF Body
  <2> QED BY <2>1, <2>2
<1>9. F = Body(F)
  <2> HIDE DEF Body
  <2> QED BY <1>8
<1> HIDE DEF F
<1>11. F[n] = f[n]
  <2> DEFINE E == {m \in 0 .. n : F[m] = f[m]}
  <2>1. 0 \in E
    BY <1>1, <1>9
  <2>2. ASSUME NEW m \in 0 .. n - 1, m \in E PROVE m + 1 \in E
    <3>1. m + 1 \in 1 .. n /\ (m + 1) - 1 = m /\ m + 1 \in 0 .. n /\ m + 1 # 0
      BY <1>1
    <3>2. F[m + 1] = F[m] + items[m + 1].size
      <4>1. F[m + 1] = Body(F)[m + 1]
        <5> HIDE DEF Body
        <5> QED BY <1>9
      <4> QED BY <3>1, <4>1
    <3>3. f[m + 1] = f[m] + items[m + 1].size
      BY <1>1, <3>1
    <3> QED BY <2>2, <3>1, <3>2, <3>3
  <2>3. 0 .. n \subseteq E
    <3> HIDE DEF E
    <3> QED BY <1>1, <2>1, <2>2, UpTo
  <2> QED BY <1>1, <2>3
<1> QED BY <1>10, <1>11 DEF n
LEMMA SumRuns ==
    ASSUME NEW items \in Seq(Items)
    PROVE  \E f : SumRun(f, items)
<1> DEFINE n == Len(items)
           next == [i \in 1 .. n |-> [v \in Nat |-> v + items[i].size]]
<1>1. n \in Nat /\ \A i \in 1 .. n : items[i].size \in Nat
  <2>1. n \in Nat /\ \A i \in 1 .. n : items[i] \in Items
    OBVIOUS
  <2>2. \A x \in Items : x.size \in Nat
    BY DEF Items
  <2> HIDE DEF n
  <2> QED BY <2>1, <2>2
<1>2. next \in [1 .. n -> [Nat -> Nat]]
  BY <1>1
<1>3. \A i \in 1 .. n, v \in Nat : next[i][v] = v + items[i].size
  OBVIOUS
<1> HIDE DEF next, n
<1>4. PICK f : f \in [0 .. n -> Nat] /\ f[0] = 0 /\ \A i \in 1 .. n : f[i] = next[i][f[i - 1]]
  <2>1. LoopSteps(next, n, Nat)
    BY <1>1, <1>2 DEF LoopSteps
  <2>2. \E f : LoopRun(f, next, n, Nat, 0)
    BY <2>1, LoopRuns
  <2> QED BY <2>2 DEF LoopRun
<1>5. \A i \in 1 .. n : f[i] = f[i - 1] + items[i].size
  <2> SUFFICES ASSUME NEW i \in 1 .. n PROVE f[i] = f[i - 1] + items[i].size
    OBVIOUS
  <2>1. i - 1 \in 0 .. n
    BY <1>1
  <2> QED BY <1>3, <1>4, <2>1
<1> QED BY <1>4, <1>5 DEF SumRun, n
\* Fields of one size that are added.
LEMMA SizeMore ==
    ASSUME NEW items \in Seq(Items), NEW more \in Seq(Items), NEW s \in Nat,
           \A i \in 1 .. Len(more) : more[i].size = s
    PROVE  SizeUpTo(items \o more, Len(items \o more)) = SizeUpTo(items, Len(items)) + s * Len(more)
<1> DEFINE all == items \o more
           m == Len(items)
           n == Len(more)
<1>1. /\ all \in Seq(Items) /\ Len(all) = m + n /\ m \in Nat /\ n \in Nat
      /\ \A i \in 1 .. m + n : all[i] = IF i <= m THEN items[i] ELSE more[i - m]
  BY ConcatProperties
<1>2. \A i \in 1 .. n : more[i].size = s
  OBVIOUS
<1> HIDE DEF all, m, n
<1>3. PICK f : SumRun(f, all)
  BY <1>1, SumRuns
<1>4. /\ f \in [0 .. m + n -> Nat] /\ f[0] = 0
      /\ \A i \in 1 .. m + n : f[i] = f[i - 1] + all[i].size
  BY <1>1, <1>3 DEF SumRun
<1>5. SizeUpTo(all, Len(all)) = f[m + n]
  BY <1>1, <1>3, SizeIs
<1> DEFINE g == [i \in 0 .. m |-> f[i]]
<1>6. SizeUpTo(items, Len(items)) = f[m]
  <2>1. g \in [0 .. m -> Nat] /\ g[0] = 0 /\ g[m] = f[m]
    BY <1>1, <1>4
  <2>2. ASSUME NEW i \in 1 .. m PROVE g[i] = g[i - 1] + items[i].size
    <3>1. i \in 1 .. m + n /\ i \in 0 .. m /\ i - 1 \in 0 .. m /\ i <= m
      BY <1>1
    <3>2. g[i] = f[i] /\ g[i - 1] = f[i - 1] /\ all[i] = items[i]
      BY <1>1, <3>1
    <3>3. f[i] = f[i - 1] + all[i].size
      BY <1>4, <3>1
    <3> QED BY <3>2, <3>3
  <2> HIDE DEF g
  <2>3. SumRun(g, items)
    BY <2>1, <2>2 DEF SumRun, m
  <2>4. SizeUpTo(items, Len(items)) = g[Len(items)]
    BY <2>3, SizeIs
  <2> QED BY <2>1, <2>4 DEF m
<1>7. f[m + n] = f[m] + s * n
  <2> DEFINE D == {i \in 0 .. n : f[m + i] = f[m] + s * i}
  <2>1. 0 \in D
    BY <1>1, <1>4
  <2>2. ASSUME NEW i \in 0 .. n - 1, i \in D PROVE i + 1 \in D
    <3>1. /\ m + (i + 1) \in 1 .. m + n /\ i + 1 \in 1 .. n /\ i + 1 \in 0 .. n /\ ~(m + (i + 1) <= m)
          /\ (m + (i + 1)) - m = i + 1 /\ (m + (i + 1)) - 1 = m + i /\ m + i \in 0 .. m + n /\ m \in 0 .. m + n
      BY <1>1
    <3>2. all[m + (i + 1)] = more[i + 1]
      BY <1>1, <3>1
    <3>3. f[m + (i + 1)] = f[m + i] + s
      BY <1>2, <1>4, <3>1, <3>2
    <3>4. f[m + i] = f[m] + s * i /\ f[m] \in Nat
      BY <1>4, <2>2, <3>1
    <3>5. s * (i + 1) = s * i + s /\ s * i \in Nat
      OBVIOUS
    <3>6. f[m + (i + 1)] = f[m] + s * (i + 1)
      BY <3>3, <3>4, <3>5
    <3> QED BY <3>1, <3>6
  <2>3. 0 .. n \subseteq D
    <3> HIDE DEF D
    <3> QED BY <1>1, <2>1, <2>2, UpTo
  <2> QED BY <1>1, <2>3
<1> QED BY <1>5, <1>6, <1>7 DEF all, n

HidType == [usages : Seq(Nat), minimum : Nat, size : Nat, count : Nat, items : Seq(Items),
            usable : BOOLEAN, left : Nat, bits : Nat]
LayoutWell == hid \in HidType /\ (hid.usable => SizeUpTo(hid.items, Len(hid.items)) = hid.bits)
\* The fields an input item adds have the size of the item, and are as many.
LEMMA InputKeeps ==
    ASSUME LayoutWell, NEW kind, hid_input(kind)
    PROVE  LayoutWell'
<1> DEFINE valid == kind # "variable" \/ hid.usages # <<>> \/ hid.minimum # 0 \/ hid.count = 0
           s == hid.size
           n == hid.count
           more == CASE kind = "constant" -> Fields(Padding, 1, FALSE)
                     [] kind = "array" -> Fields(s, n, FALSE)
                     [] OTHER -> [i \in 1 .. n |-> [size |-> s, typed |-> UsageOf(i) = 1]]
           items == IF ~valid THEN <<>> ELSE hid.items \o more
           bits == hid.bits + s * n
           left == hid.left - 1
<1>1. /\ hid \in HidType /\ s \in Nat /\ n \in Nat /\ hid.items \in Seq(Items) /\ hid.bits \in Nat
      /\ hid.left \in Nat /\ hid.minimum \in Nat
  BY DEF LayoutWell, HidType
<1>2. hid' = [hid EXCEPT !.left = left, !.usages = <<>>, !.minimum = 0, !.usable = valid,
                         !.bits = bits, !.items = items]
  BY <1>1 DEF hid_input, HidType
<1>3. hid.left > 0 /\ hid.usable
  BY DEF hid_input
<1>4. s * n \in Nat /\ left \in Nat /\ bits \in Nat
  <2>1. s * n \in Nat
    <3> HIDE DEF s, n
    <3>1. s \in Nat /\ n \in Nat
      BY <1>1
    <3>2. \A a, b \in Nat : a * b \in Nat
      OBVIOUS
    <3> QED BY ONLY <3>1, <3>2
  <2>2. left \in Nat
    BY <1>1, <1>3
  <2>3. \A c \in Nat : hid.bits + c \in Nat
    BY <1>1
  <2> QED BY <2>1, <2>2, <2>3
<1>5. \E w \in Nat : more \in Seq(Items) /\ (\A i \in 1 .. Len(more) : more[i].size = w) /\ w * Len(more) = s * n
  <2>1. CASE kind = "constant"
    <3> DEFINE w == s * n
               x == [size |-> w, typed |-> FALSE]
               t == [i \in 1 .. 1 |-> x]
    <3>1. more = t
      BY <2>1 DEF Fields, Padding
    <3>2. x \in Items /\ x.size = w
      BY <1>4 DEF Items
    <3> HIDE DEF x, w, more
    <3>3. t \in Seq(Items) /\ Len(t) = 1 /\ \A i \in 1 .. 1 : t[i] = x
      BY <3>2
    <3>4. w \in Nat /\ w * 1 = w
      BY <1>4 DEF w
    <3> HIDE DEF t
    <3> QED BY <3>1, <3>2, <3>3, <3>4 DEF w
  <2>2. CASE kind = "array"
    <3> DEFINE x == [size |-> s, typed |-> FALSE]
               t == [i \in 1 .. n |-> x]
    <3>1. more = t
      BY <2>2 DEF Fields
    <3>2. x \in Items /\ x.size = s
      BY <1>1 DEF Items
    <3> HIDE DEF x, more, s, n
    <3>3. t \in Seq(Items) /\ Len(t) = n /\ \A i \in 1 .. n : t[i] = x
      BY <1>1, <3>2
    <3> HIDE DEF t
    <3> QED BY <1>1, <3>1, <3>2, <3>3
  <2>3. CASE kind \notin {"constant", "array"}
    <3> DEFINE x(i) == [size |-> s, typed |-> UsageOf(i) = 1]
               t == [i \in 1 .. n |-> x(i)]
    <3>1. more = t
      BY <2>3
    <3>2. \A i : x(i) \in Items /\ x(i).size = s
      BY <1>1 DEF Items
    <3> HIDE DEF x, more, s, n
    <3>3. t \in Seq(Items) /\ Len(t) = n /\ \A i \in 1 .. n : t[i] = x(i)
      BY <1>1, <3>2
    <3> HIDE DEF t
    <3> QED BY <1>1, <3>1, <3>2, <3>3
  <2> QED BY <2>1, <2>2, <2>3
<1> HIDE DEF more, left, bits
<1>6. items \in Seq(Items) /\ (valid => SizeUpTo(items, Len(items)) = bits)
  <2>1. CASE ~valid
    BY <2>1
  <2>2. CASE valid
    <3>1. PICK w \in Nat : more \in Seq(Items) /\ (\A i \in 1 .. Len(more) : more[i].size = w)
                             /\ w * Len(more) = s * n
      BY <1>5
    <3> DEFINE old == hid.items
               all == old \o more
    <3>2. items = all
      BY <2>2
    <3>3. all \in Seq(Items)
      BY <1>1, <3>1, ConcatProperties
    <3>4. SizeUpTo(all, Len(all)) = SizeUpTo(old, Len(old)) + w * Len(more)
      BY <1>1, <3>1, SizeMore
    <3>5. SizeUpTo(old, Len(old)) = hid.bits
      BY <1>3 DEF LayoutWell
    <3> HIDE DEF items, all, old
    <3> QED BY <3>1, <3>2, <3>3, <3>4, <3>5 DEF bits
  <2> QED BY <2>1, <2>2
<1> HIDE DEF items
<1>7. valid \in BOOLEAN
  OBVIOUS
<1> HIDE DEF valid
<1>8. hid' \in HidType /\ hid'.usable = valid /\ hid'.items = items /\ hid'.bits = bits
  <2>1. <<>> \in Seq(Nat) /\ 0 \in Nat
    OBVIOUS
  <2> QED BY <1>1, <1>2, <1>4, <1>6, <1>7, <2>1 DEF HidType
<1> QED BY <1>6, <1>8 DEF LayoutWell
LEMMA ItemKeeps ==
    ASSUME LayoutWell, NEW name \in {"size", "count", "usage", "minimum", "reserved"}, NEW value \in Nat,
           hid_item(name, value)
    PROVE  LayoutWell'
<1> DEFINE left == hid.left - 1
           mid == CASE name = "size" -> [hid EXCEPT !.size = value]
                 [] name = "count" -> [hid EXCEPT !.count = value]
                 [] name = "usage" -> [hid EXCEPT !.usages = Append(@, value)]
                 [] name = "minimum" -> [hid EXCEPT !.minimum = value]
                 [] name = "reserved" -> [hid EXCEPT !.usable = FALSE]
<1>1. hid \in HidType /\ hid.left \in Nat /\ hid.left > 0 /\ hid.usages \in Seq(Nat)
  BY DEF LayoutWell, HidType, hid_item
<1>2. hid' = [mid EXCEPT !.left = @ - 1]
  BY DEF hid_item
<1>3. mid \in HidType /\ mid.left = hid.left /\ mid.items = hid.items /\ mid.bits = hid.bits
      /\ (mid.usable => hid.usable)
  <2>1. CASE name = "size"
    <3>1. mid = [hid EXCEPT !.size = value]
      BY <2>1
    <3> HIDE DEF mid
    <3> QED BY <1>1, <3>1 DEF HidType
  <2>2. CASE name = "count"
    <3>1. mid = [hid EXCEPT !.count = value]
      BY <2>2
    <3> HIDE DEF mid
    <3> QED BY <1>1, <3>1 DEF HidType
  <2>3. CASE name = "usage"
    <3> DEFINE u == Append(hid.usages, value)
    <3>1. mid = [hid EXCEPT !.usages = u]
      BY <1>1, <2>3 DEF HidType
    <3>2. u \in Seq(Nat)
      BY <1>1, AppendProperties
    <3> HIDE DEF mid, u
    <3> QED BY <1>1, <3>1, <3>2 DEF HidType
  <2>4. CASE name = "minimum"
    <3>1. mid = [hid EXCEPT !.minimum = value]
      BY <2>4
    <3> HIDE DEF mid
    <3> QED BY <1>1, <3>1 DEF HidType
  <2>5. CASE name = "reserved"
    <3>1. mid = [hid EXCEPT !.usable = FALSE]
      BY <2>5
    <3> HIDE DEF mid
    <3> QED BY <1>1, <3>1 DEF HidType
  <2> QED BY <2>1, <2>2, <2>3, <2>4, <2>5
<1> HIDE DEF mid
<1>4. left \in Nat /\ hid' = [mid EXCEPT !.left = left]
  BY <1>1, <1>2, <1>3 DEF HidType
<1> HIDE DEF left
<1>5. hid' \in HidType /\ hid'.items = hid.items /\ hid'.bits = hid.bits /\ hid'.usable = mid.usable
  BY <1>3, <1>4 DEF HidType
<1> QED BY <1>3, <1>5 DEF LayoutWell
LEMMA LayoutSafe == ASSUME LayoutWell PROVE HidLayout
<1>1. hid.items \in Seq(Items)
  BY DEF LayoutWell, HidType
<1>2. (Len(hid.items) + 1) - 1 = Len(hid.items)
  BY <1>1
<1>3. hid_checked => hid.usable
  BY DEF hid_checked
<1> QED BY <1>2, <1>3 DEF LayoutWell, HidLayout, OffsetOf
-----------------------------------------------------------------------------
\* The inductive invariant of the input devices.
InputInv == ListenersWell /\ MouseWell /\ HidWell /\ LayoutWell
LEMMA InputStarts == ASSUME InputInit PROVE InputInv
<1>1. ListenersWell
  <2> DEFINE r == [buffer |-> <<>>, reader |-> "idle", view |-> {}]
  <2>1. key_status = {} /\ listener = [l \in Listeners |-> r]
    BY DEF InputInit
  <2>2. {} \in Views /\ <<>> \in Seq(InputEvents)
    BY DEF Views
  <2>3. Effect({}, <<>>, {})
    BY <2>2, EffectNone
  <2>4. Tracks({}, <<>>, {})
    BY <2>2, <2>3 DEF Tracks
  <2>5. r \in ListenerType /\ r.buffer = <<>> /\ r.view = {} /\ r.reader = "idle"
    BY <2>2 DEF ListenerType
  <2> HIDE DEF r
  <2>6. ListenerWell(r, {})
    BY <2>4, <2>5 DEF ListenerWell
  <2> QED BY <2>1, <2>2, <2>6 DEF ListenersWell
<1>2. MouseWell
  <2>1. mouse = [data |-> <<>>, next |-> <<1, 1>>, lost |-> 0, misled |-> 0, garbled |-> 0]
    BY DEF InputInit
  <2>2. <<>> \in Seq(Bytes) /\ <<1, 1>> \in Nat \X Nat /\ MousePacket \in Nat \ {0}
    BY InputAssumption
  <2>3. mouse \in MouseType
    BY <2>1, <2>2 DEF MouseType
  <2> QED BY <2>1, <2>2, <2>3 DEF MouseWell
<1>3. HidWell
  <2>1. /\ hid_report = [keys |-> NoKeys, button |-> FALSE, moved |-> FALSE] /\ hid_previous = NoKeys
        /\ key_status = {}
    BY DEF InputInit
  <2>2. \A i \in 1 .. HidSlots : NoKeys[i] = 0
    BY DEF NoKeys
  <2>3. NoKeys \in Reports
    BY <2>2 DEF NoKeys, Reports
  <2>4. Exact({}, NoKeys, FALSE)
    BY <2>2 DEF Exact
  <2>5. hid_report \in HidReportType
    BY <2>1, <2>3 DEF HidReportType
  <2> QED BY <2>1, <2>4, <2>5 DEF HidWell
<1>4. LayoutWell
  <2>1. hid = [usages |-> <<>>, minimum |-> 0, size |-> 0, count |-> 0, items |-> <<>>,
               usable |-> TRUE, left |-> MaxItems, bits |-> 0]
    BY DEF InputInit
  <2>2. MaxItems \in Nat /\ <<>> \in Seq(Nat) /\ <<>> \in Seq(Items) /\ Len(<<>>) = 0
    BY InputAssumption
  <2>3. hid \in HidType
    BY <2>1, <2>2 DEF HidType
  <2>4. SizeUpTo(<<>>, 0) = 0
    <3> DEFINE f == [i \in 0 .. 0 |-> 0]
    <3>1. f \in [0 .. 0 -> Nat] /\ f[0] = 0
      OBVIOUS
    <3>2. \A i \in 1 .. 0 : FALSE
      OBVIOUS
    <3> HIDE DEF f
    <3>3. SumRun(f, <<>>)
      BY <2>2, <3>1, <3>2 DEF SumRun
    <3> QED BY <2>2, <3>1, <3>3, SizeIs
  <2> QED BY <2>1, <2>2, <2>3, <2>4 DEF LayoutWell
<1> QED BY <1>1, <1>2, <1>3, <1>4 DEF InputInv
LEMMA MouseIdle == ASSUME MouseWell, mouse' = mouse PROVE MouseWell'
  BY DEF MouseWell
LEMMA LayoutIdle == ASSUME LayoutWell, hid' = hid PROVE LayoutWell'
  BY DEF LayoutWell
LEMMA InputStep == ASSUME InputInv, [InputNext]_input_vars PROVE InputInv'
<1>1. ListenersWell /\ MouseWell /\ HidWell /\ LayoutWell
  BY DEF InputInv
<1>2. CASE ReadNext
  <2>1. PICK l \in Listeners : (\E n \in 1 .. 3 : evdev_read(l, n)) \/ evdev_interrupted(l)
    BY <1>2 DEF ReadNext
  <2>2. ListenersWell'
    BY <1>1, <2>1, ReadKeeps, InterruptedKeeps
  <2>3. UNCHANGED <<device, key_status, extended, mouse, hid_previous, hid_report, hid>>
    BY <2>1 DEF evdev_read, evdev_interrupted
  <2> QED BY <1>1, <2>2, <2>3, MouseIdle, HidIdle, LayoutIdle DEF InputInv
<1>3. CASE Ps2KeyboardNext
  <2>1. device = "ps2 keyboard"
    BY <1>3 DEF Ps2KeyboardNext
  <2>2. CASE ps2_keyboard_prefix
    <3>1. UNCHANGED <<device, key_status, listener, mouse, hid_previous, hid_report, hid>>
      BY <2>2 DEF ps2_keyboard_prefix
    <3> QED BY <1>1, <3>1, IdleKeeps, MouseIdle, HidIdle, LayoutIdle DEF InputInv
  <2>3. ASSUME NEW c \in ScanCodes, NEW r \in BOOLEAN, ps2_keyboard_irq(c, r) PROVE InputInv'
    <3>1. UNCHANGED <<device, mouse, hid_previous, hid_report, hid>>
      BY <2>3 DEF ps2_keyboard_irq
    <3>2. ListenersWell'
      BY <1>1, <2>3, KeyboardKeeps
    <3>3. device # "usb"
      BY <2>1
    <3> QED BY <1>1, <3>1, <3>2, <3>3, MouseIdle, HidIdle, LayoutIdle DEF InputInv
  <2> QED BY <1>3, <2>2, <2>3 DEF Ps2KeyboardNext
<1>4. CASE MouseNext
  <2>1. device # "usb"
    BY <1>4 DEF MouseNext
  <2>2. CASE mouse_loses
    <3>1. UNCHANGED <<device, key_status, listener, extended, hid_previous, hid_report, hid>>
      BY <2>2 DEF mouse_loses
    <3>2. MouseWell'
      BY <1>1, <2>2, MouseMisses
    <3> QED BY <1>1, <3>1, <3>2, IdleKeeps, HidIdle, LayoutIdle DEF InputInv
  <2>3. ASSUME NEW bit \in BOOLEAN, NEW left \in BOOLEAN, mouse_irq(bit, left) PROVE InputInv'
    <3>1. UNCHANGED <<device, extended, hid_previous, hid_report, hid>>
      BY <2>3 DEF mouse_irq
    <3>2. MouseWell'
      BY <1>1, <2>3, MouseTakes
    <3>3. ListenersWell'
      BY <1>1, <2>3, MouseKeeps
    <3> QED BY <1>1, <2>1, <3>1, <3>2, <3>3, HidIdle, LayoutIdle DEF InputInv
  <2> QED BY <1>4, <2>2, <2>3 DEF MouseNext
<1>5. CASE HidNext
  <2>1. PICK r \in Reports, b \in BOOLEAN : usbhid_event(r, b)
    BY <1>5 DEF HidNext
  <2>2. UNCHANGED <<device, extended, mouse, hid>>
    BY <2>1 DEF usbhid_event
  <2>3. ListenersWell' /\ HidWell'
    BY <1>1, <2>1, HidEventKeeps
  <2> QED BY <1>1, <2>2, <2>3, MouseIdle, LayoutIdle DEF InputInv
<1>6. CASE HidParseNext
  <2>1. UNCHANGED <<device, key_status, listener, extended, mouse, hid_previous, hid_report>>
    BY <1>6 DEF HidParseNext, hid_input, hid_item
  <2>2. (\E k : hid_input(k))
        \/ \E n \in {"size", "count", "usage", "minimum", "reserved"}, v \in Nat : hid_item(n, v)
    <3>1. HidSizes \subseteq Nat /\ HidCounts \subseteq Nat /\ 0 \in Nat /\ 1 \in Nat /\ 2 \in Nat
      BY InputAssumption
    <3> QED BY <1>6, <3>1 DEF HidParseNext
  <2>3. LayoutWell'
    BY <1>1, <2>2, InputKeeps, ItemKeeps
  <2> QED BY <1>1, <2>1, <2>3, IdleKeeps, MouseIdle, HidIdle DEF InputInv
<1>7. CASE UNCHANGED input_vars
  <2>1. UNCHANGED <<device, key_status, listener, extended, mouse, hid_previous, hid_report, hid>>
    BY <1>7 DEF input_vars
  <2> QED BY <1>1, <2>1, IdleKeeps, MouseIdle, HidIdle, LayoutIdle DEF InputInv
<1> QED BY <1>2, <1>3, <1>4, <1>5, <1>6, <1>7 DEF InputNext

\* Input devices (push_event and flush_events, InputListener::read, the PS/2
\* keyboard and mouse interrupts, usbhid::Device::event and the report parser): a
\* reader that has read all its events knows which keys are down even when its
\* buffer overflowed, none sleeps with events to read, a byte the mouse loses costs
\* one packet, the keys are those of the last USB report, and the fields of an
\* accepted descriptor cover it.  For every number of listeners, buffer size,
\* packet length, scan code table and number of array fields.
THEOREM InputDevicesSafe == InputSpec => []InputSafe
<1>1. InputInit => InputInv
  BY InputStarts
<1>2. InputInv /\ [InputNext]_input_vars => InputInv'
  BY InputStep
<1>3. InputInv => InputSafe
  <2>1. ASSUME MouseWell PROVE MouseResync
    BY <2>1 DEF MouseWell, MouseResync
  <2> QED BY <2>1, ListenersSafe, HidSafe, LayoutSafe DEF InputInv, InputSafe
<1> QED BY <1>1, <1>2, <1>3, PTL DEF InputSpec
=============================================================================
