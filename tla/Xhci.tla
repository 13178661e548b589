-------------------------------- MODULE Xhci --------------------------------
(***************************************************************************)
(* The xHCI driver (dev/xhci.cpp): port reset, the coroutine that sets a   *)
(* device up, requests, the rings shared with the controller, interrupts.  *)
(*                                                                         *)
(* Init sets up the ports one after the other: klib::sync starts the       *)
(* coroutine in the thread and waits; after the first suspension the       *)
(* interrupt handler runs it.  Interrupts are off in the handler and while *)
(* a request is sent, but not between await_ready and await_suspend.       *)
(* Pages are never exhausted.  The controller is external: it follows      *)
(* cycle bits and answers a request with success, with an error, or with   *)
(* an event for another stage of the transfer, which no request waits for. *)
(***************************************************************************)
EXTENDS Naturals, Sequences, FiniteSets

CONSTANTS PortLayout,    \* type and offset of each port, from the capabilities
          TrbRingSize,   \* TRBs of a ring with the link at its end, 256 in the code
          EventRingSize, \* 256 in the code
          Requests,      \* requests of the pool, 102 in the code
          Configurations,\* descriptors that follow a configuration descriptor
          MaxStrings,    \* strings of a device: manufacturer, product, serial, 3 at most
          MaxReports     \* bound on the interrupt reports of a device

ASSUME XhciAssumption ==
    /\ TrbRingSize \in Nat /\ TrbRingSize > 5     \* a transfer and a free slot
    /\ {EventRingSize, Requests} \subseteq Nat \ {0, 1} /\ {MaxStrings, MaxReports} \subseteq Nat
    /\ PortLayout \in Seq([type : {"usb2", "usb3", "unknown"}, offset : Nat])
    /\ \A p, q \in DOMAIN PortLayout :      \* the ports of a type are numbered
          PortLayout[p] = PortLayout[q] => p = q \/ PortLayout[p].type = "unknown"
    /\ Configurations \subseteq Seq(STRING)

VARIABLES xhci_port,    \* Port::active of each port
          xhci_ring,    \* EnqueueRing by number, with the controller's position
          xhci_events,  \* EventRing
          xhci_request, \* free list and trb_phy of the requests
          xhci_setup,   \* where Controller::init and setup_device are
          xhci_device   \* HID device and interrupt endpoint of each port's device

xhci_vars == <<xhci_port, xhci_ring, xhci_events, xhci_request, xhci_setup, xhci_device>>

Ports == DOMAIN PortLayout
CommandRing == 0
ControlRing == Len(PortLayout) + 1     \* of the device that is being set up
Rings == 0 .. ControlRing              \* ring p: the interrupt endpoint of port p

\* pair_index stays 0, the first port, where there is no pair.
PairsOf(p) == {q \in Ports : /\ PortLayout[p].offset = PortLayout[q].offset
                             /\ {PortLayout[p].type, PortLayout[q].type} = {"usb2", "usb3"}}
pair_index(p) == IF PairsOf(p) = {} THEN 1
                 ELSE CHOOSE q \in PairsOf(p) : \A r \in PairsOf(p) : r <= q
InitiallyActive(p) == /\ PortLayout[p].type # "unknown"
                      /\ PairsOf(p) = {} \/ PortLayout[p].type = "usb3"
-----------------------------------------------------------------------------
\* "due" is a history variable: what was put in and not yet taken out.
NoTRB == [stage |-> "none", request |-> 0]
EnqueueRing_init ==
    [slot |-> [i \in 0 .. TrbRingSize - 1 |->
                 [trb |-> NoTRB, cycle |-> IF i = TrbRingSize - 1 THEN 1 ELSE 0]],
     enqueue_index |-> 0, cycle_bit |-> 1,
     hc_index |-> 0, hc_cycle |-> 1, halted |-> FALSE, due |-> <<>>]
EventRing_init ==
    [slot |-> [i \in 0 .. EventRingSize - 1 |-> [trb |-> NoTRB, cycle |-> 0]],
     dequeue_index |-> 0, cycle_bit |-> 1,
     hc_index |-> 0, hc_cycle |-> 1, due |-> <<>>]

\* Mutant: the link keeps the cycle bit of the round before.
enqueue_stale_link(r, trb) ==
    LET last == r.enqueue_index + 1 = TrbRingSize - 1 IN
    [r EXCEPT !.slot[r.enqueue_index] = [trb |-> trb, cycle |-> r.cycle_bit],
              !.enqueue_index = IF last THEN 0 ELSE @ + 1,
              !.cycle_bit = IF last THEN 1 - @ ELSE @,
              !.due = Append(@, trb)]

\* The link takes the cycle bit of its round before the producer turns.
enqueue(r, trb) ==
    LET last == r.enqueue_index + 1 = TrbRingSize - 1
        slot == [r.slot EXCEPT ![r.enqueue_index] = [trb |-> trb, cycle |-> r.cycle_bit]]
    IN
    [r EXCEPT !.slot = IF last THEN [slot EXCEPT ![TrbRingSize - 1].cycle = r.cycle_bit] ELSE slot,
              !.enqueue_index = IF last THEN 0 ELSE @ + 1,
              !.cycle_bit = IF last THEN 1 - @ ELSE @,
              !.due = Append(@, trb)]
EnqueueAll(r, trbs) ==
    LET after[k \in 0 .. Len(trbs)] == IF k = 0 THEN r ELSE enqueue(after[k - 1], trbs[k])
    IN  after[Len(trbs)]

has_unprocessed_events ==
    xhci_events.slot[xhci_events.dequeue_index].cycle = xhci_events.cycle_bit
dequeue(e) ==
    LET last == e.dequeue_index + 1 = EventRingSize IN
    [e EXCEPT !.dequeue_index = IF last THEN 0 ELSE @ + 1,
              !.cycle_bit = IF last THEN 1 - @ ELSE @,
              !.due = IF @ = <<>> THEN @ ELSE Tail(@)]

\* The controller follows the link and takes a TRB whose cycle bit is its own.
HcAt(r) == IF /\ r.hc_index = TrbRingSize - 1
              /\ r.slot[r.hc_index].cycle = r.hc_cycle
           THEN <<0, 1 - r.hc_cycle>> ELSE <<r.hc_index, r.hc_cycle>>
HcReady(r) == HcAt(r)[1] # TrbRingSize - 1 /\ r.slot[HcAt(r)[1]].cycle = HcAt(r)[2]
HcTaken(r) == [r EXCEPT !.hc_index = HcAt(r)[1] + 1, !.hc_cycle = HcAt(r)[2],
                        !.due = IF @ = <<>> THEN @ ELSE Tail(@)]
HcRoom(e) == (e.hc_index + 1) % EventRingSize # e.dequeue_index
HcPosted(e, trb) ==
    LET last == e.hc_index + 1 = EventRingSize IN
    [e EXCEPT !.slot[e.hc_index] = [trb |-> trb, cycle |-> e.hc_cycle],
              !.hc_index = IF last THEN 0 ELSE @ + 1,
              !.hc_cycle = IF last THEN 1 - @ ELSE @,
              !.due = Append(@, trb)]

\* What the controller finds from its position on: the k-th TRB ahead has the
\* controller's cycle bit, the opposite one behind the link.
HcVisible(r) ==
    LET n == TrbRingSize - 1
        at == HcAt(r)
        ready(k) == LET i == at[1] + k IN
                    IF i < n THEN r.slot[i].cycle = at[2]
                    ELSE r.slot[n].cycle = at[2] /\ r.slot[i - n].cycle = 1 - at[2]
        found == {k \in 0 .. n - 1 : \A j \in 0 .. k : ready(j)}
    IN  [k \in 1 .. Cardinality(found) |-> r.slot[(at[1] + k - 1) % n].trb]
-----------------------------------------------------------------------------
InFlight == (1 .. Requests) \ {xhci_request.free[i] : i \in DOMAIN xhci_request.free}
Available == xhci_request.free # <<>>
alloc_request == Head(xhci_request.free)

XhciInit ==
    /\ xhci_port = [p \in Ports |-> InitiallyActive(p)]
    /\ xhci_ring = [r \in Rings |-> EnqueueRing_init]
    /\ xhci_events = EventRing_init
    /\ xhci_request = [free |-> [i \in 1 .. Requests |-> i],
                       trb_phy |-> [i \in 1 .. Requests |-> <<0, TrbRingSize>>]]
    /\ xhci_setup = [pc |-> "start", port |-> 1, again |-> 0, step |-> "none",
                     has_result |-> FALSE, ok |-> FALSE, config |-> <<>>, ptr |-> 0]
    /\ xhci_device = [p \in Ports |-> [hid_device |-> "none", endpoint |-> FALSE,
                                       reports |-> 0]]   \* reports asked for

\* A controller that does not start makes init return.
start(ok) ==
    /\ xhci_setup.pc = "start"
    /\ xhci_setup' = [xhci_setup EXCEPT !.pc = IF ok THEN "reset" ELSE "failed"]
    /\ UNCHANGED <<xhci_port, xhci_ring, xhci_events, xhci_request, xhci_device>>

\* A port that gets no power stays active.  A USB 3 port that fails hands over
\* to its pair, which is reset at once and again when the loop reaches it.
reset_port(outcome) ==
    LET s == xhci_setup
        p == IF s.again # 0 THEN s.again ELSE s.port
        pairs == outcome = "fails" /\ PortLayout[p].type = "usb3"
    IN  /\ s.pc = "reset" /\ s.port \in Ports
        /\ s.again # 0 \/ xhci_port[p]
        /\ xhci_port' = [q \in Ports |->
                           IF pairs /\ q = pair_index(p) THEN TRUE
                           ELSE IF q = p /\ outcome = "fails" THEN FALSE
                           ELSE xhci_port[q]]
        /\ xhci_setup' = [s EXCEPT !.again = IF pairs THEN pair_index(p) ELSE 0,
                                   !.port = IF pairs THEN @ ELSE @ + 1]
        /\ UNCHANGED <<xhci_ring, xhci_events, xhci_request, xhci_device>>

\* The loops of init pass over inactive ports.
next_port ==
    /\ \/ /\ xhci_setup.pc = "reset" /\ xhci_setup.again = 0
          /\ xhci_setup.port \in Ports /\ ~xhci_port[xhci_setup.port]
          /\ xhci_setup' = [xhci_setup EXCEPT !.port = @ + 1]
       \/ /\ xhci_setup.pc = "reset" /\ xhci_setup.port \notin Ports
          /\ xhci_setup' = [xhci_setup EXCEPT !.pc = "idle", !.port = 1]
       \/ /\ xhci_setup.pc = "idle" /\ xhci_setup.port \in Ports
          /\ ~xhci_port[xhci_setup.port]
          /\ xhci_setup' = [xhci_setup EXCEPT !.port = @ + 1]
    /\ UNCHANGED <<xhci_port, xhci_ring, xhci_events, xhci_request, xhci_device>>
-----------------------------------------------------------------------------
Commands == {"enable_slot", "address_device", "evaluate_context", "configure_endpoint"}
NoData == {"set_configuration", "set_protocol"}

Stage(name) == [stage |-> name, request |-> 0]
TRBs(step, request) ==
    LET event == [stage |-> "event_data", request |-> request] IN
    IF step \in Commands THEN <<[stage |-> "command", request |-> request]>>
    ELSE IF step \in NoData THEN <<Stage("setup"), Stage("status"), event>>
    ELSE <<Stage("setup"), Stage("data"), Stage("status"), event>>

TrbPhy(ring, sent) ==
    <<ring, IF sent.enqueue_index = 0 THEN TrbRingSize - 2 ELSE sent.enqueue_index - 1>>

\* send_command, send_usb_request and send_usb_request_no_data.  In the thread
\* the await follows with interrupts on; the handler cannot be interrupted, and
\* gives the request that it completes ("back") to the pool afterwards.
Send(step, s, where, back) ==
    LET ring == IF step \in Commands THEN CommandRing ELSE ControlRing
        rings == IF step = "address_device"
                 THEN [xhci_ring EXCEPT ![ControlRing] = EnqueueRing_init] ELSE xhci_ring
        sent == EnqueueAll(rings[ring], TRBs(step, alloc_request))
    IN  IF Available
        THEN /\ xhci_setup' = [s EXCEPT !.pc = IF where = "thread" THEN "sent" ELSE "suspended",
                                        !.step = step, !.has_result = FALSE]
             /\ xhci_request' = [free |-> Tail(xhci_request.free) \o back,
                                 trb_phy |-> [xhci_request.trb_phy EXCEPT
                                                ![alloc_request] = TrbPhy(ring, sent)]]
             /\ xhci_ring' = [rings EXCEPT ![ring] = sent]
        ELSE /\ xhci_setup' = [s EXCEPT !.pc = "sent", !.step = step,
                                        !.has_result = TRUE, !.ok = FALSE]
             /\ xhci_request' = [xhci_request EXCEPT !.free = back]
             /\ UNCHANGED xhci_ring

\* co_return wakes the thread, which goes on to the next port.
Returned(s) == [s EXCEPT !.pc = "idle", !.port = @ + 1, !.step = "none",
                         !.has_result = FALSE, !.ok = FALSE, !.config = <<>>, !.ptr = 0]
Return(s, back) ==
    /\ xhci_setup' = Returned(s)
    /\ xhci_request' = [xhci_request EXCEPT !.free = @ \o back]
    /\ UNCHANGED xhci_ring

\* The requests that may follow one that succeeded: the descriptors decide.
After(step) ==
    CASE step = "enable_slot"      -> {"address_device"}
      [] step = "address_device"   -> {"first_descriptor"}
      [] step = "first_descriptor" -> {"evaluate_context", "descriptor"}
      [] step = "evaluate_context" -> {"descriptor"}
      [] step = "descriptor"       -> {"language"}
      [] step = "language"         -> {"string", "configuration"}
      [] step = "string"           -> {"string", "configuration"}
      [] step = "set_configuration"  -> {"configure_endpoint"}
      [] step = "configure_endpoint" -> {"set_protocol"}
      [] OTHER -> {}

\* An unsupported interface is skipped with its descriptors, and so is the
\* header of the interface that follows it.
Interfaces == {"mouse", "keyboard", "other"}
Skipped(c, i) ==
    {j \in i + 1 .. Len(c) : \A k \in i + 1 .. j - 1 : c[k] \notin Interfaces}
NextPtr(c, i) == IF c[i] = "other" THEN i + 1 + Cardinality(Skipped(c, i)) ELSE i + 1

\* Runs over the descriptors from ptr up to a HID descriptor with a report,
\* which has to be requested, or to the end.
Parse(c, ptr, dev) ==
    LET run[k \in 0 .. Len(c)] ==
          IF k = 0 THEN [ptr |-> ptr, dev |-> dev]
          ELSE LET r == run[k - 1] IN
               IF r.ptr > Len(c) \/ (r.ptr <= Len(c) /\ c[r.ptr] = "hid") THEN r
               ELSE [ptr |-> NextPtr(c, r.ptr),
                     dev |-> [r.dev EXCEPT
                        !.hid_device = IF c[r.ptr] \in {"mouse", "keyboard"} THEN c[r.ptr] ELSE @,
                        !.endpoint = @ \/ c[r.ptr] = "endpoint"]]
    IN  run[Len(c)]

Usable(dev) == dev.hid_device # "none" /\ dev.endpoint

Parsed(c, ptr, s, where, back) ==
    LET r == Parse(c, ptr, xhci_device[s.port]) IN
    /\ xhci_device' = [xhci_device EXCEPT ![s.port] = r.dev]
    /\ IF r.ptr <= Len(c)
       THEN Send("hid_report", [s EXCEPT !.config = c, !.ptr = r.ptr], where, back)
       ELSE IF Usable(r.dev)
       THEN Send("set_configuration", [s EXCEPT !.config = <<>>, !.ptr = 0], where, back)
       ELSE Return(s, back)

request_usb_interrupt_report(p) ==
    [xhci_ring EXCEPT ![p] = enqueue(@, [stage |-> "normal", request |-> 0])]

\* setup_device from one co_await to the next.
Resume(ok, s, where, back) ==
    \/ /\ ~ok /\ s.step # "config_string"
       /\ Return(s, back) /\ UNCHANGED xhci_device
    \/ /\ ok /\ \E step \in After(s.step) :
                   /\ step = "string" => s.ptr < MaxStrings
                   /\ Send(step, [s EXCEPT !.ptr = IF step = "string" THEN @ + 1 ELSE 0],
                           where, back)
       /\ UNCHANGED xhci_device
    \/ /\ ok /\ s.step = "configuration"
       /\ \/ \E c \in Configurations : Parsed(c, 1, s, where, back)
          \/ /\ \E c \in Configurations :
                   Send("config_string", [s EXCEPT !.config = c], where, back)
             /\ UNCHANGED xhci_device
          \/ Return(s, back) /\ UNCHANGED xhci_device     \* longer than 256 bytes
    \/ s.step = "config_string" /\ Parsed(s.config, 1, s, where, back)
    \/ ok /\ s.step = "hid_report" /\ Parsed(s.config, s.ptr + 1, s, where, back)
    \/ /\ ok /\ s.step = "set_protocol"
       /\ xhci_setup' = Returned(s)
       /\ xhci_request' = [xhci_request EXCEPT !.free = @ \o back]
       /\ xhci_ring' = request_usb_interrupt_report(s.port)
       /\ xhci_device' = [xhci_device EXCEPT ![s.port].reports = 1]

setup_device ==
    /\ xhci_setup.pc = "idle" /\ xhci_setup.port \in Ports /\ xhci_port[xhci_setup.port]
    /\ Send("enable_slot", xhci_setup, "thread", <<>>)
    /\ UNCHANGED <<xhci_port, xhci_events, xhci_device>>

\* co_await of a RootAwaitable in the thread.
await_ready ==
    /\ xhci_setup.pc = "sent"
    /\ IF xhci_setup.has_result
       THEN Resume(xhci_setup.ok, xhci_setup, "thread", <<>>)
       ELSE /\ xhci_setup' = [xhci_setup EXCEPT !.pc = "checked"]
            /\ UNCHANGED <<xhci_ring, xhci_request, xhci_device>>
    /\ UNCHANGED <<xhci_port, xhci_events>>
await_suspend ==
    /\ xhci_setup.pc = "checked"
    /\ xhci_setup' = [xhci_setup EXCEPT !.pc = "suspended"]
    /\ UNCHANGED <<xhci_port, xhci_ring, xhci_events, xhci_request, xhci_device>>
-----------------------------------------------------------------------------
\* The callback runs before the request is freed.  A coroutine that is not yet
\* suspended is not resumed.
Complete(request, ok) ==
    IF xhci_setup.pc = "suspended" /\ ~xhci_setup.has_result
    THEN Resume(ok, xhci_setup, "handler", <<request>>)
    ELSE /\ xhci_setup' = [xhci_setup EXCEPT !.has_result = TRUE, !.ok = ok]
         /\ xhci_request' = [xhci_request EXCEPT !.free = Append(@, request)]
         /\ UNCHANGED <<xhci_ring, xhci_device>>

\* One round of the loop in Controller::irq.  Request 0 stands for an event
\* that names no request: it is looked up by the address of its TRB.
irq ==
    LET e == xhci_events.slot[xhci_events.dequeue_index].trb
        found == IF e.request # 0 THEN {e.request}
                 ELSE {q \in InFlight : xhci_request.trb_phy[q] = e.trb_phy}
    IN  /\ has_unprocessed_events
        /\ xhci_events' = dequeue(xhci_events)
        /\ \/ /\ e.stage # "normal" /\ found # {}
              /\ \E q \in found : Complete(q, e.ok)
           \/ /\ e.stage # "normal" /\ found = {}
              /\ UNCHANGED <<xhci_ring, xhci_request, xhci_setup, xhci_device>>
           \/ /\ e.stage = "normal"
              /\ xhci_ring' = request_usb_interrupt_report(e.trb_phy[1])
              /\ xhci_device' = [xhci_device EXCEPT ![e.trb_phy[1]].reports = @ + 1]
              /\ UNCHANGED <<xhci_request, xhci_setup>>
        /\ UNCHANGED xhci_port

\* The controller takes a TRB.  The stages before the event data are silent
\* unless one fails: then the endpoint halts and the event names that TRB.
controller(r) ==
    LET ring == xhci_ring[r]
        trb == ring.slot[HcAt(ring)[1]].trb
        event(ok) == [stage |-> trb.stage, trb_phy |-> <<r, HcAt(ring)[1]>>, ok |-> ok,
                      request |-> IF trb.stage = "event_data" THEN trb.request ELSE 0]
    IN  /\ HcReady(ring) /\ ~ring.halted
        /\ r \in Ports => xhci_device[r].reports \in 1 .. MaxReports
        /\ \/ /\ trb.stage \in {"setup", "data", "status"}
              /\ xhci_ring' = [xhci_ring EXCEPT ![r] = HcTaken(ring)]
              /\ UNCHANGED xhci_events
           \/ /\ trb.stage \in {"setup", "data", "status"} /\ HcRoom(xhci_events)
              /\ xhci_ring' = [xhci_ring EXCEPT ![r] = [ring EXCEPT !.halted = TRUE]]
              /\ xhci_events' = HcPosted(xhci_events, event(FALSE))
           \/ /\ trb.stage \notin {"setup", "data", "status"} /\ HcRoom(xhci_events)
              /\ xhci_ring' = [xhci_ring EXCEPT ![r] = HcTaken(ring)]
              /\ \E ok \in BOOLEAN : xhci_events' = HcPosted(xhci_events, event(ok))
        /\ UNCHANGED <<xhci_port, xhci_request, xhci_setup, xhci_device>>

XhciNext ==
    \/ \E ok \in BOOLEAN : start(ok)
    \/ \E outcome \in {"succeeds", "fails", "no_power"} : reset_port(outcome)
    \/ next_port
    \/ setup_device
    \/ await_ready
    \/ await_suspend
    \/ irq
    \/ \E r \in Rings : controller(r)

XhciSpec == XhciInit /\ [][XhciNext]_xhci_vars
-----------------------------------------------------------------------------
\* Across every turn of a ring the controller finds exactly the TRBs that the
\* driver has enqueued and it has not taken, in their order, and the driver
\* exactly the events it has not read: the cycle bits, the link TRB and the two
\* indices agree although neither side sees the other's index.
XhciRingsExact ==
    /\ \A r \in Rings : HcVisible(xhci_ring[r]) = xhci_ring[r].due
    /\ has_unprocessed_events <=> xhci_events.due # <<>>
    /\ has_unprocessed_events =>
          xhci_events.slot[xhci_events.dequeue_index].trb = Head(xhci_events.due)

\* A request in flight is answered exactly once: its TRB is still in a ring, or
\* its event is still to be read, or its transfer has stalled; and nothing the
\* controller still holds names a request that is free.  So no completion can
\* resume the wrong coroutine, and the pool loses no request.
InRings(q) == {at \in Rings \X (1 .. TrbRingSize) :
                 /\ at[2] \in DOMAIN xhci_ring[at[1]].due
                 /\ xhci_ring[at[1]].due[at[2]].request = q}
Names(e, q) == /\ e.stage # "normal"
               /\ \/ e.request = q
                  \/ e.request = 0 /\ q \in InFlight /\ xhci_request.trb_phy[q] = e.trb_phy
InEvents(q) == {i \in DOMAIN xhci_events.due : Names(xhci_events.due[i], q)}
XhciRequestsTracked ==
    /\ \A q \in 1 .. Requests :
          Cardinality(InRings(q)) + Cardinality(InEvents(q)) = IF q \in InFlight THEN 1 ELSE 0
    /\ Cardinality(InFlight) <= 1

\* Of a USB 3 port and its USB 2 pair at most one is set up, whatever the order
\* in which resets fail and succeed: otherwise one device would be set up twice.
XhciOnePerPair ==
    xhci_setup.pc \in {"idle", "sent", "checked", "suspended"} =>
        \A p \in Ports : PairsOf(p) # {} => ~(xhci_port[p] /\ xhci_port[pair_index(p)])

\* An interrupt report is only ever asked of a device whose descriptors named a
\* HID interface and an interrupt endpoint: handle_usb_interrupt uses both
\* without a test.
XhciReportsUsable ==
    \A p \in Ports : xhci_ring[p].due # <<>> \/ xhci_device[p].reports > 0 =>
        xhci_device[p].hid_device # "none" /\ xhci_device[p].endpoint

\* xHCI: rings, requests, port pairs and reports.
XhciSafe == XhciRingsExact /\ XhciRequestsTracked /\ XhciOnePerPair /\ XhciReportsUsable
=============================================================================
