-------------------------------- MODULE Input --------------------------------
(***************************************************************************)
(* Input devices (dev/input): events and their listeners (input.cpp), the  *)
(* event device files (evdev.cpp), the PS/2 keyboard and mouse             *)
(* (ps2/keyboard.cpp, ps2/mouse.cpp) and USB HID devices (usbhid.cpp).     *)
(*                                                                         *)
(* push_event and flush_events run in one interrupt, so that the device's  *)
(* own buffer is empty between steps.  A key event is <<code, value>>; the *)
(* key codes of a device stand for themselves, code 0 is KEY_RESERVED.     *)
(***************************************************************************)
EXTENDS Naturals, Sequences, FiniteSets

CONSTANTS Listeners, InputCapacity,  \* open event files; events a listener holds
          ScanCodes, Extended,       \* scan codes; key code of each after the prefix
          MousePacket, MaxPackets,   \* bytes of a packet; packets sent
          HidKeys, HidSlots,         \* keys and array fields of a USB keyboard
          HidSizes, HidCounts, MaxItems

\* Pseudo events, with values no key event has: EV_SYN, SYN_DROPPED and EV_REL.
Syn == <<0, 3>>
Dropped == <<0, 4>>
Moved == <<0, 5>>

\* A button of the mouse, and a key of a USB keyboard that has a bit of its own.
Button == 20

ASSUME InputAssumption ==
    /\ {MousePacket, MaxPackets, HidSlots, MaxItems} \subseteq Nat \ {0}
    /\ InputCapacity \in Nat /\ InputCapacity > 2 * HidSlots + 2 \* a report, its end and SYN_DROPPED fit
    /\ ScanCodes \subseteq Nat /\ Extended \in [ScanCodes -> Nat]
    /\ HidKeys \subseteq Nat \ {0, Button}        \* key codes of array fields
    /\ HidSizes \cup HidCounts \subseteq Nat

VARIABLES device,       \* the device whose events are followed
          key_status,   \* the keys that are down, for the driver
          listener,     \* file -> its event_buffer, its reader, the reader's own idea
          extended,     \* the PS/2 keyboard has sent the prefix
          mouse,        \* the PS/2 mouse: bytes received of a packet, and what was sent
          hid_previous, \* previous_value of each array field
          hid_report,   \* history: the last report; moved: a key has changed its field
          hid           \* the report descriptor as parsed so far

input_vars == <<device, key_status, listener, extended, mouse, hid_previous,
                hid_report, hid>>

NoKeys == [i \in 1 .. HidSlots |-> 0]
InputInit ==
    /\ device \in {"ps2 keyboard", "ps2 mouse", "usb"}
    /\ key_status = {}
    /\ listener = [l \in Listeners |-> [buffer |-> <<>>, reader |-> "idle", view |-> {}]]
    /\ extended = FALSE
    /\ mouse = [data |-> <<>>, next |-> <<1, 1>>, lost |-> 0, misled |-> 0,
                garbled |-> 0]
    /\ hid_previous = NoKeys
    /\ hid_report = [keys |-> NoKeys, button |-> FALSE, moved |-> FALSE]
    /\ hid = [usages |-> <<>>, minimum |-> 0, size |-> 0, count |-> 0, items |-> <<>>,
              usable |-> TRUE, left |-> MaxItems, bits |-> 0]
-----------------------------------------------------------------------------
\* A listener without room loses all it had, and is told so.
Delivered(buffer, events) ==
    IF InputCapacity - Len(buffer) < Len(events) THEN <<Dropped>> \o events
    ELSE buffer \o events
flush_events(events) ==
    LET all == IF events = <<>> THEN <<>> ELSE Append(events, Syn) IN
    listener' = [l \in Listeners |->
        [listener[l] EXCEPT !.buffer = Delivered(@, all),
                            !.reader = IF @ = "asleep" THEN "woken" ELSE @]]

\* InputListener::read.  The reader follows the events; at SYN_DROPPED it asks
\* for the state of the keys (EVIOCGKEY), as programs do.
Follow(keys, view, event) ==
    CASE event = Dropped -> keys [] event \in {Syn, Moved} -> view
      [] OTHER -> IF event[2] = 0 THEN view \ {event[1]} ELSE view \cup {event[1]}
Followed(keys, view, events) ==
    LET after[i \in 0 .. Len(events)] == IF i = 0 THEN view
                                         ELSE Follow(keys, after[i - 1], events[i])
    IN  after[Len(events)]
evdev_read(l, n) ==
    LET b == listener[l].buffer
        count == IF n < Len(b) THEN n ELSE Len(b)
    IN
    /\ listener[l].reader \in {"idle", "woken"}
    /\ listener' = [listener EXCEPT ![l] =
          IF b = <<>> THEN [@ EXCEPT !.reader = "asleep"]
          ELSE [buffer |-> SubSeq(b, count + 1, Len(b)), reader |-> "idle",
                view |-> Followed(key_status, @.view, SubSeq(b, 1, count))]]
    /\ UNCHANGED <<device, key_status, extended, mouse, hid_previous, hid_report, hid>>
evdev_interrupted(l) ==
    /\ listener[l].reader = "asleep"
    /\ listener' = [listener EXCEPT ![l].reader = "idle"]
    /\ UNCHANGED <<device, key_status, extended, mouse, hid_previous, hid_report, hid>>

ReadNext == \E l \in Listeners : (\E n \in 1 .. 3 : evdev_read(l, n)) \/ evdev_interrupted(l)
-----------------------------------------------------------------------------
Held(code, release) == IF release THEN key_status \ {code} ELSE key_status \cup {code}
ps2_keyboard_irq(code, release) ==
    LET keycode == IF extended THEN Extended[code] ELSE code
        value == IF release THEN 0 ELSE IF keycode \in key_status THEN 2 ELSE 1
    IN
    /\ extended' = FALSE
    /\ key_status' = Held(keycode, release)
    /\ flush_events(<<<<keycode, value>>>>)
    /\ UNCHANGED <<device, mouse, hid_previous, hid_report, hid>>
ps2_keyboard_prefix ==
    /\ extended' = TRUE
    /\ UNCHANGED <<device, key_status, listener, mouse, hid_previous, hid_report, hid>>

Ps2KeyboardNext ==
    /\ device = "ps2 keyboard"
    /\ ps2_keyboard_prefix \/ \E c \in ScanCodes, r \in BOOLEAN : ps2_keyboard_irq(c, r)
-----------------------------------------------------------------------------
process_button(st, code, down) ==
    IF (code \in st.keys) = down THEN st
    ELSE [keys |-> IF down THEN st.keys \cup {code} ELSE st.keys \ {code},
          events |-> Append(st.events, <<code, IF down THEN 1 ELSE 0>>)]

\* A byte <<packet, position, bit, left>>: a first byte always has the bit that is
\* tested, a later one may have it and is a movement then; left is the button.
Following(byte) == IF byte[2] = MousePacket THEN <<byte[1] + 1, 1>>
                   ELSE <<byte[1], byte[2] + 1>>
BadPacket(data) == ~data[1][3]
mouse_irq(bit, left) ==
    LET byte == mouse.next \o <<bit, left>>
        data == Append(mouse.data, byte)
        complete == ~BadPacket(data) /\ Len(data) = MousePacket
        whole == \A i \in DOMAIN data : data[i][1] = data[1][1] /\ data[i][2] = i
        st == process_button([keys |-> key_status, events |-> <<>>], Button, data[1][4])
        moves == [i \in 1 .. Cardinality({j \in 2 .. Len(data) : data[j][3]}) |-> Moved]
    IN
    /\ mouse.next[1] <= MaxPackets
    /\ mouse.next[2] = 1 => bit
    /\ mouse' = [mouse EXCEPT
          !.data = IF BadPacket(data) \/ complete THEN <<>> ELSE data,
          !.next = Following(@),
          !.misled = IF Len(data) = 1 /\ bit /\ byte[2] # 1 THEN @ + 1 ELSE @,
          !.garbled = IF complete /\ ~whole THEN @ + 1 ELSE @]
    /\ key_status' = IF complete THEN st.keys ELSE key_status
    /\ IF complete THEN flush_events(st.events \o moves) ELSE UNCHANGED listener
    /\ UNCHANGED <<device, extended, hid_previous, hid_report, hid>>
\* The controller had no room for a byte.
mouse_loses ==
    /\ mouse.next[1] <= MaxPackets
    /\ mouse' = [mouse EXCEPT !.next = Following(@), !.lost = @ + 1]
    /\ UNCHANGED <<device, key_status, listener, extended, hid_previous, hid_report,
                   hid>>
MouseNext ==
    /\ device = "ps2 mouse"
    /\ mouse_loses \/ \E bit, left \in BOOLEAN : mouse_irq(bit, left)
-----------------------------------------------------------------------------
\* usbhid::Device::event: an array field that has changed presses its new key and
\* releases its old one, in this order; the fields are looked at one by one.
Field(st, i, value) ==
    IF value = hid_previous[i] THEN st
    ELSE [keys |-> (st.keys \cup {value}) \ {hid_previous[i]},
          events |-> st.events \o <<<<value, 1>>, <<hid_previous[i], 0>>>>]
\* Mutant: the value to compare with next time is not kept.
Previous_stale(report) == hid_previous
Previous(report) == report
FieldsSeen(report, button) ==
    LET st[i \in 0 .. HidSlots] ==
            IF i = 0 THEN process_button([keys |-> key_status, events |-> <<>>], Button, button)
            ELSE Field(st[i - 1], i, report[i])
    IN  st[HidSlots]
usbhid_event(report, button) ==
    LET st == FieldsSeen(report, button) IN
    /\ key_status' = st.keys
    /\ flush_events(st.events)
    /\ hid_previous' = Previous(report)
    /\ hid_report' = [keys |-> report, button |-> button, moved |-> hid_report.moved \/
          \E i, j \in 1 .. HidSlots : i # j /\ report[i] # 0 /\ report[i] = hid_report.keys[j]]
    /\ UNCHANGED <<device, extended, mouse, hid>>
Reports == {r \in [1 .. HidSlots -> HidKeys \cup {0}] :
               \A i, j \in 1 .. HidSlots : r[i] = r[j] => i = j \/ r[i] = 0}
HidNext == device = "usb" /\ \E r \in Reports, b \in BOOLEAN : usbhid_event(r, b)
-----------------------------------------------------------------------------
\* parse_report_descriptor, item by item.  typed: the field's usage is one that
\* the driver reports; usage 1 is such a one, 2 is not.
Fields(size, n, typed) == [i \in 1 .. n |-> [size |-> size, typed |-> typed]]
UsageOf(i) == IF i <= Len(hid.usages) THEN hid.usages[i]
              ELSE IF hid.usages # <<>> THEN hid.usages[Len(hid.usages)] ELSE hid.minimum
Padding == hid.size * hid.count
hid_input(kind) ==
    LET valid == kind # "variable" \/ hid.usages # <<>> \/ hid.minimum # 0 \/ hid.count = 0 IN
    /\ hid.left > 0 /\ hid.usable
    /\ hid' = [hid EXCEPT !.left = @ - 1, !.usages = <<>>, !.minimum = 0,
          !.usable = valid, !.bits = @ + hid.size * hid.count,
          !.items = IF ~valid THEN <<>> ELSE @ \o
             CASE kind = "constant" -> Fields(Padding, 1, FALSE)
               [] kind = "array" -> Fields(hid.size, hid.count, FALSE)
               [] OTHER -> [i \in 1 .. hid.count |->
                               [size |-> hid.size, typed |-> UsageOf(i) = 1]]]
    /\ UNCHANGED <<device, key_status, listener, extended, mouse, hid_previous,
                   hid_report>>
hid_item(name, value) ==
    /\ hid.left > 0 /\ hid.usable
    /\ hid' = [CASE name = "size" -> [hid EXCEPT !.size = value]
                 [] name = "count" -> [hid EXCEPT !.count = value]
                 [] name = "usage" -> [hid EXCEPT !.usages = Append(@, value)]
                 [] name = "minimum" -> [hid EXCEPT !.minimum = value]
                 [] name = "reserved" -> [hid EXCEPT !.usable = FALSE]
               EXCEPT !.left = @ - 1]
    /\ UNCHANGED <<device, key_status, listener, extended, mouse, hid_previous,
                   hid_report>>

SizeUpTo(items, i) ==
    LET sum[k \in 0 .. Len(items)] == IF k = 0 THEN 0 ELSE sum[k - 1] + items[k].size
    IN  sum[i]
OffsetOf(i) == SizeUpTo(hid.items, i - 1)
\* The check of the fields that ends parsing.
hid_checked ==
    hid.usable /\ \A i \in DOMAIN hid.items : hid.items[i].typed /\ hid.items[i].size # 1 =>
                     OffsetOf(i) % 8 = 0 /\ hid.items[i].size \in {8, 16}

HidParseNext ==
    \/ \E k \in {"constant", "array", "variable"} : hid_input(k)
    \/ \E n \in HidSizes : hid_item("size", n)
    \/ \E n \in HidCounts : hid_item("count", n)
    \/ \E u \in {1, 2} : hid_item("usage", u) \/ hid_item("minimum", u)
    \/ hid_item("reserved", 0)

InputNext == ReadNext \/ Ps2KeyboardNext \/ MouseNext \/ HidNext \/ HidParseNext
InputSpec == InputInit /\ [][InputNext]_input_vars
-----------------------------------------------------------------------------
\* A program that follows the events of a keyboard knows which keys are down
\* once it has read them all, however often its buffer overflowed.
InputView ==
    \A l \in Listeners :
        (\A i \in DOMAIN listener[l].buffer : listener[l].buffer[i] # Dropped)
            => Followed(key_status, listener[l].view, listener[l].buffer) = key_status

\* No reader sleeps while its listener has events.
InputStranded ==
    \A l \in Listeners : listener[l].reader = "asleep" => listener[l].buffer = <<>>

\* Every byte the PS/2 mouse loses, and every later byte that looks like a first
\* one when the driver waits for that, costs at most one packet its meaning.
MouseResync == mouse.garbled <= mouse.lost + mouse.misled

\* The keys that are down are those of the last report of a USB keyboard; as long
\* as no key that is held moves to another field of the report.
HidKeysExact ==
    device = "usb" /\ ~hid_report.moved
        => key_status \ {0} = ({hid_report.keys[i] : i \in 1 .. HidSlots} \ {0})
                                 \cup {k \in {Button} : hid_report.button}

\* The fields of an accepted descriptor cover the report without gap or overlap.
HidLayout == hid_checked => OffsetOf(Len(hid.items) + 1) = hid.bits

\* Input devices: what a program sees of keys and mice.
InputSafe == InputView /\ InputStranded /\ MouseResync /\ HidKeysExact /\ HidLayout
=============================================================================
