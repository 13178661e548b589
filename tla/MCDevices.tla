------------------------------ MODULE MCDevices -----------------------------
(***************************************************************************)
(* The DRM, xHCI, virtio and input drivers and the network stack.  They    *)
(* share no state here; the part that moves is chosen in the initial       *)
(* state.  Sending and receiving over the network are parts of their own,  *)
(* and so are the virtio block device and the receive queue, and input     *)
(* events and the descriptors of USB devices.                              *)
(***************************************************************************)
EXTENDS Drm, Xhci, Virtio, Net, Input, TLC

VARIABLE part

MCPorts == <<[type |-> "usb2", offset |-> 0], [type |-> "usb3", offset |-> 0],
             [type |-> "usb2", offset |-> 1]>>
MCConfigurations == {<<"keyboard", "hid", "endpoint">>,
                     <<"other", "endpoint", "mouse", "endpoint">>}

\* An address zero route, the default one, and one through a gateway.
MCRoutes == <<[matches |-> {"zero"}, gateway |-> "none", metric |-> 1],
              [matches |-> {"near", "far", "zero"}, gateway |-> "none", metric |-> 100],
              [matches |-> {"far"}, gateway |-> "near", metric |-> 50]>>

\* Descriptions of the DRM device are alike.
DevicesSymmetry == Permutations(DrmFiles)

MCExtended == [c \in ScanCodes |-> IF c = 1 THEN 9 ELSE c]

drivers == <<drm_vars, xhci_vars, vio_vars>>
others == <<net_vars, input_vars>>

DevicesInit ==
    /\ DrmInit /\ XhciInit /\ VioInit /\ NetInit /\ InputInit
    /\ part \in {"drm", "xhci", "block", "rx", "net", "udp", "events", "hid"}
    /\ part # "events" => device = "usb"

DriversNext ==
    \/ part = "drm" /\ DrmNext /\ UNCHANGED <<xhci_vars, vio_vars>>
    \/ part = "xhci" /\ XhciNext /\ UNCHANGED <<drm_vars, vio_vars>>
    \/ part = "block" /\ BlockNext /\ UNCHANGED <<drm_vars, xhci_vars>>
    \/ part = "rx" /\ RxNext /\ UNCHANGED <<drm_vars, xhci_vars>>

OthersNext ==
    \/ part = "net" /\ NetSendNext /\ UNCHANGED input_vars
    \/ part = "udp" /\ UdpNext /\ UNCHANGED input_vars
    \/ /\ part = "events" /\ (ReadNext \/ Ps2KeyboardNext \/ MouseNext \/ HidNext)
       /\ UNCHANGED net_vars
    \/ part = "hid" /\ HidParseNext /\ UNCHANGED net_vars

DevicesNext ==
    /\ UNCHANGED part
    /\ \/ DriversNext /\ UNCHANGED others
       \/ OthersNext /\ UNCHANGED drivers

DevicesSpec == DevicesInit /\ [][DevicesNext]_<<drivers, others, part>>
=============================================================================
