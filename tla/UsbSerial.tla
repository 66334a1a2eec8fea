------------------------------ MODULE UsbSerial ------------------------------
(***************************************************************************)
(* The USB device of usbcfg.c: the descriptors, the callbacks of the USB   *)
(* driver and the endpoints they set up, against a host that resets,       *)
(* enumerates and configures the device, in any order it likes.  The       *)
(* driver of the peripheral is external.                                   *)
(***************************************************************************)
EXTENDS Naturals, Sequences, FiniteSets

VARIABLES usb,    \* the driver: "stop", "ready", "active", "suspended"
          ep,     \* the endpoints that are set up
          known   \* what the host has found: endpoints, strings, or an error

usbVars == <<usb, ep, known>>

Interface(eps) == [type |-> "interface", length |-> 9, endpoints |-> eps]
Functional(length) == [type |-> "functional", length |-> length]
Endpoint(n, dir, kind, max) ==
  [type |-> "endpoint", length |-> 7, ep |-> [n |-> n, dir |-> dir, kind |-> kind, max |-> max]]

vcom_configuration_descriptor_data ==
  <<[type |-> "configuration", length |-> 9, total |-> 67, interfaces |-> 2],
    Interface(1), Functional(5), Functional(5), Functional(4), Functional(5),
    Endpoint(2, "in", "intr", 8),
    Interface(2), Endpoint(1, "out", "bulk", 64), Endpoint(1, "in", "bulk", 64)>>

\* iManufacturer, iProduct, iSerialNumber.
vcom_device_descriptor_data == [type |-> "device", length |-> 18, strings |-> {1, 2, 3}]

\* The strings by the length they say and the characters that follow.
vcom_strings == <<[length |-> 4, chars |-> 1], [length |-> 34, chars |-> 16],
                  [length |-> 20, chars |-> 9], [length |-> 8, chars |-> 3]>>

NULL == [type |-> "null"]

get_descriptor(dtype, dindex) ==
  CASE dtype = "device" -> vcom_device_descriptor_data
    [] dtype = "configuration" -> vcom_configuration_descriptor_data
    [] dtype = "string" /\ dindex < 4 -> vcom_strings[dindex + 1]
    [] OTHER -> NULL

\* ep1config and ep2config: per direction the size, 0 for none.
ep1config == [kind |-> "bulk", in |-> 64, out |-> 64]
ep2config == [kind |-> "intr", in |-> 16, out |-> 0]

\* The host walks through the tree of a configuration by the lengths, as far
\* as the length of the whole says.
EndOf(tree) ==
  LET end[i \in 0 .. Len(tree)] == IF i = 0 THEN 0 ELSE end[i - 1] + tree[i].length IN end

OfType(tree, type) ==
  {i \in DOMAIN tree : tree[i].type = type /\ EndOf(tree)[i] <= tree[1].total}

Found(tree) == {tree[i].ep : i \in OfType(tree, "endpoint")}

\* The endpoints between an interface and the next one are its own.
EndpointsOf(tree, i) ==
  {j \in OfType(tree, "endpoint") : i < j /\ \A k \in OfType(tree, "interface") : k <= i \/ j < k}

Unknown == [endpoints |-> {}, strings |-> {}, whole |-> TRUE]

\* usbStart() and usbConnectBus().
UsbStart == usb' = "ready" /\ ep' = {} /\ known' = Unknown

\* A reset of the bus: the driver drops the endpoints, usb_event() does nothing.
BusReset == /\ usb # "stop"
            /\ usb' = "ready" /\ ep' = {} /\ known' = Unknown

\* What the host reads: the endpoints in the tree, the strings the device names,
\* and whether lengths and numbers agree with what they are of.
Reading ==
  LET tree == get_descriptor("configuration", 0)
      strings == get_descriptor("device", 0).strings
      string(i) == get_descriptor("string", i) IN
  [endpoints |-> Found(tree), strings |-> strings,
   whole |-> /\ \E i \in DOMAIN tree : EndOf(tree)[i] = tree[1].total
             /\ Cardinality(OfType(tree, "interface")) = tree[1].interfaces
             /\ \A i \in OfType(tree, "interface") :
                  Cardinality(EndpointsOf(tree, i)) = tree[i].endpoints
             /\ \A i, j \in OfType(tree, "endpoint") : tree[i].ep = tree[j].ep => i = j
             /\ \A i \in strings \cup {0} :
                  string(i) # NULL /\ string(i).length = 2 + 2 * string(i).chars]

Enumerate == /\ usb = "ready"
             /\ known' = Reading
             /\ UNCHANGED <<usb, ep>>

\* usb_event(USB_EVENT_CONFIGURED) sets up the endpoints.
Configured == {<<1, ep1config>>, <<2, ep2config>>}

SetConfiguration ==
  /\ usb = "ready" /\ known.endpoints # {}
  /\ usb' = "active" /\ ep' = Configured
  /\ UNCHANGED known

\* usb_event() ignores both.
Suspend == usb = "active" /\ usb' = "suspended" /\ UNCHANGED <<ep, known>>
Wakeup  == usb = "suspended" /\ usb' = "active" /\ UNCHANGED <<ep, known>>

\* The host can use every endpoint it was told of.
Served(e) == \E c \in ep : /\ c[1] = e.n /\ c[2].kind = e.kind
                           /\ c[2][e.dir] >= e.max
=============================================================================
