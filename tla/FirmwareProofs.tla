---------------------------- MODULE FirmwareProofs ----------------------------
(***************************************************************************)
(* Proofs about Firmware: the pins while main switches the supplies, the   *)
(* ports it opens, and its threads, for any configurations a card can      *)
(* have, any errors, swaps of the card and steps of a USB host.            *)
(***************************************************************************)
EXTENDS Firmware, FiniteSetTheorems, TLAPS

(***************************************************************************)
(* What the host finds: the tree of vcom_configuration_descriptor_data,    *)
(* walked by the lengths in it.                                            *)
(***************************************************************************)
Ends == <<9, 18, 23, 28, 32, 37, 44, 53, 60, 67>>

LEMMA TreeEnds ==
  \A i \in 1 .. 10 : EndOf(vcom_configuration_descriptor_data)[i] = Ends[i]
<1> DEFINE tree == vcom_configuration_descriptor_data
           lens == <<9, 9, 5, 5, 4, 5, 7, 9, 7, 7>>
           g == [i \in 0 .. 10 |-> IF i = 0 THEN 0 ELSE Ends[i]]
           h(f) == [i \in 0 .. 10 |-> IF i = 0 THEN 0 ELSE f[i - 1] + tree[i].length]
<1>1. Len(tree) = 10
  BY DEF vcom_configuration_descriptor_data
<1>2. \A i \in 1 .. 10 : tree[i].length = lens[i]
  BY DEF vcom_configuration_descriptor_data, Interface, Functional, Endpoint
<1> HIDE DEF tree
<1>3. g = h(g)
  BY <1>2 DEF Ends
<1>4. EndOf(tree) = CHOOSE f : f = h(f)
  BY <1>1 DEF EndOf
<1>5. EndOf(tree) = h(EndOf(tree))
  BY <1>3, <1>4
<1> DEFINE e == EndOf(tree)
<1>6. e = h(e)
  BY <1>5
<1> HIDE DEF e
<1>7. e[0] = 0 /\ \A i \in 1 .. 10 : e[i] = e[i - 1] + lens[i]
  BY <1>2, <1>6
<1>8. e[1] = 9 /\ e[2] = 18 /\ e[3] = 23 /\ e[4] = 28 /\ e[5] = 32 /\ e[6] = 37
  BY <1>7
<1>9. e[7] = 44 /\ e[8] = 53 /\ e[9] = 60 /\ e[10] = 67
  BY <1>7, <1>8
<1> QED
  BY <1>8, <1>9 DEF e, tree, Ends

\* The parts of the tree by their place.
LEMMA TreeParts ==
  LET tree == vcom_configuration_descriptor_data IN
  /\ DOMAIN tree = 1 .. 10 /\ tree[1].total = 67 /\ tree[1].interfaces = 2
  /\ OfType(tree, "interface") = {2, 8} /\ tree[2].endpoints = 1 /\ tree[8].endpoints = 2
  /\ OfType(tree, "endpoint") = {7, 9, 10}
  /\ tree[7].ep = [n |-> 2, dir |-> "in", kind |-> "intr", max |-> 8]
  /\ tree[9].ep = [n |-> 1, dir |-> "out", kind |-> "bulk", max |-> 64]
  /\ tree[10].ep = [n |-> 1, dir |-> "in", kind |-> "bulk", max |-> 64]
<1> DEFINE tree == vcom_configuration_descriptor_data
           types == <<"configuration", "interface", "functional", "functional", "functional",
                      "functional", "endpoint", "interface", "endpoint", "endpoint">>
<1>1. /\ DOMAIN tree = 1 .. 10 /\ tree[1].total = 67 /\ tree[1].interfaces = 2
      /\ tree[2].endpoints = 1 /\ tree[8].endpoints = 2
      /\ tree[7].ep = [n |-> 2, dir |-> "in", kind |-> "intr", max |-> 8]
      /\ tree[9].ep = [n |-> 1, dir |-> "out", kind |-> "bulk", max |-> 64]
      /\ tree[10].ep = [n |-> 1, dir |-> "in", kind |-> "bulk", max |-> 64]
  BY DEF vcom_configuration_descriptor_data, Interface, Functional, Endpoint
<1>2. \A i \in 1 .. 10 : tree[i].type = types[i]
  BY DEF vcom_configuration_descriptor_data, Interface, Functional, Endpoint
<1>3. \A i \in 1 .. 10 : EndOf(tree)[i] <= tree[1].total
  BY <1>1, TreeEnds DEF Ends
<1> HIDE DEF tree
<1>4. \A type : OfType(tree, type) = {i \in 1 .. 10 : types[i] = type}
  BY <1>1, <1>2, <1>3 DEF OfType
<1>5. OfType(tree, "interface") = {2, 8}
  BY <1>4
<1>6. OfType(tree, "endpoint") = {7, 9, 10}
  BY <1>4
<1> QED
  BY <1>1, <1>5, <1>6 DEF tree

LEMMA PairCardinality ==
  ASSUME NEW a \in Nat, NEW b \in Nat, a # b
  PROVE  Cardinality({a, b}) = 2
<1> DEFINE S == {b}
<1>1. IsFiniteSet(S) /\ Cardinality(S) = 1
  BY FS_Singleton
<1>2. a \notin S /\ S \cup {a} = {a, b}
  OBVIOUS
<1> HIDE DEF S
<1>3. Cardinality(S \cup {a}) = 2
  BY <1>1, <1>2, FS_AddElement
<1> QED
  BY <1>2, <1>3

\* The host is told of all of the device, and of no endpoint that is not served
\* once it has configured it.
LEMMA ReadingRight ==
  /\ Reading.whole
  /\ \A e \in Reading.endpoints :
       \E c \in Configured : c[1] = e.n /\ c[2].kind = e.kind /\ c[2][e.dir] >= e.max
<1> DEFINE tree == vcom_configuration_descriptor_data
           strings == {1, 2, 3}
           string(i) == get_descriptor("string", i)
<1>1. /\ get_descriptor("configuration", 0) = tree
      /\ get_descriptor("device", 0).strings = strings
  BY DEF get_descriptor, vcom_device_descriptor_data
<1>2. \A i \in 0 .. 3 : string(i) = vcom_strings[i + 1]
  BY DEF get_descriptor
<1>3. \A i \in strings \cup {0} : string(i) # NULL /\ string(i).length = 2 + 2 * string(i).chars
  <2>1. \A i \in 1 .. 4 : /\ vcom_strings[i].length = 2 + 2 * vcom_strings[i].chars
                          /\ DOMAIN vcom_strings[i] = {"length", "chars"}
    BY DEF vcom_strings
  <2>2. DOMAIN NULL = {"type"}
    BY DEF NULL
  <2>3. \A i \in 1 .. 4 : vcom_strings[i] # NULL
    BY <2>1, <2>2
  <2>4. strings \cup {0} = 0 .. 3
    OBVIOUS
  <2> QED
    BY <1>2, <2>1, <2>3, <2>4
<1>4. \E i \in DOMAIN tree : EndOf(tree)[i] = tree[1].total
  BY TreeEnds, TreeParts DEF Ends
<1> HIDE DEF tree, string
<1>5. Cardinality(OfType(tree, "interface")) = tree[1].interfaces
  <2>1. OfType(tree, "interface") = {2, 8} /\ tree[1].interfaces = 2
    BY TreeParts DEF tree
  <2>2. Cardinality({2, 8}) = 2
    BY PairCardinality
  <2> QED
    BY <2>1, <2>2
<1>6. \A i \in OfType(tree, "interface") : Cardinality(EndpointsOf(tree, i)) = tree[i].endpoints
  <2>1. EndpointsOf(tree, 2) = {7} /\ EndpointsOf(tree, 8) = {9, 10}
    BY TreeParts DEF EndpointsOf, tree
  <2>2. Cardinality({7}) = 1
    BY FS_Singleton
  <2>3. Cardinality({9, 10}) = 2
    BY PairCardinality
  <2> QED
    BY <2>1, <2>2, <2>3, TreeParts DEF tree
<1>7. \A i, j \in OfType(tree, "endpoint") : tree[i].ep = tree[j].ep => i = j
  BY TreeParts DEF tree
<1>8. Reading.whole
  BY <1>1, <1>3, <1>4, <1>5, <1>6, <1>7 DEF Reading, string
<1>9. Reading.endpoints = {tree[7].ep, tree[9].ep, tree[10].ep}
  BY <1>1, TreeParts DEF Reading, Found, tree
<1>10. ASSUME NEW e \in Reading.endpoints
       PROVE  \E c \in Configured : c[1] = e.n /\ c[2].kind = e.kind /\ c[2][e.dir] >= e.max
  BY <1>9, TreeParts DEF Configured, ep1config, ep2config, tree
<1> QED
  BY <1>8, <1>10

(***************************************************************************)
(* The pins after a reset.                                                 *)
(***************************************************************************)
Modes == {"in", "out", "alt", "open", "analog"}
Pulls == {"none", "up", "down"}

PinsType == /\ mode \in [Pins -> Modes] /\ high \subseteq Pins
            /\ af \in [Pins -> 0 .. 15] /\ pull \in [Pins -> Pulls]

LEMMA Overlaid ==
  ASSUME NEW V, NEW A, NEW B, NEW f \in [A -> V], NEW g \in [B -> V]
  PROVE  f ++ g \in [A \cup B -> V]
BY DEF ++

LEMMA AllType == ASSUME NEW P, NEW V, NEW v \in V PROVE All(P, v) \in [P -> V]
BY DEF All

\* What a function that is laid over another one says, and what it does not.
LEMMA OverValue ==
  ASSUME NEW f, NEW g, NEW x
  PROVE  /\ x \in DOMAIN f => (f ++ g)[x] = f[x]
         /\ x \notin DOMAIN f /\ x \in DOMAIN g => (f ++ g)[x] = g[x]
         /\ DOMAIN (f ++ g) = DOMAIN f \cup DOMAIN g
BY DEF ++

PinsA == {"UART4_TX_CONN2", "UART4_RX_CONN2", "UART2_TX_CONN3", "UART2_RX_CONN3", "USB_VBUS",
          "SPI1_SCK", "SPI1_MISO", "SPI1_MOSI", "LED_HEARTBEAT", "LED_ERROR", "USB_DM", "USB_DP"}
PinsB == {"HMC5883L_DRDY", "UART1_TX_CONN1", "UART1_RX_CONN1", "I2C2_SCL_CONN", "I2C2_SDA_CONN",
          "IO_POWER_EN", "LED_STATUS", "LED_SDCARD", "CAN2_RX_CONN", "CAN2_TX_CONN",
          "I2C1_SCL", "I2C1_SDA"}
PinsC == {"SDCARD_DETECT", "MPU6000_INT", "MPU6000_FSYNC", "MPU6000_CS", "UART6_TX_CONN4",
          "UART6_RX_CONN4", "H3LIS331DL_INT", "SDIO_D0", "SDIO_D1", "SDIO_D2", "SDIO_D3",
          "SDIO_CK", "CAN_CONN_EN", "SDCARD_POWER_EN", "VCC_A_POWER_EN", "VBAT_MON_AIN"}
PinsD == {"SDIO_CMD"}

LEMMA PortTypes == /\ PortA \in [PinsA -> Modes] /\ PortB \in [PinsB -> Modes]
                   /\ PortC \in [PinsC -> Modes] /\ PortD \in [PinsD -> Modes]
<1>1. PortA \in [PinsA -> Modes]
  BY DEF PortA, PinsA, Modes, All, SpiPins, ++
<1>2. PortB \in [PinsB -> Modes]
  BY DEF PortB, PinsB, Modes, All, I2c2Pins, I2c1Pins, ++
<1>3. PortC \in [PinsC -> Modes]
  BY DEF PortC, PinsC, Modes, All, SdioPins, ++
<1>4. PortD \in [PinsD -> Modes]
  BY DEF PortD, PinsD, Modes, All
<1> QED
  BY <1>1, <1>2, <1>3, <1>4

LEMMA PinsNamed == Pins = PinsA \cup PinsB \cup PinsC \cup PinsD
BY PortTypes DEF Pins

LEMMA ResetTypes == PinsReset => PinsType
<1> SUFFICES ASSUME PinsReset
             PROVE  PinsType
  OBVIOUS
<1>1. mode \in [Pins -> Modes]
  <2>1. PortA ++ PortB \in [PinsA \cup PinsB -> Modes]
    BY PortTypes, Overlaid
  <2>2. (PortA ++ PortB) ++ PortC \in [(PinsA \cup PinsB) \cup PinsC -> Modes]
    BY <2>1, PortTypes, Overlaid
  <2>3. ((PortA ++ PortB) ++ PortC) ++ PortD \in [((PinsA \cup PinsB) \cup PinsC) \cup PinsD -> Modes]
    BY <2>2, PortTypes, Overlaid
  <2> QED
    BY <2>3, PinsNamed DEF PinsReset
<1>2. af \in [Pins -> 0 .. 15]
  <2>1. AfA \in [PinsA -> 0 .. 15]
    BY PortTypes DEF AfA, All, PinsA, SpiPins, ++
  <2>2. AfB \in [PinsB -> 0 .. 15]
    BY PortTypes DEF AfB, All, PinsB, I2c1Pins, I2c2Pins, ++
  <2>3. AfC \in [PinsC -> 0 .. 15]
    BY PortTypes DEF AfC, All, PinsC, ++
  <2>4. All(DOMAIN PortD, 0) \in [PinsD -> 0 .. 15]
    BY PortTypes DEF All
  <2>5. AfA ++ AfB \in [PinsA \cup PinsB -> 0 .. 15]
    BY <2>1, <2>2, Overlaid
  <2>6. (AfA ++ AfB) ++ AfC \in [(PinsA \cup PinsB) \cup PinsC -> 0 .. 15]
    BY <2>3, <2>5, Overlaid
  <2>7. ((AfA ++ AfB) ++ AfC) ++ All(DOMAIN PortD, 0)
          \in [((PinsA \cup PinsB) \cup PinsC) \cup PinsD -> 0 .. 15]
    BY <2>4, <2>6, Overlaid
  <2> QED
    BY <2>7, PinsNamed DEF PinsReset
<1>3. pull \in [Pins -> Pulls]
  <2>1. PullA \in [PinsA -> Pulls]
    BY PortTypes DEF PullA, All, Pulls
  <2>2. PullB \in [PinsB -> Pulls]
    BY PortTypes DEF PullB, All, PinsB, Pulls, ++
  <2>3. PullC \in [PinsC -> Pulls]
    BY PortTypes DEF PullC, All, PinsC, Pulls, ++
  <2>4. All(DOMAIN PortD, "none") \in [PinsD -> Pulls]
    BY PortTypes DEF All, Pulls
  <2>5. PullA ++ PullB \in [PinsA \cup PinsB -> Pulls]
    BY <2>1, <2>2, Overlaid
  <2>6. (PullA ++ PullB) ++ PullC \in [(PinsA \cup PinsB) \cup PinsC -> Pulls]
    BY <2>3, <2>5, Overlaid
  <2>7. ((PullA ++ PullB) ++ PullC) ++ All(DOMAIN PortD, "none")
          \in [((PinsA \cup PinsB) \cup PinsC) \cup PinsD -> Pulls]
    BY <2>4, <2>6, Overlaid
  <2> QED
    BY <2>7, PinsNamed DEF PinsReset
<1>4. high \subseteq Pins
  BY PinsNamed DEF PinsReset, PinsC
<1> QED
  BY <1>1, <1>2, <1>3, <1>4 DEF PinsType

\* No pin that a supply feeds drives anything after a reset.
LEMMA ResetModes ==
  PinsReset => \A s \in DOMAIN Feeds : \A p \in Feeds[s] : mode[p] \in {"in", "open"}
<1> SUFFICES ASSUME PinsReset
             PROVE  \A s \in DOMAIN Feeds : \A p \in Feeds[s] : mode[p] \in {"in", "open"}
  OBVIOUS
<1> DEFINE FedA == {"UART4_TX_CONN2", "UART4_RX_CONN2", "UART2_TX_CONN3", "UART2_RX_CONN3"} \cup SpiPins
           FedB == {"UART1_TX_CONN1", "UART1_RX_CONN1"} \cup I2c2Pins \cup I2c1Pins
           FedC == {"MPU6000_FSYNC", "MPU6000_CS", "UART6_TX_CONN4", "UART6_RX_CONN4"}
                     \cup (SdioPins \ {"SDIO_CMD"})
<1>1. \A p \in FedA : p \in PinsA /\ PortA[p] = "in"
  BY DEF PortA, PinsA, SpiPins, All, ++
<1>2. \A p \in FedB : p \in PinsB /\ p \notin PinsA /\ PortB[p] \in {"in", "open"}
  BY DEF PortB, PinsA, PinsB, I2c2Pins, I2c1Pins, All, ++
<1>3. \A p \in FedC : p \in PinsC /\ p \notin PinsA \cup PinsB /\ PortC[p] = "in"
  BY DEF PortC, PinsA, PinsB, PinsC, SdioPins, All, ++
<1>4. "SDIO_CMD" \notin PinsA \cup PinsB \cup PinsC /\ PortD["SDIO_CMD"] = "in"
  BY DEF PortD, PinsA, PinsB, PinsC, All
<1> HIDE DEF FedA, FedB, FedC
<1>5. /\ DOMAIN PortA = PinsA /\ DOMAIN PortB = PinsB /\ DOMAIN PortC = PinsC
      /\ DOMAIN PortD = {"SDIO_CMD"}
  BY PortTypes DEF PinsD
<1>6. mode = ((PortA ++ PortB) ++ PortC) ++ PortD
  BY DEF PinsReset
<1>7. \A p \in FedA \cup FedB \cup FedC \cup {"SDIO_CMD"} : mode[p] \in {"in", "open"}
  BY <1>1, <1>2, <1>3, <1>4, <1>5, <1>6 DEF ++
<1>8. \A s \in DOMAIN Feeds : Feeds[s] \subseteq FedA \cup FedB \cup FedC \cup {"SDIO_CMD"}
  BY DEF Feeds, FedA, FedB, FedC, UartPins, I2c2Pins, SpiPins, I2c1Pins, SdioPins
<1> QED
  BY <1>7, <1>8

(***************************************************************************)
(* The writes that are left.  None switches off a supply or lowers the     *)
(* chip select; a pin is only made to drive what has its supply, or gets   *)
(* it from an earlier write, and the chip select is raised before it is    *)
(* made an output.                                                         *)
(***************************************************************************)
Levelled == [pin : Pins, to : {"set", "clear"}]
Switched == [pin : Pins, to : {"mode"}, mode : Modes, af : 0 .. 15, pull : Pulls]
Write    == Levelled \cup Switched

SwitchesOn(w, s)  == w.pin = s /\ w.to = (IF s = "SDCARD_POWER_EN" THEN "clear" ELSE "set")
SwitchesOff(w, s) == w.pin = s /\ w.to = (IF s = "SDCARD_POWER_EN" THEN "set" ELSE "clear")
Drives(w)         == w.to = "mode" /\ w.mode \in {"out", "alt"}
Raises(w)         == w.pin = "MPU6000_CS" /\ w.to = "set"

\* The supplies in S are on, and if cs, the chip select is high.
SafeWrites(ws, S, cs) ==
  /\ \A i \in DOMAIN ws :
       /\ \A s \in DOMAIN Feeds :
            /\ ~SwitchesOff(ws[i], s)
            /\ Drives(ws[i]) /\ ws[i].pin \in Feeds[s]
                 => s \in S \/ \E j \in 1 .. i - 1 : SwitchesOn(ws[j], s)
       /\ ~(ws[i].pin = "MPU6000_CS" /\ ws[i].to = "clear")
       /\ ws[i].pin = "MPU6000_CS" /\ Drives(ws[i])
            => cs \/ \E j \in 1 .. i - 1 : Raises(ws[j])

Supplied == {s \in DOMAIN Feeds : On(s)}

LEMMA FeedsNamed ==
  /\ DOMAIN Feeds = {"IO_POWER_EN", "VCC_A_POWER_EN", "SDCARD_POWER_EN"}
  /\ Feeds["IO_POWER_EN"] = UartPins \cup I2c2Pins
  /\ Feeds["VCC_A_POWER_EN"] = SpiPins \cup I2c1Pins \cup {"MPU6000_CS", "MPU6000_FSYNC"}
  /\ Feeds["SDCARD_POWER_EN"] = SdioPins
BY DEF Feeds

LEMMA IoWrites ==
  board_io_pwr_en \in Seq(Write) /\ SafeWrites(board_io_pwr_en, {}, FALSE)
<1> DEFINE ws == board_io_pwr_en
           pins == <<"IO_POWER_EN", "UART4_TX_CONN2", "UART4_RX_CONN2", "UART2_TX_CONN3",
                     "UART2_RX_CONN3", "UART1_TX_CONN1", "UART1_RX_CONN1", "UART6_TX_CONN4",
                     "UART6_RX_CONN4", "I2C2_SCL_CONN", "I2C2_SDA_CONN">>
<1>1. Len(ws) = 11 /\ DOMAIN ws = 1 .. 11
  BY DEF board_io_pwr_en
<1>2. ws[1] = [pin |-> "IO_POWER_EN", to |-> "set"]
  BY DEF board_io_pwr_en, Set
<1>3. \A i \in 2 .. 11 : /\ ws[i].pin = pins[i] /\ ws[i].to = "mode"
                         /\ ws[i] \in Switched
  BY PinsNamed DEF board_io_pwr_en, Alternate, PulledUp, Open, Mode, PinsA, PinsB, PinsC, Modes, Pulls,
                   Switched
<1>4. ws \in Seq(Write)
  <2>1. \A i \in 1 .. 11 : ws[i] \in Write
    BY <1>2, <1>3, PinsNamed DEF Write, Levelled, PinsB
  <2>2. ws = [i \in 1 .. 11 |-> ws[i]]
    BY DEF board_io_pwr_en
  <2> HIDE DEF ws
  <2> QED
    BY <2>1, <2>2
<1>5. \A i \in 2 .. 11 : pins[i] \in Feeds["IO_POWER_EN"]
  BY FeedsNamed DEF UartPins, I2c2Pins
<1>6. \A p \in Feeds["IO_POWER_EN"] :
        /\ p \notin {"MPU6000_CS", "IO_POWER_EN", "VCC_A_POWER_EN", "SDCARD_POWER_EN"}
        /\ p \notin Feeds["VCC_A_POWER_EN"] /\ p \notin Feeds["SDCARD_POWER_EN"]
  BY FeedsNamed DEF UartPins, I2c2Pins, SpiPins, I2c1Pins, SdioPins
<1> HIDE DEF ws, pins
<1>7. SafeWrites(ws, {}, FALSE)
  <2>1. ~Drives(ws[1]) /\ SwitchesOn(ws[1], "IO_POWER_EN")
    BY <1>2 DEF Drives, SwitchesOn
  <2>2. \A i \in 1 .. 11 : \A s \in DOMAIN Feeds : ~SwitchesOff(ws[i], s)
    BY <1>2, <1>3, <1>5, <1>6, FeedsNamed DEF SwitchesOff
  <2>3. \A i \in 2 .. 11 : \A s \in DOMAIN Feeds :
          ws[i].pin \in Feeds[s] => \E j \in 1 .. i - 1 : SwitchesOn(ws[j], s)
    BY <2>1, <1>3, <1>5, <1>6, FeedsNamed
  <2>4. \A i \in 1 .. 11 : ws[i].pin # "MPU6000_CS"
    BY <1>2, <1>3, <1>5, <1>6
  <2> QED
    BY <1>1, <2>1, <2>2, <2>3, <2>4 DEF SafeWrites
<1> QED
  BY <1>4, <1>7 DEF ws

LEMMA SensorWrites ==
  board_sensor_pwr_en \in Seq(Write) /\ SafeWrites(board_sensor_pwr_en, {}, FALSE)
<1> DEFINE ws == board_sensor_pwr_en
           pins == <<"VCC_A_POWER_EN", "SPI1_SCK", "SPI1_MISO", "SPI1_MOSI", "MPU6000_FSYNC",
                     "MPU6000_CS", "MPU6000_CS", "I2C1_SCL", "I2C1_SDA">>
<1>1. Len(ws) = 9 /\ DOMAIN ws = 1 .. 9
  BY DEF board_sensor_pwr_en
<1>2. /\ ws[1] = [pin |-> "VCC_A_POWER_EN", to |-> "set"]
      /\ ws[6] = [pin |-> "MPU6000_CS", to |-> "set"]
  BY DEF board_sensor_pwr_en, Set
<1>3. \A i \in {2, 3, 4, 5, 7, 8, 9} : /\ ws[i].pin = pins[i] /\ ws[i].to = "mode"
                                       /\ ws[i] \in Switched
  BY PinsNamed DEF board_sensor_pwr_en, Alternate, Out, Open, Mode, PinsA, PinsB, PinsC, Modes,
                   Pulls, Switched
<1>4. ws \in Seq(Write)
  <2>1. \A i \in 1 .. 9 : ws[i] \in Write
    BY <1>2, <1>3, PinsNamed DEF Write, Levelled, PinsC
  <2>2. ws = [i \in 1 .. 9 |-> ws[i]]
    BY DEF board_sensor_pwr_en
  <2> HIDE DEF ws
  <2> QED
    BY <2>1, <2>2
<1>5. \A i \in 2 .. 9 : pins[i] \in Feeds["VCC_A_POWER_EN"]
  BY FeedsNamed DEF SpiPins, I2c1Pins
<1>6. \A p \in Feeds["VCC_A_POWER_EN"] :
        /\ p \notin {"IO_POWER_EN", "VCC_A_POWER_EN", "SDCARD_POWER_EN"}
        /\ p \notin Feeds["IO_POWER_EN"] /\ p \notin Feeds["SDCARD_POWER_EN"]
  BY FeedsNamed DEF UartPins, I2c2Pins, SpiPins, I2c1Pins, SdioPins
<1>7. \A i \in 2 .. 5 : pins[i] # "MPU6000_CS"
  OBVIOUS
<1> HIDE DEF ws, pins
<1>8. SafeWrites(ws, {}, FALSE)
  <2>1. ~Drives(ws[1]) /\ ~Drives(ws[6]) /\ SwitchesOn(ws[1], "VCC_A_POWER_EN") /\ Raises(ws[6])
    BY <1>2 DEF Drives, SwitchesOn, Raises
  <2>2. \A i \in 1 .. 9 : \A s \in DOMAIN Feeds : ~SwitchesOff(ws[i], s)
    BY <1>2, <1>3, <1>5, <1>6, FeedsNamed DEF SwitchesOff
  <2>3. \A i \in {2, 3, 4, 5, 7, 8, 9} : \A s \in DOMAIN Feeds :
          ws[i].pin \in Feeds[s] => \E j \in 1 .. i - 1 : SwitchesOn(ws[j], s)
    BY <2>1, <1>3, <1>5, <1>6, FeedsNamed
  <2>4. \A i \in 1 .. 9 : ws[i].to # "clear"
    BY <1>2, <1>3
  <2>5. \A i \in 1 .. 9 : ws[i].pin = "MPU6000_CS" => i > 5
    BY <1>2, <1>3, <1>7
  <2>6. \A i \in {7, 8, 9} : \E j \in 1 .. i - 1 : Raises(ws[j])
    BY <2>1
  <2> QED
    BY <1>1, <2>1, <2>2, <2>3, <2>4, <2>5, <2>6 DEF SafeWrites
<1> QED
  BY <1>4, <1>8 DEF ws

\* The writes of board_sdcard_pwr_en: the supply of the card is switched on low.
LEMMA CardWrites ==
  /\ board_sdcard_pwr_en \in Seq(Write) /\ SafeWrites(board_sdcard_pwr_en, {}, FALSE)
  /\ \A i \in DOMAIN board_sdcard_pwr_en : board_sdcard_pwr_en[i].pin \notin UartPins
<1> DEFINE ws == board_sdcard_pwr_en
           pins == <<"SDCARD_POWER_EN", "SDIO_D0", "SDIO_D1", "SDIO_D2", "SDIO_D3", "SDIO_CK",
                     "SDIO_CMD">>
<1>1. Len(ws) = 7 /\ DOMAIN ws = 1 .. 7
  BY DEF board_sdcard_pwr_en
<1>2. ws[1] = [pin |-> "SDCARD_POWER_EN", to |-> "clear"]
  BY DEF board_sdcard_pwr_en, Clear
<1>3. \A i \in 2 .. 7 : ws[i].pin = pins[i] /\ ws[i].to = "mode" /\ ws[i] \in Switched
  BY PinsNamed DEF board_sdcard_pwr_en, Alternate, PulledUp, Mode, PinsC, PinsD, Modes, Pulls,
                   Switched
<1>4. ws \in Seq(Write)
  <2>1. \A i \in 1 .. 7 : ws[i] \in Write
    BY <1>2, <1>3, PinsNamed DEF Write, Levelled, PinsC
  <2>2. ws = [i \in 1 .. 7 |-> ws[i]]
    BY DEF board_sdcard_pwr_en
  <2> HIDE DEF ws
  <2> QED
    BY <2>1, <2>2
<1>5. \A i \in 2 .. 7 : pins[i] \in Feeds["SDCARD_POWER_EN"]
  BY FeedsNamed DEF SdioPins
<1>6. \A p \in Feeds["SDCARD_POWER_EN"] :
        /\ p \notin {"MPU6000_CS", "IO_POWER_EN", "VCC_A_POWER_EN", "SDCARD_POWER_EN"}
        /\ p \notin Feeds["IO_POWER_EN"] /\ p \notin Feeds["VCC_A_POWER_EN"]
        /\ p \notin UartPins
  BY FeedsNamed DEF UartPins, I2c2Pins, SpiPins, I2c1Pins, SdioPins
<1>7. "SDCARD_POWER_EN" \notin UartPins
  BY DEF UartPins
<1> HIDE DEF ws, pins
<1>8. SafeWrites(ws, {}, FALSE)
  <2>1. ~Drives(ws[1]) /\ SwitchesOn(ws[1], "SDCARD_POWER_EN")
    BY <1>2 DEF Drives, SwitchesOn
  <2>2. \A i \in 1 .. 7 : \A s \in DOMAIN Feeds : ~SwitchesOff(ws[i], s)
    BY <1>2, <1>3, <1>5, <1>6, FeedsNamed DEF SwitchesOff
  <2>3. \A i \in 2 .. 7 : \A s \in DOMAIN Feeds :
          ws[i].pin \in Feeds[s] => \E j \in 1 .. i - 1 : SwitchesOn(ws[j], s)
    BY <2>1, <1>3, <1>5, <1>6, FeedsNamed
  <2>4. \A i \in 1 .. 7 : ws[i].pin # "MPU6000_CS"
    BY <1>2, <1>3, <1>5, <1>6
  <2> QED
    BY <1>1, <2>1, <2>2, <2>3, <2>4 DEF SafeWrites
<1>9. \A i \in 1 .. 7 : ws[i].pin \notin UartPins
  BY <1>2, <1>3, <1>5, <1>6, <1>7
<1> QED
  BY <1>1, <1>4, <1>8, <1>9 DEF ws

\* What is in a concatenation.
LEMMA Concatenated ==
  ASSUME NEW v \in Seq(Write), NEW w \in Seq(Write), NEW ws, ws = v \o w
  PROVE  /\ \A i \in DOMAIN v : i \in DOMAIN ws /\ ws[i] = v[i]
         /\ \A i \in DOMAIN ws : \/ i \in DOMAIN v
                                 \/ \E k \in DOMAIN w : ws[i] = w[k]
<1>1. \A i \in DOMAIN ws : i \notin DOMAIN v => i - Len(v) \in DOMAIN w /\ ws[i] = w[i - Len(v)]
  OBVIOUS
<1>2. \A i \in DOMAIN v : i \in DOMAIN ws /\ ws[i] = v[i]
  OBVIOUS
<1> QED
  BY <1>1, <1>2

LEMMA SafeBothWays ==
  ASSUME NEW v \in Seq(Write), NEW w \in Seq(Write), NEW ws, ws = v \o w,
         SafeWrites(v, {}, FALSE), SafeWrites(w, {}, FALSE)
  PROVE  SafeWrites(ws, {}, FALSE)
<1>1. /\ DOMAIN ws = 1 .. Len(v) + Len(w) /\ Len(v) \in Nat /\ Len(w) \in Nat
      /\ DOMAIN v = 1 .. Len(v) /\ DOMAIN w = 1 .. Len(w)
      /\ \A i \in 1 .. Len(v) : ws[i] = v[i]
      /\ \A i \in 1 .. Len(w) : ws[Len(v) + i] = w[i]
  OBVIOUS
<1>2. ASSUME NEW i \in 1 .. Len(v)
      PROVE  /\ \A s \in DOMAIN Feeds :
                  /\ ~SwitchesOff(ws[i], s)
                  /\ Drives(ws[i]) /\ ws[i].pin \in Feeds[s]
                       => \E j \in 1 .. i - 1 : SwitchesOn(ws[j], s)
             /\ ~(ws[i].pin = "MPU6000_CS" /\ ws[i].to = "clear")
             /\ ws[i].pin = "MPU6000_CS" /\ Drives(ws[i]) => \E j \in 1 .. i - 1 : Raises(ws[j])
  <2>1. ws[i] = v[i] /\ \A j \in 1 .. i - 1 : j \in 1 .. Len(v) /\ ws[j] = v[j]
    BY <1>1
  <2> QED
    BY <1>1, <2>1 DEF SafeWrites
<1>3. ASSUME NEW k \in 1 .. Len(w), NEW i, i = Len(v) + k
      PROVE  /\ \A s \in DOMAIN Feeds :
                  /\ ~SwitchesOff(ws[i], s)
                  /\ Drives(ws[i]) /\ ws[i].pin \in Feeds[s]
                       => \E j \in 1 .. i - 1 : SwitchesOn(ws[j], s)
             /\ ~(ws[i].pin = "MPU6000_CS" /\ ws[i].to = "clear")
             /\ ws[i].pin = "MPU6000_CS" /\ Drives(ws[i]) => \E j \in 1 .. i - 1 : Raises(ws[j])
  <2>1. /\ ws[i] = w[k]
        /\ \A j \in 1 .. k - 1 : Len(v) + j \in 1 .. i - 1 /\ ws[Len(v) + j] = w[j]
    BY <1>1, <1>3
  <2>2. \A s \in DOMAIN Feeds :
          Drives(w[k]) /\ w[k].pin \in Feeds[s] => \E j \in 1 .. k - 1 : SwitchesOn(w[j], s)
    BY <1>1 DEF SafeWrites
  <2>3. \A s \in DOMAIN Feeds :
          Drives(ws[i]) /\ ws[i].pin \in Feeds[s] => \E j \in 1 .. i - 1 : SwitchesOn(ws[j], s)
    BY <2>1, <2>2
  <2>4. w[k].pin = "MPU6000_CS" /\ Drives(w[k]) => \E j \in 1 .. k - 1 : Raises(w[j])
    BY <1>1 DEF SafeWrites
  <2>5. ws[i].pin = "MPU6000_CS" /\ Drives(ws[i]) => \E j \in 1 .. i - 1 : Raises(ws[j])
    BY <2>1, <2>4
  <2> QED
    BY <1>1, <2>1, <2>3, <2>5 DEF SafeWrites
<1>4. \A i \in DOMAIN ws : i \notin 1 .. Len(v)
        => i - Len(v) \in 1 .. Len(w) /\ i = Len(v) + (i - Len(v))
  BY <1>1
<1>5. \A i \in DOMAIN ws : i \in 1 .. Len(v) \/ \E k \in 1 .. Len(w) : i = Len(v) + k
  BY <1>4
<1> QED
  BY <1>2, <1>3, <1>5 DEF SafeWrites

(***************************************************************************)
(* The invariant.  PinsAreSafe and the UARTs' part of PortsAreReady are    *)
(* not inductive: they rest on what is left to write while main switches   *)
(* the supplies.                                                           *)
(***************************************************************************)

\* A pin of a UART with this mode, function and pull is as the UART needs it.
Fits(pin, m, n, resist) ==
  \A p \in DOMAIN UART : /\ pin \in {UART[p].tx, UART[p].rx} => m = "alt" /\ n = UART[p].af
                         /\ pin = UART[p].rx => resist = "up"

FitsNow(pin) == Fits(pin, mode[pin], af[pin], pull[pin])

SafeInv == /\ todo \in Seq(Write)
           /\ SafeWrites(todo, Supplied, "MPU6000_CS" \in high)
           /\ PinsAreSafe

\* Main makes every pin of a UART fit, and no later write undoes that.
WiringInv ==
  /\ \A i \in DOMAIN todo : todo[i].to = "mode" /\ todo[i].pin \in UartPins
       => Fits(todo[i].pin, todo[i].mode, todo[i].af, todo[i].pull)
  /\ \A pin \in UartPins :
       \/ FitsNow(pin)
       \/ main = "power" /\ \E i \in DOMAIN todo : todo[i].to = "mode" /\ todo[i].pin = pin

Mains == {"power", "sdcard_power", "config", "io_setup", "usb", "services",
          "loop", "automount", "nap"}

StartedAt == [power |-> {}, sdcard_power |-> {"CONN1"}, config |-> {"CONN1"},
              io_setup |-> {"CONN1"},
              usb |-> {"CONN1", "CONN2", "CONN3", "CONN4", "CONN_I2C"}]
AllPorts  == {"CONN1", "CONN2", "CONN3", "CONN4", "CONN_I2C", "USB"}

MainInv ==
  /\ main \in Mains
  /\ main \notin {"power", "sdcard_power"} => todo = <<>>
  /\ started = IF main \in DOMAIN StartedAt THEN StartedAt[main] ELSE AllPorts
  /\ port = [s \in Services |-> IF Running THEN Device(param[s]) ELSE NoDevice]

HostInv == /\ known \in {Unknown, Reading}
           /\ usb \in {"active", "suspended"} => ep = Configured

TypeInv == /\ TypeOK
           /\ card \in Cards
           /\ shelltp \in BOOLEAN /\ (shells = 1 => shelltp)

IInv == TypeInv /\ SafeInv /\ WiringInv /\ MainInv /\ HostInv

LEMMA ServicesNamed == Services = {"shell_port", "sumd_input", "datagram_message_port"}
BY DEF Services, Defaults

LEMMA UartNamed ==
  /\ DOMAIN UART = AllPorts \ {"USB"}
  /\ \A p \in DOMAIN UART \ {"CONN_I2C"} : UART[p].tx \in UartPins /\ UART[p].rx \in UartPins
BY DEF UART, UartPins, AllPorts

LEMMA DeviceKnown == \A name : Device(name) = NoDevice \/ (Device(name) \in AllPorts /\ Device(name) = name)
BY DEF Device, AllPorts

LEMMA Implied == IInv => TypeOK /\ PinsAreSafe /\ PortsAreReady
<1> SUFFICES ASSUME IInv
             PROVE  TypeOK /\ PinsAreSafe /\ PortsAreReady
  OBVIOUS
<1>1. ASSUME NEW p \in started \ {"USB", "CONN_I2C"}
      PROVE  Wired(p)
  <2>1. main # "power" /\ p \in DOMAIN UART \ {"CONN_I2C"}
    BY UartNamed DEF IInv, MainInv, StartedAt, AllPorts
  <2>2. FitsNow(UART[p].tx) /\ FitsNow(UART[p].rx)
    BY <2>1, UartNamed DEF IInv, WiringInv
  <2>3. UART[p].tx \in {UART[p].tx, UART[p].rx} /\ UART[p].rx \in {UART[p].tx, UART[p].rx}
    OBVIOUS
  <2> QED
    BY <2>1, <2>2, <2>3 DEF FitsNow, Fits, Wired
<1>2. known.whole
  BY ReadingRight DEF IInv, HostInv, Unknown
<1>3. usb \in {"active", "suspended"} => \A e \in known.endpoints : Served(e)
  BY ReadingRight DEF IInv, HostInv, Unknown, Served
<1>4. ASSUME NEW s \in Services, port[s] # NoDevice
      PROVE  port[s] \in started
  <2>1. Running /\ port[s] = Device(param[s])
    BY <1>4 DEF IInv, MainInv
  <2>2. started = AllPorts
    BY <2>1 DEF IInv, MainInv, StartedAt, Running
  <2> QED
    BY <1>4, <2>1, <2>2, DeviceKnown
<1> QED
  BY <1>1, <1>2, <1>3, <1>4 DEF IInv, TypeInv, SafeInv, PortsAreReady

(***************************************************************************)
(* The start.                                                              *)
(***************************************************************************)

\* board_io_pwr_en() sets up every pin of a UART as the UART needs it.
LEMMA IoFits ==
  LET ws == board_io_pwr_en IN
  /\ DOMAIN ws = 1 .. 11
  /\ \A i \in 1 .. 11 : ws[i].to = "mode" /\ ws[i].pin \in UartPins
       => Fits(ws[i].pin, ws[i].mode, ws[i].af, ws[i].pull)
  /\ \A pin \in UartPins : \E i \in 1 .. 11 : ws[i].to = "mode" /\ ws[i].pin = pin
<1> DEFINE ws == board_io_pwr_en
<1>1. DOMAIN ws = 1 .. 11
  BY DEF board_io_pwr_en
<1>2. /\ ws[2] = Alternate("UART4_TX_CONN2", 8) /\ ws[3] = PulledUp("UART4_RX_CONN2", 8)
      /\ ws[4] = Alternate("UART2_TX_CONN3", 7) /\ ws[5] = PulledUp("UART2_RX_CONN3", 7)
      /\ ws[6] = Alternate("UART1_TX_CONN1", 7) /\ ws[7] = PulledUp("UART1_RX_CONN1", 7)
      /\ ws[8] = Alternate("UART6_TX_CONN4", 8) /\ ws[9] = PulledUp("UART6_RX_CONN4", 8)
  BY DEF board_io_pwr_en
<1>3. /\ ws[1].to = "set"
      /\ ws[10].pin = "I2C2_SCL_CONN" /\ ws[11].pin = "I2C2_SDA_CONN"
  BY DEF board_io_pwr_en, Set, Open, Mode
<1> HIDE DEF ws
<1>4. /\ Fits("UART4_TX_CONN2", "alt", 8, "none") /\ Fits("UART4_RX_CONN2", "alt", 8, "up")
      /\ Fits("UART2_TX_CONN3", "alt", 7, "none") /\ Fits("UART2_RX_CONN3", "alt", 7, "up")
      /\ Fits("UART1_TX_CONN1", "alt", 7, "none") /\ Fits("UART1_RX_CONN1", "alt", 7, "up")
      /\ Fits("UART6_TX_CONN4", "alt", 8, "none") /\ Fits("UART6_RX_CONN4", "alt", 8, "up")
  BY DEF Fits, UART
<1>5. \A i \in 2 .. 9 : /\ ws[i].to = "mode"
                        /\ Fits(ws[i].pin, ws[i].mode, ws[i].af, ws[i].pull)
  BY <1>2, <1>4 DEF Alternate, PulledUp, Mode
<1>6. \A i \in {10, 11} : ws[i].pin \notin UartPins
  BY <1>3 DEF UartPins
<1>7. \A i \in 1 .. 11 : ws[i].to = "mode" /\ ws[i].pin \in UartPins
        => Fits(ws[i].pin, ws[i].mode, ws[i].af, ws[i].pull)
  BY <1>3, <1>5, <1>6
<1>8. \A pin \in UartPins : \E i \in 2 .. 9 : ws[i].to = "mode" /\ ws[i].pin = pin
  BY <1>2 DEF Alternate, PulledUp, Mode, UartPins
<1> QED
  BY <1>1, <1>7, <1>8 DEF ws

LEMMA SensorPins == \A i \in DOMAIN board_sensor_pwr_en : board_sensor_pwr_en[i].pin \notin UartPins
BY DEF board_sensor_pwr_en, UartPins, Set, Alternate, Out, Open, Mode

LEMMA InitIInv == Init => IInv
<1> SUFFICES ASSUME Init
             PROVE  IInv
  OBVIOUS
<1> USE DEF Init
<1> DEFINE v == board_io_pwr_en
           w == board_sensor_pwr_en
<1>1. /\ v \in Seq(Write) /\ w \in Seq(Write)
      /\ SafeWrites(v, {}, FALSE) /\ SafeWrites(w, {}, FALSE)
  BY IoWrites, SensorWrites
<1>2. todo \in Seq(Write) /\ SafeWrites(todo, {}, FALSE)
  <2>1. todo = v \o w /\ todo \in Seq(Write)
    BY <1>1
  <2> QED
    BY <1>1, <2>1, SafeBothWays, Zenon
<1>3. /\ DOMAIN v = 1 .. 11
      /\ \A i \in 1 .. 11 : v[i].to = "mode" /\ v[i].pin \in UartPins
           => Fits(v[i].pin, v[i].mode, v[i].af, v[i].pull)
      /\ \A pin \in UartPins : \E i \in 1 .. 11 : v[i].to = "mode" /\ v[i].pin = pin
      /\ \A i \in DOMAIN w : w[i].pin \notin UartPins
  BY IoFits, SensorPins
<1> HIDE DEF v, w
<1>4. /\ \A i \in 1 .. 11 : i \in DOMAIN todo /\ todo[i] = v[i]
      /\ \A i \in DOMAIN todo : i \in 1 .. 11 \/ \E k \in DOMAIN w : todo[i] = w[k]
  <2>1. todo = v \o w
    BY DEF v, w
  <2>2. /\ \A i \in DOMAIN v : i \in DOMAIN todo /\ todo[i] = v[i]
        /\ \A i \in DOMAIN todo : \/ i \in DOMAIN v
                                  \/ \E k \in DOMAIN w : todo[i] = w[k]
    <3>1. v \in Seq(Write) /\ w \in Seq(Write)
      BY <1>1
    <3> QED
      BY ONLY <2>1, <3>1, Concatenated
  <2> QED
    BY ONLY <1>3, <2>2
<1>5. SafeInv
  <2>1. SafeWrites(todo, Supplied, "MPU6000_CS" \in high)
    BY <1>2 DEF SafeWrites
  <2>2. PinsAreSafe
    BY ResetModes, FeedsNamed DEF PinsAreSafe
  <2> QED
    BY <1>2, <2>1, <2>2 DEF SafeInv
<1>6. WiringInv
  <2>1. \A i \in DOMAIN todo : todo[i].to = "mode" /\ todo[i].pin \in UartPins
          => Fits(todo[i].pin, todo[i].mode, todo[i].af, todo[i].pull)
    BY <1>3, <1>4
  <2>2. \A pin \in UartPins : \E i \in DOMAIN todo : todo[i].to = "mode" /\ todo[i].pin = pin
    BY <1>3, <1>4
  <2> QED
    BY <2>1, <2>2 DEF WiringInv
<1>7. MainInv
  BY DEF MainInv, Mains, StartedAt, Running
<1>8. HostInv
  BY DEF HostInv
<1>9. TypeInv
  <2>1. PinsType
    BY ResetTypes
  <2>2. errors \in [Levels -> 0 .. 1] /\ swaps \in 0 .. MaxSwaps /\ in \in 0 .. RC_INPUT_MAX_NB_CHANNELS
    BY FirmwareAssumption
  <2>3. DOMAIN param = Services /\ led.ms \in {0, 50, 80, 500, 760} /\ shells \in 0 .. 1
    BY DEF Services
  <2>4. /\ usb \in {"stop", "ready", "active", "suspended"} /\ ep \subseteq Configured
        /\ fatfs_mounted \in BOOLEAN /\ card \in Cards
    OBVIOUS
  <2>5. shelltp = FALSE
    BY Zenon
  <2>6. shells # 1
    OBVIOUS
  <2> QED
    BY ONLY <2>1, <2>2, <2>3, <2>4, <2>5, <2>6, Zenon DEF TypeInv, TypeOK, PinsType, Modes, Pulls
<1> QED
  BY <1>5, <1>6, <1>7, <1>8, <1>9 DEF IInv

(***************************************************************************)
(* A write of main to a pin.                                               *)
(***************************************************************************)
LEMMA SwitchPowerIInv == IInv /\ SwitchPower => IInv'
<1> SUFFICES ASSUME IInv, SwitchPower
             PROVE  IInv'
  OBVIOUS
<1> DEFINE w == Head(todo)
           rest == Tail(todo)
<1>1. /\ main \in {"power", "sdcard_power"} /\ todo # <<>> /\ Written(w) /\ todo' = rest
      /\ UNCHANGED <<main, started, led, usbVars, cardVars, shellVars, restVars>>
  BY DEF SwitchPower
<1>2. /\ todo \in Seq(Write) /\ w \in Write /\ w = todo[1] /\ rest \in Seq(Write)
      /\ 1 \in DOMAIN todo /\ DOMAIN todo = 1 .. Len(todo) /\ DOMAIN rest = 1 .. Len(rest)
      /\ Len(todo) \in Nat /\ Len(rest) = Len(todo) - 1
      /\ \A i \in DOMAIN rest : i + 1 \in DOMAIN todo /\ rest[i] = todo[i + 1]
  BY <1>1 DEF IInv, SafeInv
<1>3. SafeWrites(todo, Supplied, "MPU6000_CS" \in high)
  BY DEF IInv, SafeInv
<1> HIDE DEF w, rest
<1>4. \A s \in DOMAIN Feeds : ~SwitchesOff(w, s)
  BY <1>2, <1>3 DEF SafeWrites
<1>5. \A s \in DOMAIN Feeds : On(s)' <=> On(s) \/ SwitchesOn(w, s)
  BY <1>1, <1>4, FeedsNamed DEF Written, On, SwitchesOn, SwitchesOff
<1>6. ("MPU6000_CS" \in high)' <=> "MPU6000_CS" \in high \/ Raises(w)
  BY <1>1, <1>2, <1>3 DEF Written, Raises, SafeWrites
<1>7. \A p \in Pins : mode'[p] = IF w.to = "mode" /\ w.pin = p THEN w.mode ELSE mode[p]
  BY <1>1 DEF Written, IInv, TypeInv, TypeOK
<1>8. TypeInv'
  <2>1. \/ w \in Levelled
        \/ w \in Switched
    BY <1>2 DEF Write
  <2>2. /\ mode' \in [Pins -> Modes] /\ high' \subseteq Pins
        /\ af' \in [Pins -> 0 .. 15] /\ pull' \in [Pins -> Pulls]
    BY <1>1, <2>1 DEF Written, Levelled, Switched, IInv, TypeInv, TypeOK, Modes, Pulls
  <2> QED
    BY <1>1, <2>2 DEF IInv, TypeInv, TypeOK, usbVars, cardVars, shellVars, restVars, Modes, Pulls
<1>9. SafeInv'
  <2>1. SafeWrites(todo', Supplied', ("MPU6000_CS" \in high)')
    <3>1. ASSUME NEW i \in DOMAIN rest, NEW s \in DOMAIN Feeds
          PROVE  /\ ~SwitchesOff(rest[i], s)
                 /\ Drives(rest[i]) /\ rest[i].pin \in Feeds[s]
                      => s \in Supplied' \/ \E j \in 1 .. i - 1 : SwitchesOn(rest[j], s)
      <4>1. /\ ~SwitchesOff(todo[i + 1], s)
            /\ Drives(todo[i + 1]) /\ todo[i + 1].pin \in Feeds[s]
                 => s \in Supplied \/ \E j \in 1 .. i : SwitchesOn(todo[j], s)
        BY <1>2, <1>3 DEF SafeWrites
      <4>2. ASSUME NEW j \in 1 .. i, SwitchesOn(todo[j], s)
            PROVE  s \in Supplied' \/ \E k \in 1 .. i - 1 : SwitchesOn(rest[k], s)
        <5>1. j = 1 \/ (j - 1 \in 1 .. i - 1 /\ rest[j - 1] = todo[j])
          BY <1>2
        <5> QED
          BY <1>2, <1>5, <4>2, <5>1 DEF Supplied
      <4>3. s \in Supplied => s \in Supplied'
        BY <1>5 DEF Supplied
      <4> QED
        BY <1>2, <4>1, <4>2, <4>3
    <3>2. ASSUME NEW i \in DOMAIN rest
          PROVE  /\ ~(rest[i].pin = "MPU6000_CS" /\ rest[i].to = "clear")
                 /\ rest[i].pin = "MPU6000_CS" /\ Drives(rest[i])
                      => ("MPU6000_CS" \in high)' \/ \E j \in 1 .. i - 1 : Raises(rest[j])
      <4>1. /\ ~(todo[i + 1].pin = "MPU6000_CS" /\ todo[i + 1].to = "clear")
            /\ todo[i + 1].pin = "MPU6000_CS" /\ Drives(todo[i + 1])
                 => "MPU6000_CS" \in high \/ \E j \in 1 .. i : Raises(todo[j])
        BY <1>2, <1>3 DEF SafeWrites
      <4>2. ASSUME NEW j \in 1 .. i, Raises(todo[j])
            PROVE  ("MPU6000_CS" \in high)' \/ \E k \in 1 .. i - 1 : Raises(rest[k])
        <5>1. j = 1 \/ (j - 1 \in 1 .. i - 1 /\ rest[j - 1] = todo[j])
          BY <1>2
        <5> QED
          BY <1>2, <1>6, <4>2, <5>1
      <4> QED
        BY <1>2, <1>6, <4>1, <4>2
    <3> QED
      BY <1>1, <3>1, <3>2 DEF SafeWrites
  <2>2. ASSUME NEW s \in DOMAIN Feeds, NEW p \in Feeds[s], mode'[p] \in {"out", "alt"}
        PROVE  On(s)'
    <3>1. p \in Pins
      BY PinsNamed, FeedsNamed DEF UartPins, I2c2Pins, SpiPins, I2c1Pins, SdioPins, PinsA, PinsB, PinsC, PinsD
    <3>2. CASE w.to = "mode" /\ w.pin = p
      <4>1. Drives(w) /\ w.pin \in Feeds[s]
        BY <1>7, <2>2, <3>1, <3>2 DEF Drives
      <4>2. s \in Supplied
        BY <1>2, <1>3, <4>1 DEF SafeWrites
      <4> QED
        BY <1>5, <4>2 DEF Supplied
    <3>3. CASE ~(w.to = "mode" /\ w.pin = p)
      BY <1>5, <1>7, <2>2, <3>1, <3>3 DEF IInv, SafeInv, PinsAreSafe
    <3> QED
      BY <3>2, <3>3
  <2>3. mode'["MPU6000_CS"] = "out" => "MPU6000_CS" \in high'
    <3>1. "MPU6000_CS" \in Pins
      BY PinsNamed DEF PinsC
    <3>2. CASE w.to = "mode" /\ w.pin = "MPU6000_CS"
      BY <1>2, <1>3, <1>6, <1>7, <3>1, <3>2 DEF SafeWrites, Drives
    <3>3. CASE ~(w.to = "mode" /\ w.pin = "MPU6000_CS")
      BY <1>6, <1>7, <3>1, <3>3 DEF IInv, SafeInv, PinsAreSafe
    <3> QED
      BY <3>2, <3>3
  <2> QED
    BY <1>1, <1>2, <2>1, <2>2, <2>3 DEF SafeInv, PinsAreSafe, On
<1>10. WiringInv'
  <2>1. \A i \in DOMAIN todo : todo[i].to = "mode" /\ todo[i].pin \in UartPins
          => Fits(todo[i].pin, todo[i].mode, todo[i].af, todo[i].pull)
    BY DEF IInv, WiringInv
  <2>2. ASSUME NEW pin \in UartPins
        PROVE  \/ Fits(pin, mode'[pin], af'[pin], pull'[pin])
               \/ main' = "power" /\ \E i \in DOMAIN rest : rest[i].to = "mode" /\ rest[i].pin = pin
    <3>1. pin \in Pins
      BY PinsNamed DEF UartPins, PinsA, PinsB, PinsC
    <3>2. CASE w.to = "mode" /\ w.pin = pin
      <4>1. Fits(pin, w.mode, w.af, w.pull)
        BY <1>2, <2>1, <3>2
      <4>2. mode'[pin] = w.mode /\ af'[pin] = w.af /\ pull'[pin] = w.pull
        BY <1>1, <3>1, <3>2 DEF Written, IInv, TypeInv, TypeOK
      <4> QED
        BY <4>1, <4>2
    <3>3. CASE ~(w.to = "mode" /\ w.pin = pin)
      <4>1. mode'[pin] = mode[pin] /\ af'[pin] = af[pin] /\ pull'[pin] = pull[pin]
        BY <1>1, <3>1, <3>3 DEF Written, IInv, TypeInv, TypeOK
      <4>2. CASE FitsNow(pin)
        BY <4>1, <4>2 DEF FitsNow
      <4>3. CASE main = "power" /\ \E i \in DOMAIN todo : todo[i].to = "mode" /\ todo[i].pin = pin
        <5>1. PICK i \in DOMAIN todo : todo[i].to = "mode" /\ todo[i].pin = pin
          BY <4>3
        <5>2. i - 1 \in DOMAIN rest /\ rest[i - 1] = todo[i]
          BY <1>2, <3>3, <5>1
        <5> QED
          BY <1>1, <4>3, <5>1, <5>2
      <4> QED
        BY <4>2, <4>3 DEF IInv, WiringInv
    <3> QED
      BY <3>2, <3>3
  <2> QED
    BY <1>1, <1>2, <2>1, <2>2 DEF WiringInv, FitsNow
<1>11. MainInv' /\ HostInv'
  BY <1>1 DEF IInv, MainInv, HostInv, Running, restVars, usbVars
<1> QED
  BY <1>8, <1>9, <1>10, <1>11 DEF IInv

(***************************************************************************)
(* The other steps of main.                                                *)
(***************************************************************************)

\* A step that leaves the pins and the writes that are left alone.
LEMMA PinsKept ==
  IInv /\ UNCHANGED <<pinVars, todo>> /\ (main = "power" => main' = "power") => SafeInv' /\ WiringInv'
BY DEF IInv, SafeInv, WiringInv, SafeWrites, Supplied, PinsAreSafe, On, FitsNow, pinVars

LEMMA HostKept == IInv /\ UNCHANGED usbVars => HostInv'
BY DEF IInv, HostInv, usbVars

\* Between the two sequences of writes none is left, and every UART is wired.
LEMMA CreateLedIInv == IInv /\ CreateLed => IInv'
<1> SUFFICES ASSUME IInv, CreateLed
             PROVE  IInv'
  OBVIOUS
<1>1. /\ main = "power" /\ todo = <<>> /\ led' = [at |-> "get", ms |-> 0]
      /\ started' = {"CONN1"} /\ main' = "sdcard_power" /\ todo' = board_sdcard_pwr_en
      /\ UNCHANGED <<pinVars, usbVars, cardVars, shellVars, restVars>>
  BY DEF CreateLed, Goto
<1> DEFINE ws == board_sdcard_pwr_en
<1>2. /\ ws \in Seq(Write) /\ SafeWrites(ws, {}, FALSE)
      /\ \A i \in DOMAIN ws : ws[i].pin \notin UartPins
  BY CardWrites
<1> HIDE DEF ws
<1>3. SafeInv'
  <2>1. SafeWrites(ws, Supplied', ("MPU6000_CS" \in high)')
    BY <1>2 DEF SafeWrites
  <2>2. PinsAreSafe'
    BY <1>1 DEF IInv, SafeInv, PinsAreSafe, On, pinVars
  <2> QED
    BY <1>1, <1>2, <2>1, <2>2 DEF SafeInv, ws
<1>4. WiringInv'
  <2>1. \A pin \in UartPins : FitsNow(pin)
    BY <1>1 DEF IInv, WiringInv
  <2>2. \A pin \in UartPins : FitsNow(pin)'
    BY <1>1, <2>1 DEF FitsNow, pinVars
  <2>3. todo' = ws
    BY <1>1 DEF ws
  <2> QED
    BY <1>2, <2>2, <2>3 DEF WiringInv
<1>5. MainInv'
  BY <1>1 DEF IInv, MainInv, Mains, StartedAt, Running, restVars
<1>6. TypeInv'
  BY <1>1 DEF IInv, TypeInv, TypeOK, pinVars, usbVars, cardVars, shellVars, restVars
<1> QED
  BY <1>1, <1>3, <1>4, <1>5, <1>6, HostKept DEF IInv

LEMMA MountIInv == IInv /\ Mount => IInv'
<1> SUFFICES ASSUME IInv, Mount
             PROVE  IInv'
  OBVIOUS
<1>1. /\ main = "sdcard_power" /\ todo = <<>> /\ main' = "config" /\ fatfs_mounted' \in BOOLEAN
      /\ UNCHANGED <<pinVars, usbVars, todo, started, led, card, swaps, shellVars, restVars>>
  BY DEF Mount, SdcardMount, Goto
<1>2. MainInv'
  BY <1>1 DEF IInv, MainInv, Mains, StartedAt, Running, restVars
<1>3. TypeInv'
  BY <1>1 DEF IInv, TypeInv, TypeOK, pinVars, usbVars, shellVars, restVars
<1> QED
  BY <1>1, <1>2, <1>3, PinsKept, HostKept DEF IInv

\* Main reads the parameters before a port is open, and none but those there are.
LEMMA ReadParametersIInv == IInv /\ ReadParameters => IInv'
<1> SUFFICES ASSUME IInv, ReadParameters
             PROVE  IInv'
  OBVIOUS
<1>1. /\ main = "config" /\ main' = "io_setup"
      /\ param' = IF fatfs_mounted /\ card.there THEN card.config ++ param ELSE param
      /\ UNCHANGED <<pinVars, usbVars, todo, started, led, cardVars, shellVars, errors, port, in>>
  BY DEF ReadParameters, Goto
<1>2. DOMAIN param' = Services
  <2>1. DOMAIN param = Services
    BY DEF IInv, TypeInv, TypeOK
  <2>2. card.there => card.config \in Configs
    BY DEF IInv, TypeInv, Cards, NoCard
  <2>3. card.there => DOMAIN (card.config ++ param) = Services
    BY <2>1, <2>2, ConfigsAssumption DEF ++
  <2> QED
    BY <1>1, <2>1, <2>3
<1>3. MainInv'
  BY <1>1 DEF IInv, MainInv, Mains, StartedAt, Running
<1>4. TypeInv'
  BY <1>1, <1>2 DEF IInv, TypeInv, TypeOK, pinVars, usbVars, cardVars, shellVars
<1> QED
  BY <1>1, <1>3, <1>4, PinsKept, HostKept DEF IInv

LEMMA IoSetupIInv == IInv /\ IoSetup => IInv'
<1> SUFFICES ASSUME IInv, IoSetup
             PROVE  IInv'
  OBVIOUS
<1>1. /\ main = "io_setup" /\ main' = "usb"
      /\ started' = started \cup {"CONN2", "CONN3", "CONN4", "CONN_I2C"}
      /\ UNCHANGED <<pinVars, usbVars, todo, led, cardVars, shellVars, restVars>>
  BY DEF IoSetup, Goto
<1>2. MainInv'
  BY <1>1 DEF IInv, MainInv, Mains, StartedAt, Running, restVars
<1>3. TypeInv'
  BY <1>1 DEF IInv, TypeInv, TypeOK, pinVars, usbVars, cardVars, shellVars, restVars
<1> QED
  BY <1>1, <1>2, <1>3, PinsKept, HostKept DEF IInv

LEMMA UsbUpIInv == IInv /\ UsbUp => IInv'
<1> SUFFICES ASSUME IInv, UsbUp
             PROVE  IInv'
  OBVIOUS
<1>1. /\ main = "usb" /\ main' = "services" /\ started' = started \cup {"USB"}
      /\ usb' = "ready" /\ ep' = {} /\ known' = Unknown
      /\ UNCHANGED <<pinVars, todo, led, cardVars, shellVars, restVars>>
  BY DEF UsbUp, UsbStart, Goto
<1>2. MainInv'
  BY <1>1 DEF IInv, MainInv, Mains, StartedAt, AllPorts, Running, restVars
<1>3. TypeInv'
  BY <1>1 DEF IInv, TypeInv, TypeOK, pinVars, cardVars, shellVars, restVars
<1>4. HostInv'
  BY <1>1 DEF HostInv
<1> QED
  BY <1>1, <1>2, <1>3, <1>4, PinsKept DEF IInv

LEMMA ServicesStartIInv == IInv /\ ServicesStart => IInv'
<1> SUFFICES ASSUME IInv, ServicesStart
             PROVE  IInv'
  OBVIOUS
<1>1. /\ main = "services" /\ main' = "loop"
      /\ port' = [s \in Services |-> Device(param[s])]
      /\ UNCHANGED <<pinVars, usbVars, todo, started, led, cardVars, shellVars, errors, param, in>>
  BY DEF ServicesStart, Goto
<1>2. MainInv'
  BY <1>1 DEF IInv, MainInv, Mains, StartedAt, Running
<1>3. TypeInv'
  BY <1>1 DEF IInv, TypeInv, TypeOK, pinVars, usbVars, cardVars, shellVars
<1> QED
  BY <1>1, <1>2, <1>3, PinsKept, HostKept DEF IInv

\* A shell is created only where none is.
LEMMA LoopShellIInv == IInv /\ LoopShell => IInv'
<1> SUFFICES ASSUME IInv, LoopShell
             PROVE  IInv'
  OBVIOUS
<1>1. /\ main = "loop" /\ main' = "automount"
      /\ UNCHANGED <<pinVars, usbVars, todo, started, led, cardVars, restVars>>
  BY DEF LoopShell, Goto
<1>2. shells \in 0 .. 1 /\ shelltp \in BOOLEAN /\ (shells = 1 => shelltp)
  BY DEF IInv, TypeInv, TypeOK
<1>3. shells' \in 0 .. 1 /\ shelltp' \in BOOLEAN /\ (shells' = 1 => shelltp')
  <2>1. CASE ~shelltp /\ port["shell_port"] # NoDevice
    <3>1. shelltp' = TRUE /\ shells' = shells + 1
      BY <2>1 DEF LoopShell
    <3>2. shells # 1
      BY <1>2, <2>1
    <3> QED
      BY <1>2, <3>1, <3>2
  <2>2. CASE ~(~shelltp /\ port["shell_port"] # NoDevice)
    <3>1. shelltp' = (shelltp /\ shells > 0) /\ shells' = shells
      BY <2>2 DEF LoopShell
    <3>2. shells = 1 => shells > 0
      OBVIOUS
    <3>3. shells' \in 0 .. 1
      BY <1>2, <3>1
    <3>4. shelltp' \in BOOLEAN
      BY ONLY <3>1, Zenon
    <3>5. shells' = 1 => shelltp'
      BY ONLY <1>2, <3>1, <3>2, Zenon
    <3> QED
      BY <3>3, <3>4, <3>5
  <2> QED
    BY <2>1, <2>2
<1>4. MainInv'
  BY <1>1 DEF IInv, MainInv, Mains, StartedAt, Running, restVars
<1>5. TypeInv'
  <2>1. TypeOK'
    BY <1>1, <1>3 DEF IInv, TypeInv, TypeOK, pinVars, usbVars, cardVars, restVars
  <2>2. (card \in Cards)'
    BY <1>1 DEF IInv, TypeInv, cardVars, Cards
  <2> QED
    BY <1>3, <2>1, <2>2, Zenon DEF TypeInv
<1> QED
  BY <1>1, <1>4, <1>5, PinsKept, HostKept DEF IInv

LEMMA AutomountIInv == IInv /\ Automount => IInv'
<1> SUFFICES ASSUME IInv, Automount
             PROVE  IInv'
  OBVIOUS
<1>1. /\ main = "automount" /\ main' = "nap"
      /\ UNCHANGED <<pinVars, usbVars, todo, started, led, card, swaps, shellVars, restVars>>
  BY DEF Automount, Goto
<1>2. fatfs_mounted' \in BOOLEAN
  BY DEF Automount, SdcardMount, IInv, TypeInv, TypeOK
<1>3. MainInv'
  BY <1>1 DEF IInv, MainInv, Mains, StartedAt, Running, restVars
<1>4. TypeInv'
  BY <1>1, <1>2 DEF IInv, TypeInv, TypeOK, pinVars, usbVars, shellVars, restVars
<1> QED
  BY <1>1, <1>3, <1>4, PinsKept, HostKept DEF IInv

LEMMA WakeUpIInv == IInv /\ WakeUp => IInv'
<1> SUFFICES ASSUME IInv, WakeUp
             PROVE  IInv'
  OBVIOUS
<1>1. /\ main = "nap" /\ main' = "loop"
      /\ UNCHANGED <<pinVars, usbVars, todo, started, led, cardVars, shellVars, restVars>>
  BY DEF WakeUp, Goto
<1>2. MainInv'
  BY <1>1 DEF IInv, MainInv, Mains, StartedAt, Running, restVars
<1>3. TypeInv'
  BY <1>1 DEF IInv, TypeInv, TypeOK, pinVars, usbVars, cardVars, shellVars, restVars
<1> QED
  BY <1>1, <1>2, <1>3, PinsKept, HostKept DEF IInv

(***************************************************************************)
(* The LEDs: their pins feed nothing and are fed by no supply.             *)
(***************************************************************************)
Leds == {"LED_ERROR", "LED_HEARTBEAT", "LED_SDCARD"}

\* A step that may change the level of an LED and nothing else of the pins.
OnlyLeds == /\ UNCHANGED <<mode, af, pull>>
            /\ high' \subseteq high \cup Leds /\ high \subseteq high' \cup Leds

LEMMA LedWrites ==
  ASSUME NEW p \in Leds
  PROVE  Written(Set(p)) \/ Written(Clear(p)) \/ Toggled(p) => OnlyLeds
BY DEF Written, Set, Clear, Toggled, OnlyLeds

LEMMA LedsKeep ==
  IInv /\ OnlyLeds /\ UNCHANGED <<bootVars, usbVars, restVars>>
    => /\ SafeInv' /\ WiringInv' /\ MainInv' /\ HostInv' /\ high' \subseteq Pins
<1> SUFFICES ASSUME IInv, OnlyLeds, UNCHANGED <<bootVars, usbVars, restVars>>
             PROVE  /\ SafeInv' /\ WiringInv' /\ MainInv' /\ HostInv' /\ high' \subseteq Pins
  OBVIOUS
<1>1. high' \subseteq Pins
  BY PinsNamed DEF OnlyLeds, Leds, PinsA, PinsB, IInv, TypeInv, TypeOK
<1>2. /\ \A s \in DOMAIN Feeds : On(s)' <=> On(s)
      /\ ("MPU6000_CS" \in high)' <=> "MPU6000_CS" \in high
  BY FeedsNamed DEF OnlyLeds, Leds, On
<1>3. SafeInv'
  BY <1>2 DEF IInv, SafeInv, SafeWrites, Supplied, PinsAreSafe, OnlyLeds, bootVars
<1>4. WiringInv'
  BY DEF IInv, WiringInv, FitsNow, OnlyLeds, bootVars
<1>5. MainInv' /\ HostInv'
  BY DEF IInv, MainInv, HostInv, Running, bootVars, usbVars, restVars
<1> QED
  BY <1>1, <1>3, <1>4, <1>5

LEMMA LedStepIInv == IInv /\ LedStep => IInv'
<1> SUFFICES ASSUME IInv, LedStep
             PROVE  IInv'
  OBVIOUS
<1>1. (LedBlink \/ SdLed) /\ UNCHANGED <<usbVars, bootVars, cardVars, shellVars, restVars>>
  BY DEF LedStep
<1>2. OnlyLeds /\ led'.ms \in {0, 50, 80, 500, 760}
  <2>1. ASSUME LedBlink
        PROVE  OnlyLeds /\ led'.ms \in {0, 50, 80, 500, 760}
    BY <2>1, LedWrites DEF LedBlink, Leds, LedAt, IInv, TypeInv, TypeOK
  <2>2. ASSUME SdLed
        PROVE  OnlyLeds /\ led'.ms \in {0, 50, 80, 500, 760}
    <3>1. led'.ms = led.ms
      BY <2>2 DEF SdLed, LedAt
    <3>2. OnlyLeds
      <4>1. UNCHANGED pinVars => OnlyLeds
        BY DEF pinVars, OnlyLeds
      <4> QED
        BY <2>2, <4>1, LedWrites DEF SdLed, Leds
    <3> QED
      BY <3>1, <3>2 DEF IInv, TypeInv, TypeOK
  <2> QED
    BY <1>1, <2>1, <2>2
<1>3. TypeInv'
  BY <1>1, <1>2, LedsKeep DEF IInv, TypeInv, TypeOK, OnlyLeds, usbVars, cardVars, shellVars, restVars
<1> QED
  BY <1>1, <1>2, <1>3, LedsKeep DEF IInv

LEMMA SdCardActivityIInv == IInv /\ SdCardActivity => IInv'
<1> SUFFICES ASSUME IInv, SdCardActivity
             PROVE  IInv'
  OBVIOUS
<1>1. OnlyLeds /\ UNCHANGED <<usbVars, bootVars, led, cardVars, shellVars, restVars>>
  BY LedWrites DEF SdCardActivity, Leds
<1>2. TypeInv'
  BY <1>1, LedsKeep DEF IInv, TypeInv, TypeOK, OnlyLeds, usbVars, cardVars, shellVars, restVars
<1> QED
  BY <1>1, <1>2, LedsKeep DEF IInv

(***************************************************************************)
(* The services, the card and the host.                                    *)
(***************************************************************************)
LEMMA MainKept ==
  IInv /\ UNCHANGED <<pinVars, bootVars, param, port>> => SafeInv' /\ WiringInv' /\ MainInv'
<1> SUFFICES ASSUME IInv, UNCHANGED <<pinVars, bootVars, param, port>>
             PROVE  SafeInv' /\ WiringInv' /\ MainInv'
  OBVIOUS
<1>1. MainInv'
  BY DEF IInv, MainInv, Running, bootVars
<1> QED
  BY <1>1, PinsKept DEF bootVars

LEMMA ErrorSetIInv == \A level \in Levels : IInv /\ ErrorSet(level) => IInv'
<1> SUFFICES ASSUME NEW level \in Levels, IInv, ErrorSet(level)
             PROVE  IInv'
  OBVIOUS
<1>1. /\ errors[level] = 0 /\ errors' = [errors EXCEPT ![level] = @ + 1]
      /\ UNCHANGED <<pinVars, usbVars, bootVars, led, cardVars, shellVars, param, port, in>>
  BY DEF ErrorSet
<1>2. errors' \in [Levels -> 0 .. 1]
  BY <1>1 DEF IInv, TypeInv, TypeOK
<1>3. TypeInv'
  BY <1>1, <1>2 DEF IInv, TypeInv, TypeOK, pinVars, usbVars, cardVars, shellVars
<1> QED
  BY <1>1, <1>3, MainKept, HostKept DEF IInv

\* A frame is stored with no more channels than there is room for.
LEMMA RcFrameIInv == IInv /\ RcFrame => IInv'
<1> SUFFICES ASSUME IInv, RcFrame
             PROVE  IInv'
  OBVIOUS
<1>1. /\ UNCHANGED <<pinVars, usbVars, bootVars, led, cardVars, shellVars, errors, param, port>>
      /\ \E nb \in SUMD_CHANNELS :
           in' = IF nb > RC_INPUT_MAX_NB_CHANNELS THEN RC_INPUT_MAX_NB_CHANNELS ELSE nb
  BY DEF RcFrame
<1>2. in' \in 0 .. RC_INPUT_MAX_NB_CHANNELS
  BY <1>1, FirmwareAssumption
<1>3. TypeInv'
  BY <1>1, <1>2 DEF IInv, TypeInv, TypeOK, pinVars, usbVars, cardVars, shellVars
<1> QED
  BY <1>1, <1>3, MainKept, HostKept DEF IInv

LEMMA SwapCardIInv == IInv /\ SwapCard => IInv'
<1> SUFFICES ASSUME IInv, SwapCard
             PROVE  IInv'
  OBVIOUS
<1>1. /\ card' \in Cards /\ swaps < MaxSwaps /\ swaps' = swaps + 1
      /\ UNCHANGED <<pinVars, usbVars, bootVars, led, fatfs_mounted, shellVars, restVars>>
  BY DEF SwapCard
<1>2. swaps' \in 0 .. MaxSwaps
  BY <1>1, FirmwareAssumption DEF IInv, TypeInv, TypeOK
<1>3. TypeInv'
  BY <1>1, <1>2 DEF IInv, TypeInv, TypeOK, pinVars, usbVars, shellVars, restVars
<1> QED
  BY <1>1, <1>3, MainKept, HostKept DEF IInv, restVars

LEMMA ShellEndsIInv == IInv /\ ShellEnds => IInv'
<1> SUFFICES ASSUME IInv, ShellEnds
             PROVE  IInv'
  OBVIOUS
<1>1. /\ shells > 0 /\ shells' = shells - 1
      /\ UNCHANGED <<pinVars, usbVars, bootVars, led, cardVars, shelltp, restVars>>
  BY DEF ShellEnds
<1>2. shells' = 0
  BY <1>1 DEF IInv, TypeInv, TypeOK
<1>3. TypeInv'
  BY <1>1, <1>2 DEF IInv, TypeInv, TypeOK, pinVars, usbVars, cardVars, restVars
<1> QED
  BY <1>1, <1>3, MainKept, HostKept DEF IInv, restVars

\* The endpoints are set up by the only step that leads out of "ready".
LEMMA HostIInv == IInv /\ Host => IInv'
<1> SUFFICES ASSUME IInv, Host
             PROVE  IInv'
  OBVIOUS
<1>1. /\ \/ (BusReset \/ Enumerate \/ Suspend \/ Wakeup) /\ UNCHANGED shells
         \/ SetConfiguration /\ (shells' = 0 \/ UNCHANGED shells)
      /\ UNCHANGED <<pinVars, bootVars, led, cardVars, shelltp, restVars>>
  BY DEF Host
<1>2. /\ HostInv'
      /\ usb' \in {"stop", "ready", "active", "suspended"} /\ ep' \subseteq Configured
  <2>1. CASE BusReset
    BY <2>1 DEF BusReset, HostInv
  <2>2. CASE Enumerate
    BY <2>2 DEF Enumerate, HostInv, IInv, TypeInv, TypeOK
  <2>3. CASE SetConfiguration
    BY <2>3 DEF SetConfiguration, HostInv, IInv
  <2>4. CASE Suspend
    BY <2>4 DEF Suspend, HostInv, IInv, TypeInv, TypeOK
  <2>5. CASE Wakeup
    BY <2>5 DEF Wakeup, HostInv, IInv, TypeInv, TypeOK
  <2> QED
    BY <1>1, <2>1, <2>2, <2>3, <2>4, <2>5
<1>3. shells' \in 0 .. 1 /\ (shells' = 1 => shells = 1)
  BY <1>1 DEF IInv, TypeInv, TypeOK
<1>4. TypeInv'
  <2>1. TypeOK'
    BY <1>1, <1>2, <1>3 DEF IInv, TypeInv, TypeOK, pinVars, cardVars, restVars
  <2>2. (card \in Cards)'
    BY <1>1 DEF IInv, TypeInv, cardVars, Cards
  <2>3. shelltp' = shelltp
    BY <1>1
  <2> QED
    BY <1>3, <2>1, <2>2, <2>3, Zenon DEF IInv, TypeInv
<1> QED
  BY <1>1, <1>2, <1>4, MainKept DEF IInv, restVars

LEMMA StutterIInv == IInv /\ UNCHANGED vars => IInv'
<1> SUFFICES ASSUME IInv, UNCHANGED vars
             PROVE  IInv'
  OBVIOUS
<1>1. SafeInv' /\ WiringInv' /\ MainInv' /\ HostInv'
  BY MainKept, HostKept DEF vars, restVars
<1>2. TypeInv'
  BY DEF IInv, TypeInv, TypeOK, vars, pinVars, usbVars, cardVars, shellVars, restVars
<1> QED
  BY <1>1, <1>2 DEF IInv

(***************************************************************************)
(* The theorems.                                                           *)
(***************************************************************************)
\* The invariant of the start-up and of the loop of main.
THEOREM FirmwareInvariant == Spec => []IInv
<1>1. IInv /\ [Next]_vars => IInv'
  BY SwitchPowerIInv, CreateLedIInv, MountIInv, ReadParametersIInv, IoSetupIInv, UsbUpIInv,
     ServicesStartIInv, LoopShellIInv, AutomountIInv, WakeUpIInv, LedStepIInv,
     SdCardActivityIInv, ShellEndsIInv, RcFrameIInv, SwapCardIInv, HostIInv, ErrorSetIInv,
     StutterIInv DEF Next, MainStep
<1>2. QED
  BY <1>1, InitIInv, PTL DEF Spec

\* The pins, the ports and the threads keep their types: no frame has more
\* channels than there is room for, and the shell's working area never has two
\* threads, whoever ends a shell and whenever.
THEOREM FirmwareTypeCorrect == Spec => []TypeOK
BY FirmwareInvariant, Implied, PTL

\* In whatever order the LED thread and the card's activity come between the
\* writes, no pin drives a part that has no supply, and the chip select of the
\* gyroscope is high when it becomes an output.
THEOREM PinsAlwaysSafe == Spec => []PinsAreSafe
BY FirmwareInvariant, Implied, PTL

\* A port that is open, CONN_I2C excepted, has its pins, or the endpoints its host
\* was told of, and a service is on a port that is open, whatever the card names.
THEOREM PortsAlwaysReady == Spec => []PortsAreReady
BY FirmwareInvariant, Implied, PTL
=============================================================================
