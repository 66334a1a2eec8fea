------------------------------ MODULE BoardPins ------------------------------
(***************************************************************************)
(* The pins of the processor: what they are after a reset (board.h) and    *)
(* what the functions of board.c that switch the supplies make of them.    *)
(* A pin is an input, an output, the push-pull or the open-drain pin of a  *)
(* peripheral, or analog; the speed of the drivers is left out.  A         *)
(* function is the sequence of its writes to the pins.                     *)
(***************************************************************************)
EXTENDS Naturals, Sequences

VARIABLES mode,  \* mode[p]: MODER and OTYPER
          af,    \* af[p]: the alternate function, AFRL and AFRH
          pull,  \* pull[p]: PUPDR
          high   \* the pins whose bit in ODR is set

pinVars == <<mode, af, pull, high>>

UartPins   == {"UART4_TX_CONN2", "UART4_RX_CONN2", "UART2_TX_CONN3", "UART2_RX_CONN3",
               "UART1_TX_CONN1", "UART1_RX_CONN1", "UART6_TX_CONN4", "UART6_RX_CONN4"}
I2c2Pins   == {"I2C2_SCL_CONN", "I2C2_SDA_CONN"}
I2c1Pins   == {"I2C1_SCL", "I2C1_SDA"}
SpiPins    == {"SPI1_SCK", "SPI1_MISO", "SPI1_MOSI"}
SdioPins   == {"SDIO_D0", "SDIO_D1", "SDIO_D2", "SDIO_D3", "SDIO_CK", "SDIO_CMD"}

All(pins, m) == [p \in pins |-> m]

\* The function f where it is defined, and g elsewhere.
f ++ g == [x \in DOMAIN f \cup DOMAIN g |-> IF x \in DOMAIN f THEN f[x] ELSE g[x]]

\* The modes after a reset, port by port.
PortA == All({"UART4_TX_CONN2", "UART4_RX_CONN2", "UART2_TX_CONN3", "UART2_RX_CONN3",
              "USB_VBUS"} \cup SpiPins, "in")
         ++ All({"LED_HEARTBEAT", "LED_ERROR"}, "out") ++ All({"USB_DM", "USB_DP"}, "alt")
PortB == All({"HMC5883L_DRDY", "UART1_TX_CONN1", "UART1_RX_CONN1"} \cup I2c2Pins, "in")
         ++ All({"IO_POWER_EN", "LED_STATUS", "LED_SDCARD"}, "out")
         ++ All({"CAN2_RX_CONN", "CAN2_TX_CONN"}, "alt") ++ All(I2c1Pins, "open")
PortC == All({"SDCARD_DETECT", "MPU6000_INT", "MPU6000_FSYNC", "MPU6000_CS",
              "UART6_TX_CONN4", "UART6_RX_CONN4", "H3LIS331DL_INT"}
               \cup (SdioPins \ {"SDIO_CMD"}), "in")
         ++ All({"CAN_CONN_EN", "SDCARD_POWER_EN", "VCC_A_POWER_EN"}, "out")
         ++ All({"VBAT_MON_AIN"}, "analog")
PortD == All({"SDIO_CMD"}, "in")

\* The alternate functions and the pulls after a reset.
AfA == All({"UART4_TX_CONN2", "UART4_RX_CONN2"}, 8) ++ All({"UART2_TX_CONN3", "UART2_RX_CONN3"}, 7)
       ++ All(SpiPins, 5) ++ All({"USB_DM", "USB_DP"}, 10) ++ All(DOMAIN PortA, 0)
AfB == All({"UART1_TX_CONN1", "UART1_RX_CONN1"}, 7) ++ All(I2c1Pins \cup I2c2Pins, 4)
       ++ All({"CAN2_RX_CONN", "CAN2_TX_CONN"}, 9) ++ All(DOMAIN PortB, 0)
AfC == All({"UART6_TX_CONN4", "UART6_RX_CONN4"}, 8) ++ All(DOMAIN PortC, 0)

PullA == All(DOMAIN PortA, "none")
PullB == All({"HMC5883L_DRDY"}, "down") ++ All(DOMAIN PortB, "none")
PullC == All({"SDCARD_DETECT"}, "up") ++ All({"MPU6000_INT", "H3LIS331DL_INT"}, "down")
         ++ All(DOMAIN PortC, "none")

Pins == DOMAIN PortA \cup DOMAIN PortB \cup DOMAIN PortC \cup DOMAIN PortD

PinsReset == /\ mode = PortA ++ PortB ++ PortC ++ PortD
             /\ af = AfA ++ AfB ++ AfC ++ All(DOMAIN PortD, 0)
             /\ pull = PullA ++ PullB ++ PullC ++ All(DOMAIN PortD, "none")
             /\ high = {"CAN_CONN_EN", "SDCARD_POWER_EN"}

\* palSetPad(), palClearPad(), and palSetPadMode(), which sets mode, alternate
\* function and pull at once.
Set(p)                == [pin |-> p, to |-> "set"]
Clear(p)              == [pin |-> p, to |-> "clear"]
Mode(p, m, n, resist) == [pin |-> p, to |-> "mode", mode |-> m, af |-> n, pull |-> resist]

Written(w) ==
  /\ high' = CASE w.to = "set" -> high \cup {w.pin}
               [] w.to = "clear" -> high \ {w.pin}
               [] OTHER -> high
  /\ IF w.to = "mode"
       THEN /\ mode' = [mode EXCEPT ![w.pin] = w.mode]
            /\ af' = [af EXCEPT ![w.pin] = w.af]
            /\ pull' = [pull EXCEPT ![w.pin] = w.pull]
       ELSE UNCHANGED <<mode, af, pull>>

Toggled(p) == /\ high' = (IF p \in high THEN high \ {p} ELSE high \cup {p})
              /\ UNCHANGED <<mode, af, pull>>

Out(p)          == Mode(p, "out", 0, "none")
Alternate(p, n) == Mode(p, "alt", n, "none")
PulledUp(p, n)  == Mode(p, "alt", n, "up")
Open(p, n)      == Mode(p, "open", n, "none")

\* Mutant of board_io_pwr_en: a pin has the number of its neighbours.
board_io_pwr_en_af ==
  <<Set("IO_POWER_EN"),
    Alternate("UART4_TX_CONN2", 8), PulledUp("UART4_RX_CONN2", 8),
    Alternate("UART2_TX_CONN3", 7), PulledUp("UART2_RX_CONN3", 7),
    Alternate("UART1_TX_CONN1", 7), PulledUp("UART1_RX_CONN1", 7),
    Alternate("UART6_TX_CONN4", 8), PulledUp("UART6_RX_CONN4", 7),
    Open("I2C2_SCL_CONN", 4), Open("I2C2_SDA_CONN", 4)>>

\* The functions with en = true, which is how they are called.
board_io_pwr_en ==
  <<Set("IO_POWER_EN"),
    Alternate("UART4_TX_CONN2", 8), PulledUp("UART4_RX_CONN2", 8),
    Alternate("UART2_TX_CONN3", 7), PulledUp("UART2_RX_CONN3", 7),
    Alternate("UART1_TX_CONN1", 7), PulledUp("UART1_RX_CONN1", 7),
    Alternate("UART6_TX_CONN4", 8), PulledUp("UART6_RX_CONN4", 8),
    Open("I2C2_SCL_CONN", 4), Open("I2C2_SDA_CONN", 4)>>

\* Mutant of board_sensor_pwr_en: the level of the chip select is set last.
board_sensor_pwr_en_late ==
  <<Set("VCC_A_POWER_EN"),
    Alternate("SPI1_SCK", 5), Alternate("SPI1_MISO", 5), Alternate("SPI1_MOSI", 5),
    Out("MPU6000_FSYNC"), Out("MPU6000_CS"), Set("MPU6000_CS"),
    Open("I2C1_SCL", 4), Open("I2C1_SDA", 4)>>

board_sensor_pwr_en ==
  <<Set("VCC_A_POWER_EN"),
    Alternate("SPI1_SCK", 5), Alternate("SPI1_MISO", 5), Alternate("SPI1_MOSI", 5),
    Out("MPU6000_FSYNC"), Set("MPU6000_CS"), Out("MPU6000_CS"),
    Open("I2C1_SCL", 4), Open("I2C1_SDA", 4)>>

board_sdcard_pwr_en ==
  <<Clear("SDCARD_POWER_EN"),
    PulledUp("SDIO_D0", 12), PulledUp("SDIO_D1", 12), PulledUp("SDIO_D2", 12),
    Alternate("SDIO_D3", 12), PulledUp("SDIO_CK", 12), PulledUp("SDIO_CMD", 12)>>

\* The UART of each connector, its pins, and the number of its function.  The pads
\* of CONN_I2C are shared with I2C2: board.h:55-56 give them to USART3 as well.
UART == [CONN1 |-> [tx |-> "UART1_TX_CONN1", rx |-> "UART1_RX_CONN1", af |-> 7],
         CONN2 |-> [tx |-> "UART4_TX_CONN2", rx |-> "UART4_RX_CONN2", af |-> 8],
         CONN3 |-> [tx |-> "UART2_TX_CONN3", rx |-> "UART2_RX_CONN3", af |-> 7],
         CONN4 |-> [tx |-> "UART6_TX_CONN4", rx |-> "UART6_RX_CONN4", af |-> 8],
         CONN_I2C |-> [tx |-> "I2C2_SCL_CONN", rx |-> "I2C2_SDA_CONN", af |-> 7]]

\* What a supply feeds, and whether it is on.
Feeds == [IO_POWER_EN     |-> UartPins \cup I2c2Pins,
          VCC_A_POWER_EN  |-> SpiPins \cup I2c1Pins \cup {"MPU6000_CS", "MPU6000_FSYNC"},
          SDCARD_POWER_EN |-> SdioPins]
On(supply) == (supply \in high) = (supply # "SDCARD_POWER_EN")
=============================================================================
