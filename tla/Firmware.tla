------------------------------- MODULE Firmware -------------------------------
(***************************************************************************)
(* main.c: the start-up from the reset to the loop, the loop with the      *)
(* shell and the automount, led_task, and the services that get their      *)
(* ports from the configuration, over the pins of BoardPins and the USB    *)
(* device of UsbSerial.  What the services do is the subject of other      *)
(* modules; a panic is in BootState.                                       *)
(***************************************************************************)
EXTENDS BoardPins, UsbSerial

CONSTANTS Configs,    \* the configurations a card can have: service -> port
          Levels,     \* of error_set(), each at most once
          RC_INPUT_MAX_NB_CHANNELS,
          SUMD_CHANNELS,  \* the numbers of channels a frame can have
          safemode,   \* whether this boot is one
          MaxSwaps    \* bound: times the card is pulled or inserted

ASSUME FirmwareAssumption == /\ Levels \subseteq {"WARNING", "CRITICAL"}
                             /\ RC_INPUT_MAX_NB_CHANNELS \in Nat
                             /\ SUMD_CHANNELS \subseteq Nat /\ MaxSwaps \in Nat
                             /\ safemode \in BOOLEAN

VARIABLES
  main, todo,     \* where main is; the writes to pins that are left
  led,            \* led_task: where it is and how long it sleeps there
  errors,         \* error_level_cnt[]
  card, swaps,    \* the card in the slot: its configuration, or none
  fatfs_mounted,
  param,          \* the port parameters
  started,        \* the serial drivers that run
  port,           \* the port each service was started with
  shelltp, shells, \* main's pointer; the threads on shell_wa
  in              \* nb_channels of sumd_input.c

bootVars  == <<main, todo, started>>
cardVars  == <<card, swaps, fatfs_mounted>>
shellVars == <<shelltp, shells>>
restVars  == <<errors, param, port, in>>
vars == <<pinVars, usbVars, bootVars, led, cardVars, shellVars, restVars>>

NoDevice == "NULL"
NoCard   == [there |-> FALSE]

Defaults == [shell_port |-> "CONN1", sumd_input |-> "CONN2", datagram_message_port |-> "CONN3"]
Services == DOMAIN Defaults

\* sdcard_read_parameter() reads no parameters but those that were declared.
ASSUME ConfigsAssumption == \A c \in Configs : DOMAIN c \subseteq Services

\* get_base_seq_stream_device_from_str()
Device(name) == IF name \in {"CONN1", "CONN2", "CONN3", "CONN4", "CONN_I2C", "USB"}
                  THEN name ELSE NoDevice

(***************************************************************************)
(* main() up to its loop.                                                  *)
(***************************************************************************)
Goto(l) == main' = l

\* The supplies are switched with interrupts off, but a step is seen outside.
SwitchPower == /\ main \in {"power", "sdcard_power"} /\ todo # <<>>
               /\ Written(Head(todo))
               /\ todo' = Tail(todo)
               /\ UNCHANGED <<main, started, led, usbVars, cardVars, shellVars, restVars>>

\* The LED thread, the standard output, and the defaults of the parameters.
CreateLed == /\ main = "power" /\ todo = <<>>
             /\ led' = [at |-> "get", ms |-> 0]
             /\ started' = {"CONN1"}
             /\ Goto("sdcard_power") /\ todo' = board_sdcard_pwr_en
             /\ UNCHANGED <<pinVars, usbVars, cardVars, shellVars, restVars>>

\* sdcard_mount(): a card that is there may not connect or mount.
SdcardMount == fatfs_mounted' \in (IF card.there THEN BOOLEAN ELSE {FALSE})

Mount == /\ main = "sdcard_power" /\ todo = <<>>
         /\ SdcardMount
         /\ Goto("config")
         /\ UNCHANGED <<pinVars, usbVars, todo, started, led, card, swaps, shellVars, restVars>>

\* sdcard_read_parameter(): the parameters the card names.
ReadParameters ==
  /\ main = "config"
  /\ param' = IF fatfs_mounted /\ card.there THEN card.config ++ param ELSE param
  /\ Goto("io_setup")
  /\ UNCHANGED <<pinVars, usbVars, todo, started, led, cardVars, shellVars>>
  /\ UNCHANGED <<errors, port, in>>

IoSetup == /\ main = "io_setup"
           /\ started' = started \cup {"CONN2", "CONN3", "CONN4", "CONN_I2C"}
           /\ Goto("usb")
           /\ UNCHANGED <<pinVars, usbVars, todo, led, cardVars, shellVars, restVars>>

UsbUp == /\ main = "usb"
         /\ started' = started \cup {"USB"}
         /\ UsbStart
         /\ Goto("services")
         /\ UNCHANGED <<pinVars, todo, led, cardVars, shellVars, restVars>>

\* services_start(): without a port a service is not started.
ServicesStart ==
  /\ main = "services"
  /\ port' = [s \in Services |-> Device(param[s])]
  /\ Goto("loop")
  /\ UNCHANGED <<pinVars, usbVars, todo, started, led, cardVars, shellVars>>
  /\ UNCHANGED <<errors, param, in>>

(***************************************************************************)
(* The loop.                                                               *)
(***************************************************************************)

\* Mutant of LoopShell: the pointer is cleared without asking for the thread.
LoopShellUnasked ==
  /\ main = "loop"
  /\ IF ~shelltp /\ port["shell_port"] # NoDevice
       THEN shelltp' = TRUE /\ shells' = shells + 1
       ELSE shelltp' = FALSE /\ UNCHANGED shells
  /\ Goto("automount")
  /\ UNCHANGED <<pinVars, usbVars, todo, started, led, cardVars, restVars>>

\* Mutant of LoopShell: an ended shell is not noticed.
LoopShellOnce ==
  /\ main = "loop"
  /\ IF ~shelltp /\ port["shell_port"] # NoDevice
       THEN shelltp' = TRUE /\ shells' = shells + 1
       ELSE UNCHANGED shellVars
  /\ Goto("automount")
  /\ UNCHANGED <<pinVars, usbVars, todo, started, led, cardVars, restVars>>

\* The shell is created on its working area, or is found to have ended.
LoopShell ==
  /\ main = "loop"
  /\ IF ~shelltp /\ port["shell_port"] # NoDevice
       THEN shelltp' = TRUE /\ shells' = shells + 1
       ELSE shelltp' = (shelltp /\ shells > 0) /\ UNCHANGED shells
  /\ Goto("automount")
  /\ UNCHANGED <<pinVars, usbVars, todo, started, led, cardVars, restVars>>

Automount == /\ main = "automount"
             /\ IF ~card.there THEN fatfs_mounted' = FALSE
                ELSE IF ~fatfs_mounted THEN SdcardMount
                ELSE UNCHANGED fatfs_mounted
             /\ Goto("nap")
             /\ UNCHANGED <<pinVars, usbVars, todo, started, led, card, swaps, shellVars, restVars>>

WakeUp == /\ main = "nap"
          /\ Goto("loop")
          /\ UNCHANGED <<pinVars, usbVars, todo, started, led, cardVars, shellVars, restVars>>

MainStep == \/ SwitchPower \/ CreateLed \/ Mount \/ ReadParameters \/ IoSetup \/ UsbUp
            \/ ServicesStart \/ LoopShell \/ Automount \/ WakeUp

\* The shell ends: its user logs out.
ShellEnds == /\ shells > 0
             /\ shells' = shells - 1
             /\ UNCHANGED <<pinVars, usbVars, bootVars, led, cardVars, shelltp, restVars>>

(***************************************************************************)
(* led_task.                                                               *)
(***************************************************************************)

\* Mutant of error_level_get: the warnings are looked at first.
error_level_get_low == IF "WARNING" \in Levels /\ errors["WARNING"] > 0 THEN "WARNING"
                       ELSE IF "CRITICAL" \in Levels /\ errors["CRITICAL"] > 0 THEN "CRITICAL"
                       ELSE "NORMAL"

error_level_get == IF "CRITICAL" \in Levels /\ errors["CRITICAL"] > 0 THEN "CRITICAL"
                   ELSE IF "WARNING" \in Levels /\ errors["WARNING"] > 0 THEN "WARNING"
                   ELSE "NORMAL"

LedAt(l, ms) == led' = [at |-> l, ms |-> ms]

\* A turn: a blink of the error LED, or two of the heartbeat.
LedBlink ==
  \/ /\ led.at = "get"
     /\ \/ /\ error_level_get = "WARNING"
           /\ Written(Set("LED_ERROR")) /\ LedAt("on", 500)
        \/ /\ error_level_get = "CRITICAL"
           /\ Written(Set("LED_ERROR")) /\ LedAt("on", 50)
        \/ /\ error_level_get = "NORMAL"
           /\ Written(Set("LED_HEARTBEAT")) /\ LedAt("beat", 80)
  \/ led.at = "on"   /\ Written(Clear("LED_ERROR"))     /\ LedAt("off", led.ms)
  \/ led.at = "beat" /\ Written(Clear("LED_HEARTBEAT")) /\ LedAt("gap", 80)
  \/ led.at = "gap"  /\ Written(Set("LED_HEARTBEAT"))   /\ LedAt("beat2", 80)
  \/ /\ led.at = "beat2"
     /\ Written(Clear("LED_HEARTBEAT")) /\ LedAt("off", IF safemode THEN 80 ELSE 760)

\* and then the SD LED, in two steps main can come between.
SdLed ==
  \/ /\ led.at = "off" /\ UNCHANGED pinVars
     /\ LedAt(IF fatfs_mounted THEN "sd_on" ELSE "sd_off", led.ms)
  \/ led.at = "sd_on"  /\ Written(Set("LED_SDCARD"))   /\ LedAt("get", led.ms)
  \/ led.at = "sd_off" /\ Written(Clear("LED_SDCARD")) /\ LedAt("get", led.ms)

LedStep == /\ LedBlink \/ SdLed
           /\ UNCHANGED <<usbVars, bootVars, cardVars, shellVars, restVars>>

\* sd_card_activity(), from disk_read() and disk_write().
SdCardActivity ==
  /\ main \notin {"power"} /\ "SDCARD_POWER_EN" \notin high /\ card.there
  /\ Toggled("LED_SDCARD")
  /\ UNCHANGED <<usbVars, bootVars, led, cardVars, shellVars, restVars>>

(***************************************************************************)
(* The services, the card and the host, as far as they matter here.        *)
(***************************************************************************)
Running == main \in {"loop", "automount", "nap"}

\* A driver finds a sensor that does not answer.
ErrorSet(level) ==
  /\ Running /\ errors[level] = 0
  /\ errors' = [errors EXCEPT ![level] = @ + 1]
  /\ UNCHANGED <<pinVars, usbVars, bootVars, led, cardVars, shellVars>>
  /\ UNCHANGED <<param, port, in>>

\* sumd_input_task() stores a frame.
RcFrame ==
  /\ Running /\ port["sumd_input"] # NoDevice
  /\ \E nb \in SUMD_CHANNELS :
       in' = IF nb > RC_INPUT_MAX_NB_CHANNELS THEN RC_INPUT_MAX_NB_CHANNELS ELSE nb
  /\ UNCHANGED <<pinVars, usbVars, bootVars, led, cardVars, shellVars>>
  /\ UNCHANGED <<errors, param, port>>

Cards == {NoCard} \cup {[there |-> TRUE, config |-> c] : c \in Configs}

SwapCard == /\ swaps < MaxSwaps
            /\ card' \in Cards \ {card} /\ (card.there => ~card'.there)
            /\ swaps' = swaps + 1
            /\ UNCHANGED <<pinVars, usbVars, bootVars, led, fatfs_mounted, shellVars, restVars>>

\* The host: when it configures the device the queues of the port are reset, and
\* a shell that waits for input sees its end; one inside a command goes on.
Host ==
  /\ \/ (BusReset \/ Enumerate \/ Suspend \/ Wakeup) /\ UNCHANGED shells
     \/ /\ SetConfiguration
        /\ shells' \in {shells} \cup (IF port["shell_port"] = "USB" THEN {0} ELSE {})
  /\ UNCHANGED <<pinVars, bootVars, led, cardVars, shelltp, restVars>>

Init ==
  /\ PinsReset
  /\ usb = "stop" /\ ep = {} /\ known = Unknown
  /\ main = "power" /\ todo = board_io_pwr_en \o board_sensor_pwr_en
  /\ led = [at |-> "none", ms |-> 0]
  /\ errors = [l \in Levels |-> 0]
  /\ card \in Cards /\ swaps = 0 /\ fatfs_mounted = FALSE
  /\ param = Defaults /\ started = {}
  /\ port = [s \in Services |-> NoDevice]
  /\ shelltp = FALSE /\ shells = 0 /\ in = 0

Next == \/ MainStep \/ LedStep \/ SdCardActivity \/ ShellEnds \/ RcFrame \/ SwapCard \/ Host
        \/ \E level \in Levels : ErrorSet(level)

\* main sleeps and never blocks for good; led_task, which has the lowest
\* priority, gets its turns because the threads above it wait for events.
Spec == Init /\ [][Next]_vars /\ WF_vars(MainStep) /\ WF_vars(LedStep)

(***************************************************************************)
(* Properties.                                                             *)
(***************************************************************************)
\* The types of the pins, the ports and the threads: a frame is not stored with
\* more channels than there is room for, and the working area of the shell has
\* one thread at a time.
TypeOK ==
  /\ mode \in [Pins -> {"in", "out", "alt", "open", "analog"}] /\ high \subseteq Pins
  /\ af \in [Pins -> 0 .. 15] /\ pull \in [Pins -> {"none", "up", "down"}]
  /\ usb \in {"stop", "ready", "active", "suspended"} /\ ep \subseteq Configured
  /\ led.ms \in {0, 50, 80, 500, 760}
  /\ errors \in [Levels -> 0 .. 1] /\ fatfs_mounted \in BOOLEAN /\ swaps \in 0 .. MaxSwaps
  /\ DOMAIN param = Services
  /\ in \in 0 .. RC_INPUT_MAX_NB_CHANNELS
  /\ shells \in 0 .. 1

\* A pin drives what is on the other side only while that has its supply, and
\* the chip select of the gyroscope is high from the moment it is an output.
PinsAreSafe ==
  /\ \A s \in DOMAIN Feeds : \A p \in Feeds[s] : mode[p] \in {"out", "alt"} => On(s)
  /\ mode["MPU6000_CS"] = "out" => "MPU6000_CS" \in high

\* A serial driver that runs has both its pins, with the function of its own
\* UART, and the line it reads is pulled up, since nothing need be plugged in.
Wired(p) == /\ \A pin \in {UART[p].tx, UART[p].rx} : mode[pin] = "alt" /\ af[pin] = UART[p].af
            /\ pull[UART[p].rx] = "up"

\* Every port that is open, CONN_I2C excepted, works: a UART has its pins, a USB
\* host was told of all of the device and, once it has configured it, every
\* endpoint it was told of is served.  A service that has a port is on one that
\* is open.  CONN_I2C is open, and a service can be put on it, but its pins keep
\* the function of I2C2 (board.c:98-99), so that the service is mute.
PortsAreReady ==
  /\ \A p \in started \ {"USB", "CONN_I2C"} : Wired(p)
  /\ known.whole
  /\ usb \in {"active", "suspended"} => \A e \in known.endpoints : Served(e)
  /\ \A s \in Services : port[s] \in started \cup {NoDevice}

\* A shell that ended, or was ended by a host that configured the device, is
\* followed by another.
ShellComesBack ==
  (main = "loop" /\ shells = 0 /\ port["shell_port"] # NoDevice) ~> (shells > 0)

\* The LEDs end up telling the truth.  The most severe error is shown for good:
\* from the turn after it was set the heartbeat is off and the error LED blinks
\* at its rate.  The SD LED shows again and again whether the volume is mounted,
\* whatever the accesses to the card, a change of card, or a change between the
\* look at fatfs_mounted and the write to the pin have made of it.
IsSet(level) == level \in Levels /\ errors[level] > 0
LedsAreTrue ==
  /\ <>[](IsSet("WARNING") \/ IsSet("CRITICAL") => "LED_HEARTBEAT" \notin high)
  /\ <>[](IsSet("CRITICAL") => led.ms = 50)
  /\ <>[](IsSet("WARNING") /\ ~IsSet("CRITICAL") => led.ms = 500)
  /\ []<>(("LED_SDCARD" \in high) = fatfs_mounted)
=============================================================================
