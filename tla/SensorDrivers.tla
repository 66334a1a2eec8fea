---------------------------- MODULE SensorDrivers ----------------------------
(***************************************************************************)
(* The producing half of the sensor pipeline: the interrupt callback of    *)
(* exti.c and the three driver threads of onboardsensors.c (SPI: MPU6000;  *)
(* I2C: H3LIS331DL and HMC5883L; I2C barometer: MS5611), which share the   *)
(* I2C bus, publish each sample in a static cell under chSysLock() and     *)
(* broadcast it on sensor_events.                                          *)
(*                                                                         *)
(* A sample is abstracted to its index: cell[c] = n means that the n-th    *)
(* sample of that sensor is stored in c.  One action runs from one point   *)
(* where another thread or an interrupt can get in to the next.            *)
(***************************************************************************)
EXTENDS Kernel

CONSTANTS Started,   \* bound: the threads of the instance; others stay off
          MaxReady,  \* bound: data-ready edges of each pin
          MaxBaro    \* bound: barometer samples

ASSUME BoundsAssumption == /\ Started \subseteq Threads
                           /\ MaxReady \in [Pins -> Nat]
                           /\ MaxBaro \in Nat

VARIABLES
  pc,          \* where each thread is
  job,         \* what it is doing there: bus transaction, message, record
  todo,        \* the jobs its last event_flags still ask for
  flags,       \* el_flags of its event listener
  pending,     \* its event mask: EXTI_INTERRUPT_EVENT / ONBOARDSENSOR_EVENT
  registered,  \* the threads whose listener is registered
  bus,         \* owner of the I2CD1 bus mutex
  ready,       \* data-ready edges so far, i.e. conversions, of each sensor
  raw,         \* conversion the last register read of a sensor returned
  used,        \* conversion the published sample of a sensor holds
  cell,        \* the onboard_*_sample statics and the attitude quaternion
  cast,        \* broadcasts so far of each flag of sensor_events
  errors       \* error_level_cnt[]

kernelVars == <<flags, pending, registered>>
sampleVars == <<ready, raw, used, cell, cast>>
driverVars == <<pc, job, todo, kernelVars, bus, sampleVars, errors>>

Cells == {"gyro", "acc", "temp", "mag", "hiacc", "baro", "att"}

\* Mutant of Stores: the critical section forgets the acceleration.
StoresNoAcc == [MPU |-> {"gyro", "temp"}, HMC |-> {"mag"},
                H3LIS |-> {"hiacc"}, MS5611 |-> {"baro"}]

\* The cells one critical section of the sensor's driver stores together.
Stores == [MPU |-> {"gyro", "acc", "temp"}, HMC |-> {"mag"},
           H3LIS |-> {"hiacc"}, MS5611 |-> {"baro"}]

NoOne == "none"

(***************************************************************************)
(* Scheduling.  A thread in one of Asleep waits for a peripheral or a      *)
(* timer; the others wait for an event, for the bus, or can run.  One core *)
(* and fixed priorities: a thread takes a step only when no thread of      *)
(* higher priority can.  Interrupts come at any moment.                    *)
(***************************************************************************)
Asleep == {"off", "nap", "init", "xfer", "delay", "open", "busy", "dead"}

CanRun(t) == /\ pc[t] \notin Asleep
             /\ pc[t] = "wait" => pending[t]
             /\ pc[t] = "acq" => bus = NoOne

Running(t) == CanRun(t) /\ \A u \in Threads : Prio[u] > Prio[t] => ~CanRun(u)

Goto(t, l) == pc' = [pc EXCEPT ![t] = l]

Broadcast(listeners, f) ==
  /\ flags' = Collected(flags, listeners \cap registered, f)
  /\ pending' = Signalled(flags, pending, listeners \cap registered, f)

\* chEvtRegisterMaskWithFlags()
Register(t) == registered' = registered \cup {t}

\* chEvtWaitAny(): returns once the event mask is set, and clears the mask.
WaitAny(t) == /\ Running(t) /\ pc[t] = "wait"
              /\ pending' = [pending EXCEPT ![t] = FALSE]
              /\ Goto(t, "clear")
              /\ UNCHANGED <<job, todo, flags, registered, bus, sampleVars, errors>>

\* chEvtGetAndClearFlags()
TakeFlags(t) == flags' = [flags EXCEPT ![t] = {}]

\* gpio_exti_callback(): a rising edge on a data-ready pin.
DataReady(f) ==
  /\ ready[f] < MaxReady[f]
  /\ ready' = [ready EXCEPT ![f] = @ + 1]
  /\ Broadcast(Drivers, f)
  /\ UNCHANGED <<pc, job, todo, registered, bus, raw, used, cell, cast, errors>>

\* error_set(level)
ErrorSet(level) == errors' = [errors EXCEPT ![level] = @ + 1]

\* The critical section that stores a sample of sensor f, and the broadcast.
Publish(f) ==
  /\ cell' = [c \in Cells |-> IF c \in Stores[f] THEN cell[c] + 1 ELSE cell[c]]
  /\ used' = [used EXCEPT ![f] = raw[f]]

Announce(f) == /\ Broadcast(Consumers, f)
               /\ cast' = [cast EXCEPT ![f] = @ + 1]

(***************************************************************************)
(* The peripheral a thread sleeps on is done.  A register read returns the *)
(* latest conversion.                                                      *)
(***************************************************************************)
Wakes == [nap |-> "start", init |-> "inited", xfer |-> "got", delay |-> "acq",
          open |-> "opened", busy |-> "done"]

Completes(t) ==
  /\ pc[t] \in DOMAIN Wakes
  /\ Goto(t, Wakes[pc[t]])
  /\ raw' = IF pc[t] = "xfer" /\ job[t] \in Pins
              THEN [raw EXCEPT ![job[t]] = ready[job[t]]] ELSE raw
  /\ UNCHANGED <<job, todo, kernelVars, bus, ready, used, cell, cast, errors>>

(***************************************************************************)
(* Thread spi_sensors: MPU6000.                                            *)
(***************************************************************************)
SpiStart == /\ Running("spi") /\ pc["spi"] = "start"
            /\ Register("spi")
            /\ Goto("spi", "init")
            /\ UNCHANGED <<job, todo, flags, pending, bus, sampleVars, errors>>

\* mpu6000_init() fails when a ping does: the thread ends.
SpiInited == /\ Running("spi") /\ pc["spi"] = "inited"
             /\ \/ Goto("spi", "wait") /\ UNCHANGED errors
                \/ Goto("spi", "dead") /\ ErrorSet("CRITICAL")
             /\ UNCHANGED <<job, todo, kernelVars, bus, sampleVars>>

\* The flags are cleared and ignored: every wakeup reads the sensor.
SpiRead == /\ Running("spi") /\ pc["spi"] = "clear"
           /\ TakeFlags("spi")
           /\ Goto("spi", "xfer")
           /\ job' = [job EXCEPT !["spi"] = "MPU"]
           /\ UNCHANGED <<todo, pending, registered, bus, sampleVars, errors>>

SpiStore == /\ Running("spi") /\ pc["spi"] = "got"
            /\ Publish("MPU")
            /\ Goto("spi", "cast")
            /\ UNCHANGED <<job, todo, kernelVars, bus, ready, raw, cast, errors>>

SpiBroadcast == /\ Running("spi") /\ pc["spi"] = "cast"
                /\ Announce("MPU")
                /\ Goto("spi", "wait")
                /\ UNCHANGED <<job, todo, registered, bus, ready, raw, used, cell, errors>>

(***************************************************************************)
(* The I2C bus: i2cAcquireBus(), a transaction, i2cReleaseBus().           *)
(***************************************************************************)
I2cAcquire(t) == /\ t \in {"i2c", "baro"}
                 /\ Running(t) /\ pc[t] = "acq"
                 /\ bus' = t
                 /\ Goto(t, "xfer")
                 /\ UNCHANGED <<job, todo, kernelVars, sampleVars, errors>>

I2cRelease(t) == bus = t /\ bus' = NoOne

(***************************************************************************)
(* Thread i2c_sensors: the devices are set up one after the other, a       *)
(* device that does not answer costs a warning, and the barometer thread   *)
(* is created after its device's set-up whatever that returned.            *)
(***************************************************************************)
SetUp == [ms5611_init |-> "h3lis_ping", h3lis_ping |-> "h3lis_setup",
          h3lis_setup |-> "hmc_ping", hmc_ping |-> "hmc_setup",
          hmc_setup |-> "none"]

CanFail == {"ms5611_init", "h3lis_ping", "hmc_ping"}

I2cStart == /\ Running("i2c") /\ pc["i2c"] = "start"
            /\ Goto("i2c", "acq")
            /\ job' = [job EXCEPT !["i2c"] = "ms5611_init"]
            /\ UNCHANGED <<todo, kernelVars, bus, sampleVars, errors>>

I2cSetUp ==
  LET next == SetUp[job["i2c"]] IN
  /\ Running("i2c") /\ pc["i2c"] = "got" /\ job["i2c"] \in DOMAIN SetUp
  /\ I2cRelease("i2c")
  /\ \/ UNCHANGED errors
     \/ job["i2c"] \in CanFail /\ ErrorSet("WARNING")
  /\ pc' = [pc EXCEPT !["i2c"] = IF next = "none" THEN "wait" ELSE "acq",
                      !["baro"] = IF job["i2c"] = "ms5611_init" /\ MaxBaro > 0
                                    THEN "acq" ELSE @]
  /\ job' = [job EXCEPT !["i2c"] = next,
                        !["baro"] = IF job["i2c"] = "ms5611_init"
                                      THEN "start_temp" ELSE @]
  /\ registered' = IF next = "none" THEN registered \cup {"i2c"} ELSE registered
  /\ UNCHANGED <<todo, flags, pending, sampleVars>>

\* The sensors of S are read in this order, H3LIS331DL first.
I2cNext(S) ==
  /\ todo' = [todo EXCEPT !["i2c"] = S]
  /\ Goto("i2c", IF S = {} THEN "wait" ELSE "acq")
  /\ job' = [job EXCEPT !["i2c"] = IF "H3LIS" \in S THEN "H3LIS"
                                   ELSE IF "HMC" \in S THEN "HMC" ELSE "none"]

\* Mutant of I2cTakeFlags: "else if" between the two devices.
I2cTakeOneFlag ==
  /\ Running("i2c") /\ pc["i2c"] = "clear"
  /\ TakeFlags("i2c")
  /\ I2cNext(IF "H3LIS" \in flags["i2c"] THEN {"H3LIS"} ELSE flags["i2c"] \cap {"HMC"})
  /\ UNCHANGED <<pending, registered, bus, sampleVars, errors>>

I2cTakeFlags == /\ Running("i2c") /\ pc["i2c"] = "clear"
                /\ TakeFlags("i2c")
                /\ I2cNext(flags["i2c"] \cap Wanted["i2c"])
                /\ UNCHANGED <<pending, registered, bus, sampleVars, errors>>

I2cStore == /\ Running("i2c") /\ pc["i2c"] = "got" /\ job["i2c"] \in Pins
            /\ I2cRelease("i2c")
            /\ Publish(job["i2c"])
            /\ Goto("i2c", "cast")
            /\ UNCHANGED <<job, todo, kernelVars, ready, raw, cast, errors>>

I2cBroadcast == /\ Running("i2c") /\ pc["i2c"] = "cast"
                /\ Announce(job["i2c"])
                /\ I2cNext(todo["i2c"] \ {job["i2c"]})
                /\ UNCHANGED <<registered, bus, ready, raw, used, cell, errors>>

(***************************************************************************)
(* Thread i2c_barometer.  A conversion that does not start skips its delay *)
(* and its read; a sample is computed and published all the same.          *)
(***************************************************************************)
BaroAfterStart == [start_temp |-> "start_press", start_press |-> "publish"]
BaroAfterRead  == [read_temp |-> "start_press", read_press |-> "publish"]
BaroRead       == [start_temp |-> "read_temp", start_press |-> "read_press"]

BaroGoto(l, j) == /\ Goto("baro", l)
                  /\ job' = [job EXCEPT !["baro"] = j]

\* Mutant of BaroGot: the bus is kept over the delay of a conversion.
BaroGotKeepsBus ==
  LET After(j) == BaroGoto(IF j = "publish" THEN "store" ELSE "acq", j) IN
  /\ Running("baro") /\ pc["baro"] = "got"
  /\ \/ /\ job["baro"] \in DOMAIN BaroAfterStart
        /\ \/ BaroGoto("delay", BaroRead[job["baro"]]) /\ UNCHANGED bus
           \/ After(BaroAfterStart[job["baro"]]) /\ I2cRelease("baro")
     \/ /\ job["baro"] \in DOMAIN BaroAfterRead
        /\ After(BaroAfterRead[job["baro"]]) /\ I2cRelease("baro")
  /\ UNCHANGED <<todo, kernelVars, sampleVars, errors>>

BaroGot ==
  LET After(j) == BaroGoto(IF j = "publish" THEN "store" ELSE "acq", j) IN
  /\ Running("baro") /\ pc["baro"] = "got"
  /\ I2cRelease("baro")
  /\ \/ /\ job["baro"] \in DOMAIN BaroAfterStart
        /\ \/ BaroGoto("delay", BaroRead[job["baro"]])
           \/ After(BaroAfterStart[job["baro"]])
     \/ /\ job["baro"] \in DOMAIN BaroAfterRead
        /\ After(BaroAfterRead[job["baro"]])
  /\ UNCHANGED <<todo, kernelVars, sampleVars, errors>>

BaroStore == /\ Running("baro") /\ pc["baro"] = "store"
             /\ Publish("MS5611")
             /\ Goto("baro", "cast")
             /\ UNCHANGED <<job, todo, kernelVars, bus, ready, raw, cast, errors>>

BaroBroadcast ==
  /\ Running("baro") /\ pc["baro"] = "cast"
  /\ Announce("MS5611")
  /\ BaroGoto(IF cell["baro"] < MaxBaro THEN "acq" ELSE "off", "start_temp")
  /\ UNCHANGED <<todo, registered, bus, ready, raw, used, cell, errors>>

SpiStep  == SpiStart \/ SpiInited \/ WaitAny("spi") \/ SpiRead \/ SpiStore \/ SpiBroadcast
I2cStep  == I2cStart \/ I2cSetUp \/ WaitAny("i2c") \/ I2cTakeFlags
              \/ I2cAcquire("i2c") \/ I2cStore \/ I2cBroadcast
BaroStep == I2cAcquire("baro") \/ BaroGot \/ BaroStore \/ BaroBroadcast

DriverStep == SpiStep \/ I2cStep \/ BaroStep

(***************************************************************************)
(* services_start() runs in the main thread, above every thread here: all  *)
(* of them exist before the first of them runs, exti_setup() is done.      *)
(***************************************************************************)
DriverInit ==
  /\ pc = [t \in Threads |-> IF t \notin Started \/ t = "baro" THEN "off"
                             ELSE IF t = "attitude" THEN "nap" ELSE "start"]
  /\ job = [t \in Threads |-> "none"]
  /\ todo = [t \in Threads |-> {}]
  /\ flags = [t \in Threads |-> {}]
  /\ pending = [t \in Threads |-> FALSE]
  /\ registered = {}
  /\ bus = NoOne
  /\ ready = [p \in Pins |-> 0]
  /\ raw = [f \in Flags |-> 0]
  /\ used = [f \in Flags |-> 0]
  /\ cell = [c \in Cells |-> 0]
  /\ cast = [f \in Flags |-> 0]
  /\ errors = [l \in {"WARNING", "CRITICAL"} |-> 0]
=============================================================================
