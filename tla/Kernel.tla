------------------------------- MODULE Kernel -------------------------------
(***************************************************************************)
(* What the firmware uses of the ChibiOS/RT kernel: fixed thread           *)
(* priorities on one core and event sources with flags.  The kernel itself *)
(* is a git submodule; its two operators below are modelled from the calls *)
(* in onboardsensors.c, exti.c, stream.c, sdlog.c and                      *)
(* attitude_determination.cpp.  Priorities come from thread_prio.h.        *)
(***************************************************************************)
EXTENDS Naturals

\* The threads of the sensor pipeline, by the file that creates them.
Drivers   == {"spi", "i2c", "baro"}           \* onboardsensors.c
Consumers == {"attitude", "stream", "sdlog"}  \* listen to sensor_events
Threads   == Drivers \cup Consumers

\* Mutant of Prio: the filter below the drivers.
PrioFilterLow == [attitude |-> 9, spi |-> 11, i2c |-> 10, baro |-> 10,
                  stream |-> 4, sdlog |-> 2]

\* thread_prio.h; sdlog is created with LOWPRIO, which is 2 in ChibiOS 3.
Prio == [attitude |-> 20, spi |-> 11, i2c |-> 10, baro |-> 10,
         stream |-> 4, sdlog |-> 2]

\* One flag per sensor.  exti_events carries the first three, sensor_events
\* all four; every thread listens to one of the two sources.
Flags == {"MPU", "HMC", "H3LIS", "MS5611"}
Pins  == {"MPU", "HMC", "H3LIS"}

\* The el_wflags each thread gives to chEvtRegisterMaskWithFlags().
Wanted == [spi |-> {"MPU"}, i2c |-> {"H3LIS", "HMC"}, baro |-> {},
           attitude |-> {"MPU", "HMC"}, stream |-> Flags, sdlog |-> {"MPU"}]

\* chEvtBroadcastFlags(): every listener in hit collects the flag f, wanted
\* or not, and is signalled when what it has collected meets its mask.
Collected(flags, hit, f) ==
  [t \in Threads |-> IF t \in hit THEN flags[t] \cup {f} ELSE flags[t]]

Signalled(flags, pending, hit, f) ==
  [t \in Threads |->
     pending[t] \/ (t \in hit /\ (flags[t] \cup {f}) \cap Wanted[t] # {})]
=============================================================================
