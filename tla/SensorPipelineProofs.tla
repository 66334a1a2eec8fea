------------------------ MODULE SensorPipelineProofs ------------------------
(***************************************************************************)
(* Proofs about SensorPipeline, for every set of started threads and every *)
(* number of samples.                                                      *)
(***************************************************************************)
EXTENDS SensorPipeline, TLAPS

(***************************************************************************)
(* Types.  JobAtCast is what makes TypeOK inductive: the I2C driver        *)
(* announces only what it has just read.                                   *)
(***************************************************************************)
JobAtCast == /\ job["i2c"] # "MPU"
             /\ pc["i2c"] = "cast" => job["i2c"] \in {"HMC", "H3LIS"}

TypeInv == TypeOK /\ JobAtCast

\* The jobs the consumers derive from their flags, and the first of them.
LEMMA JobsType ==
  /\ \A t \in Consumers : \A F : JobsOf(t, F) \subseteq Jobs
  /\ \A S : First(S) \in Jobs
  /\ \A j \in Jobs, S \in SUBSET Jobs : S \ {j} \in SUBSET Jobs
BY DEF JobsOf, First, Jobs, Reads, Consumers

\* Starting or finishing a job keeps the types of what it assigns.
LEMMA NextJobType ==
  ASSUME TypeInv, NEW t \in Consumers, NEW S \in SUBSET Jobs, NextJob(t, S)
  PROVE  /\ pc' \in [Threads -> Labels] /\ job' \in [Threads -> Jobs]
         /\ todo' \in [Threads -> SUBSET Jobs] /\ rd' \in [Consumers -> Nat]
         /\ pc'["i2c"] = pc["i2c"] /\ job'["i2c"] = job["i2c"]
BY JobsType DEF TypeInv, TypeOK, NextJob, Goto, Threads, Drivers, Consumers, Labels

LEMMA FinishType ==
  ASSUME TypeInv, NEW t \in Consumers, Finish(t)
  PROVE  /\ pc' \in [Threads -> Labels] /\ job' \in [Threads -> Jobs]
         /\ todo' \in [Threads -> SUBSET Jobs] /\ rd' \in [Consumers -> Nat]
         /\ pc'["i2c"] = pc["i2c"] /\ job'["i2c"] = job["i2c"]
<1>1. todo[t] \ {job[t]} \in SUBSET Jobs
  BY DEF TypeInv, TypeOK, Threads
<1>2. NextJob(t, todo[t] \ {job[t]})
  BY DEF Finish
<1>3. QED
  BY <1>1, <1>2, NextJobType

LEMMA TypeInit == Init => TypeInv
BY BoundsAssumption
   DEF Init, DriverInit, TypeInv, JobAtCast, TypeOK, Threads, Drivers, Consumers, Labels,
       Asleep, Jobs, Flags, Pins, Cells, NoOne

LEMMA TypeDriverStep ==
  ASSUME TypeInv, DriverStep, UNCHANGED consumerVars
  PROVE  TypeInv'
<1> USE DEF TypeInv, JobAtCast, TypeOK, consumerVars, kernelVars, sampleVars, Goto,
            Threads, Drivers, Consumers, Labels, Asleep
<1>1. CASE SpiStart
  BY <1>1 DEF SpiStart, Register
<1>2. CASE SpiInited
  BY <1>2 DEF SpiInited, ErrorSet
<1>3. CASE WaitAny("spi") \/ WaitAny("i2c")
  BY <1>3 DEF WaitAny
<1>4. CASE SpiRead
  BY <1>4 DEF SpiRead, TakeFlags, Jobs, Flags
<1>5. CASE SpiStore
  BY <1>5 DEF SpiStore, Publish, Stores, Cells, Flags
<1>6. CASE SpiBroadcast
  BY <1>6 DEF SpiBroadcast, Announce, Broadcast, Collected, Signalled, Flags
<1>7. CASE I2cStart
  BY <1>7 DEF I2cStart, Jobs, SetUp
<1>8. CASE I2cSetUp
  BY <1>8 DEF I2cSetUp, SetUp, CanFail, I2cRelease, NoOne, ErrorSet, Jobs, BaroAfterStart
<1>9. CASE I2cTakeFlags
  BY <1>9 DEF I2cTakeFlags, I2cNext, TakeFlags, Jobs, Flags
<1>10. CASE I2cAcquire("i2c") \/ I2cAcquire("baro")
  BY <1>10 DEF I2cAcquire
<1>11. CASE I2cStore
  <2>1. cell' \in [Cells -> Nat] /\ used' \in [Flags -> Nat]
    BY <1>11 DEF I2cStore, Publish, Cells, Flags, Pins
  <2>2. job["i2c"] \in Pins
    BY <1>11 DEF I2cStore
  <2>3. QED
    BY <1>11, <2>1, <2>2 DEF I2cStore, I2cRelease, NoOne, Pins
<1>12. CASE I2cBroadcast
  <2>1. job["i2c"] \in {"HMC", "H3LIS"}
    BY <1>12 DEF I2cBroadcast
  <2>2. QED
    BY <1>12, <2>1 DEF I2cBroadcast, I2cNext, Announce, Broadcast, Collected, Signalled,
                      Flags, Jobs
<1>13. CASE BaroGot
  BY <1>13 DEF BaroGot, BaroGoto, I2cRelease, NoOne, BaroAfterStart, BaroAfterRead, BaroRead,
               Jobs
<1>14. CASE BaroStore
  BY <1>14 DEF BaroStore, Publish, Stores, Cells, Flags
<1>15. CASE BaroBroadcast
  BY <1>15 DEF BaroBroadcast, BaroGoto, BaroAfterStart, Announce, Broadcast, Collected, Signalled,
               Flags, Jobs
<1>16. QED
  BY <1>1, <1>2, <1>3, <1>4, <1>5, <1>6, <1>7, <1>8, <1>9, <1>10, <1>11, <1>12, <1>13, <1>14,
     <1>15 DEF DriverStep, SpiStep, I2cStep, BaroStep

LEMMA TypeListening ==
  ASSUME TypeInv, NEW t \in Consumers, Listening(t)
  PROVE  TypeInv'
<1> USE DEF TypeInv, JobAtCast, TypeOK, consumerVars, kernelVars, sampleVars, Threads, Drivers,
            Consumers
<1>1. CASE WaitAny(t) /\ UNCHANGED consumerVars
  BY <1>1 DEF WaitAny, Goto, Labels
<1>2. CASE ConsumerTakeFlags(t)
  <2>1. JobsOf(t, flags[t]) \in SUBSET Jobs
    BY JobsType
  <2>2. QED
    BY <1>2, <2>1, NextJobType DEF ConsumerTakeFlags, TakeFlags
<1>3. CASE ReadSample(t)
  <2>1. PICK c : got' = [got EXCEPT ![t][c] = cell[c]]
    BY <1>3 DEF ReadSample
  <2>2. got' \in [Consumers -> [Cells -> Nat]]
    <3>1. [got[t] EXCEPT ![c] = cell[c]] \in [Cells -> Nat]
      OBVIOUS
    <3>2. QED
      BY <2>1, <3>1
  <2>3. rd' \in [Consumers -> Nat] /\ pc' \in [Threads -> Labels] /\ pc'["i2c"] = pc["i2c"]
    BY <1>3 DEF ReadSample, Goto, Labels
  <2>4. QED
    BY <1>3, <2>2, <2>3 DEF ReadSample
<1>4. QED
  BY <1>1, <1>2, <1>3 DEF Listening

LEMMA TypeConsumerStep ==
  ASSUME TypeInv, AttitudeStep \/ StreamStep \/ SdlogStep
  PROVE  TypeInv'
<1> USE DEF TypeInv, JobAtCast, TypeOK, consumerVars, kernelVars, sampleVars, Threads, Drivers,
            Consumers
<1>1. CASE AttitudeStart
  BY <1>1 DEF AttitudeStart, Register, Goto, Labels
<1>2. CASE AttitudeUpdateImu
  <2>1. cell' \in [Cells -> Nat] /\ handled' \in [{"MPU", "HMC"} -> Nat] /\ prev' \in Nat
    BY <1>2 DEF AttitudeUpdateImu, Cells
  <2>2. QED
    BY <1>2, <2>1, FinishType DEF AttitudeUpdateImu
<1>3. CASE AttitudeUpdateMag
  <2>1. handled' \in [{"MPU", "HMC"} -> Nat]
    BY <1>3 DEF AttitudeUpdateMag
  <2>2. QED
    BY <1>3, <2>1, FinishType DEF AttitudeUpdateMag
<1>4. CASE StreamStart \/ SdlogStart
  <2>1. CASE StreamStart
    BY <2>1 DEF StreamStart, Register, Goto, Labels, Asleep
  <2>2. CASE SdlogStart
    BY <2>2 DEF SdlogStart, Register, Goto, Labels, Asleep
  <2>3. QED
    BY <1>4, <2>1, <2>2
<1>5. CASE StreamSend \/ SdlogOpened
  <2>1. CASE StreamSend
    BY <2>1 DEF StreamSend, Goto, Labels, Asleep
  <2>2. CASE SdlogOpened
    BY <2>2 DEF SdlogOpened, Goto, Labels, Asleep
  <2>3. QED
    BY <1>5, <2>1, <2>2
<1>6. CASE StreamSent
  <2>1. Finish("stream")
    BY <1>6 DEF StreamSent
  <2>2. QED
    BY <1>6, <2>1, FinishType DEF StreamSent
<1>7. CASE SdlogWritten
  <2>1. Finish("sdlog")
    BY <1>7 DEF SdlogWritten
  <2>2. QED
    BY <1>7, <2>1, FinishType DEF SdlogWritten
<1>8. CASE SdlogWrite
  <2>1. row' \in Nat /\ repeats' \in Nat
    BY <1>8 DEF SdlogWrite, Cells
  <2>2. QED
    BY <1>8, <2>1 DEF SdlogWrite, Goto, Labels, Asleep
<1>9. QED
  BY <1>1, <1>2, <1>3, <1>4, <1>5, <1>6, <1>7, <1>8, TypeListening
  DEF AttitudeStep, StreamStep, SdlogStep

LEMMA TypeStep == TypeInv /\ [Next]_vars => TypeInv'
<1> SUFFICES ASSUME TypeInv, [Next]_vars
             PROVE  TypeInv'
  OBVIOUS
<1>1. CASE CpuStep
  BY <1>1, TypeDriverStep, TypeConsumerStep DEF CpuStep
<1>2. CASE \E t \in Threads : Completes(t) /\ UNCHANGED consumerVars
  <2>1. PICK t \in Threads : Completes(t) /\ UNCHANGED consumerVars
    BY <1>2
  <2>2. Wakes[pc[t]] \in Labels \ {"cast"}
    BY <2>1 DEF Completes, Wakes, Labels
  <2>3. raw' \in [Flags -> Nat]
    BY <2>1 DEF Completes, TypeInv, TypeOK, Flags, Pins
  <2>4. QED
    BY <2>1, <2>2, <2>3 DEF Completes, Goto, TypeInv, JobAtCast, TypeOK, kernelVars, consumerVars,
                            Threads, Drivers
<1>3. CASE \E p \in Pins : DataReady(p) /\ UNCHANGED consumerVars
  BY <1>3 DEF DataReady, Broadcast, Collected, Signalled, Flags, Pins, TypeInv, JobAtCast, TypeOK,
              consumerVars
<1>4. CASE UNCHANGED vars
  BY <1>4 DEF vars, driverVars, consumerVars, kernelVars, sampleVars, TypeInv, JobAtCast, TypeOK
<1>5. QED
  BY <1>1, <1>2, <1>3, <1>4 DEF Next, Idle

\* The variables of the pipeline keep their types in every behaviour.
THEOREM TypeCorrect == Spec => []TypeOK
<1>1. Init => TypeInv
  BY TypeInit
<1>2. TypeInv /\ [Next]_vars => TypeInv'
  BY TypeStep
<1>3. TypeInv => TypeOK
  BY DEF TypeInv
<1>4. QED
  BY <1>1, <1>2, <1>3, PTL DEF Spec

(***************************************************************************)
(* The filter uses each sample once.  A driver runs only while attitude    *)
(* determination waits with no event pending: the broadcast that wakes it  *)
(* finds it idle, and until it is idle again no driver stores or           *)
(* broadcasts anything.  The invariant counts, for each flag, the          *)
(* broadcasts before the registration, the samples used and the one that   *)
(* is still owed: the flag in the listener, then the job made of it.       *)
(***************************************************************************)
Owes(f) == IF pc["attitude"] \in {"wait", "clear"}
             THEN f \in flags["attitude"]
             ELSE (IF f = "MPU" THEN "update_imu" ELSE "update_mag") \in todo["attitude"]

\* The control of the thread and its listener.
FilterControl ==
  /\ pc["attitude"] \in {"off", "nap", "start", "wait", "clear", "read", "use"}
  /\ "attitude" \in registered <=> pc["attitude"] \in {"wait", "clear", "read", "use"}
  /\ pc["attitude"] \notin {"wait", "clear"} => flags["attitude"] = {}
  /\ pc["attitude"] # "wait" => ~pending["attitude"]
  /\ pc["attitude"] = "wait" /\ ~pending["attitude"]
       => "MPU" \notin flags["attitude"] /\ "HMC" \notin flags["attitude"]
  /\ pc["attitude"] \in {"read", "use"}
       => /\ todo["attitude"] \subseteq {"update_imu", "update_mag"}
          /\ job["attitude"] \in todo["attitude"]
          /\ job["attitude"] = "update_mag" => "update_imu" \notin todo["attitude"]

FilterCount ==
  /\ "attitude" \notin registered => \A f \in {"MPU", "HMC"} : handled[f] = 0
  /\ "attitude" \in registered =>
       \A f \in {"MPU", "HMC"} :
         cast[f] = missed[f] + handled[f] + (IF Owes(f) THEN 1 ELSE 0)

\* While the filter is at work no sample is between its store and its
\* broadcast, so what it copies is the sample that was broadcast last.
FilterSample ==
  /\ cell["gyro"] = cell["acc"]
  /\ cell["gyro"] = cast["MPU"] + (IF pc["spi"] = "cast" THEN 1 ELSE 0)
  /\ pc["attitude"] \in {"clear", "read", "use"} \/ pending["attitude"] => pc["spi"] # "cast"
  /\ pc["attitude"] = "read" =>
       /\ job["attitude"] = "update_imu" => rd["attitude"] \in {0, 1}
       /\ job["attitude"] = "update_mag" => rd["attitude"] = 0
       /\ job["attitude"] = "update_imu" /\ rd["attitude"] = 1
            => got["attitude"]["gyro"] = cell["gyro"]
  /\ pc["attitude"] = "use" /\ job["attitude"] = "update_imu"
       => /\ got["attitude"]["gyro"] = cell["gyro"]
          /\ got["attitude"]["acc"] = cell["gyro"]

FilterInv == FilterControl /\ FilterCount /\ FilterSample

\* A driver that runs finds the filter blocked, and a driver on the I2C bus
\* finds the SPI driver blocked.
LEMMA DriverRunsBelow ==
  /\ \A t \in Drivers : Running(t) => ~CanRun("attitude")
  /\ Running("i2c") \/ Running("baro") => ~CanRun("spi")
BY DEF Running, Prio, Threads, Drivers, Consumers

\* What FilterInv speaks of, as one value: a step that leaves it alone keeps it.
FilterView == <<pc["attitude"], job["attitude"], todo["attitude"], flags["attitude"],
                pending["attitude"], rd["attitude"], got["attitude"], "attitude" \in registered,
                handled, missed, cast, cell["gyro"], cell["acc"], pc["spi"] = "cast">>

LEMMA FilterFrame == FilterInv /\ UNCHANGED FilterView => FilterInv'
BY DEF FilterView, FilterInv, FilterControl, FilterCount, FilterSample, Owes

LEMMA FilterInit == Init => FilterInv
BY DEF Init, DriverInit, FilterInv, FilterControl, FilterCount, FilterSample, Owes, Threads,
       Drivers, Consumers, Flags, Cells

\* A broadcast of flag f by a driver that runs, with nothing between store
\* and broadcast afterwards.
LEMMA FilterBroadcast ==
  ASSUME TypeInv, FilterInv, NEW f \in Flags, Announce(f), ~CanRun("attitude"),
         UNCHANGED <<pc["attitude"], job["attitude"], todo["attitude"], registered, rd, got,
                     handled, missed, cell>>,
         f = "MPU" <=> pc["spi"] = "cast", pc'["spi"] # "cast"
  PROVE  FilterInv'
<1> USE DEF FilterInv, TypeInv, TypeOK, Announce, Broadcast, Collected, Signalled, Threads, Drivers,
            Consumers, Flags, Wanted
<1>1. pc["attitude"] = "wait" => ~pending["attitude"]
  BY DEF CanRun, Asleep
<1>2. pc["attitude"] \in {"off", "nap", "wait"}
  BY DEF CanRun, Asleep, FilterControl
<1>3. FilterControl'
  BY <1>1, <1>2 DEF FilterControl
<1>4. FilterCount'
  BY <1>1, <1>2 DEF FilterControl, FilterCount, Owes
<1>5. FilterSample'
  <2>1. cast'["MPU"] = cast["MPU"] + (IF f = "MPU" THEN 1 ELSE 0)
    OBVIOUS
  <2>2. cell'["gyro"] = cast'["MPU"] + (IF pc'["spi"] = "cast" THEN 1 ELSE 0)
    BY <2>1 DEF FilterSample
  <2>3. QED
    BY <1>2, <2>2 DEF FilterSample
<1>6. QED
  BY <1>3, <1>4, <1>5

LEMMA FilterDriverStep ==
  ASSUME TypeInv, FilterInv, DriverStep, UNCHANGED consumerVars
  PROVE  FilterInv'
<1> USE DEF TypeInv, TypeOK, consumerVars, kernelVars, sampleVars, Goto, Threads, Drivers,
            Consumers
<1>1. CASE SpiStart \/ SpiInited \/ WaitAny("spi") \/ SpiRead
  <2>1. UNCHANGED FilterView
    BY <1>1 DEF SpiStart, SpiInited, WaitAny, SpiRead, TakeFlags, Register, FilterView
  <2>2. QED
    BY <2>1, FilterFrame
<1>2. CASE I2cStart \/ I2cSetUp \/ WaitAny("i2c") \/ I2cTakeFlags
  <2>1. UNCHANGED FilterView
    BY <1>2 DEF I2cStart, I2cSetUp, WaitAny, I2cTakeFlags, I2cNext, TakeFlags, FilterView
  <2>2. QED
    BY <2>1, FilterFrame
<1>3. CASE I2cAcquire("i2c") \/ I2cAcquire("baro") \/ BaroGot
  <2>1. UNCHANGED FilterView
    BY <1>3 DEF I2cAcquire, BaroGot, BaroGoto, FilterView
  <2>2. QED
    BY <2>1, FilterFrame
<1>4. CASE I2cStore
  <2>1. cell'["gyro"] = cell["gyro"] /\ cell'["acc"] = cell["acc"]
    BY <1>4 DEF I2cStore, Publish, Stores, Pins, Cells, JobAtCast
  <2>2. UNCHANGED FilterView
    BY <1>4, <2>1 DEF I2cStore, FilterView
  <2>3. QED
    BY <2>2, FilterFrame
<1>5. CASE BaroStore
  <2>1. cell'["gyro"] = cell["gyro"] /\ cell'["acc"] = cell["acc"]
    BY <1>5 DEF BaroStore, Publish, Stores, Cells
  <2>2. UNCHANGED FilterView
    BY <1>5, <2>1 DEF BaroStore, FilterView
  <2>3. QED
    BY <2>2, FilterFrame
<1>6. CASE SpiStore
  <2>1. ~CanRun("attitude")
    BY <1>6, DriverRunsBelow DEF SpiStore
  <2>2. pc["attitude"] \in {"off", "nap", "wait"} /\ ~pending["attitude"]
    BY <2>1 DEF CanRun, Asleep, FilterInv, FilterControl
  <2>3. cell'["gyro"] = cell["gyro"] + 1 /\ cell'["acc"] = cell["acc"] + 1
    BY <1>6 DEF SpiStore, Publish, Stores, Cells
  <2>4. FilterControl' /\ FilterCount'
    BY <1>6 DEF SpiStore, FilterInv, FilterControl, FilterCount, Owes
  <2>5. FilterSample'
    <3>1. pc["spi"] = "got" /\ pc'["spi"] = "cast" /\ UNCHANGED <<cast, pending>>
      BY <1>6 DEF SpiStore
    <3>2. cell'["gyro"] = cast'["MPU"] + 1 /\ cell'["gyro"] = cell'["acc"]
      <4>1. cell["gyro"] = cell["acc"] /\ cell["gyro"] = cast["MPU"] + 0
        BY <3>1 DEF FilterInv, FilterSample
      <4>2. cast'["MPU"] = cast["MPU"] /\ cast["MPU"] \in Nat
        BY <3>1 DEF Flags
      <4>3. QED
        BY <2>3, <4>1, <4>2
    <3>3. pc'["attitude"] \in {"off", "nap", "wait"} /\ ~pending'["attitude"]
      BY <1>6, <2>2 DEF SpiStore
    <3>4. QED
      BY <3>1, <3>2, <3>3 DEF FilterSample
  <2>6. QED
    BY <2>4, <2>5 DEF FilterInv
<1>7. CASE SpiBroadcast
  <2>1. ~CanRun("attitude") /\ Announce("MPU") /\ pc["spi"] = "cast" /\ pc'["spi"] # "cast"
    BY <1>7, DriverRunsBelow DEF SpiBroadcast
  <2>2. UNCHANGED <<pc["attitude"], job["attitude"], todo["attitude"], registered, rd, got,
                     handled, missed, cell>>
    BY <1>7 DEF SpiBroadcast
  <2>3. QED
    BY <2>1, <2>2, FilterBroadcast DEF Flags
<1>8. CASE I2cBroadcast
  <2>1. ~CanRun("attitude") /\ ~CanRun("spi")
    BY <1>8, DriverRunsBelow DEF I2cBroadcast
  <2>2. pc["spi"] # "cast"
    BY <2>1 DEF CanRun, Asleep
  <2>3. job["i2c"] \in {"HMC", "H3LIS"} /\ Announce(job["i2c"])
    BY <1>8 DEF I2cBroadcast, JobAtCast
  <2>4. UNCHANGED <<pc["attitude"], pc["spi"], job["attitude"], todo["attitude"], registered, rd,
                     got, handled, missed, cell>>
    BY <1>8 DEF I2cBroadcast, I2cNext
  <2>5. QED
    BY <2>1, <2>2, <2>3, <2>4, FilterBroadcast DEF Flags
<1>9. CASE BaroBroadcast
  <2>1. ~CanRun("attitude") /\ ~CanRun("spi")
    BY <1>9, DriverRunsBelow DEF BaroBroadcast
  <2>2. pc["spi"] # "cast"
    BY <2>1 DEF CanRun, Asleep
  <2>3. UNCHANGED <<pc["attitude"], pc["spi"], job["attitude"], todo["attitude"], registered, rd,
                     got, handled, missed, cell>> /\ Announce("MS5611")
    BY <1>9 DEF BaroBroadcast, BaroGoto
  <2>4. QED
    BY <2>1, <2>2, <2>3, FilterBroadcast DEF Flags
<1>10. QED
  BY <1>1, <1>2, <1>3, <1>4, <1>5, <1>6, <1>7, <1>8, <1>9 DEF DriverStep, SpiStep, I2cStep, BaroStep

\* The other two consumers and the peripherals leave the filter alone, a timer
\* ends its nap at most.
LEMMA FilterOtherStep ==
  ASSUME TypeInv, FilterInv,
         \/ StreamStep \/ SdlogStep
         \/ \E t \in Threads : Completes(t) /\ UNCHANGED consumerVars
         \/ \E p \in Pins : DataReady(p) /\ UNCHANGED consumerVars
  PROVE  FilterInv'
<1> USE DEF TypeInv, TypeOK, consumerVars, kernelVars, sampleVars, Goto, Threads, Drivers,
            Consumers
<1>1. ASSUME NEW t \in {"stream", "sdlog"}, Listening(t)
      PROVE  UNCHANGED FilterView
  BY <1>1 DEF Listening, WaitAny, ConsumerTakeFlags, TakeFlags, NextJob, ReadSample, FilterView
<1>2. CASE StreamStep
  <2>1. CASE StreamStart \/ StreamSend
    <3>1. UNCHANGED FilterView
      BY <2>1 DEF StreamStart, StreamSend, Register, FilterView
    <3>2. QED
      BY <3>1, FilterFrame
  <2>2. CASE StreamSent
    BY <2>2, FilterFrame DEF StreamSent, Finish, NextJob, FilterView
  <2>3. QED
    BY <1>1, <1>2, <2>1, <2>2, FilterFrame DEF StreamStep
<1>3. CASE SdlogStep
  <2>1. CASE SdlogStart \/ SdlogOpened
    <3>1. UNCHANGED FilterView
      BY <2>1 DEF SdlogStart, SdlogOpened, Register, FilterView
    <3>2. QED
      BY <3>1, FilterFrame
  <2>2. CASE SdlogWrite
    BY <2>2, FilterFrame DEF SdlogWrite, FilterView
  <2>3. CASE SdlogWritten
    BY <2>3, FilterFrame DEF SdlogWritten, Finish, NextJob, FilterView
  <2>4. QED
    BY <1>1, <1>3, <2>1, <2>2, <2>3, FilterFrame DEF SdlogStep
<1>4. CASE \E p \in Pins : DataReady(p) /\ UNCHANGED consumerVars
  BY <1>4, FilterFrame DEF DataReady, Broadcast, Collected, Signalled, FilterView
<1>5. CASE \E t \in Threads : Completes(t) /\ UNCHANGED consumerVars
  <2>1. PICK t \in Threads : Completes(t) /\ UNCHANGED consumerVars
    BY <1>5
  <2>2. Wakes[pc[t]] \notin {"cast", "wait", "clear", "read", "use"} /\ pc[t] # "cast"
    BY <2>1 DEF Completes, Wakes
  <2>3. CASE t # "attitude"
    BY <2>1, <2>2, <2>3, FilterFrame DEF Completes, FilterView
  <2>4. CASE t = "attitude"
    <3>1. pc["attitude"] = "nap" /\ pc'["attitude"] = "start" /\ pc'["spi"] = pc["spi"]
      BY <2>1, <2>4 DEF Completes, Wakes, FilterInv, FilterControl
    <3>2. QED
      BY <2>1, <3>1 DEF Completes, FilterInv, FilterControl, FilterCount, FilterSample, Owes
  <2>5. QED
    BY <2>3, <2>4
<1>6. QED
  BY <1>2, <1>3, <1>4, <1>5

LEMMA FilterOwnStep ==
  ASSUME TypeInv, FilterInv, AttitudeStep
  PROVE  FilterInv'
<1> USE DEF TypeInv, TypeOK, consumerVars, kernelVars, sampleVars, Goto, Threads, Drivers,
            Consumers, FilterInv
<1>1. CASE AttitudeStart
  <2>1. FilterControl'
    BY <1>1 DEF AttitudeStart, Register, FilterControl
  <2>2. FilterCount'
    BY <1>1 DEF AttitudeStart, Register, FilterControl, FilterCount, Owes, Flags
  <2>3. FilterSample'
    BY <1>1 DEF AttitudeStart, FilterControl, FilterSample
  <2>4. QED
    BY <2>1, <2>2, <2>3
<1>2. CASE WaitAny("attitude") /\ UNCHANGED consumerVars
  <2>1. FilterControl' /\ FilterCount'
    BY <1>2 DEF WaitAny, FilterControl, FilterCount, Owes
  <2>2. FilterSample'
    BY <1>2 DEF WaitAny, FilterControl, FilterSample, CanRun, Running
  <2>3. QED
    BY <2>1, <2>2
<1>3. CASE ConsumerTakeFlags("attitude")
  <2>1. PICK S : /\ S = JobsOf("attitude", flags["attitude"])
                 /\ NextJob("attitude", S)
    BY <1>3 DEF ConsumerTakeFlags
  <2>2. /\ S \subseteq {"update_imu", "update_mag"}
        /\ "update_imu" \in S <=> "MPU" \in flags["attitude"]
        /\ "update_mag" \in S <=> "HMC" \in flags["attitude"]
    BY <2>1 DEF JobsOf
  <2>3. S # {} => First(S) \in S /\ (First(S) = "update_mag" => "update_imu" \notin S)
    BY <2>2 DEF First
  <2>4. FilterControl'
    BY <1>3, <2>1, <2>2, <2>3 DEF ConsumerTakeFlags, TakeFlags, NextJob, FilterControl
  <2>5. FilterCount'
    BY <1>3, <2>1, <2>2 DEF ConsumerTakeFlags, TakeFlags, NextJob, FilterControl, FilterCount, Owes
  <2>6. FilterSample'
    <3>1. pc["attitude"] = "clear" /\ UNCHANGED <<cell, cast, pending>>
      BY <1>3 DEF ConsumerTakeFlags
    <3>2. pc["spi"] # "cast" /\ pc'["spi"] = pc["spi"]
      BY <2>1, <3>1 DEF NextJob, FilterSample
    <3>3. pc'["attitude"] \in {"wait", "read"} /\ rd'["attitude"] = 0
      BY <2>1 DEF NextJob
    <3>4. cell'["gyro"] = cell'["acc"] /\ cell'["gyro"] = cast'["MPU"] + 0
      BY <3>1, <3>2 DEF FilterSample
    <3>5. QED
      BY <3>2, <3>3, <3>4 DEF FilterSample
  <2>7. QED
    BY <2>4, <2>5, <2>6
<1>4. CASE ReadSample("attitude")
  <2>1. FilterControl'
    BY <1>4 DEF ReadSample, FilterControl
  <2>2. FilterCount'
    BY <1>4 DEF ReadSample, FilterControl, FilterCount, Owes
  <2>3. FilterSample'
    <3>1. /\ pc["attitude"] = "read" /\ pc'["spi"] = pc["spi"] /\ UNCHANGED <<cell, cast, pending, job>>
          /\ rd'["attitude"] = rd["attitude"] + 1
      BY <1>4 DEF ReadSample
    <3>2. CASE job["attitude"] = "update_mag"
      <4>1. rd["attitude"] = 0 /\ Len(Reads["update_mag"]) = 1
        BY <3>1, <3>2 DEF FilterSample, Reads
      <4>2. pc'["attitude"] = "use"
        BY <1>4, <3>2, <4>1 DEF ReadSample
      <4>3. QED
        BY <3>1, <3>2, <4>2 DEF FilterSample
    <3>3. CASE job["attitude"] = "update_imu" /\ rd["attitude"] = 0
      <4>1. Len(Reads["update_imu"]) = 2 /\ Reads["update_imu"][1] = "gyro"
        BY DEF Reads
      <4>2. pc'["attitude"] = "read" /\ got'["attitude"]["gyro"] = cell["gyro"]
        BY <1>4, <3>3, <4>1 DEF ReadSample, Cells
      <4>3. /\ pc["spi"] # "cast" /\ rd'["attitude"] = 1
            /\ cell["gyro"] = cell["acc"] /\ cell["gyro"] = cast["MPU"] + 0
        BY <3>1, <3>3 DEF FilterSample
      <4>4. QED
        BY <3>1, <3>3, <4>2, <4>3 DEF FilterSample
    <3>4. CASE job["attitude"] = "update_imu" /\ rd["attitude"] = 1
      <4>1. Len(Reads["update_imu"]) = 2 /\ Reads["update_imu"][2] = "acc"
        BY DEF Reads
      <4>2. /\ pc'["attitude"] = "use" /\ got'["attitude"]["acc"] = cell["acc"]
            /\ got'["attitude"]["gyro"] = got["attitude"]["gyro"]
        BY <1>4, <3>4, <4>1 DEF ReadSample, Cells
      <4>3. /\ pc["spi"] # "cast" /\ got["attitude"]["gyro"] = cell["gyro"]
            /\ cell["gyro"] = cell["acc"] /\ cell["gyro"] = cast["MPU"] + 0
        BY <3>1, <3>4 DEF FilterSample
      <4>4. QED
        BY <3>1, <3>4, <4>2, <4>3 DEF FilterSample
    <3>5. QED
      BY <3>1, <3>2, <3>3, <3>4 DEF FilterControl, FilterSample
  <2>4. QED
    BY <2>1, <2>2, <2>3
<1>5. ASSUME NEW j \in {"update_imu", "update_mag"}, pc["attitude"] = "use",
             job["attitude"] = j, Finish("attitude"),
             UNCHANGED <<flags, pending, registered, missed, cast>>,
             handled' = [handled EXCEPT ![IF j = "update_imu" THEN "MPU" ELSE "HMC"] = @ + 1],
             cell'["gyro"] = cell["gyro"], cell'["acc"] = cell["acc"]
      PROVE  FilterInv'
  <2>1. PICK S : /\ S = todo["attitude"] \ {j}
                 /\ NextJob("attitude", S)
    BY <1>5 DEF Finish
  <2>2. S \subseteq {"update_mag"} /\ j \in todo["attitude"] /\ (j = "update_mag" => S = {})
    BY <1>5, <2>1 DEF FilterControl
  <2>3. S # {} => First(S) = "update_mag"
    BY <2>2 DEF First
  <2>4. FilterControl'
    BY <1>5, <2>1, <2>2, <2>3 DEF NextJob, FilterControl
  <2>5. FilterCount'
    BY <1>5, <2>1, <2>2 DEF NextJob, FilterControl, FilterCount, Owes, Flags
  <2>6. FilterSample'
    BY <1>5, <2>1, <2>2, <2>3 DEF NextJob, FilterControl, FilterSample
  <2>7. QED
    BY <2>4, <2>5, <2>6
<1>6. CASE AttitudeUpdateImu
  <2>1. cell'["gyro"] = cell["gyro"] /\ cell'["acc"] = cell["acc"]
    BY <1>6 DEF AttitudeUpdateImu, Cells
  <2>2. QED
    BY <1>5, <1>6, <2>1 DEF AttitudeUpdateImu
<1>7. CASE AttitudeUpdateMag
  BY <1>5, <1>7 DEF AttitudeUpdateMag
<1>8. QED
  BY <1>1, <1>2, <1>3, <1>4, <1>6, <1>7 DEF AttitudeStep, Listening

LEMMA FilterStep == TypeInv /\ FilterInv /\ [Next]_vars => FilterInv'
<1> SUFFICES ASSUME TypeInv, FilterInv, [Next]_vars
             PROVE  FilterInv'
  OBVIOUS
<1>1. CASE UNCHANGED vars
  <2>1. UNCHANGED FilterView
    BY <1>1 DEF vars, driverVars, consumerVars, kernelVars, sampleVars, FilterView
  <2>2. QED
    BY <2>1, FilterFrame
<1>2. QED
  BY <1>1, FilterDriverStep, FilterOwnStep, FilterOtherStep DEF Next, CpuStep, Idle

LEMMA FilterCorrect == Spec => [](TypeInv /\ FilterInv)
<1>1. Init => TypeInv /\ FilterInv
  BY TypeInit, FilterInit
<1>2. TypeInv /\ FilterInv /\ [Next]_vars => (TypeInv /\ FilterInv)'
  BY TypeStep, FilterStep
<1>3. QED
  BY <1>1, <1>2, PTL DEF Spec

\* The filter has used every sample broadcast since it registered exactly once
\* whenever it waits, whatever the number of samples and whichever of the other
\* threads run.
THEOREM EverySampleUsedOnce == Spec => []EachSampleUsedOnce
<1>1. TypeInv /\ FilterInv => EachSampleUsedOnce
  BY DEF TypeInv, TypeOK, FilterInv, FilterControl, FilterCount, Owes, EachSampleUsedOnce, Flags
<1>2. QED
  BY <1>1, FilterCorrect, PTL

\* update_imu() is only given rates and accelerations of one sample.
THEOREM PairsMatch == Spec => []AttitudePairMatches
<1>1. TypeInv /\ FilterInv => AttitudePairMatches
  BY DEF TypeInv, TypeOK, FilterInv, FilterSample, AttitudePairMatches, Flags
<1>2. QED
  BY <1>1, FilterCorrect, PTL

(***************************************************************************)
(* Proofs about what the readers of SensorPipeline make of the samples,    *)
(* and about the I2C bus.  They rest on the types and on what the filter   *)
(* and the drivers leave to a thread that runs below them.                 *)
(***************************************************************************)

(***************************************************************************)
(* The bus: a thread that takes it finds it free, so the other one is in   *)
(* no transaction.  The property is inductive by itself.                   *)
(***************************************************************************)

\* The parts of a thread's step the bus has to do with.
BusView == <<bus, pc["i2c"], pc["baro"]>>

LEMMA BusFrame == BusHeldInTransaction /\ UNCHANGED BusView => BusHeldInTransaction'
BY DEF BusView, BusHeldInTransaction

LEMMA BusDriverStep ==
  ASSUME TypeInv, BusHeldInTransaction, DriverStep
  PROVE  BusHeldInTransaction'
<1> USE DEF TypeInv, TypeOK, Goto, Threads, Drivers, Consumers
<1>1. CASE SpiStep
  <2>1. UNCHANGED BusView
    BY <1>1 DEF SpiStep, SpiStart, SpiInited, WaitAny, SpiRead, SpiStore, SpiBroadcast, BusView
  <2>2. QED
    BY <2>1, BusFrame
<1>2. CASE I2cAcquire("i2c") \/ I2cAcquire("baro")
  <2>1. bus = NoOne
    BY <1>2 DEF I2cAcquire, Running, CanRun
  <2>2. QED
    BY <1>2, <2>1 DEF I2cAcquire, BusHeldInTransaction, NoOne
<1>3. CASE I2cStart \/ WaitAny("i2c") \/ I2cTakeFlags \/ I2cBroadcast
  BY <1>3 DEF I2cStart, WaitAny, I2cTakeFlags, I2cBroadcast, I2cNext, BusHeldInTransaction
<1>4. CASE I2cSetUp \/ I2cStore
  BY <1>4 DEF I2cSetUp, I2cStore, I2cRelease, BusHeldInTransaction, NoOne
<1>5. CASE BaroGot
  BY <1>5 DEF BaroGot, BaroGoto, I2cRelease, BusHeldInTransaction, NoOne
<1>6. CASE BaroStore \/ BaroBroadcast
  BY <1>6 DEF BaroStore, BaroBroadcast, BaroGoto, BusHeldInTransaction
<1>7. QED
  BY <1>1, <1>2, <1>3, <1>4, <1>5, <1>6 DEF DriverStep, I2cStep, BaroStep

\* A consumer moves nothing but its own program counter.
LEMMA ConsumerMovesItself ==
  ASSUME TypeInv, NEW t \in Consumers,
         t = "attitude" => AttitudeStep, t = "stream" => StreamStep, t = "sdlog" => SdlogStep
  PROVE  /\ \A u \in Threads \ {t} : pc'[u] = pc[u] /\ job'[u] = job[u] /\ todo'[u] = todo[u]
         /\ \A u \in Consumers \ {t} : rd'[u] = rd[u] /\ got'[u] = got[u]
         /\ UNCHANGED <<bus, cast>>
         /\ \A c \in Cells \ {"att"} : cell'[c] = cell[c]
<1> USE DEF TypeInv, TypeOK, Goto, Threads, Drivers, Consumers, sampleVars, consumerVars
<1>1. CASE Listening(t)
  BY <1>1 DEF Listening, WaitAny, ConsumerTakeFlags, NextJob, ReadSample
<1>2. CASE t = "attitude" /\ ~Listening(t)
  BY <1>2 DEF AttitudeStep, AttitudeStart, AttitudeUpdateImu, AttitudeUpdateMag, Finish, NextJob
<1>3. CASE t = "stream" /\ ~Listening(t)
  BY <1>3 DEF StreamStep, StreamStart, StreamSend, StreamSent, Finish, NextJob
<1>4. CASE t = "sdlog" /\ ~Listening(t)
  BY <1>4 DEF SdlogStep, SdlogStart, SdlogOpened, SdlogWrite, SdlogWritten, Finish, NextJob
<1>5. QED
  BY <1>1, <1>2, <1>3, <1>4

LEMMA BusStep == TypeInv /\ BusHeldInTransaction /\ [Next]_vars => BusHeldInTransaction'
<1> SUFFICES ASSUME TypeInv, BusHeldInTransaction, [Next]_vars
             PROVE  BusHeldInTransaction'
  OBVIOUS
<1>1. CASE AttitudeStep \/ StreamStep \/ SdlogStep
  <2>1. UNCHANGED BusView
    BY <1>1, ConsumerMovesItself DEF BusView, Threads, Drivers, Consumers
  <2>2. QED
    BY <2>1, BusFrame
<1>2. CASE \E t \in Threads : Completes(t) /\ UNCHANGED consumerVars
  BY <1>2 DEF Completes, Wakes, Goto, BusHeldInTransaction, TypeInv, TypeOK, Threads, Drivers
<1>3. CASE \E p \in Pins : DataReady(p) /\ UNCHANGED consumerVars
  BY <1>3, BusFrame DEF DataReady, BusView
<1>4. CASE UNCHANGED vars
  BY <1>4, BusFrame DEF vars, driverVars, BusView
<1>5. QED
  BY <1>1, <1>2, <1>3, <1>4, BusDriverStep DEF Next, CpuStep, Idle

\* The I2C bus is held for the length of one transaction by the thread that is
\* in it, for any number of conversions and whichever threads run.
THEOREM BusHeld == Spec => []BusHeldInTransaction
<1>1. Init => BusHeldInTransaction
  BY DEF Init, DriverInit, BusHeldInTransaction, NoOne, Threads, Drivers
<1>2. QED
  BY <1>1, BusStep, TypeInit, TypeStep, PTL DEF Spec

(***************************************************************************)
(* What stream and sdlog copy.  The three cells of the MPU6000 only grow,  *)
(* and together, so what is copied later is not older.                     *)
(***************************************************************************)
MpuCells == {"gyro", "acc", "temp"}

\* Where the reader t is and what it has copied.
ReaderView(t) == <<pc[t], job[t], todo[t], rd[t], got[t]>>

StreamOrder ==
  /\ pc["stream"] = "read" /\ job["stream"] = "imu"
       => \/ rd["stream"] = 0
          \/ rd["stream"] = 1 /\ got["stream"]["gyro"] <= cell["gyro"]
  /\ pc["stream"] = "read" /\ job["stream"] = "att" => rd["stream"] = 0
  /\ DatagramInOrder

LogOrder ==
  /\ todo["sdlog"] \subseteq {"record"}
  /\ pc["sdlog"] = "read"
       => /\ job["sdlog"] = "record"
          /\ rd["sdlog"] \in {0, 1, 2}
          /\ rd["sdlog"] >= 1 => got["sdlog"]["gyro"] <= cell["gyro"]
          /\ rd["sdlog"] = 2 => /\ got["sdlog"]["gyro"] <= got["sdlog"]["acc"]
                                /\ got["sdlog"]["acc"] <= cell["gyro"]
  /\ RecordInOrder

OrderInv == /\ cell["acc"] = cell["gyro"] /\ cell["temp"] = cell["gyro"]
            /\ StreamOrder /\ LogOrder

\* Cells that grow, or stay, keep what is known of a reader that stands still.
LEMMA OrderFrame ==
  ASSUME TypeInv, TypeInv', OrderInv, UNCHANGED <<ReaderView("stream"), ReaderView("sdlog")>>,
         \/ \A c \in MpuCells : cell'[c] = cell[c]
         \/ \A c \in MpuCells : cell'[c] = cell[c] + 1
  PROVE  OrderInv'
<1> USE DEF TypeInv, TypeOK, OrderInv, ReaderView, MpuCells, Cells, Threads, Drivers, Consumers
<1>1. cell["gyro"] <= cell'["gyro"] /\ cell'["acc"] = cell'["gyro"] /\ cell'["temp"] = cell'["gyro"]
  OBVIOUS
<1>2. StreamOrder'
  BY <1>1 DEF StreamOrder, DatagramInOrder
<1>3. LogOrder'
  BY <1>1 DEF LogOrder, RecordInOrder
<1>4. QED
  BY <1>1, <1>2, <1>3

LEMMA OrderDriverStep ==
  ASSUME TypeInv, TypeInv', OrderInv, DriverStep, UNCHANGED consumerVars
  PROVE  OrderInv'
<1> USE DEF TypeInv, TypeOK, consumerVars, sampleVars, Goto, Threads, Drivers, Consumers
<1>1. UNCHANGED <<ReaderView("stream"), ReaderView("sdlog")>>
  <2>1. CASE SpiStep
    BY <2>1 DEF SpiStep, SpiStart, SpiInited, WaitAny, SpiRead, SpiStore, SpiBroadcast, ReaderView
  <2>2. CASE I2cStep
    BY <2>2 DEF I2cStep, I2cStart, I2cSetUp, WaitAny, I2cTakeFlags, I2cAcquire, I2cStore,
                I2cBroadcast, I2cNext, ReaderView
  <2>3. CASE BaroStep
    BY <2>3 DEF BaroStep, I2cAcquire, BaroGot, BaroGoto, BaroStore, BaroBroadcast, ReaderView
  <2>4. QED
    BY <2>1, <2>2, <2>3 DEF DriverStep
<1>2. CASE SpiStore
  BY <1>1, <1>2, OrderFrame DEF SpiStore, Publish, Stores, MpuCells, Cells
<1>3. CASE I2cStore \/ BaroStore
  <2>1. \A c \in MpuCells : cell'[c] = cell[c]
    BY <1>3 DEF I2cStore, BaroStore, Publish, Stores, MpuCells, Cells, Pins, JobAtCast
  <2>2. QED
    BY <1>1, <2>1, OrderFrame
<1>4. CASE UNCHANGED cell
  BY <1>1, <1>4, OrderFrame
<1>5. UNCHANGED cell \/ SpiStore \/ I2cStore \/ BaroStore
  BY DEF DriverStep, SpiStep, SpiStart, SpiInited, WaitAny, SpiRead, SpiBroadcast,
         I2cStep, I2cStart, I2cSetUp, I2cTakeFlags, I2cAcquire, I2cBroadcast,
         BaroStep, BaroGot, BaroBroadcast
<1>6. QED
  BY <1>2, <1>3, <1>4, <1>5

\* The jobs of sdlog are one record each.
LEMMA RecordJobs ==
  /\ \A F : JobsOf("sdlog", F) = {"record"}
  /\ First({"record"}) = "record"
BY DEF JobsOf, First

LEMMA OrderStreamStep ==
  ASSUME TypeInv, TypeInv', OrderInv, StreamStep
  PROVE  OrderInv'
<1> USE DEF TypeInv, TypeOK, OrderInv, consumerVars, Goto, Threads, Drivers, Consumers
<1>1. /\ \A c \in MpuCells : cell'[c] = cell[c]
      /\ UNCHANGED ReaderView("sdlog")
  BY ConsumerMovesItself DEF MpuCells, Cells, ReaderView
<1>2. LogOrder'
  BY <1>1 DEF LogOrder, RecordInOrder, ReaderView, MpuCells
<1>3. CASE WaitAny("stream") \/ StreamStart
  BY <1>1, <1>2, <1>3 DEF WaitAny, StreamStart, StreamOrder, DatagramInOrder, MpuCells
<1>4. CASE ConsumerTakeFlags("stream") \/ StreamSent
  <2>1. pc'["stream"] \in {"wait", "read"} /\ rd'["stream"] = 0
    BY <1>4 DEF ConsumerTakeFlags, StreamSent, Finish, NextJob
  <2>2. QED
    BY <1>1, <1>2, <2>1 DEF StreamOrder, DatagramInOrder, MpuCells
<1>5. CASE ReadSample("stream")
  <2>1. /\ pc["stream"] = "read" /\ UNCHANGED job
        /\ rd'["stream"] = rd["stream"] + 1
    BY <1>5 DEF ReadSample
  <2>2. CASE job["stream"] = "imu" /\ rd["stream"] = 0
    <3>1. Len(Reads["imu"]) = 2 /\ Reads["imu"][1] = "gyro"
      BY DEF Reads
    <3>2. pc'["stream"] = "read" /\ got'["stream"]["gyro"] = cell["gyro"]
      BY <1>5, <2>2, <3>1 DEF ReadSample, Cells
    <3>3. QED
      BY <1>1, <1>2, <2>1, <2>2, <3>2 DEF StreamOrder, DatagramInOrder, MpuCells, Cells
  <2>3. CASE job["stream"] = "imu" /\ rd["stream"] = 1
    <3>1. Len(Reads["imu"]) = 2 /\ Reads["imu"][2] = "acc"
      BY DEF Reads
    <3>2. /\ pc'["stream"] = "use" /\ got'["stream"]["acc"] = cell["acc"]
          /\ got'["stream"]["gyro"] = got["stream"]["gyro"]
      BY <1>5, <2>3, <3>1 DEF ReadSample, Cells
    <3>3. QED
      BY <1>1, <1>2, <2>1, <2>3, <3>2 DEF StreamOrder, DatagramInOrder, MpuCells, Cells
  <2>4. CASE job["stream"] = "att"
    <3>1. Len(Reads["att"]) = 1 /\ rd["stream"] = 0
      BY <2>1, <2>4 DEF Reads, StreamOrder
    <3>2. pc'["stream"] = "use"
      BY <1>5, <2>4, <3>1 DEF ReadSample
    <3>3. QED
      BY <1>1, <1>2, <2>1, <2>4, <3>2 DEF StreamOrder, DatagramInOrder, MpuCells
  <2>5. CASE job["stream"] \notin {"imu", "att"}
    BY <1>1, <1>2, <2>1, <2>5 DEF StreamOrder, DatagramInOrder, MpuCells
  <2>6. QED
    BY <2>1, <2>2, <2>3, <2>4, <2>5 DEF StreamOrder
<1>6. CASE StreamSend
  BY <1>1, <1>2, <1>6 DEF StreamSend, StreamOrder, DatagramInOrder, MpuCells
<1>7. QED
  BY <1>3, <1>4, <1>5, <1>6 DEF StreamStep, Listening

LEMMA OrderSdlogStep ==
  ASSUME TypeInv, TypeInv', OrderInv, SdlogStep
  PROVE  OrderInv'
<1> USE DEF TypeInv, TypeOK, OrderInv, consumerVars, Goto, Threads, Drivers, Consumers
<1>1. /\ \A c \in MpuCells : cell'[c] = cell[c]
      /\ UNCHANGED ReaderView("stream")
  BY ConsumerMovesItself DEF MpuCells, Cells, ReaderView
<1>2. StreamOrder'
  BY <1>1 DEF StreamOrder, DatagramInOrder, ReaderView, MpuCells
<1>3. CASE WaitAny("sdlog") \/ SdlogStart \/ SdlogOpened
  BY <1>1, <1>2, <1>3 DEF WaitAny, SdlogStart, SdlogOpened, LogOrder, RecordInOrder, MpuCells
<1>4. CASE ConsumerTakeFlags("sdlog")
  <2>1. NextJob("sdlog", {"record"})
    BY <1>4, RecordJobs DEF ConsumerTakeFlags
  <2>2. QED
    BY <1>1, <1>2, <2>1, RecordJobs DEF NextJob, LogOrder, RecordInOrder, MpuCells
<1>5. CASE SdlogWritten
  <2>1. PICK S : S \in {{}, {"record"}} /\ NextJob("sdlog", S)
    <3>1. todo["sdlog"] \ {job["sdlog"]} \in {{}, {"record"}}
      BY DEF LogOrder
    <3>2. QED
      BY <1>5, <3>1 DEF SdlogWritten, Finish
  <2>2. CASE S = {}
    BY <1>1, <1>2, <2>1, <2>2 DEF NextJob, LogOrder, RecordInOrder, MpuCells
  <2>3. CASE S = {"record"}
    BY <1>1, <1>2, <2>1, <2>3, RecordJobs DEF NextJob, LogOrder, RecordInOrder, MpuCells
  <2>4. QED
    BY <2>1, <2>2, <2>3
<1>6. CASE ReadSample("sdlog")
  <2>1. /\ pc["sdlog"] = "read" /\ UNCHANGED <<job, todo>> /\ job["sdlog"] = "record"
        /\ rd'["sdlog"] = rd["sdlog"] + 1
    BY <1>6 DEF ReadSample, LogOrder
  <2>2. Len(Reads["record"]) = 3 /\ Reads["record"] = <<"gyro", "acc", "temp">>
    BY DEF Reads
  <2>3. CASE rd["sdlog"] = 0
    <3>1. pc'["sdlog"] = "read" /\ got'["sdlog"]["gyro"] = cell["gyro"]
      BY <1>6, <2>1, <2>2, <2>3 DEF ReadSample, Cells
    <3>2. QED
      BY <1>1, <1>2, <2>1, <2>3, <3>1 DEF LogOrder, RecordInOrder, MpuCells, Cells
  <2>4. CASE rd["sdlog"] = 1
    <3>1. /\ pc'["sdlog"] = "read" /\ got'["sdlog"]["acc"] = cell["acc"]
          /\ got'["sdlog"]["gyro"] = got["sdlog"]["gyro"]
      BY <1>6, <2>1, <2>2, <2>4 DEF ReadSample, Cells
    <3>2. QED
      BY <1>1, <1>2, <2>1, <2>4, <3>1 DEF LogOrder, RecordInOrder, MpuCells, Cells
  <2>5. CASE rd["sdlog"] = 2
    <3>1. /\ pc'["sdlog"] = "use" /\ got'["sdlog"]["temp"] = cell["temp"]
          /\ got'["sdlog"]["gyro"] = got["sdlog"]["gyro"]
          /\ got'["sdlog"]["acc"] = got["sdlog"]["acc"]
      BY <1>6, <2>1, <2>2, <2>5 DEF ReadSample, Cells
    <3>2. QED
      BY <1>1, <1>2, <2>1, <2>5, <3>1 DEF LogOrder, RecordInOrder, MpuCells, Cells
  <2>6. QED
    BY <2>1, <2>3, <2>4, <2>5 DEF LogOrder
<1>7. CASE SdlogWrite
  BY <1>1, <1>2, <1>7 DEF SdlogWrite, LogOrder, RecordInOrder, MpuCells
<1>8. QED
  BY <1>3, <1>4, <1>5, <1>6, <1>7 DEF SdlogStep, Listening

LEMMA OrderStep == TypeInv /\ TypeInv' /\ OrderInv /\ [Next]_vars => OrderInv'
<1> SUFFICES ASSUME TypeInv, TypeInv', OrderInv, [Next]_vars
             PROVE  OrderInv'
  OBVIOUS
<1>1. CASE AttitudeStep
  <2>1. UNCHANGED <<ReaderView("stream"), ReaderView("sdlog")>>
    BY <1>1, ConsumerMovesItself DEF ReaderView, Threads, Drivers, Consumers
  <2>2. \A c \in MpuCells : cell'[c] = cell[c]
    BY <1>1, ConsumerMovesItself DEF MpuCells, Cells, Consumers
  <2>3. QED
    BY <2>1, <2>2, OrderFrame
<1>2. CASE \E t \in Threads : Completes(t) /\ UNCHANGED consumerVars
  <2>1. PICK t \in Threads : Completes(t) /\ UNCHANGED consumerVars
    BY <1>2
  <2>2. /\ \A u \in Threads : pc'[u] = pc[u] \/ pc'[u] \notin {"read", "use", "busy"}
        /\ UNCHANGED <<job, todo, cell, rd, got>>
    BY <2>1 DEF Completes, Wakes, Goto, TypeInv, TypeOK, consumerVars
  <2>3. QED
    BY <2>2 DEF OrderInv, StreamOrder, LogOrder, DatagramInOrder, RecordInOrder, Threads,
                Drivers, Consumers
<1>3. CASE \E p \in Pins : DataReady(p) /\ UNCHANGED consumerVars
  <2>1. UNCHANGED <<ReaderView("stream"), ReaderView("sdlog"), cell>>
    BY <1>3 DEF DataReady, ReaderView, consumerVars
  <2>2. QED
    BY <2>1, OrderFrame
<1>4. CASE UNCHANGED vars
  <2>1. UNCHANGED <<ReaderView("stream"), ReaderView("sdlog"), cell>>
    BY <1>4 DEF vars, driverVars, sampleVars, consumerVars, ReaderView
  <2>2. QED
    BY <2>1, OrderFrame
<1>5. QED
  BY <1>1, <1>2, <1>3, <1>4, OrderDriverStep, OrderStreamStep, OrderSdlogStep
  DEF Next, CpuStep, Idle

LEMMA OrderCorrect == Spec => []OrderInv
<1>1. Init => OrderInv
  BY DEF Init, DriverInit, OrderInv, StreamOrder, LogOrder, DatagramInOrder, RecordInOrder,
         Threads, Drivers, Consumers, Cells
<1>2. QED
  BY <1>1, OrderStep, TypeInit, TypeStep, PTL DEF Spec

\* A datagram never has an acceleration older than its rates, however the
\* driver stores between the copies and however many samples there are.
THEOREM DatagramOrder == Spec => []DatagramInOrder
<1>1. OrderInv => DatagramInOrder
  BY DEF OrderInv, StreamOrder
<1>2. QED
  BY <1>1, OrderCorrect, PTL

\* The samples of a record of the log are in the order they are copied in.
THEOREM RecordOrder == Spec => []RecordInOrder
<1>1. OrderInv => RecordInOrder
  BY DEF OrderInv, LogOrder
<1>2. QED
  BY <1>1, OrderCorrect, PTL

(***************************************************************************)
(* The attitude stream sends.  A reader below the filter runs only when    *)
(* the filter has nothing left to do, so the attitude is that of the last  *)
(* broadcast, which the rates stream has copied are not ahead of.          *)
(***************************************************************************)
AttitudeInv ==
  /\ "attitude" \in registered /\ handled["MPU"] >= 1 => prev >= 1
  /\ "attitude" \in registered /\ handled["MPU"] >= 2
       => cell["att"] = missed["MPU"] + handled["MPU"]
  /\ got["stream"]["gyro"] <= cast["MPU"]
  /\ AttitudeNotBehindRates

\* A step that leaves the attitude and the copies of stream alone keeps the
\* invariant: the broadcasts only grow, and nothing gets stream to use a copy.
LEMMA AttitudeFrame ==
  ASSUME TypeInv, TypeInv', AttitudeInv, cell'["att"] = cell["att"], got'["stream"] = got["stream"],
         cast'["MPU"] >= cast["MPU"],
         UNCHANGED <<handled["MPU"], missed["MPU"], prev, "attitude" \in registered>>,
         /\ pc'["stream"] \in {"use", "busy"} /\ job'["stream"] = "att"
           => pc["stream"] \in {"use", "busy"} /\ job["stream"] = "att"
  PROVE  AttitudeInv'
<1>1. cast["MPU"] \in Nat /\ cast'["MPU"] \in Nat /\ got["stream"]["gyro"] \in Nat
  BY DEF TypeInv, TypeOK, Flags, Cells, Consumers
<1>2. QED
  BY <1>1 DEF AttitudeInv, AttitudeNotBehindRates

LEMMA AttitudeDriverStep ==
  ASSUME TypeInv, TypeInv', AttitudeInv, DriverStep, UNCHANGED consumerVars
  PROVE  AttitudeInv'
<1> USE DEF TypeInv, TypeOK, consumerVars, kernelVars, sampleVars, Goto, Threads, Drivers, Consumers
<1>1. /\ pc'["stream"] = pc["stream"] /\ job'["stream"] = job["stream"]
      /\ "attitude" \in registered' <=> "attitude" \in registered
  <2>1. CASE SpiStep
    BY <2>1 DEF SpiStep, SpiStart, SpiInited, WaitAny, SpiRead, SpiStore, SpiBroadcast, Register
  <2>2. CASE I2cStep
    BY <2>2 DEF I2cStep, I2cStart, I2cSetUp, WaitAny, I2cTakeFlags, I2cAcquire, I2cStore,
                I2cBroadcast, I2cNext
  <2>3. CASE BaroStep
    BY <2>3 DEF BaroStep, I2cAcquire, BaroGot, BaroGoto, BaroStore, BaroBroadcast
  <2>4. QED
    BY <2>1, <2>2, <2>3 DEF DriverStep
<1>2. cell'["att"] = cell["att"] /\ cast'["MPU"] >= cast["MPU"]
  <2>1. CASE SpiStore \/ I2cStore \/ BaroStore
    BY <2>1 DEF SpiStore, I2cStore, BaroStore, Publish, Stores, Cells, Pins, Flags, JobAtCast
  <2>2. CASE SpiBroadcast \/ I2cBroadcast \/ BaroBroadcast
    BY <2>2 DEF SpiBroadcast, I2cBroadcast, BaroBroadcast, Announce, Flags, JobAtCast
  <2>3. CASE UNCHANGED <<cell, cast>>
    BY <2>3 DEF Flags
  <2>4. \/ UNCHANGED <<cell, cast>> \/ SpiStore \/ I2cStore \/ BaroStore
        \/ SpiBroadcast \/ I2cBroadcast \/ BaroBroadcast
    BY DEF DriverStep, SpiStep, SpiStart, SpiInited, WaitAny, SpiRead,
           I2cStep, I2cStart, I2cSetUp, I2cTakeFlags, I2cAcquire, BaroStep, BaroGot
  <2>5. QED
    BY <2>1, <2>2, <2>3, <2>4
<1>3. QED
  BY <1>1, <1>2, AttitudeFrame

\* What a thread below the filter and the drivers finds when it runs.
LEMMA ReaderFindsAttitude ==
  ASSUME TypeInv, FilterInv, AttitudeInv, Running("stream")
  PROVE  /\ cell["gyro"] = cast["MPU"]
         /\ "attitude" \in registered /\ cast["MPU"] >= missed["MPU"] + 2
              => cell["att"] = cast["MPU"]
<1> USE DEF TypeInv, TypeOK, Threads, Drivers, Consumers, Flags
<1>1. ~CanRun("attitude") /\ ~CanRun("spi")
  BY DEF Running, Prio
<1>2. cell["gyro"] = cast["MPU"]
  BY <1>1 DEF CanRun, Asleep, FilterInv, FilterSample
<1>3. ASSUME "attitude" \in registered, cast["MPU"] >= missed["MPU"] + 2
      PROVE  cell["att"] = cast["MPU"]
  <2>1. pc["attitude"] = "wait" /\ ~pending["attitude"]
    BY <1>1, <1>3 DEF CanRun, Asleep, FilterInv, FilterControl
  <2>2. cast["MPU"] = missed["MPU"] + handled["MPU"]
    BY <1>3, <2>1 DEF FilterInv, FilterControl, FilterCount, Owes
  <2>3. handled["MPU"] >= 2
    BY <1>3, <2>2
  <2>4. QED
    BY <1>3, <2>2, <2>3 DEF AttitudeInv
<1>4. QED
  BY <1>2, <1>3

LEMMA AttitudeStreamStep ==
  ASSUME TypeInv, TypeInv', FilterInv, OrderInv, AttitudeInv, StreamStep
  PROVE  AttitudeInv'
<1> USE DEF TypeInv, TypeOK, consumerVars, Goto, Threads, Drivers, Consumers
<1>1. UNCHANGED <<cell["att"], cast, handled, missed, prev, "attitude" \in registered>>
  <2>1. UNCHANGED <<cell, cast, handled, missed, prev>>
    BY DEF StreamStep, StreamStart, StreamSend, StreamSent, Listening, WaitAny, ConsumerTakeFlags,
           ReadSample, sampleVars
  <2>2. registered' \in {registered, registered \cup {"stream"}}
    BY DEF StreamStep, StreamStart, StreamSend, StreamSent, Listening, WaitAny, ConsumerTakeFlags,
           ReadSample, Register, kernelVars
  <2>3. QED
    BY <2>1, <2>2
<1>2. CASE ReadSample("stream")
  <2>1. /\ Running("stream") /\ pc["stream"] = "read" /\ UNCHANGED job
        /\ got'["stream"] = [got["stream"] EXCEPT ![Reads[job["stream"]][rd["stream"] + 1]]
                               = cell[Reads[job["stream"]][rd["stream"] + 1]]]
    BY <1>2 DEF ReadSample
  <2>2. cell["gyro"] = cast["MPU"]
    BY <2>1, ReaderFindsAttitude
  <2>3. got'["stream"]["gyro"] \in {got["stream"]["gyro"], cast["MPU"]}
    BY <2>1, <2>2 DEF Cells
  <2>4. got'["stream"]["gyro"] <= cast'["MPU"]
    BY <1>1, <2>3 DEF AttitudeInv, Flags
  <2>5. AttitudeNotBehindRates'
    <3>1. SUFFICES ASSUME job["stream"] = "att", "attitude" \in registered,
                          got'["stream"]["gyro"] >= missed["MPU"] + 2
                   PROVE  got'["stream"]["att"] >= got'["stream"]["gyro"]
      BY <1>1, <2>1 DEF AttitudeNotBehindRates
    <3>2. Reads["att"][1] = "att" /\ rd["stream"] = 0
      BY <2>1, <3>1 DEF Reads, OrderInv, StreamOrder
    <3>3. got'["stream"]["att"] = cell["att"]
      BY <2>1, <3>1, <3>2 DEF Cells
    <3>4. cast["MPU"] >= missed["MPU"] + 2
      BY <1>1, <2>4, <3>1 DEF Flags, Cells
    <3>5. cell["att"] = cast["MPU"]
      BY <2>1, <3>1, <3>4, ReaderFindsAttitude
    <3>6. QED
      BY <1>1, <2>4, <3>3, <3>5
  <2>6. QED
    BY <1>1, <2>4, <2>5 DEF AttitudeInv
<1>3. CASE StreamStep /\ ~ReadSample("stream")
  <2>1. got' = got
    BY <1>3 DEF StreamStep, StreamStart, StreamSend, StreamSent, Listening, WaitAny,
                ConsumerTakeFlags
  <2>2. pc'["stream"] \in {"use", "busy"} /\ job'["stream"] = "att"
          => pc["stream"] \in {"use", "busy"} /\ job["stream"] = "att"
    BY <1>3 DEF StreamStep, StreamStart, StreamSend, StreamSent, Listening, WaitAny,
                ConsumerTakeFlags, Finish, NextJob
  <2>3. cast'["MPU"] >= cast["MPU"]
    BY <1>1 DEF Flags
  <2>4. QED
    BY <1>1, <2>1, <2>2, <2>3, AttitudeFrame
<1>4. QED
  BY <1>2, <1>3

LEMMA AttitudeOwnStep ==
  ASSUME TypeInv, TypeInv', FilterInv, AttitudeInv, AttitudeStep
  PROVE  AttitudeInv'
<1> USE DEF TypeInv, TypeOK, consumerVars, kernelVars, sampleVars, Goto, Threads, Drivers, Consumers,
            Flags
<1>1. UNCHANGED <<pc["stream"], job["stream"], got["stream"], cast>>
  BY ConsumerMovesItself
<1>2. CASE AttitudeStart
  <2>1. handled'["MPU"] = 0 /\ missed'["MPU"] = cast["MPU"]
    BY <1>2 DEF AttitudeStart, FilterInv, FilterControl, FilterCount
  <2>2. QED
    BY <1>1, <2>1 DEF AttitudeInv, AttitudeNotBehindRates, Cells
<1>3. CASE Listening("attitude") \/ AttitudeUpdateMag
  <2>1. UNCHANGED <<cell["att"], handled["MPU"], missed, prev, registered>>
    BY <1>3 DEF Listening, WaitAny, ConsumerTakeFlags, ReadSample, AttitudeUpdateMag
  <2>2. QED
    BY <1>1, <2>1, AttitudeFrame
<1>4. CASE AttitudeUpdateImu
  <2>1. /\ pc["attitude"] = "use" /\ job["attitude"] = "update_imu"
        /\ UNCHANGED <<missed, registered>>
        /\ handled'["MPU"] = handled["MPU"] + 1 /\ prev' = got["attitude"]["gyro"]
    BY <1>4 DEF AttitudeUpdateImu
  <2>2. "attitude" \in registered /\ got["attitude"]["gyro"] = cast["MPU"]
    BY <2>1 DEF FilterInv, FilterControl, FilterSample
  <2>3. cast["MPU"] = missed["MPU"] + handled["MPU"] + 1
    BY <2>1, <2>2 DEF FilterInv, FilterControl, FilterCount, Owes
  <2>4. prev' >= 1
    BY <2>1, <2>2, <2>3
  <2>5. handled'["MPU"] >= 2 => cell'["att"] = missed'["MPU"] + handled'["MPU"]
    <3>1. handled'["MPU"] >= 2 => prev >= 1
      BY <2>1, <2>2 DEF AttitudeInv
    <3>2. prev >= 1 => cell'["att"] = got["attitude"]["gyro"]
      BY <1>4 DEF AttitudeUpdateImu, Cells
    <3>3. QED
      BY <2>1, <2>2, <2>3, <3>1, <3>2
  <2>6. QED
    BY <1>1, <2>1, <2>2, <2>4, <2>5 DEF AttitudeInv, AttitudeNotBehindRates
<1>5. QED
  BY <1>2, <1>3, <1>4 DEF AttitudeStep

LEMMA AttitudeNextStep ==
  TypeInv /\ TypeInv' /\ FilterInv /\ OrderInv /\ AttitudeInv /\ [Next]_vars => AttitudeInv'
<1> SUFFICES ASSUME TypeInv, TypeInv', FilterInv, OrderInv, AttitudeInv, [Next]_vars
             PROVE  AttitudeInv'
  OBVIOUS
<1> USE DEF consumerVars, kernelVars, sampleVars
<1>1. cast["MPU"] \in Nat
  BY DEF TypeInv, TypeOK, Flags
<1>2. CASE SdlogStep
  <2>1. UNCHANGED <<pc["stream"], job["stream"], got["stream"], cast, cell["att"]>>
    <3>1. cell' = cell
      BY <1>2 DEF SdlogStep, SdlogStart, SdlogOpened, SdlogWrite, SdlogWritten, Listening, WaitAny,
                  ConsumerTakeFlags, ReadSample
    <3>2. QED
      BY <1>2, <3>1, ConsumerMovesItself DEF Threads, Drivers, Consumers
  <2>2. UNCHANGED <<handled, missed, prev, "attitude" \in registered>>
    BY <1>2 DEF SdlogStep, SdlogStart, SdlogOpened, SdlogWrite, SdlogWritten, Listening, WaitAny,
                ConsumerTakeFlags, ReadSample, Register
  <2>3. QED
    BY <1>1, <2>1, <2>2, AttitudeFrame
<1>3. CASE \E t \in Threads : Completes(t) /\ UNCHANGED consumerVars
  <2>1. PICK t \in Threads : Completes(t) /\ UNCHANGED consumerVars
    BY <1>3
  <2>2. /\ \A u \in Threads : pc'[u] = pc[u] \/ pc'[u] \notin {"use", "busy"}
        /\ UNCHANGED <<job, cast, cell, registered>>
    BY <2>1 DEF Completes, Wakes, Goto, TypeInv, TypeOK
  <2>3. QED
    BY <1>1, <2>1, <2>2, AttitudeFrame DEF Threads, Consumers
<1>4. CASE \E p \in Pins : DataReady(p) /\ UNCHANGED consumerVars
  BY <1>1, <1>4, AttitudeFrame DEF DataReady
<1>5. CASE UNCHANGED vars
  BY <1>1, <1>5, AttitudeFrame DEF vars, driverVars
<1>6. QED
  BY <1>2, <1>3, <1>4, <1>5, AttitudeDriverStep, AttitudeStreamStep, AttitudeOwnStep
  DEF Next, CpuStep, Idle

\* An attitude datagram accounts for the rates of the datagram before it, for
\* any number of samples and whichever of the other threads run.
THEOREM AttitudeFresh == Spec => []AttitudeNotBehindRates
<1>1. Init => AttitudeInv
  BY DEF Init, DriverInit, AttitudeInv, AttitudeNotBehindRates, Threads, Drivers, Consumers, Cells,
         Flags
<1>2. TypeInv /\ TypeInv' /\ FilterInv /\ OrderInv /\ AttitudeInv /\ [Next]_vars => AttitudeInv'
  BY AttitudeNextStep
<1>3. AttitudeInv => AttitudeNotBehindRates
  BY DEF AttitudeInv
<1>4. QED
  BY <1>1, <1>2, <1>3, FilterCorrect, OrderCorrect, PTL DEF Spec

(***************************************************************************)
(* The records of one sample.  After is how many more a log that is        *)
(* waiting can write before the next sample is stored, Left how many from  *)
(* where the log is: a record that has begun, one for the event that is    *)
(* pending, and one because a broadcast of another sensor can make the     *)
(* event pending again while the flag of the sample is not taken.          *)
(***************************************************************************)
HasFlag == "MPU" \in flags["sdlog"]

After == IF ~pending["sdlog"] THEN 0 ELSE IF HasFlag THEN 2 ELSE 1

Left == IF pc["sdlog"] = "clear" THEN (IF pending["sdlog"] \/ HasFlag THEN 2 ELSE 1)
        ELSE IF pc["sdlog"] \in {"read", "use"} THEN 1 + After ELSE After

RepeatInv ==
  /\ pc["sdlog"] \in {"read", "use", "busy", "done"} => job["sdlog"] = "record"
  /\ pc["sdlog"] # "clear" /\ HasFlag => pending["sdlog"]
  /\ row <= cast["MPU"] /\ got["sdlog"]["gyro"] <= cast["MPU"]
  /\ cell["gyro"] = row => repeats + Left <= 3
  /\ pc["sdlog"] = "use" \/ (pc["sdlog"] = "read" /\ rd["sdlog"] > 0)
       => (got["sdlog"]["gyro"] = row => repeats <= 2)
  /\ RecordsOfASample

LEMMA LeftBounds == After \in 0 .. 2 /\ Left \in 0 .. 3
BY DEF After, Left

LEMMA FewerLeft == \A n \in Nat, a \in 0 .. 3, b \in 0 .. 3 : b <= a /\ n + a <= 3 => n + b <= 3
OBVIOUS

\* What RepeatInv speaks of; the broadcasts may have grown.
LogView == <<ReaderView("sdlog"), pending["sdlog"], flags["sdlog"], row, repeats, cell["gyro"]>>

LEMMA RepeatFrame ==
  ASSUME TypeInv, TypeInv', RepeatInv, UNCHANGED LogView, cast'["MPU"] >= cast["MPU"]
  PROVE  RepeatInv'
<1>1. /\ cast["MPU"] \in Nat /\ cast'["MPU"] \in Nat /\ row \in Nat
      /\ got["sdlog"]["gyro"] \in Nat
  BY DEF TypeInv, TypeOK, Flags, Cells, Consumers
<1>2. QED
  BY <1>1 DEF RepeatInv, LogView, ReaderView, HasFlag, After, Left, RecordsOfASample

\* A broadcast of the sample itself finds a newer one stored than the log has
\* written; one of another sensor at most makes the event pending again.
LEMMA RepeatBroadcast ==
  ASSUME TypeInv, TypeInv', FilterInv, RepeatInv, NEW f \in Flags, Announce(f),
         f = "MPU" => pc["spi"] = "cast",
         UNCHANGED <<ReaderView("sdlog"), row, repeats, cell["gyro"]>>
  PROVE  RepeatInv'
<1> USE DEF TypeInv, TypeOK, Announce, Broadcast, Collected, Signalled, Threads, Drivers,
            Consumers, Flags, Wanted, ReaderView
<1>1. cast'["MPU"] >= cast["MPU"] /\ cast["MPU"] \in Nat /\ cast'["MPU"] \in Nat
  OBVIOUS
<1>2. CASE f = "MPU"
  <2>1. cell["gyro"] = cast["MPU"] + 1
    BY <1>2 DEF FilterInv, FilterSample
  <2>2. cell'["gyro"] # row'
    BY <1>1, <2>1 DEF RepeatInv
  <2>3. HasFlag' => pending'["sdlog"] \/ pc["sdlog"] = "clear"
    BY <1>2 DEF RepeatInv, HasFlag
  <2>4. QED
    BY <1>1, <2>2, <2>3 DEF RepeatInv, RecordsOfASample, Cells
<1>3. CASE f # "MPU"
  <2>1. HasFlag' = HasFlag
    BY <1>3 DEF HasFlag
  <2>2. /\ pending["sdlog"] => pending'["sdlog"]
        /\ pending'["sdlog"] => pending["sdlog"] \/ HasFlag
    BY <1>3 DEF HasFlag
  <2>3. Left' = Left
    BY <2>1, <2>2 DEF Left, After, RepeatInv
  <2>4. QED
    BY <1>1, <2>1, <2>2, <2>3, LeftBounds DEF RepeatInv, RecordsOfASample, Cells
<1>4. QED
  BY <1>2, <1>3

LEMMA RepeatDriverStep ==
  ASSUME TypeInv, TypeInv', FilterInv, RepeatInv, DriverStep, UNCHANGED consumerVars
  PROVE  RepeatInv'
<1> USE DEF TypeInv, TypeOK, consumerVars, kernelVars, sampleVars, Goto, Threads, Drivers, Consumers
<1>1. UNCHANGED ReaderView("sdlog") /\ UNCHANGED <<row, repeats>>
  <2>1. CASE SpiStep
    BY <2>1 DEF SpiStep, SpiStart, SpiInited, WaitAny, SpiRead, SpiStore, SpiBroadcast, ReaderView
  <2>2. CASE I2cStep
    BY <2>2 DEF I2cStep, I2cStart, I2cSetUp, WaitAny, I2cTakeFlags, I2cAcquire, I2cStore,
                I2cBroadcast, I2cNext, ReaderView
  <2>3. CASE BaroStep
    BY <2>3 DEF BaroStep, I2cAcquire, BaroGot, BaroGoto, BaroStore, BaroBroadcast, ReaderView
  <2>4. QED
    BY <2>1, <2>2, <2>3 DEF DriverStep
<1>2. cast["MPU"] \in Nat
  BY DEF Flags
<1>3. CASE SpiStart \/ SpiInited \/ WaitAny("spi") \/ SpiRead
  <2>1. UNCHANGED LogView /\ UNCHANGED cast
    BY <1>1, <1>3 DEF SpiStart, SpiInited, WaitAny, SpiRead, TakeFlags, LogView
  <2>2. QED
    BY <1>2, <2>1, RepeatFrame
<1>4. CASE I2cStart \/ I2cSetUp \/ WaitAny("i2c") \/ I2cTakeFlags \/ I2cAcquire("i2c")
             \/ I2cAcquire("baro") \/ BaroGot
  <2>1. UNCHANGED LogView /\ UNCHANGED cast
    BY <1>1, <1>4 DEF I2cStart, I2cSetUp, WaitAny, I2cTakeFlags, I2cNext, TakeFlags, I2cAcquire,
                      BaroGot, LogView
  <2>2. QED
    BY <1>2, <2>1, RepeatFrame
<1>5. CASE I2cStore \/ BaroStore
  <2>1. cell'["gyro"] = cell["gyro"]
    BY <1>5 DEF I2cStore, BaroStore, Publish, Stores, Cells, Pins, JobAtCast
  <2>2. UNCHANGED LogView /\ UNCHANGED cast
    BY <1>1, <1>5, <2>1 DEF I2cStore, BaroStore, LogView
  <2>3. QED
    BY <1>2, <2>2, RepeatFrame
<1>6. CASE SpiStore
  <2>1. cell'["gyro"] = cell["gyro"] + 1 /\ UNCHANGED <<cast, flags, pending>>
    BY <1>6 DEF SpiStore, Publish, Stores, Cells
  <2>2. cell["gyro"] \in {cast["MPU"], cast["MPU"] + 1} /\ row <= cast["MPU"] /\ row \in Nat
    BY <1>2 DEF FilterInv, FilterSample, RepeatInv
  <2>3. cell'["gyro"] # row'
    BY <1>1, <1>2, <2>1, <2>2
  <2>4. QED
    BY <1>1, <2>1, <2>3 DEF RepeatInv, HasFlag, RecordsOfASample, ReaderView
<1>7. CASE SpiBroadcast
  BY <1>1, <1>7, RepeatBroadcast DEF SpiBroadcast, Flags
<1>8. CASE I2cBroadcast
  <2>1. job["i2c"] \in {"HMC", "H3LIS"} /\ Announce(job["i2c"]) /\ UNCHANGED cell
    BY <1>8 DEF I2cBroadcast, JobAtCast
  <2>2. QED
    BY <1>1, <2>1, RepeatBroadcast DEF Flags
<1>9. CASE BaroBroadcast
  BY <1>1, <1>9, RepeatBroadcast DEF BaroBroadcast, Flags
<1>10. QED
  BY <1>3, <1>4, <1>5, <1>6, <1>7, <1>8, <1>9 DEF DriverStep, SpiStep, I2cStep, BaroStep

LEMMA RepeatOwnStep ==
  ASSUME TypeInv, TypeInv', FilterInv, OrderInv, RepeatInv, SdlogStep
  PROVE  RepeatInv'
<1> USE DEF TypeInv, TypeOK, consumerVars, kernelVars, Goto, Threads, Drivers, Consumers
<1>1. /\ cast' = cast /\ cell'["gyro"] = cell["gyro"] /\ cast["MPU"] \in Nat
      /\ cell["gyro"] \in Nat /\ row \in Nat /\ repeats \in Nat /\ got["sdlog"]["gyro"] \in Nat
  BY ConsumerMovesItself DEF Flags, Cells
<1>2. CASE SdlogStart \/ SdlogOpened
  <2>1. /\ pc["sdlog"] \in {"start", "opened"} /\ pc'["sdlog"] \in {"open", "wait", "dead"}
        /\ UNCHANGED <<flags, pending, row, repeats, got>>
    BY <1>2 DEF SdlogStart, SdlogOpened
  <2>2. Left' = Left /\ HasFlag' = HasFlag
    BY <2>1 DEF Left, After, HasFlag
  <2>3. QED
    BY <1>1, <2>1, <2>2, LeftBounds DEF RepeatInv, RecordsOfASample
<1>3. CASE WaitAny("sdlog") /\ UNCHANGED consumerVars
  <2>1. /\ pc["sdlog"] = "wait" /\ pending["sdlog"] /\ ~pending'["sdlog"]
        /\ pc'["sdlog"] = "clear" /\ UNCHANGED <<flags, row, repeats, got>>
    BY <1>3 DEF WaitAny, Running, CanRun
  <2>2. Left' = Left
    BY <2>1 DEF Left, After, HasFlag
  <2>3. QED
    BY <1>1, <2>1, <2>2, LeftBounds DEF RepeatInv, RecordsOfASample
<1>4. CASE ConsumerTakeFlags("sdlog")
  <2>1. NextJob("sdlog", {"record"})
    BY <1>4, RecordJobs DEF ConsumerTakeFlags
  <2>2. /\ pc["sdlog"] = "clear" /\ pc'["sdlog"] = "read" /\ job'["sdlog"] = "record"
        /\ rd'["sdlog"] = 0 /\ ~HasFlag' /\ UNCHANGED <<pending, row, repeats, got>>
    BY <1>4, <2>1, RecordJobs DEF ConsumerTakeFlags, TakeFlags, NextJob, HasFlag
  <2>3. Left' <= Left /\ Left' \in 0 .. 3 /\ Left \in 0 .. 3
    BY <2>2 DEF Left, After
  <2>4. QED
    <3>1. cell'["gyro"] = row' => repeats' + Left' <= 3
      <4>1. cell["gyro"] = row => repeats + Left <= 3
        BY DEF RepeatInv
      <4>2. repeats \in Nat
        BY <1>1
      <4>3. repeats + Left <= 3 => repeats + Left' <= 3
        BY <2>3, <4>2, FewerLeft
      <4>4. QED
        BY <1>1, <2>2, <4>1, <4>3
    <3>2. row' <= cast'["MPU"] /\ got'["sdlog"]["gyro"] <= cast'["MPU"] /\ repeats' <= 3
      BY <1>1, <2>2 DEF RepeatInv, RecordsOfASample
    <3>3. QED
      BY <2>2, <3>1, <3>2 DEF RepeatInv, RecordsOfASample
<1>5. CASE ReadSample("sdlog")
  <2>1. /\ pc["sdlog"] = "read" /\ pc'["sdlog"] \in {"read", "use"} /\ Running("sdlog")
        /\ job["sdlog"] = "record" /\ UNCHANGED <<job, flags, pending, row, repeats>>
        /\ rd'["sdlog"] = rd["sdlog"] + 1 /\ rd["sdlog"] \in {0, 1, 2}
    BY <1>5 DEF ReadSample, OrderInv, LogOrder
  <2>2. Left' = Left /\ HasFlag' = HasFlag /\ Left >= 1
    BY <2>1 DEF Left, After, HasFlag
  <2>3. CASE rd["sdlog"] = 0
    <3>1. ~CanRun("spi")
      BY <2>1 DEF Running, Prio
    <3>2. cell["gyro"] = cast["MPU"]
      BY <1>1, <3>1 DEF CanRun, Asleep, FilterInv, FilterSample
    <3>3. got'["sdlog"]["gyro"] = cell["gyro"]
      BY <1>5, <2>1, <2>3 DEF ReadSample, Reads, Cells
    <3>4. QED
      BY <1>1, <2>1, <2>2, <3>2, <3>3, LeftBounds DEF RepeatInv, RecordsOfASample
  <2>4. CASE rd["sdlog"] # 0
    <3>1. got'["sdlog"]["gyro"] = got["sdlog"]["gyro"]
      <4>1. Reads["record"][2] = "acc" /\ Reads["record"][3] = "temp"
        BY DEF Reads
      <4>2. CASE rd["sdlog"] = 1
        BY <1>5, <2>1, <4>1, <4>2 DEF ReadSample, Cells
      <4>3. CASE rd["sdlog"] = 2
        BY <1>5, <2>1, <4>1, <4>3 DEF ReadSample, Cells
      <4>4. QED
        BY <2>1, <2>4, <4>2, <4>3
    <3>2. QED
      BY <1>1, <2>1, <2>2, <2>4, <3>1, LeftBounds DEF RepeatInv, RecordsOfASample
  <2>5. QED
    BY <2>3, <2>4
<1>6. CASE SdlogWrite
  <2>1. /\ pc["sdlog"] = "use" /\ pc'["sdlog"] = "busy" /\ UNCHANGED <<job, flags, pending, got>>
        /\ row' = got["sdlog"]["gyro"]
        /\ repeats' = IF got["sdlog"]["gyro"] = row THEN repeats + 1 ELSE 1
    BY <1>6 DEF SdlogWrite
  <2>2. Left = 1 + After /\ Left' = After /\ HasFlag' = HasFlag
    BY <2>1 DEF Left, After, HasFlag
  <2>3. QED
    BY <1>1, <2>1, <2>2, LeftBounds DEF RepeatInv, RecordsOfASample
<1>7. CASE SdlogWritten
  <2>1. /\ pc["sdlog"] = "done" /\ Finish("sdlog") /\ UNCHANGED <<flags, pending, row, repeats, got>>
    BY <1>7 DEF SdlogWritten
  <2>2. todo["sdlog"] \ {job["sdlog"]} = {}
    BY <2>1 DEF RepeatInv, OrderInv, LogOrder
  <2>3. pc'["sdlog"] = "wait"
    BY <2>1, <2>2 DEF Finish, NextJob
  <2>4. Left' = Left /\ HasFlag' = HasFlag
    BY <2>1, <2>3 DEF Left, After, HasFlag
  <2>5. QED
    BY <1>1, <2>1, <2>3, <2>4, LeftBounds DEF RepeatInv, RecordsOfASample
<1>8. QED
  BY <1>2, <1>3, <1>4, <1>5, <1>6, <1>7 DEF SdlogStep, Listening

LEMMA RepeatNextStep ==
  TypeInv /\ TypeInv' /\ FilterInv /\ OrderInv /\ RepeatInv /\ [Next]_vars => RepeatInv'
<1> SUFFICES ASSUME TypeInv, TypeInv', FilterInv, OrderInv, RepeatInv, [Next]_vars
             PROVE  RepeatInv'
  OBVIOUS
<1> USE DEF consumerVars, kernelVars, sampleVars
<1>1. cast["MPU"] \in Nat
  BY DEF TypeInv, TypeOK, Flags
<1>2. ASSUME NEW t \in {"attitude", "stream"}, t = "attitude" => AttitudeStep,
             t = "stream" => StreamStep
      PROVE  RepeatInv'
  <2>1. UNCHANGED ReaderView("sdlog") /\ UNCHANGED <<cast, cell["gyro"]>>
    BY <1>2, ConsumerMovesItself DEF ReaderView, Threads, Drivers, Consumers, Cells
  <2>2. CASE t = "attitude"
    <3>1. UNCHANGED <<pending["sdlog"], flags["sdlog"], row, repeats>>
      BY <1>2, <2>2 DEF AttitudeStep, AttitudeStart, AttitudeUpdateImu, AttitudeUpdateMag, Listening,
                        WaitAny, ConsumerTakeFlags, TakeFlags, ReadSample, TypeInv, TypeOK,
                        Threads, Drivers, Consumers
    <3>2. QED
      BY <1>1, <2>1, <3>1, RepeatFrame DEF LogView
  <2>3. CASE t = "stream"
    <3>1. UNCHANGED <<pending["sdlog"], flags["sdlog"], row, repeats>>
      BY <1>2, <2>3 DEF StreamStep, StreamStart, StreamSend, StreamSent, Listening,
                        WaitAny, ConsumerTakeFlags, TakeFlags, ReadSample, TypeInv, TypeOK,
                        Threads, Drivers, Consumers
    <3>2. QED
      BY <1>1, <2>1, <3>1, RepeatFrame DEF LogView
  <2>4. QED
    BY <2>2, <2>3
<1>3. CASE \E t \in Threads : Completes(t) /\ UNCHANGED consumerVars
  <2>1. PICK t \in Threads : Completes(t) /\ UNCHANGED consumerVars
    BY <1>3
  <2>2. CASE t # "sdlog"
    <3>1. UNCHANGED ReaderView("sdlog")
      BY <2>1, <2>2 DEF Completes, Goto, ReaderView, TypeInv, TypeOK, Threads, Consumers
    <3>2. QED
      BY <1>1, <2>1, <3>1, RepeatFrame DEF Completes, LogView
  <2>3. CASE t = "sdlog"
    <3>1. /\ pc["sdlog"] \in DOMAIN Wakes /\ pc'["sdlog"] = Wakes[pc["sdlog"]]
          /\ UNCHANGED <<job, flags, pending, cell, cast, row, repeats, got>>
      BY <2>1, <2>3 DEF Completes, Goto, TypeInv, TypeOK
    <3>2. /\ pc["sdlog"] \notin {"clear", "read", "use"}
          /\ pc'["sdlog"] \notin {"clear", "read", "use"}
          /\ pc'["sdlog"] = "done" => pc["sdlog"] = "busy"
          /\ pc'["sdlog"] # "busy"
      BY <3>1 DEF Wakes
    <3>3. Left' = Left /\ HasFlag' = HasFlag
      BY <3>1, <3>2 DEF Left, After, HasFlag
    <3>4. QED
      BY <3>1, <3>2, <3>3, LeftBounds DEF RepeatInv, RecordsOfASample
  <2>4. QED
    BY <2>2, <2>3
<1>4. CASE \E p \in Pins : DataReady(p) /\ UNCHANGED consumerVars
  <2>1. UNCHANGED LogView /\ UNCHANGED cast
    BY <1>4 DEF DataReady, Broadcast, Collected, Signalled, LogView, ReaderView, TypeInv, TypeOK,
                Threads, Drivers, Consumers
  <2>2. QED
    BY <1>1, <2>1, RepeatFrame
<1>5. CASE UNCHANGED vars
  <2>1. UNCHANGED LogView /\ UNCHANGED cast
    BY <1>5 DEF vars, driverVars, LogView, ReaderView
  <2>2. QED
    BY <1>1, <2>1, RepeatFrame
<1>6. QED
  BY <1>2, <1>3, <1>4, <1>5, RepeatDriverStep, RepeatOwnStep DEF Next, CpuStep, Idle

\* No sample of the gyroscope has more than three records in a row in the log,
\* however many broadcasts of the other sensors fall between its steps.
THEOREM RecordsBounded == Spec => []RecordsOfASample
<1>1. Init => RepeatInv
  BY DEF Init, DriverInit, RepeatInv, RecordsOfASample, Left, After, HasFlag, Threads, Drivers,
         Consumers, Cells, Flags
<1>2. TypeInv /\ TypeInv' /\ FilterInv /\ OrderInv /\ RepeatInv /\ [Next]_vars => RepeatInv'
  BY RepeatNextStep
<1>3. RepeatInv => RecordsOfASample
  BY DEF RepeatInv
<1>4. QED
  BY <1>1, <1>2, <1>3, FilterCorrect, OrderCorrect, PTL DEF Spec
=============================================================================
