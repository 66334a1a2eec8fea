--------------------------- MODULE SensorPipeline ---------------------------
(***************************************************************************)
(* The whole sensor pipeline: the drivers of SensorDrivers and the three   *)
(* threads that listen to sensor_events.  A listener takes its flags, then *)
(* copies the cells it needs one getter at a time, each under a            *)
(* chSysLock() of its own, and then uses the copies: attitude feeds them   *)
(* to the filter, stream packs them in a datagram, sdlog writes a record.  *)
(*                                                                         *)
(* The drivers run above stream and sdlog and below attitude, so that a    *)
(* driver can store a new sample between two copies of the first two but   *)
(* never between two copies of the third.                                  *)
(***************************************************************************)
EXTENDS SensorDrivers, Sequences

VARIABLES
  rd,       \* number of cells copied so far for the current job
  got,      \* the copies: got[t][c] is the index thread t last read from c
  prev,     \* prev_mpu6000_timestamp: the sample it comes from, 0 for none
  handled,  \* history: samples attitude used, by flag
  missed,   \* history: broadcasts that came before attitude registered
  row,      \* history: gyro index of the last record of the log
  repeats   \* history: how many records in a row hold that index

consumerVars == <<rd, got, prev, handled, missed, row, repeats>>
vars == <<driverVars, consumerVars>>

\* Mutant of Reads: the acceleration is copied before the rates.
ReadsAccFirst == [update_imu |-> <<"gyro", "acc">>, update_mag |-> <<"mag">>,
          imu |-> <<"acc", "gyro">>, att |-> <<"att">>, mag |-> <<"mag">>,
          hi_acc |-> <<"hiacc">>, baro |-> <<"baro">>,
          record |-> <<"temp", "gyro", "acc">>]

\* The cells copied for a job, in the order of the calls.
Reads == [update_imu |-> <<"gyro", "acc">>, update_mag |-> <<"mag">>,
          imu |-> <<"gyro", "acc">>, att |-> <<"att">>, mag |-> <<"mag">>,
          hi_acc |-> <<"hiacc">>, baro |-> <<"baro">>,
          record |-> <<"gyro", "acc", "temp">>]

\* The jobs a set of event_flags asks of a thread.  The log ignores them.
JobsOf(t, F) ==
  CASE t = "attitude" -> (IF "MPU" \in F THEN {"update_imu"} ELSE {})
                           \cup (IF "HMC" \in F THEN {"update_mag"} ELSE {})
    [] t = "stream"   -> (IF "MPU" \in F THEN {"imu", "att"} ELSE {})
                           \cup (IF "HMC" \in F THEN {"mag"} ELSE {})
                           \cup (IF "H3LIS" \in F THEN {"hi_acc"} ELSE {})
                           \cup (IF "MS5611" \in F THEN {"baro"} ELSE {})
    [] t = "sdlog"    -> {"record"}

\* The order in which the bodies of the loops test the flags.
First(S) == CASE "update_imu" \in S -> "update_imu"
              [] "update_imu" \notin S /\ "update_mag" \in S -> "update_mag"
              [] "imu" \in S -> "imu"
              [] "imu" \notin S /\ "att" \in S -> "att"
              [] S \cap {"imu", "att"} = {} /\ "mag" \in S -> "mag"
              [] S \cap {"imu", "att", "mag"} = {} /\ "hi_acc" \in S -> "hi_acc"
              [] S = {"baro"} -> "baro"
              [] S = {"record"} -> "record"
              [] OTHER -> "none"

NextJob(t, S) == /\ todo' = [todo EXCEPT ![t] = S]
                 /\ job' = [job EXCEPT ![t] = First(S)]
                 /\ Goto(t, IF S = {} THEN "wait" ELSE "read")
                 /\ rd' = [rd EXCEPT ![t] = 0]

Finish(t) == NextJob(t, todo[t] \ {job[t]})

\* chEvtGetAndClearFlags() and the tests of its result.
ConsumerTakeFlags(t) ==
  /\ Running(t) /\ pc[t] = "clear"
  /\ TakeFlags(t)
  /\ NextJob(t, JobsOf(t, flags[t]))
  /\ UNCHANGED <<pending, registered, bus, sampleVars, errors>>
  /\ UNCHANGED <<got, prev, handled, missed, row, repeats>>

\* One of the onboard_sensor_get_*() or attitude_determination_get_attitude().
ReadSample(t) ==
  LET plan == Reads[job[t]]
      c == plan[rd[t] + 1]
  IN  /\ Running(t) /\ pc[t] = "read"
      /\ got' = [got EXCEPT ![t][c] = cell[c]]
      /\ rd' = [rd EXCEPT ![t] = @ + 1]
      /\ Goto(t, IF rd[t] + 1 = Len(plan) THEN "use" ELSE "read")
      /\ UNCHANGED <<job, todo, kernelVars, bus, sampleVars, errors>>
      /\ UNCHANGED <<prev, handled, missed, row, repeats>>

(***************************************************************************)
(* Thread attitude_determination.                                          *)
(***************************************************************************)
AttitudeStart ==
  /\ Running("attitude") /\ pc["attitude"] = "start"
  /\ Register("attitude")
  /\ Goto("attitude", "wait")
  /\ missed' = cast
  /\ UNCHANGED <<job, todo, flags, pending, bus, sampleVars, errors>>
  /\ UNCHANGED <<rd, got, prev, handled, row, repeats>>

\* Mutant of AttitudeUpdateImu: the attitude is published before the update.
AttitudePublishEarly ==
  /\ Running("attitude") /\ pc["attitude"] = "use" /\ job["attitude"] = "update_imu"
  /\ prev' = got["attitude"]["gyro"]
  /\ cell' = [cell EXCEPT !["att"] = prev]
  /\ handled' = [handled EXCEPT !["MPU"] = @ + 1]
  /\ Finish("attitude")
  /\ UNCHANGED <<kernelVars, bus, ready, raw, used, cast, errors>>
  /\ UNCHANGED <<got, missed, row, repeats>>

\* The first sample only gives the start time of the next interval; every
\* other one goes into update_imu() and its attitude is published.
AttitudeUpdateImu ==
  /\ Running("attitude") /\ pc["attitude"] = "use" /\ job["attitude"] = "update_imu"
  /\ prev' = got["attitude"]["gyro"]
  /\ cell' = [cell EXCEPT !["att"] = IF prev = 0 THEN @ ELSE got["attitude"]["gyro"]]
  /\ handled' = [handled EXCEPT !["MPU"] = @ + 1]
  /\ Finish("attitude")
  /\ UNCHANGED <<kernelVars, bus, ready, raw, used, cast, errors>>
  /\ UNCHANGED <<got, missed, row, repeats>>

AttitudeUpdateMag ==
  /\ Running("attitude") /\ pc["attitude"] = "use" /\ job["attitude"] = "update_mag"
  /\ handled' = [handled EXCEPT !["HMC"] = @ + 1]
  /\ Finish("attitude")
  /\ UNCHANGED <<kernelVars, bus, sampleVars, errors>>
  /\ UNCHANGED <<got, prev, missed, row, repeats>>

(***************************************************************************)
(* Thread stream: a datagram per job, datagram_message_send() blocks.      *)
(***************************************************************************)
StreamStart == /\ Running("stream") /\ pc["stream"] = "start"
               /\ Register("stream")
               /\ Goto("stream", "wait")
               /\ UNCHANGED <<job, todo, flags, pending, bus, sampleVars, errors>>
               /\ UNCHANGED consumerVars

StreamSend == /\ Running("stream") /\ pc["stream"] = "use"
              /\ Goto("stream", "busy")
              /\ UNCHANGED <<job, todo, kernelVars, bus, sampleVars, errors>>
              /\ UNCHANGED consumerVars

\* Mutant of StreamSent: the flags are cleared again after the work is done.
StreamSentClears == /\ Running("stream") /\ pc["stream"] = "done"
                    /\ Finish("stream")
                    /\ TakeFlags("stream")
                    /\ UNCHANGED <<pending, registered, bus, sampleVars, errors>>
                    /\ UNCHANGED <<got, prev, handled, missed, row, repeats>>

StreamSent == /\ Running("stream") /\ pc["stream"] = "done"
              /\ Finish("stream")
              /\ UNCHANGED <<kernelVars, bus, sampleVars, errors>>
              /\ UNCHANGED <<got, prev, handled, missed, row, repeats>>

(***************************************************************************)
(* Thread sdlog: the listener is registered before the files are opened;   *)
(* the thread ends when one of them cannot be.  What f_write() does to the *)
(* card is the subject of the modules of the SD card.                      *)
(***************************************************************************)
SdlogStart == /\ Running("sdlog") /\ pc["sdlog"] = "start"
              /\ Register("sdlog")
              /\ Goto("sdlog", "open")
              /\ UNCHANGED <<job, todo, flags, pending, bus, sampleVars, errors>>
              /\ UNCHANGED consumerVars

SdlogOpened == /\ Running("sdlog") /\ pc["sdlog"] = "opened"
               /\ Goto("sdlog", "wait") \/ Goto("sdlog", "dead")
               /\ UNCHANGED <<job, todo, kernelVars, bus, sampleVars, errors>>
               /\ UNCHANGED consumerVars

SdlogWrite ==
  LET g == got["sdlog"]["gyro"] IN
  /\ Running("sdlog") /\ pc["sdlog"] = "use"
  /\ Goto("sdlog", "busy")
  /\ row' = g
  /\ repeats' = IF g = row THEN repeats + 1 ELSE 1
  /\ UNCHANGED <<job, todo, kernelVars, bus, sampleVars, errors>>
  /\ UNCHANGED <<rd, got, prev, handled, missed>>

\* Mutant of SdlogWritten: the loop takes the flags without waiting first.
SdlogWrittenNoWait == /\ Running("sdlog") /\ pc["sdlog"] = "done"
                      /\ Goto("sdlog", "clear")
                      /\ UNCHANGED <<job, todo, kernelVars, bus, sampleVars, errors>>
                      /\ UNCHANGED consumerVars

SdlogWritten == /\ Running("sdlog") /\ pc["sdlog"] = "done"
                /\ Finish("sdlog")
                /\ UNCHANGED <<kernelVars, bus, sampleVars, errors>>
                /\ UNCHANGED <<got, prev, handled, missed, row, repeats>>

(***************************************************************************)
(* The specification.                                                      *)
(***************************************************************************)
Listening(t) == (WaitAny(t) /\ UNCHANGED consumerVars)
                  \/ ConsumerTakeFlags(t) \/ ReadSample(t)

AttitudeStep == AttitudeStart \/ Listening("attitude")
                  \/ AttitudeUpdateImu \/ AttitudeUpdateMag
StreamStep   == StreamStart \/ Listening("stream") \/ StreamSend \/ StreamSent
SdlogStep    == SdlogStart \/ SdlogOpened \/ Listening("sdlog")
                  \/ SdlogWrite \/ SdlogWritten

\* The core executes an instruction of the thread that runs.
CpuStep == (DriverStep /\ UNCHANGED consumerVars)
             \/ AttitudeStep \/ StreamStep \/ SdlogStep

\* Every thread is blocked and the bounds leave no edge to come.
Idle == /\ \A t \in Threads : ~CanRun(t) /\ pc[t] \notin DOMAIN Wakes
        /\ \A p \in Pins : ready[p] = MaxReady[p]
        /\ UNCHANGED vars

Init == /\ DriverInit
        /\ rd = [t \in Consumers |-> 0]
        /\ got = [t \in Consumers |-> [c \in Cells |-> 0]]
        /\ prev = 0
        /\ handled = [f \in {"MPU", "HMC"} |-> 0]
        /\ missed = [f \in Flags |-> 0]
        /\ row = 0
        /\ repeats = 0

Next == \/ CpuStep
        \/ \E t \in Threads : Completes(t) /\ UNCHANGED consumerVars
        \/ \E p \in Pins : DataReady(p) /\ UNCHANGED consumerVars
        \/ Idle

(***************************************************************************)
(* Fairness: the core never stops while a thread can run, and a peripheral *)
(* or a timer a thread sleeps on ends (every driver call has a timeout).   *)
(* Nothing is assumed of the sensors.                                      *)
(***************************************************************************)
Fairness == /\ WF_vars(CpuStep)
            /\ \A t \in Threads : WF_vars(Completes(t) /\ UNCHANGED consumerVars)

Spec == Init /\ [][Next]_vars
FairSpec == Spec /\ Fairness

(***************************************************************************)
(* Properties.                                                             *)
(***************************************************************************)
Labels == Asleep \cup {"start", "inited", "acq", "got", "wait", "clear", "cast",
                       "store", "read", "use", "opened", "done"}
Jobs == DOMAIN Reads \cup DOMAIN SetUp \cup Flags \cup DOMAIN BaroAfterStart
          \cup DOMAIN BaroAfterRead \cup {"publish", "none"}

\* The types of the variables of the pipeline.
TypeOK ==
  /\ pc \in [Threads -> Labels]
  /\ job \in [Threads -> Jobs]
  /\ todo \in [Threads -> SUBSET Jobs]
  /\ flags \in [Threads -> SUBSET Flags]
  /\ pending \in [Threads -> BOOLEAN]
  /\ registered \in SUBSET Threads
  /\ bus \in {"i2c", "baro", NoOne}
  /\ ready \in [Pins -> Nat]
  /\ raw \in [Flags -> Nat] /\ used \in [Flags -> Nat] /\ cast \in [Flags -> Nat]
  /\ cell \in [Cells -> Nat]
  /\ errors \in [{"WARNING", "CRITICAL"} -> Nat]
  /\ rd \in [Consumers -> Nat]
  /\ got \in [Consumers -> [Cells -> Nat]]
  /\ prev \in Nat /\ row \in Nat /\ repeats \in Nat
  /\ handled \in [{"MPU", "HMC"} -> Nat]
  /\ missed \in [Flags -> Nat]

\* Whenever attitude_determination waits for the next event, it has used every
\* sample of the gyroscope and of the magnetometer broadcast since it
\* registered, each exactly once: a driver cannot broadcast a second sample, or
\* a sample of the other sensor, before the first one is dealt with.
EachSampleUsedOnce ==
  ("attitude" \in registered /\ pc["attitude"] = "wait" /\ ~pending["attitude"])
    => \A f \in {"MPU", "HMC"} : handled[f] = cast[f] - missed[f]

\* update_imu() gets a rate and an acceleration of one and the same sample,
\* the newest one, although the two getters lock separately.
AttitudePairMatches ==
  (pc["attitude"] = "use" /\ job["attitude"] = "update_imu")
    => /\ got["attitude"]["gyro"] = got["attitude"]["acc"]
       /\ got["attitude"]["gyro"] = cast["MPU"]

\* An "imu" datagram, timed with its gyro sample, never has an acceleration
\* older than that sample, although the driver may store between the copies.
DatagramInOrder ==
  (pc["stream"] \in {"use", "busy"} /\ job["stream"] = "imu")
    => got["stream"]["gyro"] <= got["stream"]["acc"]

\* The same of a record of the log, and of its temperature.
RecordInOrder ==
  pc["sdlog"] \in {"use", "busy"}
    => /\ got["sdlog"]["gyro"] <= got["sdlog"]["acc"]
       /\ got["sdlog"]["acc"] <= got["sdlog"]["temp"]

\* An "att" datagram already accounts for the rate the "imu" datagram before
\* it carried (once the filter has had its first interval).
AttitudeNotBehindRates ==
  (/\ pc["stream"] \in {"use", "busy"} /\ job["stream"] = "att"
   /\ "attitude" \in registered
   /\ got["stream"]["gyro"] >= missed["MPU"] + 2)
    => got["stream"]["att"] >= got["stream"]["gyro"]

\* The log ignores the flags it takes, so a wakeup that finds nothing new
\* writes the same sample again, but no sample has more than three records.
RecordsOfASample == repeats <= 3

\* The I2C bus is held for the length of one transaction, never while the
\* barometer waits for a conversion or a driver waits for an interrupt.
BusHeldInTransaction ==
  \A t \in {"i2c", "baro"} : bus = t <=> pc[t] \in {"xfer", "got"} 

\* No wakeup is lost: once the flag of a sample is posted to stream or to
\* sdlog, the thread copies that sample or a newer one (sdlog unless it ended).
SampleReachesReaders ==
  \A t \in {"stream", "sdlog"} :
    ("MPU" \in flags[t]) ~> (got[t]["gyro"] = cell["gyro"] \/ pc[t] = "dead")

\* An edge on a data-ready pin seen by the driver's listener leads to a
\* published sample with that conversion or a newer one.
ConversionIsPublished ==
  \A p \in Pins : \A n \in 1..MaxReady[p] :
    LET driver == IF p = "MPU" THEN "spi" ELSE "i2c" IN
    (p \in flags[driver] /\ ready[p] = n)
      ~> (used[p] >= n \/ pc[driver] = "dead")
=============================================================================
