-------------------------- MODULE MCSensorPipeline --------------------------
(***************************************************************************)
(* Small instances of SensorPipeline.  The consumers only share the core   *)
(* and the attitude cell, so each instance starts the ones it is about.    *)
(***************************************************************************)
EXTENDS SensorPipeline

\* Both sensors of the filter: the edge of the magnetometer can fall on either
\* side of each of the two of the gyro, before and after the registration; and
\* the log, which takes a third record of one sample from such a broadcast.
FilterThreads == {"spi", "i2c", "attitude", "sdlog"}
FilterEdges == [MPU |-> 2, HMC |-> 1, H3LIS |-> 0]

\* Telemetry behind the filter, and the log below it: three samples, so that the
\* filter has had its first interval, a driver can store between two copies of
\* stream, and a flag is posted while each of them is busy.
StreamThreads == {"spi", "attitude", "stream", "sdlog"}
StreamEdges == [MPU |-> 3, HMC |-> 0, H3LIS |-> 0]

\* Everything on the I2C bus: both devices and one barometer sample.
BusThreads == {"i2c", "attitude", "stream"}
BusEdges == [MPU |-> 0, HMC |-> 1, H3LIS |-> 1]
=============================================================================
