# Verification of the INS board firmware

TLA+ modules for the firmware of the INS board: an STM32F405 running ChibiOS/RT,
which reads an IMU (MPU6000 on SPI), a high-g accelerometer, a magnetometer and a
barometer (on one I2C bus), estimates the attitude, streams telemetry as
datagrams, logs to an SD card and offers a shell.  The modules are translated
from the code under `src/`; ChibiOS, the sensor drivers, the filter, the
parameter and the datagram libraries are git submodules whose sources are not in
the repository, and are modelled from how the firmware calls them.

## 1. The system

One core, fixed priorities, no time slicing (`CH_CFG_TIME_QUANTUM` 0): a thread
runs until it blocks or one of higher priority can run.  Interrupts come at any
moment.

| component (file) | state | operations | talks to |
|---|---|---|---|
| interrupt callback (`exti.c`) | `exti_events` | broadcast a flag per data-ready pin | the SPI and I2C drivers |
| SPI driver (`onboardsensors.c`, prio 11) | gyro, acc, temp samples | wait, read MPU6000, store, broadcast | `sensor_events` |
| I2C driver (prio 10) | hi-g and mag samples | set up, create the barometer thread, wait, read, store, broadcast | I2C bus, `sensor_events` |
| barometer (prio 10) | baro sample | two conversions with sleeps, store, broadcast | I2C bus, `sensor_events` |
| attitude determination (prio 20) | filter, `attitude`, calibration | wait, copy samples, update, publish | reads the samples |
| stream (prio 4) | flags, datagram buffer | wait, copy samples, send | datagram channel |
| datagram handler (`datagram_message_comm.c`, prio 5) | `out_stream`, `send_lock` | receive, dispatch, reply | datagram channel |
| SD log (`sdlog.c`, prio 2) | three files, `sync_needed` | open, write, sync, reopen | FatFs |
| SD card (`sdcard.c`, in main) | `fatfs_mounted` | mount, unmount, poll the detect pin, read parameters | FatFs, SDC driver |
| FatFs (`fatfs/`) | volume object, window, file objects, the card | file operations under a volume lock | SDC driver |
| error handling (`error.c`) | error counters, safemode magic, panic buffer and its CRC (`.noinit`) | count, panic, boot | LEDs, shell, boot message |
| board (`board.c`, `board.h`) | bootloader magic, pins, supplies | very early init, power switches | boot |
| USB (`usbcfg.c`) | descriptors, endpoints | enumeration, events | shell, datagram port |
| main (`main.c`, prio 64) | service parameters, shell thread, LEDs | boot order, poll loop | everything |
| rate limiter (`rate_limiter.c`) | last run, rate parameter | should_run | nothing yet (tested) |
| log, shell commands, SUMD input, syscalls | log lock, RC sample, heap break | | stdout, parameters |

What makes it hard, and what correctness means for each part:

* **Sensor pipeline.** Two threads of different priority share samples under a lock
  per getter, not per set; event flags are taken in a step after the wakeup, so
  wakeups can be spurious; the I2C bus is shared by threads of equal priority that
  sleep in its transactions.  Correct: the filter uses every sample once and pairs
  what belongs together; what is sent or logged mixes samples only forwards in time;
  no wakeup is lost; the bus is held for one transaction.
* **Boot state.** `.noinit` memory survives some resets and not others, and a reset
  can fall between any two writes to it.  Correct: a request is honoured once and
  only when it was made; the message of a stored panic is reported, is text, and is
  not reported again.
* **SD card.** Main unmounts the volume under the logger, which may hold the volume's semaphore,
  wait for it or sleep in a disk access; FatFs checks a file object before it locks the volume,
  and `f_close()` does so twice.  Correct: the volume has one grant; records are appended; no
  card loses logged data beyond the unsynced records; logging goes on when a card comes back.
* **Files on the card.** One window of one sector holds whatever part of the
  allocation table or a directory was touched last, and is written when another call
  needs it; power can fail between any two sectors; any access can fail; the card can
  be full.  Correct: no entry leads to a free cluster or another file's; what
  `f_sync()` returned for survives; every call returns.
* **Names and directories.** A long name is several entries in front of a short one
  whose name must be new; a PC or a power loss leaves halves of them, or a cluster of
  the directory with whatever it held before.  Correct: a lookup finds the file that was
  asked for, and no two short names are equal.
* **Datagram link.** Two threads send on one port and can block in the middle of a
  frame; the input queue overflows while the handler is busy.  Correct: frames are
  whole; none is dropped at start-up; a lost byte costs only its frames.
* **Rate limiter.** Timestamps wrap; the rate is zero, negative, infinite or changes.
  Correct: runs are a period apart; a due poll runs; runs never cease.
* **Start-up and main loop.** Pins and supplies are switched one by one; services are given
  ports by names read from the card; the shell ends whenever a USB host configures the device;
  three threads write the LEDs.  Correct: no pin drives a part without supply; an open port can
  be used (but for one, section 6); one shell at a time, which comes back; a wrong LED does not
  stay.

## 2. Modules

| module | models | state | actions |
|---|---|---|---|
| `Kernel` | priorities (`thread_prio.h`), event flags as the firmware uses them | none | operators |
| `SensorDrivers` | `exti.c`, the three threads of `onboardsensors.c` | program points, listeners, bus, sample cells, conversions, error counters | one per stretch of code between two points where another thread or an interrupt can get in |
| `SensorPipeline` | composes the drivers with `attitude_determination.cpp` and the reading side of `stream.c` and `sdlog.c` | what each consumer has copied and used | as above, per consumer |
| `OneShot` | abstract: a request kept over a reset is honoured by at most one boot | `armed`, `active` | request, take, restart, lose |
| `BootState` | `error.c` (safemode, panic), `board.c` (bootloader magic), the shell commands that reset | the `.noinit` variables, the bools made of them, what the last run asked for | each write another reset can fall between |
| `FatVolume` | a FatFs call (`ff.c`), the semaphore (`fatfs_syscall.c`), the disk (`fatfs_diskio.c`) | slot, driver, volume object, semaphore, file objects, call in progress | check, lock, check under the lock, mount, access, return |
| `SdLogging` | composes `FatVolume` with thread `sdlog` and the main loop (`sdcard.c`, `main.c`) | where both threads are, `sync_needed`, `fatfs_mounted` | one per call and return of sdlog, one per step of mount and unmount, pull and insert |
| `FatFile` | `f_open`, `f_read`, `f_write`, `f_lseek`, `f_sync`, `f_close`, `f_gets` down to single sectors (`ff.c`) | allocation table, directory and data sectors, window, file objects, the call in progress | one per disk access: a cluster followed, found, allocated or freed, a buffer or the window written back, an entry updated |
| `DurableLog` | abstract: a log that after any crash is one of its prefixes no shorter than the last one `f_sync()` returned for, or the whole older log | contents, durable length | append, sync, crash |
| `LogFiles` | composes `FatFile` with the calls of `sdcard_read_parameter()` and `sdlog`, a remount and a loss of power | what each caller has written, synced and read | call, return, power loss, remount |
| `FatName` | `create_name`, `gen_numname`, `sum_sfn`, `fit_lfn`, `cmp_lfn`, `ff_wtoupper` | none | functions of names |
| `FatDirectory` | `dir_find`, `dir_register`, `dir_alloc`, `dir_next`, `follow_path` | directory sectors, window, the search in progress | one per entry or sector, a loss of power, deletions by a PC |
| `BoardPins` | the pad table of `board.h`, the supply switches of `board.c` | modes and levels of the pins | sequences of pin writes |
| `UsbSerial` | `usbcfg.c`: descriptors, `get_descriptor`, endpoint set-up, `usb_event` | device and endpoint state | start, enumerate, reset, configure, suspend, wake up |
| `Firmware` | composes both with `main.c`, `sumd_input.c`, the error level of `error.c` and the parameters of `sdcard.c` | main's place, services and ports, shell, LEDs, error level, card | each step of main's start and loop, of `led_task`, of the SD activity timer, of the card and of the host |
| `DatagramLink` | `datagram_message_comm.c` and the sending side of `stream.c` | lock, program points, wire, input queue, frame being received | lock, write, unlock, receive a byte, a byte arrives, a queue drains |
| `RateLimiter` | `rate_limiter.c` | rate, last run, timestamp | run, skip, set the rate, tick |

The `MC*` modules hold the instances; `DatagramLink` is run as it is.  The
`*Proofs` modules hold the theorems.  An operator named "Mutant of ..." above a
definition is a plausible bug in the code behind it; replacing the definition by it
makes TLC find the property violated that `PROJECT.json` names.

What the models abstract:

* A sample is its index; a thread's program text between two preemption points is one
  action.  The threads run by fixed priority: a thread steps only when no thread of
  higher priority can, and a peripheral or timer ends at any moment.
* Driver calls end (each has a timeout).  Numeric code (filter, calibration, barometer
  compensation) is left out.
* `BootState`: the panic buffer is `Size` pieces of text; different contents have
  different CRCs, and noise matches no CRC or magic.  After a power cycle, or under
  the ST bootloader, each part of the memory survives or does not.  A panic before
  `error_init()` is not modelled.
* `FatVolume`: a file is its length in records; the accesses of one call are one access
  that succeeds or fails; `f_open()` with `FA_CREATE_ALWAYS` is taken to reach the card
  at once (it does not, which is what `FatFile` is for); a card answers only after
  `sdcConnect()`.  `f_write()` of a record and `f_lseek()` to the end may or may not need
  the disk, hence both outcomes without a card.  `f_close()` is what it is in the code: an
  `f_sync()`, which unlocks the volume, and then a second check and lock, after which a drive
  that is not ready makes it return without unlocking (`ff.c:2825-2840`).
* `SdLogging` has one assumption of time, the variable `stuck`: a call that sdlog was in
  when main went to sleep after an unmount is over when the 500 ms sleep is.  A disk
  access ends within `STM32_SDC_WRITE_TIMEOUT_MS` (250, `mcuconf.h:210`) and a wait for
  the grant within `_FS_TIMEOUT` (100 ticks).  A call with several accesses can only
  follow one that succeeded, which the pulled card rules out.  Without it a call could
  release the grant into the semaphore a later mount made anew.
* `FatFile`: a FAT32 volume with one root directory sector.  A sector of the table holds
  `FatPerSector` links and a sector of a file `SS` units; what a unit contains is who wrote
  it and where.  The second table, the counts of the FSInfo sector, times and attributes are
  left out, and so is `f_lseek()` from anywhere but the top, which nothing here calls.  One
  call runs at a time: the interleavings of calls are in `FatVolume`.
* `FatDirectory`: a name is a sequence of characters of three kinds (letter, extended,
  illegal), short names have `BODY` and `EXT` characters and a long entry `SEG` of them
  instead of 8, 3 and 13; a numbered name has numbers up to `NumMax` instead of 99 and the
  hash that follows five collisions is left out; what `cmp_lfn()` compares beyond the end of
  a name is either outcome, and a mark at the limit `MaxLfn` (255) never matches.  An entry of
  a cluster that was linked and not yet written with zeros is `Stale`: `dir_find()` takes it for
  an end mark, a short name that matches or not, a part of any long name or no entry, and
  `dir_alloc()` for free or not, each time anew.  `torn` is a history variable: a loss of power
  has left such a cluster.  The firmware itself only opens 8.3 names; the cards it
  opens them on are written by PCs.
* `Firmware`: a service is the port it got; the LED pattern is its positions and not a
  clock; a host may reset, configure, suspend and wake the device at any time.
* `RateLimiter` counts whole ticks and compares `duration * rate` where the code divides
  floats: `1/0` is infinite and never reached, `1/INFINITY` is 0.  Rounding, NaN and
  negative zero are left out.
* `DatagramLink`: a frame is `Writes` write callbacks; a request is `Bytes` bytes of
  which the last is the END; a frame is good when exactly its bytes are received.
  Every request is one a service answers.  A port that is not configured (`io == NULL`),
  on which the code drops everything silently, is not modelled.

## 3. What each run checks

States are distinct states of a full exploration.

| run | instance | shows |
|---|---|---|
| `filter_and_log` | SPI and I2C driver, attitude, sdlog; two gyro samples, one mag sample; 1.3 million states | `EachSampleUsedOnce`, `AttitudePairMatches`, `RecordInOrder`, `RecordsOfASample` (three records of one sample do occur) |
| `telemetry` | SPI driver, attitude, stream, sdlog; three samples; 215 thousand states | `DatagramInOrder`, `AttitudeNotBehindRates`, and `SampleReachesReaders`: no wakeup is lost |
| `i2c_bus` | all users of the bus, one sample of each | `BusHeldInTransaction`, `ConversionIsPublished`, no deadlock |
| `boot_release` | release build, two texts in a buffer of two; 38 thousand states | the panic promises; `BootState` implements `OneShot` twice (`SafemodeIsOneShot`, `LoaderIsOneShot`) |
| `boot_stale_message` | debug build | violation, see section 6 |
| `sd_log` | two cards, one disk error, one swap, sync every 2 records; 1.2 million states | `GrantIsKept`, `RecordsAreAppended`, `UnsyncedBounded`, `LogNeverShrinks`, `LogResumes` |
| `log_files` | five clusters of two sectors of three units, a sector of the table for two clusters, one error, one remount, power losses; 213 thousand states | `CardIsSound`, `OpenFilesAreApart`, `SizeIsWritten`, `ConfigRead`, `SyncIsDurable`, `CallsReturn`; `LogFiles` implements `DurableLog` (`LogsAreDurable`) |
| `fat_directory` | seven names, a fresh directory and one with halves of long names, three opens, two edits; 790 thousand states | `LookupIsRight`, `ShortNamesDiffer`, `NamesAreWhole`, `StretchedIsClean` |
| `firmware` | two configurations of the card, two error levels, one swap; 118 thousand states | `PinsAreSafe`, `PortsAreReady`, `ShellComesBack`, `LedsAreTrue`, and `TypeOK`, which says that the shell's working area has one thread |
| `link` | frames of three writes, requests of three bytes, input queue of three, four requests, two datagrams; 191 thousand states | `FramesAreWhole`, `NothingIsDropped`, `WholeIsAnswered` |
| `rate_limits` | 6 ticks a second, wrap at 16, rates -1, 0, 1, 2, 3, 6 and infinite; 53 thousand states | `RunsAreSpaced`, `DuePollRuns`, `RunsAgain` |
| `rate_disabled` | the same | violation, see section 6 |

The type invariants of the pipeline, the boot state, the SD logging, the rate limiter, the
link and the firmware are theorems (section 5), as are `SafemodeAsAsked` and the type invariant
of the files, which is a part of `CardIsSound`; that of the directory is a part of
`LookupIsRight`, a theorem too.

Every bound is a constant of the module: `Started`, `MaxReady`, `MaxBaro` (pipeline), `Size`
(boot), `MaxFaults`, `MaxRecords`, `MaxSwaps` (SD), `ClusterCount`, `CSize`, `SS`,
`FatPerSector`, `ConfigUnits`, `LineUnits`, `HeaderUnits`, `RecordUnits`, `MaxUnits`,
`MaxFaults`, `MaxMounts` (files), `BODY`, `EXT`, `SEG`, `MaxLfn`, `NumMax`, `PerSector`,
`PerCluster`, `MaxTable`, `MaxOpens`, `MaxEdits` (directory), `MaxSwaps` (firmware),
`MaxRequests`, `MaxTelemetry` (link), `Horizon` (rate limiter).  Why they are enough:

* Pipeline: a property is about two neighbouring samples of one sensor and a sample of
  another that falls between any two steps; the filter needs a first sample for its
  first interval.  The theorems of section 5 hold for any number.
* Boot: a message can be short, fill the buffer, or overwrite part of an older one;
  the number of resets and panics is not bounded.
* SD: with two cards the one that comes back may be another one; one swap takes the log
  through unmount, mount and reopen.  An error can hit any access.  `SyncEvery = 2`
  reaches the sync before, after and in a swap.
* Files: a record crosses sectors and clusters, a chain crosses sectors of the table, the
  configuration with two of the three logs fills the card, and the search for a free cluster
  wraps round.  An error can hit any access, a loss of power fall between any two, and the
  files be opened again over what it left.  The newline at 6 and the line buffer of 10 units
  let `f_gets()` end inside a sector.  A second remount would find what a loss of power at
  that point finds.
* Directory: two names share a short name, a third has it as its own, one begins with the
  deletion mark and one is illegal; a long name needs three or four entries, so it crosses
  sectors and makes the directory grow; an edit can leave any half of it, and a loss of power
  a new cluster of two sectors with none or one of them zeroed.  One name has the `MaxLfn` (7)
  characters that `create_name()` takes at most and, as 255 in entries of 13, does not fill its
  last entry.
* Firmware: one card names USB for the shell, so that the host can end it, the other a
  connector that other services have and a port that does not exist.  A swap is an insertion or
  a removal at any step of main, mounted or not.  `safemode` is FALSE: it only changes a sleep.
* Link: a queue of one request overflows whenever the handler is late by a byte; four
  requests let one be lost behind another that was lost.
* Rate limiter: 16 ticks wrap within two to three periods of the slowest rate, and
  `Gap` (9) lets the caller sleep over more than a period.  In the run `PolledOften`
  holds of the rates 1, 2, 3 and 6, so none of them is excused.

## 4. Fairness

* Pipeline: the core runs a thread while one can run, and what a thread sleeps on ends;
  nothing is assumed of the sensors.
* SD: weak fairness of main (its sleep ends); strong fairness of sdlog, which runs in each
  500 ms that main sleeps and is kept from running in between.  Sensor events keep
  coming.  Nobody has to pull or insert a card.
* Files: weak fairness of a call in progress, since a disk access ends in a time-out.  The
  callers need not go on, and sdlog may have ended: `CHECK_DEADLOCK FALSE`.
* Directory: only safety, and the calls are bounded: `CHECK_DEADLOCK FALSE`.
* Firmware: weak fairness of main, which only sleeps, and of `led_task`, which has the lowest
  priority but runs because every thread above it waits for events.  Neither the host nor
  the person with the card has to do anything.
* Link: the output ports drain and threads that can run do; the peer need not send.  The
  peer and the telemetry are bounded, so the instance may stop: `CHECK_DEADLOCK FALSE`,
  and a thread that waits for ever would violate `WholeIsAnswered`.
* Rate limiter: time passes and the caller polls, at least every `Gap` ticks.

## 5. What is proved

TLAPS proves these for every value of the constants (under the named assumptions of
their modules: counts are naturals, `Size`, `SyncEvery`, the tick and the like are
positive, `Infinity` is no integer; of the files, that a header and a record are shorter
than a sector, that the configuration is not empty and fits on the card, and that the
buffer for its line, of 1000 bytes in `sdcard.c:83`, has room for a unit and the NUL; of a
directory, what names `create_name()` accepts, what a table written by a PC holds and that a
table has at most the 65536 entries that `dir_next()` goes through, `NamesAssumption`,
`TablesAssumption` and `DirectoryAssumption`).

* `SensorPipelineProofs`: `TypeOK`, `EachSampleUsedOnce`, `AttitudePairMatches`.  Neither of the
  last two is inductive: the filter counts on the drivers standing still while it works.
  `FilterControl` says when its listener owes it a sample, `FilterCount` balances broadcasts
  with samples used, missed before registration and owed, and `FilterSample` says that no driver
  is between its store and its broadcast while the filter is at work.  `DriverRunsBelow` turns
  priorities into that.  And the order of what is published: `BusHeldInTransaction`,
  `DatagramInOrder`, `RecordInOrder`, `AttitudeNotBehindRates`, `RecordsOfASample`.  `OrderInv`
  is the argument for the second and the third: cells only grow, the driver stores its cells in
  one order and a reader copies them in the other, so each copy is bounded by the cells the
  driver has yet to store.  `AttitudeInv` follows one sample from its store to the publication of
  its attitude and says that no thread below the filter can run in between.  `RepeatInv` bounds
  the records of a sample by a potential: those written, and those that its pending flag, the
  pending event without a flag and the record in progress can still cause.
* `BootStateProofs`: `TypeOK`, `SafemodeAsAsked`, `PanicIsReported`, `MessageIsText`, and
  that `BootState` implements `OneShot` under both mappings (safemode and bootloader).
  `SafemodeInv` and `PanicInv` say what the memory holds on the way through a boot, where
  the property itself is silent; `MessageInv` says that only text has ever got a CRC, and that
  between the NUL and the CRC the buffer is text.
* `SdLoggingProofs`: `TypeOK` and `GrantIsKept`.  `GrantIsKept` is not inductive because a
  mount makes the semaphore anew: `MountInv` says that a call which passed the check
  before the unmount is over by then, or still within the sleep, that it cannot
  mount the volume by itself, and that the drive of a registered volume is ready.  The last is
  why the return of `f_close()` that keeps the grant is harmless: main takes the drive down
  only after the volume, and the semaphore that has lost its grant is made anew by the next
  mount.
  Then `RecordsAreAppended`, `UnsyncedBounded` and `LogNeverShrinks`, for which `FileInv`
  strengthens `IInv`: a call past the check has a file that stays usable
  until an unmount (`CallInv`); a file object that passes the check is of the mount, and so of
  the card, that is there (`IdInv`); its pointer is at its end except between the `f_open()`
  and the `f_lseek()` of a recovery (`EndInv`); its size is what the card counts and the
  records since, of which the one in the call may be counted by either (`SizeInv`).
* `LogFilesProofs`: `CardIsSound` (with its `TypeOK`) and `OpenFilesAreApart`, for every number
  of files, clusters, failed accesses and losses of power and every size of sector, cluster,
  record and configuration line.  Both are about the table as it is in the middle of a change,
  so the invariant is about the volume as FatFs has it, the window over the card (`Fat`, `Dir`),
  and about `Start`, where a file starts by its object or, when it is closed, by its entry:
  `SoundInv` says that this table is sound with these starts and that an entry knows its file's
  start or none, so that the card stays sound whenever the window is written; `WindowInv` that
  an unchanged window says what the card says; `LooseInv` that nothing leads to a cluster that
  is about to be linked, or to a chain that is being removed, which is why the entry must let go
  of its chain first; `MountInv` that nothing is open without a volume.  `CallInv`, `LeftInv`,
  `PointerInv` and `ScanInv` follow a call through its places: the size and the pointer of a
  file without a cluster are zero, and each search is for a cluster there is.
* `DurableProofs`, on top of it: `SizeIsWritten`, `SyncIsDurable`, `ConfigRead`, and that
  `LogFiles` implements `DurableLog` (`LogsAreDurable`): what the card has of a log is at every
  moment a beginning of what was written, and every step of FatFs, a loss of power or a
  remount is a step of that specification or none.  `FInv` adds to the invariant of
  `LogFilesProofs` what the files hold.  Its heart is `DataOf`: the chain of a file goes as far
  as the file, a unit is in the buffer of the object or on the card, and on the card when the
  entry counts it, since f_sync() writes the buffer before the entry.  `DiskOf` says that the
  chain on the card goes as far as the size on the card and is the beginning of the chain that
  FatFs has, which is why the table must reach the card before the entry that counts on it;
  `Old` are the entries of a file that is being created anew, whose removed chain the card may
  still count.  `EndInv` says when the pointer of a log is at its end, `CallPlace` and `CallSeek`
  where a call is in the chain.  A step can only disturb the file of its call: no other file
  has the cluster it writes, by `SoundInv`.  A chain is a walk over the natural numbers, and what
  holds along it is proved by `SetInduction`, from the well-foundedness of the numbers, which
  needs no operator as a parameter.
  `ConfigInv` adds that nothing writes the configuration and how far `f_gets()` has read it.
* `FatDirectoryProofs`: `LookupIsRight` (with its `TypeOK`), `ShortNamesDiffer`, `NamesAreWhole`
  and `StretchedIsClean`, for every set of names, every table a PC can leave, every size of
  segments, short names, sectors and clusters, and any number of calls, losses of power and
  deletions.  None is inductive, because each is about whole names and each step about one
  entry.  `Chain` is the entries of one long name from the first on.  `Chained` says that every
  entry of a long name is in a chain, which a loss of power or a deletion leaves true, since
  entries are written from the first on; `Whole` that a file has its whole chain before it.
  Both hold of the card and of the window over it at every moment, so the card keeps them
  whenever the window is written.  `TornInv` says that nothing is `Stale` but in the cluster that
  is being zeroed, unless a loss of power came in that time; `ApartInv` that short names differ
  and nothing in use is behind an end mark, under the same condition.
  The rest of `IInv` follows a call: `FindInv` says that the entries since the last marked one,
  or the last `Stale` one, were compared with the name that is looked for, and that none before
  a `Stale` one is its file; `NewInv` that the short name to be written is not there; `AllocInv`
  and `PutInv` that the entries it goes to are free; `ZeroInv` how far a new cluster is written.
  Then it is about names: a chain followed to its end has compared every segment of its name,
  and so is that name but for capitals (`AllMatch`), and a short name without loss gives its
  name back but for capitals (`ShortTellsName`).
  `SameMatches` is where the limit of `cmp_lfn()` enters: the entries of a name match it again
  unless its end is marked at `MaxLfn`.
  A long name is tied to its file by a sum of eight bits, on which the code relies and which
  different names can share.  `NamesAreWhole` and `LookupIsRight` are therefore theorems under
  `SumsTellApart`: the sum of a short name without loss is not that of another name's which has
  a long one.  TLC evaluates it for the names of the run (`SumsAssumption` in
  `MCFatDirectory`).  The other two need no such hypothesis.
* `LinkAndRateProofs`, of two small modules.  Of `DatagramLink`: `TypeOK`, `FramesAreWhole`,
  `NothingIsDropped`.  `LockInv` is the mutual exclusion with the hand-over of the mutex,
  `StartInv` that the priorities keep stream from sending before the handler has run, `TailInv`
  what the wire ends with.  Of `RateLimiter`: `LimiterTypeOK`, `RunsAreSpaced`, `DuePollRuns`,
  from `ElapsedIsReal`: the difference of timestamps is never more than real time, and equal to
  it for one wrap.
* `FirmwareProofs`: `TypeOK`, `PinsAreSafe` and `PortsAreReady`, for every set of configurations
  that name services (`ConfigsAssumption`).  The pins are what the pad table of `board.h` makes
  them at the reset, and then what `board_io_pwr_en()`, `board_sensor_pwr_en()` and
  `board_sdcard_pwr_en()` write, one pad after the other, so none of these is inductive:
  `SafeInv` says that a pin is safe and stays so through the writes that are left, and
  `WiringInv` that a pin of a UART fits it, or that main has yet to make it and no write after
  that undoes it; `MainInv` says for each place of main which ports it has started, and that a
  service gets one of those or none; `HostInv` says that the host sets up the endpoints it has
  read the descriptors of, and no other.

Every safety and action property of a passing run is a theorem.  Only model-checked is liveness
(`SampleReachesReaders`, `ConversionIsPublished`, `LogResumes`, `WholeIsAnswered`, `RunsAgain`,
`CallsReturn`, `ShellComesBack`, `LedsAreTrue`), which the prover cannot do.

## 6. Disagreements between the code and its comments

* `boot_stale_message`: `error.c:155` complements the CRC of the panic message where its
  comment says "clear crc".  The boot that reported a panic complements it, the next
  one complements it back, the one after that reports the old panic although there was
  none (`error.h:32`: "or NULL if there was no panic").
* `rate_disabled`: a negative rate makes every poll run (`rate_limiter.c:15`), where
  `rate_limiter.h:16` says that it disables the update.
* `sdcard.c:37` unmounts while sdlog may be inside FatFs, which `ffconf.h:229-231` excludes
  ("always not re-entrant").  `GrantIsKept`, `RecordsAreAppended` and `LogResumes` show that
  the logging survives it, so it has no run of its own.
* Main starts USART3 as CONN_I2C (`board.h:23`, `main.c:134-136,198`) and lets a service be
  put on it, but its pins stay with I2C2, function 4 and open drain (`board.c:98-99`), where
  the comments on the pads promise USART3 (`board.h:55-56`).  The service is mute.
  `PortsAreReady` excepts CONN_I2C by its name.
* A file name of 255 characters, the longest that `ffconf.h:98` sets and `create_name()` takes,
  is created but not found again: `cmp_lfn()` refuses the NUL at index 255 (`ff.c:1244`), so
  that the next `f_open()` that creates makes a second file of the same long name, and one that
  does not returns FR_NO_FILE.  `MissingIsAbsent` excepts these names (`AtLimit`).  The firmware
  opens no such file.

## 7. Limits of the code that the models follow

SD logging.  `LogResumes` excepts where the code gives up: a file that cannot be opened at
the start ends the thread (`sdlog.c:33`); a disk error sticks to the file object and only a
swap clears it (`sdlog.c:86`); a card without a log is not logged to after a swap
(`sdlog.c:87`); a card pulled and put back between two polls of main is never initialised
again (`sdcard.c:48`).  The record of a failed write is not repeated.

Files.  A loss of power can leak clusters (a chain that no entry leads to), never share them.  An
`f_sync()` after one whose `sync_fs()` failed returns FR_OK and flushes nothing, because the
flag is cleared first (`ff.c:2794`); the firmware always writes in between, which sets it again.
`f_gets()` hides a read error and stops at a newline: a configuration in a binary format is cut
at the first byte 0x0A, and the whole buffer is parsed whatever was read (`sdcard.c:84`).  The
header of `rc.csv` is never synced.  A directory cluster linked before it is zeroed holds stale
entries if the power fails in between (`ff.c:1112`).  A lookup that comes to them may return
what is in that cluster, or the entry directly behind it, whose long name the stale entries can
seem to be; it may also end there or take a short name for used.  `FoundIsAsked`,
`MissingIsAbsent` and `NamesAreWhole` say that it goes no further.  When the cluster was half
zeroed, a long name can be put behind its end mark (`dir_alloc()` takes free entries anywhere,
`ff.c:1169`), is not found there and is created a second time: `ShortNamesDiffer` is of
directories whose clusters were zeroed.  The 8.3 names of the firmware need one entry, which is
taken before the mark.

Directories.  A long name is taken for a file's by a checksum of eight bits.  When a PC has left a
long name without its file, and a file that needs no long name and has the same checksum is
created behind it, that file is listed and found by the other's name.

Firmware.  Services may be given the same port.  Endpoint 2 is described with packets of 8
bytes and configured for 16 (`usbcfg.c`).  What nothing calls is not modelled:
`error_clear()`, the switching off of supplies, `sumd_input_get()` (only called under
`if (false)`), `status_led_*`.

## 8. Not modelled

* Out of scope: the constants of ChibiOS (`halconf.h`, `mcuconf.h`, `chconf.h`), the clock and
  start-up code, class, vendor and product numbers of the USB device, the code page table of
  `ff_convert()`, the host tools in `python/`, formatting of log lines, `file_cat()`, the numeric
  code of the filter and the magnetometer calibration; and the ChibiOS, parameter, datagram
  and driver libraries beyond what their callers rely on.
* FatFs functions nothing here calls (`f_unlink`, `f_mkdir`, `f_rename`, `f_readdir`, `f_mkfs`
  and others), FAT12 and FAT16, and in `find_volume()` the partition table and the checks of
  the boot sector.
* The heap (`syscalls.c`): a bump allocator under newlib's `malloc()`, with one caller that
  allocates one size and frees it.  Its lock is not recursive, which only the C library could
  notice.
* The log (`log.c`): one mutex around formatted output; a thread that waits for its port is a
  place of `DatagramLink`.
* In the barometer, what is computed from a conversion that did not start (`raw_t`, `raw_p`
  uninitialised or of the turn before): a value, where the models carry sample numbers.  The
  control of both failures is modelled.

What would add most next: services that do not answer, in `DatagramLink`, and the hash in
numbered names after five collisions (`gen_numname()`), in `FatName`.
