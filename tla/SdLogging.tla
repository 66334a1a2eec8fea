------------------------------ MODULE SdLogging ------------------------------
(***************************************************************************)
(* The two threads that use the SD card: sdlog (sdlog.c, LOWPRIO), which   *)
(* creates its files and then appends a record per sensor event, and main  *)
(* (sdcard.c and the loop of main.c, NORMALPRIO), which polls the card     *)
(* detect pin and mounts and unmounts the volume under it.  The instance   *)
(* begins where services_start() has created the threads.                  *)
(***************************************************************************)
EXTENDS FatVolume

CONSTANTS SyncEvery,   \* 100 in sdlog.c
          MaxRecords,  \* bound: records in the log
          MaxSwaps     \* bound: insertions of a card

ASSUME LoggingAssumption == /\ SyncEvery \in Nat \ {0}
                            /\ MaxRecords \in Nat
                            /\ MaxSwaps \in Nat

VARIABLES
  fatfs_mounted,
  main,         \* where the main loop is
  step,         \* which call sdlog makes next or is in, or what it waits for
  error,        \* sdlog's error
  sync_needed,
  stuck,        \* sdlog has not left the call it was in when main went to sleep
  swaps         \* insertions so far

logVars == <<step, error, sync_needed>>
vars == <<volumeVars, fatfs_mounted, main, logVars, stuck, swaps>>

(***************************************************************************)
(* The slot.                                                               *)
(***************************************************************************)
Pull == /\ card # NoCard
        /\ card' = NoCard /\ answers' = FALSE
        /\ UNCHANGED <<faults, driver, logs, dirsize, fs, Fsid, sem, fp, op>>
        /\ UNCHANGED <<fatfs_mounted, main, logVars, stuck, swaps>>

Insert == /\ card = NoCard /\ swaps < MaxSwaps
          /\ card' \in Cards /\ answers' = FALSE
          /\ swaps' = swaps + 1
          /\ UNCHANGED <<faults, driver, logs, dirsize, fs, Fsid, sem, fp, op>>
          /\ UNCHANGED <<fatfs_mounted, main, logVars, stuck>>

(***************************************************************************)
(* The main loop.  It preempts sdlog whenever its sleep ends.  The sleep   *)
(* of 500 ms is longer than sdlog needs to leave FatFs once the volume is  *)
(* unmounted: a disk access ends within STM32_SDC_WRITE_TIMEOUT_MS (250)   *)
(* and the wait for the grant within _FS_TIMEOUT (100).                    *)
(***************************************************************************)
MainSleeps == main \in {"nap", "connect", "disconnect"}

MainGoto(l) == /\ main' = l
               /\ stuck' = IF l = "nap" THEN InCall ELSE stuck

WakeUp == /\ main = "nap" /\ (fatfs_mounted \/ ~stuck)
          /\ MainGoto("poll")
          /\ UNCHANGED <<volumeVars, fatfs_mounted, logVars, swaps>>

\* Mutant of Automount: the polarity of the detect pin is wrong for mounting.
AutomountNever ==
  /\ main = "poll"
  /\ MainGoto(IF card = NoCard /\ fatfs_mounted THEN "unmount" ELSE "nap")
  /\ UNCHANGED <<volumeVars, fatfs_mounted, logVars, swaps>>

\* sdcard_automount()
Automount ==
  /\ main = "poll"
  /\ MainGoto(IF card = NoCard /\ fatfs_mounted THEN "unmount"
              ELSE IF card # NoCard /\ ~fatfs_mounted THEN "connect" ELSE "nap")
  /\ UNCHANGED <<volumeVars, fatfs_mounted, logVars, swaps>>

\* sdcard_mount(): sdcConnect() sleeps while it initialises the card.
SdcardMount ==
  /\ main = "connect" /\ card # NoCard
  /\ answers' = TRUE /\ driver' = "ready"
  /\ Register
  /\ fatfs_mounted' = TRUE
  /\ MainGoto("nap")
  /\ UNCHANGED <<card, faults, logs, dirsize, Fsid, fp, op, logVars, swaps>>

ConnectFails ==
  /\ main = "connect"
  /\ IF card = NoCard THEN UNCHANGED faults
                      ELSE faults < MaxFaults /\ faults' = faults + 1
  /\ driver' = "down"
  /\ MainGoto("nap")
  /\ UNCHANGED <<card, answers, logs, dirsize, fs, Fsid, sem, fp, op>>
  /\ UNCHANGED <<fatfs_mounted, logVars, swaps>>

\* sdcard_unmount(): sdcDisconnect() may wait for the driver.
UnmountVolume ==
  /\ main = "unmount"
  /\ Unregister
  /\ MainGoto("disconnect")
  /\ UNCHANGED <<slotVars, driver, logs, dirsize, Fsid, fp, op>>
  /\ UNCHANGED <<fatfs_mounted, logVars, swaps>>

Disconnect ==
  /\ main = "disconnect"
  /\ driver' = "down"
  /\ fatfs_mounted' = FALSE
  /\ MainGoto("nap")
  /\ UNCHANGED <<slotVars, logs, dirsize, fs, Fsid, sem, fp, op, logVars, swaps>>

MainStep == WakeUp \/ Automount \/ SdcardMount \/ ConnectFails
              \/ UnmountVolume \/ Disconnect

(***************************************************************************)
(* Thread sdlog: one call after the other.                                 *)
(***************************************************************************)
Startup == [version_open  |-> "version_write", version_write |-> "version_close",
            version_close |-> "mpu_open",      mpu_open      |-> "mpu_write",
            mpu_write     |-> "rc_open",       rc_open       |-> "rc_write",
            rc_write      |-> "wait"]

Headers == {"version_write", "mpu_write", "rc_write"}
Opens   == {"version_open", "mpu_open", "rc_open"}

\* Mutant of CallOf: the recovery creates the file anew.
CallOfCreates ==
  [version_open |-> <<"create", "version">>, version_write |-> <<"write", "version">>,
   version_close |-> <<"close", "version">>,
   mpu_open |-> <<"create", LogFile>>, mpu_write |-> <<"write", LogFile>>,
   rc_open |-> <<"create", "rc">>, rc_write |-> <<"write", "rc">>,
   write |-> <<"write", LogFile>>, open |-> <<"create", LogFile>>,
   lseek |-> <<"lseek", LogFile>>, sync |-> <<"sync", LogFile>>]

CallOf ==
  [version_open |-> <<"create", "version">>, version_write |-> <<"write", "version">>,
   version_close |-> <<"close", "version">>,
   mpu_open |-> <<"create", LogFile>>, mpu_write |-> <<"write", LogFile>>,
   rc_open |-> <<"create", "rc">>, rc_write |-> <<"write", "rc">>,
   write |-> <<"write", LogFile>>, open |-> <<"open", LogFile>>,
   lseek |-> <<"lseek", LogFile>>, sync |-> <<"sync", LogFile>>]

\* A header is not written after an error.
SkipsHeader == step \in Headers /\ error

Wake == /\ step = "wait"
        /\ fp[LogFile].fptr < MaxRecords \/ ~Usable(LogFile)
        /\ step' = "write"
        /\ UNCHANGED <<error, sync_needed, op>>

BeginCall == /\ op.at = "out" /\ step \in DOMAIN CallOf /\ ~SkipsHeader
             /\ Call(CallOf[step][1], CallOf[step][2])
             /\ UNCHANGED logVars

\* while (!error) is tested when the start-up is through.
AfterStartup(err) == IF err /\ Startup[step] = "wait" THEN "dead" ELSE Startup[step]

SkipHeader == /\ op.at = "out" /\ SkipsHeader
              /\ step' = AfterStartup(TRUE)
              /\ UNCHANGED <<error, sync_needed, op>>

\* The start-up: a file that cannot be opened ends the thread at once.
StartupReturn ==
  LET failed == op.res # "FR_OK" IN
  /\ op.at = "ret" /\ step \in DOMAIN Startup
  /\ error' = (error \/ (step \in Headers /\ failed))
  /\ step' = IF step \in Opens /\ failed THEN "dead" ELSE AfterStartup(error')
  /\ op' = Idle
  /\ UNCHANGED sync_needed

\* Mutant of CountRecord: one record late.
CountRecordLate == IF sync_needed = SyncEvery
                     THEN sync_needed' = 0 /\ step' = "sync"
                     ELSE sync_needed' = sync_needed + 1 /\ step' = "wait"

\* sync_needed, which counts the records whether they were written or not.
CountRecord == IF sync_needed + 1 = SyncEvery
                 THEN sync_needed' = 0 /\ step' = "sync"
                 ELSE sync_needed' = sync_needed + 1 /\ step' = "wait"

\* Mutant of RecordReturn: the reopened file is written without f_lseek().
RecordReturnNoSeek ==
  /\ op.at = "ret" /\ step \in {"write", "open"}
  /\ IF step = "write" /\ op.res = "FR_INVALID_OBJECT"
       THEN step' = "open" /\ UNCHANGED sync_needed
       ELSE CountRecord
  /\ op' = Idle
  /\ UNCHANGED error

\* A write that finds the file object invalid reopens the file and seeks to
\* its end, whatever f_open() returned; its record is not written again.
RecordReturn ==
  /\ op.at = "ret" /\ step \in {"write", "open", "lseek"}
  /\ IF step = "write" /\ op.res = "FR_INVALID_OBJECT"
       THEN step' = "open" /\ UNCHANGED sync_needed
     ELSE IF step = "open" THEN step' = "lseek" /\ UNCHANGED sync_needed
     ELSE CountRecord
  /\ op' = Idle
  /\ UNCHANGED error

SyncReturn == /\ op.at = "ret" /\ step = "sync"
              /\ step' = "wait"
              /\ op' = Idle
              /\ UNCHANGED <<error, sync_needed>>

Return == StartupReturn \/ RecordReturn \/ SyncReturn

\* sdlog runs only while main sleeps.
LogStep ==
  /\ MainSleeps
  /\ \/ /\ Wake \/ BeginCall \/ SkipHeader
        /\ UNCHANGED <<slotVars, driver, logs, dirsize, fs, Fsid, sem, fp, stuck>>
     \/ /\ Return
        /\ stuck' = FALSE
        /\ UNCHANGED <<slotVars, driver, logs, dirsize, fs, Fsid, sem, fp>>
     \/ CallStep /\ UNCHANGED <<logVars, stuck>>
  /\ UNCHANGED <<fatfs_mounted, main, swaps>>

(***************************************************************************)
(* The specification.                                                      *)
(***************************************************************************)

\* main has tried to mount the card and to read the parameters from it, which
\* mounts the volume when it succeeds.
Init ==
  /\ card \in Cards \cup {NoCard}
  /\ fatfs_mounted \in BOOLEAN /\ (fatfs_mounted => card # NoCard)
  /\ answers = fatfs_mounted
  /\ driver = IF fatfs_mounted THEN "ready" ELSE "down"
  /\ logs \in SUBSET Cards
  /\ dirsize \in [Cards -> 0..1] /\ \A c \in Cards \ logs : dirsize[c] = 0
  /\ fs \in [registered : {fatfs_mounted}, type : {0, 1}, id : {0, 1}]
  /\ fs.id = fs.type /\ (fs.type = 1 => fatfs_mounted)
  /\ Fsid = fs.id
  /\ sem = IF fatfs_mounted THEN 1 ELSE 0
  /\ fp = [f \in Files |-> ClosedFile] /\ op = Idle
  /\ faults = 0 /\ swaps = 0 /\ stuck = FALSE
  /\ main = "poll"
  /\ step = "version_open" /\ error = FALSE /\ sync_needed = 0

Next == MainStep \/ LogStep \/ Pull \/ Insert

Spec == Init /\ [][Next]_vars

\* The core runs the threads, their sleeps and disk accesses end, and sensor
\* events keep coming; nobody has to pull or insert a card.  Strong fairness for
\* sdlog: it runs in the 500 ms of every turn that main sleeps.
FairSpec == Spec /\ WF_vars(MainStep) /\ SF_vars(LogStep)

(***************************************************************************)
(* Properties.                                                             *)
(***************************************************************************)

\* The types of the variables of the SD card and its threads.
OpType == op \in [call : Calls \cup {"none"}, file : Files, at : Places, res : Results]

FilesType == fp \in [Files -> [fs : BOOLEAN, id : Nat, err : BOOLEAN, fptr : Nat,
                               fsize : Nat, written : BOOLEAN]]

VolumeType ==
  /\ card \in Cards \cup {NoCard} /\ answers \in BOOLEAN
  /\ driver \in {"ready", "down"} /\ faults \in Nat
  /\ logs \in SUBSET Cards /\ dirsize \in [Cards -> Nat]
  /\ fs \in [registered : BOOLEAN, type : {0, 1}, id : Nat] /\ Fsid \in Nat
  /\ sem \in Nat

ThreadsType ==
  /\ fatfs_mounted \in BOOLEAN
  /\ main \in {"nap", "poll", "connect", "unmount", "disconnect"}
  /\ step \in DOMAIN CallOf \cup {"wait", "dead"}
  /\ error \in BOOLEAN /\ sync_needed \in 0..(SyncEvery - 1)
  /\ stuck \in BOOLEAN /\ swaps \in Nat

TypeOK == OpType /\ FilesType /\ VolumeType /\ ThreadsType

\* The grant of a mounted volume is there once, with the semaphore or with the
\* call that holds it, although f_mount() resets and makes anew the semaphore
\* while a call may hold it, and although f_close() does not give it back when
\* the drive has gone: main takes the drive down with the volume only, and what
\* an old call still does with the grant never reaches the next mount.
GrantIsKept == LET grants == sem + (IF Holds THEN 1 ELSE 0) IN
               IF fs.registered THEN grants = 1 ELSE grants <= 1

\* f_write() on the log is at its end: a record never overwrites one that is
\* on the card, whatever card was mounted since the file was opened.
RecordsAreAppended ==
  (op.call = "write" /\ op.file = LogFile /\ op.at = "io" /\ ~fp[LogFile].err)
    => /\ fp[LogFile].fptr = fp[LogFile].fsize
       /\ answers => dirsize[card] <= fp[LogFile].fptr

\* Once sdlog logs, no card loses what its directory entry counts.
LogNeverShrinks ==
  [][(step \notin DOMAIN Startup) => \A c \in Cards : dirsize'[c] >= dirsize[c]]_vars

\* Without disk errors a pulled card costs the header and SyncEvery records at
\* most.
UnsyncedBounded ==
  (faults = 0 /\ answers /\ Usable(LogFile))
    => fp[LogFile].fsize <= dirsize[card] + SyncEvery + 1

\* When main has unmounted a pulled card and one with a log is inserted, sdlog
\* gets the log open again, unless that card is pulled as well or a disk error
\* sticks to the file; errors at a mount or at f_open() are retried.
LogResumes ==
  (~fatfs_mounted /\ card \in logs /\ step \notin DOMAIN Startup \cup {"dead"})
    ~> \/ step = "wait" /\ fatfs_mounted /\ Usable(LogFile)
       \/ card = NoCard \/ fp[LogFile].err
=============================================================================
