-------------------------- MODULE SdLoggingProofs --------------------------
(***************************************************************************)
(* Proofs about SdLogging: its types, and that the grant of the volume is  *)
(* neither leaked nor duplicated, for any set of cards, number of records, *)
(* disk errors and swaps.                                                  *)
(***************************************************************************)
EXTENDS SdLogging, TLAPS

(***************************************************************************)
(* The invariant.  GrantIsKept is not inductive: f_mount(&SDC_FS) makes    *)
(* the semaphore anew, so no call may hold the old one then.  MountInv     *)
(* follows a call that passed validate() before the volume was unmounted   *)
(* until main has slept it out, says that no such call can mount the       *)
(* volume again, as the card that was pulled does not answer, and that the *)
(* drive of a registered volume is ready: f_close() keeps the grant only   *)
(* where there is no volume to keep it from.                               *)
(***************************************************************************)
Entered == op.at \in {"lock", "locked", "mount", "io"}

MountInv ==
  /\ fs.registered <=> (fatfs_mounted /\ main # "disconnect")
  /\ ~fs.registered => fs.type = 0 /\ ~answers
  /\ fs.registered => driver = "ready"
  /\ main = "unmount" => fatfs_mounted /\ ~answers
  /\ main = "connect" => ~fatfs_mounted
  /\ main = "disconnect" => fatfs_mounted
  /\ answers => card # NoCard
  /\ Entered /\ ~fs.registered => main = "disconnect" \/ (main = "nap" /\ stuck)

IInv == TypeOK /\ MountInv /\ GrantIsKept

(***************************************************************************)
(* Types.                                                                  *)
(***************************************************************************)
FileRecord == [fs : BOOLEAN, id : Nat, err : BOOLEAN, fptr : Nat, fsize : Nat,
               written : BOOLEAN]

LEMMA AtTypes ==
  ASSUME OpType, NEW l \in Places, At(l)
  PROVE  OpType'
BY DEF OpType, At

LEMMA LeaveTypes ==
  ASSUME OpType, VolumeType, NEW res \in Results, Leave(res)
  PROVE  OpType' /\ sem' \in Nat
<1>1. OpType'
  BY DEF OpType, Leave, Places
<1>2. sem \in Nat
  BY DEF VolumeType
<1>3. CASE res \in Unreleased
  BY <1>1, <1>2, <1>3 DEF Leave
<1>4. CASE res \notin Unreleased
  BY <1>1, <1>2, <1>4 DEF Leave
<1> QED
  BY <1>3, <1>4

\* f_sync() gives the grant back, whether the call returns or goes on.
LEMMA SyncOverMoves ==
  ASSUME OpType, VolumeType, SyncOver
  PROVE  /\ OpType' /\ sem' = sem + 1 /\ sem' \in Nat
         /\ op'.file = op.file /\ op'.at \in {"check", "ret"}
         /\ op'.call = op.call \/ (op.call = "close" /\ op'.call = "closing")
         /\ op'.at = "check" <=> op.call = "close"
         /\ op'.at = "ret" => op'.res = "FR_OK"
<1>1. sem \in Nat
  BY DEF VolumeType
<1>2. CASE op.call = "close"
  <2>1. op' = [op EXCEPT !.call = "closing", !.at = "check"] /\ sem' = sem + 1
    BY <1>2 DEF SyncOver
  <2>2. "closing" \in Calls \cup {"none"} /\ "check" \in Places
    BY DEF Calls, Places
  <2>3. op'.call = "closing" /\ op'.at = "check" /\ op'.file = op.file /\ OpType'
    BY <2>1, <2>2 DEF OpType
  <2> QED
    BY <1>1, <1>2, <2>1, <2>3
<1>3. CASE op.call # "close"
  <2>1. Leave("FR_OK") /\ "FR_OK" \notin Unreleased /\ "FR_OK" \in Results
    BY <1>3 DEF SyncOver, Unreleased, Results
  <2>2. OpType'
    BY <2>1, LeaveTypes
  <2>3. /\ op'.call = op.call /\ op'.at = "ret" /\ op'.file = op.file /\ op'.res = "FR_OK"
        /\ sem' = sem + 1
    BY <2>1 DEF Leave, OpType
  <2> QED
    BY <1>1, <1>3, <2>2, <2>3
<1> QED
  BY <1>2, <1>3

LEMMA FileTypes ==
  ASSUME FilesType, NEW f \in Files, NEW r \in FileRecord, fp' = [fp EXCEPT ![f] = r]
  PROVE  FilesType'
BY DEF FilesType, FileRecord

LEMMA ErrTypes ==
  ASSUME FilesType, NEW f \in Files, fp' = [fp EXCEPT ![f].err = TRUE]
  PROVE  FilesType'
BY DEF FilesType

LEMMA AppendTypes ==
  ASSUME FilesType, NEW f \in Files, NEW end \in Nat, NEW len \in Nat,
         fp' = [fp EXCEPT ![f].fptr = end, ![f].fsize = len, ![f].written = TRUE]
  PROVE  FilesType'
BY DEF FilesType

LEMMA CallOpTypes ==
  ASSUME OpType, VolumeType, CallStep
  PROVE  OpType' /\ sem' \in Nat
<1> USE DEF Places, Results
<1>0. sem \in Nat
  BY DEF VolumeType
<1>1. CASE Validate
  BY <1>0, <1>1, AtTypes, LeaveTypes DEF Validate
<1>2. CASE FindVolume
  BY <1>0, <1>2, AtTypes, LeaveTypes DEF FindVolume
<1>3. CASE Lock
  BY <1>0, <1>3, AtTypes DEF Lock
<1>4. CASE LockTimeout
  BY <1>4, LeaveTypes DEF LockTimeout
<1>5. CASE LockedFile
  BY <1>0, <1>5, AtTypes, LeaveTypes, SyncOverMoves DEF LockedFile
<1>5c. CASE LockedClose
  <2>1. CASE Leave("FR_OK")
    BY <2>1, LeaveTypes
  <2>2. CASE op' = [op EXCEPT !.at = "ret", !.res = "FR_NOT_READY"] /\ UNCHANGED sem
    BY <1>0, <2>2 DEF OpType
  <2> QED
    BY <1>5c, <2>1, <2>2 DEF LockedClose
<1>6. CASE LockedVolume
  BY <1>0, <1>6, AtTypes, LeaveTypes DEF LockedVolume
<1>7. CASE Mounted
  BY <1>0, <1>7, AtTypes DEF Mounted
<1>8. CASE MountFails
  BY <1>8, LeaveTypes DEF MountFails
<1>9. CASE Opened
  BY <1>9, LeaveTypes DEF Opened
<1>10. CASE Written
  BY <1>10, LeaveTypes DEF Written
<1>11. CASE Sought
  BY <1>11, LeaveTypes DEF Sought
<1>12. CASE Synced
  BY <1>12, SyncOverMoves DEF Synced
<1>13. CASE AccessFails
  BY <1>13, LeaveTypes DEF AccessFails, Abort
<1>14. CASE NoFatType
  BY <1>14, LeaveTypes DEF NoFatType, Abort
<1> QED
  BY <1>1, <1>2, <1>3, <1>4, <1>5, <1>5c, <1>6, <1>7, <1>8, <1>9, <1>10, <1>11, <1>12,
     <1>13, <1>14 DEF CallStep

LEMMA CallFileTypes ==
  ASSUME OpType, FilesType, VolumeType, MountInv, CallStep
  PROVE  FilesType'
<1>1. op.file \in Files /\ fp[op.file] \in FileRecord
  BY DEF OpType, FilesType, FileRecord
<1>2. /\ fs.id \in Nat
      /\ card \in logs => dirsize[card] \in Nat
  BY DEF VolumeType
<1>3. CASE UNCHANGED fp
  BY <1>3 DEF FilesType
<1>4. CASE FindVolume
  <2>1. fp' = [fp EXCEPT ![op.file].fs = FALSE]
    BY <1>4 DEF FindVolume
  <2> QED
    BY <1>1, <2>1 DEF FilesType
<1>5. CASE Opened /\ ~UNCHANGED fp
  <2> DEFINE size == IF op.call = "create" THEN 0 ELSE dirsize[card]
             r == [fs |-> TRUE, id |-> fs.id, err |-> FALSE, fptr |-> 0, fsize |-> size,
                   written |-> op.call = "create"]
  <2>1. size \in Nat
    BY <1>2, <1>5 DEF Opened
  <2>2. r \in FileRecord
    BY <1>2, <2>1 DEF FileRecord
  <2>3. fp' = [fp EXCEPT ![op.file] = r]
    BY <1>5 DEF Opened, ClosedFile
  <2> QED
    BY <1>1, <2>2, <2>3, FileTypes
<1>6. CASE Written
  <2> DEFINE end == fp[op.file].fptr + 1
             len == IF end > fp[op.file].fsize THEN end ELSE fp[op.file].fsize
  <2>1. end \in Nat /\ len \in Nat
    BY <1>1 DEF FileRecord
  <2>2. fp' = [fp EXCEPT ![op.file].fptr = end, ![op.file].fsize = len,
                         ![op.file].written = TRUE]
    BY <1>6 DEF Written
  <2> HIDE DEF end, len
  <2> QED
    BY <1>1, <2>1, <2>2, AppendTypes
<1>7. CASE Sought
  BY <1>1, <1>7 DEF Sought, FilesType, FileRecord
<1>8. CASE Synced
  BY <1>1, <1>8 DEF Synced, FilesType, FileRecord
<1>8c. CASE LockedClose /\ ~UNCHANGED fp
  <2>1. fp' = [fp EXCEPT ![op.file].fs = FALSE]
    BY <1>8c DEF LockedClose
  <2> QED
    BY <1>1, <2>1 DEF FilesType
<1>9. CASE AccessFails
  BY <1>1, <1>9, ErrTypes DEF AccessFails, Abort, FilesType
<1>10. CASE NoFatType
  BY <1>1, <1>10, ErrTypes DEF NoFatType, Abort, FilesType
<1> QED
  BY <1>3, <1>4, <1>5, <1>6, <1>7, <1>8, <1>8c, <1>9, <1>10
  DEF CallStep, Validate, Lock, LockTimeout, LockedFile, LockedVolume, Mounted, MountFails

LEMMA CallVolumeTypes ==
  ASSUME OpType, FilesType, VolumeType, MountInv, CallStep
  PROVE  VolumeType'
<1>1. sem' \in Nat
  BY CallOpTypes
<1>2. CASE UNCHANGED <<slotVars, driver, logs, dirsize, fs, Fsid>>
  BY <1>1, <1>2 DEF slotVars, VolumeType
<1>3. CASE LockedVolume
  BY <1>1, <1>3 DEF LockedVolume, slotVars, VolumeType
<1>4. CASE Mounted
  <2>1. fs \in [registered : BOOLEAN, type : {0, 1}, id : Nat] /\ Fsid + 1 \in Nat
    BY DEF VolumeType
  <2>2. fs' = [fs EXCEPT !.type = 1, !.id = Fsid + 1] /\ Fsid' = Fsid + 1
    BY <1>4 DEF Mounted
  <2>3. fs' \in [registered : BOOLEAN, type : {0, 1}, id : Nat]
    BY <2>1, <2>2
  <2> QED
    BY <1>1, <1>4, <2>1, <2>2, <2>3 DEF Mounted, slotVars, VolumeType
<1>5. CASE UNCHANGED <<driver, logs, dirsize, fs, Fsid>> /\ Fails
  BY <1>1, <1>5 DEF Fails, VolumeType
<1>6. CASE Opened
  BY <1>1, <1>6 DEF Opened, slotVars, VolumeType, MountInv
<1>7. CASE Synced
  <2>1. fp[op.file].fsize \in Nat
    BY DEF OpType, FilesType
  <2> QED
    BY <1>1, <1>7, <2>1 DEF Synced, slotVars, VolumeType
<1> QED
  BY <1>2, <1>3, <1>4, <1>5, <1>6, <1>7
  DEF CallStep, Validate, FindVolume, Lock, LockTimeout, LockedFile, LockedClose, MountFails,
      Written, Sought, AccessFails, NoFatType

\* What the threads keep beside the volume.
LEMMA MainTypes ==
  ASSUME TypeOK, MainStep
  PROVE  TypeOK'
<1>0. stuck \in BOOLEAN /\ InCall \in BOOLEAN
  BY DEF TypeOK, ThreadsType, InCall
<1>1. ASSUME NEW l \in {"nap", "poll", "connect", "unmount", "disconnect"}, MainGoto(l)
      PROVE  main' \in {"nap", "poll", "connect", "unmount", "disconnect"}
             /\ stuck' \in BOOLEAN
  BY <1>0, <1>1 DEF MainGoto
<1>2. main' \in {"nap", "poll", "connect", "unmount", "disconnect"} /\ stuck' \in BOOLEAN
  BY <1>1 DEF MainStep, WakeUp, Automount, SdcardMount, ConnectFails, UnmountVolume, Disconnect
<1>3. OpType' /\ FilesType'
  BY DEF TypeOK, OpType, FilesType, volumeVars, MainStep, WakeUp, Automount, SdcardMount,
         ConnectFails, UnmountVolume, Disconnect
<1>4. VolumeType'
  <2> USE DEF TypeOK, VolumeType
  <2>1. CASE UNCHANGED volumeVars
    BY <2>1 DEF volumeVars, slotVars
  <2>2. CASE SdcardMount
    BY <2>2 DEF SdcardMount, Register
  <2>3. CASE ConnectFails
    BY <2>3 DEF ConnectFails
  <2>4. CASE UnmountVolume
    BY <2>4 DEF UnmountVolume, Unregister, slotVars
  <2>5. CASE Disconnect
    BY <2>5 DEF Disconnect, slotVars
  <2> QED
    BY <2>1, <2>2, <2>3, <2>4, <2>5 DEF MainStep, WakeUp, Automount
<1>5. ThreadsType'
  BY <1>2 DEF TypeOK, ThreadsType, logVars, MainStep, WakeUp, Automount, SdcardMount,
              ConnectFails, UnmountVolume, Disconnect
<1> QED
  BY <1>3, <1>4, <1>5 DEF TypeOK

Steps == {"version_open", "version_write", "version_close", "mpu_open", "mpu_write",
          "rc_open", "rc_write", "write", "open", "lseek", "sync"}

LEMMA StepsOfCalls ==
  /\ DOMAIN CallOf = Steps
  /\ \A s \in Steps : CallOf[s][1] \in Calls /\ CallOf[s][2] \in Files
  /\ \A s \in DOMAIN Startup : Startup[s] \in Steps \cup {"wait"}
BY DEF CallOf, Steps, Startup, Calls, Opening, Syncing, Files, LogFile

\* The steps of sdlog outside FatFs.
LogOwn == Wake \/ BeginCall \/ SkipHeader \/ Return

LEMMA LogOwnTypes ==
  ASSUME OpType, ThreadsType, LogOwn
  PROVE  /\ OpType'
         /\ step' \in DOMAIN CallOf \cup {"wait", "dead"}
         /\ error' \in BOOLEAN /\ sync_needed' \in 0..(SyncEvery - 1)
<1>0. /\ step \in DOMAIN CallOf \cup {"wait", "dead"}
      /\ error \in BOOLEAN /\ sync_needed \in 0..(SyncEvery - 1)
  BY DEF ThreadsType
<1>1. Idle \in [call : Calls \cup {"none"}, file : Files, at : Places, res : Results]
  BY DEF Idle, Calls, Files, LogFile, Places, Results
<1>2. \A err : step \in DOMAIN Startup => AfterStartup(err) \in Steps \cup {"wait", "dead"}
  BY StepsOfCalls DEF AfterStartup
<1>3. CASE Wake
  BY <1>0, <1>3, StepsOfCalls DEF Wake, OpType, Steps
<1>4. CASE BeginCall
  <2>1. step \in Steps /\ UNCHANGED logVars
    BY <1>4, StepsOfCalls DEF BeginCall
  <2>2. op' = [call |-> CallOf[step][1], file |-> CallOf[step][2], at |-> "check",
               res |-> "FR_OK"]
    BY <1>4 DEF BeginCall, Call
  <2> QED
    BY <1>0, <2>1, <2>2, StepsOfCalls DEF OpType, Places, Results, logVars
<1>5. CASE SkipHeader
  <2>1. step \in DOMAIN Startup
    BY <1>5 DEF SkipHeader, SkipsHeader, Headers, Startup
  <2> QED
    BY <1>0, <1>2, <1>5, <2>1, StepsOfCalls DEF SkipHeader, OpType
<1>6. CASE StartupReturn
  BY <1>0, <1>1, <1>2, <1>6, StepsOfCalls DEF StartupReturn, OpType
<1>7. CASE RecordReturn
  <2>1. CountRecord => /\ sync_needed' \in 0..(SyncEvery - 1)
                       /\ step' \in {"sync", "wait"}
    BY <1>0, LoggingAssumption DEF CountRecord
  <2>2. {"sync", "open", "lseek"} \subseteq Steps
    BY DEF Steps
  <2> QED
    BY <1>0, <1>1, <1>7, <2>1, <2>2, StepsOfCalls DEF RecordReturn, OpType
<1>8. CASE SyncReturn
  BY <1>0, <1>1, <1>8 DEF SyncReturn, OpType
<1> QED
  BY <1>3, <1>4, <1>5, <1>6, <1>7, <1>8 DEF LogOwn, Return

LEMMA LogTypes ==
  ASSUME TypeOK, MountInv, LogStep
  PROVE  TypeOK'
<1> USE DEF TypeOK
<1>1. ThreadsType => /\ fatfs_mounted \in BOOLEAN /\ stuck \in BOOLEAN /\ swaps \in Nat
                     /\ main \in {"nap", "poll", "connect", "unmount", "disconnect"}
  BY DEF ThreadsType
<1>2. UNCHANGED <<fatfs_mounted, main, swaps>>
  BY DEF LogStep
<1>3. CASE LogOwn /\ UNCHANGED <<slotVars, driver, logs, dirsize, fs, Fsid, sem, fp>>
              /\ stuck' \in {stuck, FALSE}
  <2>1. OpType' /\ ThreadsType'
    BY <1>1, <1>2, <1>3, LogOwnTypes DEF ThreadsType
  <2>2. FilesType' /\ VolumeType'
    BY <1>3 DEF FilesType, VolumeType, slotVars
  <2> QED
    BY <2>1, <2>2
<1>4. CASE CallStep /\ UNCHANGED <<logVars, stuck>>
  <2>1. ThreadsType'
    BY <1>2, <1>4 DEF ThreadsType, logVars
  <2> QED
    BY <1>4, <2>1, CallOpTypes, CallFileTypes, CallVolumeTypes
<1> QED
  BY <1>3, <1>4 DEF LogStep, LogOwn

LEMMA SlotTypes ==
  ASSUME TypeOK, Pull \/ Insert
  PROVE  TypeOK'
<1>1. OpType' /\ FilesType' /\ VolumeType'
  BY DEF TypeOK, OpType, FilesType, VolumeType, Pull, Insert
<1>2. ThreadsType'
  BY DEF TypeOK, ThreadsType, logVars, Pull, Insert
<1> QED
  BY <1>1, <1>2 DEF TypeOK

(***************************************************************************)
(* The grant.                                                              *)
(***************************************************************************)
Granted == sem + (IF Holds THEN 1 ELSE 0)

LEMMA GrantIsCounted ==
  GrantIsKept <=> IF fs.registered THEN Granted = 1 ELSE Granted <= 1
BY DEF GrantIsKept, Granted

LEMMA MountKept ==
  ASSUME MountInv, UNCHANGED <<card, answers, stuck, fatfs_mounted, main, driver>>,
         fs'.registered = fs.registered, fs'.type \in {fs.type, 0},
         Entered' => Entered
  PROVE  MountInv'
BY DEF MountInv

\* Under the lock, a call goes on or gives the grant back.
LEMMA GrantMoves ==
  ASSUME TypeOK, Holds
  PROVE  /\ \A l \in {"mount", "io"} : At(l) /\ UNCHANGED sem => Granted' = Granted
         /\ \A res \in Results \ Unreleased : Leave(res) => Granted' = Granted
         /\ Entered
<1>1. sem \in Nat
  BY DEF TypeOK, VolumeType
<1>2. ASSUME NEW l \in {"mount", "io"}, At(l), UNCHANGED sem
      PROVE  Granted' = Granted
  <2>1. Holds'
    BY <1>2 DEF At, Holds, TypeOK, OpType
  <2> QED
    BY <1>2, <2>1 DEF Granted
<1>3. ASSUME NEW res \in Results \ Unreleased, Leave(res)
      PROVE  Granted' = Granted
  <2>1. ~Holds' /\ sem' = sem + 1
    BY <1>3 DEF Leave, Holds, TypeOK, OpType
  <2> QED
    BY <1>1, <2>1 DEF Granted
<1> QED
  BY <1>2, <1>3 DEF Holds, Entered

LEMMA ResultsReleased ==
  {"FR_OK", "FR_DISK_ERR", "FR_INT_ERR", "FR_NOT_READY", "FR_NO_FILE"} \subseteq Results \ Unreleased
BY DEF Results, Unreleased

LEMMA OutsideGrant ==
  ASSUME TypeOK
  PROVE  /\ At("lock") => op'.at = "lock"
         /\ At("locked") => op'.at = "locked"
         /\ \A res \in Unreleased : Leave(res) => op'.at = "ret" /\ UNCHANGED sem
BY DEF At, Leave, TypeOK, OpType

\* A call keeps MountInv, and moves the grant between the semaphore and itself;
\* it is lost only with the volume.
LEMMA CallGrant ==
  ASSUME TypeOK, MountInv, CallStep, UNCHANGED <<stuck, fatfs_mounted, main>>
  PROVE  /\ MountInv'
         /\ Granted' = Granted \/ (~fs.registered /\ Granted' <= Granted)
<1>0. sem \in Nat
  BY DEF TypeOK, VolumeType
<1>1. CASE Validate
  <2>1. \/ op'.at = "lock" /\ fs.type # 0
        \/ op'.at = "ret"
    BY <1>1, OutsideGrant DEF Validate, Usable, Unreleased
  <2>2. UNCHANGED sem
    BY <1>1, OutsideGrant DEF Validate, Unreleased
  <2>3. Granted' = Granted
    BY <1>1, <2>1, <2>2 DEF Granted, Holds, Validate
  <2> QED
    BY <1>1, <2>1, <2>3 DEF MountInv, Entered, Validate, slotVars
<1>2. CASE FindVolume
  <2>1. \/ op'.at = "lock" /\ fs.registered
        \/ op'.at = "ret"
    BY <1>2, OutsideGrant DEF FindVolume, Unreleased
  <2>2. UNCHANGED sem
    BY <1>2, OutsideGrant DEF FindVolume, Unreleased
  <2>3. Granted' = Granted
    BY <1>2, <2>1, <2>2 DEF Granted, Holds, FindVolume
  <2> QED
    BY <1>2, <2>1, <2>3 DEF MountInv, Entered, FindVolume, slotVars
<1>3. CASE Lock
  <2>1. op'.at = "locked" /\ sem' = sem - 1
    BY <1>3, OutsideGrant DEF Lock
  <2>2. Granted' = Granted
    BY <1>0, <1>3, <2>1 DEF Granted, Holds, Lock
  <2> QED
    BY <1>3, <2>2, MountKept DEF Entered, Lock, slotVars
<1>4. CASE LockTimeout
  <2>1. op'.at = "ret" /\ UNCHANGED sem
    BY <1>4, OutsideGrant DEF LockTimeout, Unreleased
  <2>2. Granted' = Granted
    BY <1>4, <2>1 DEF Granted, Holds, LockTimeout
  <2> QED
    BY <1>4, <2>1, <2>2, MountKept DEF Entered, LockTimeout, slotVars
<1>5. ASSUME Holds, UNCHANGED <<card, answers, driver>>,
             fs'.registered = fs.registered, fs'.type \in {fs.type, 0},
             \/ \E l \in {"mount", "io"} : At(l) /\ UNCHANGED sem
             \/ \E res \in Results \ Unreleased : Leave(res)
      PROVE  MountInv' /\ Granted' = Granted
  BY <1>5, GrantMoves, MountKept
<1>5a. ASSUME Holds, UNCHANGED <<card, answers, driver, fs>>, SyncOver
       PROVE  MountInv' /\ Granted' = Granted
  <2>1. ~Holds' /\ ~Entered' /\ sem' = sem + 1
    BY <1>5a, SyncOverMoves DEF TypeOK, Holds, Entered
  <2> QED
    BY <1>0, <1>5a, <2>1, MountKept DEF Granted
<1>6. CASE LockedFile
  <2>1. Holds /\ UNCHANGED <<card, answers, driver, fs>>
    BY <1>6 DEF LockedFile, Holds, slotVars
  <2> QED
    BY <1>5, <1>5a, <1>6, <2>1, ResultsReleased DEF LockedFile
<1>6c. CASE LockedClose
  <2>1. Holds /\ UNCHANGED <<card, answers, driver, fs>>
    BY <1>6c DEF LockedClose, Holds, slotVars
  <2>2. CASE Leave("FR_OK")
    BY <1>5, <2>1, <2>2, ResultsReleased
  <2>3. CASE driver # "ready" /\ op' = [op EXCEPT !.at = "ret", !.res = "FR_NOT_READY"]
             /\ UNCHANGED sem
    <3>1. ~fs.registered
      BY <2>3 DEF MountInv
    <3>2. op'.at = "ret"
      BY <2>3 DEF TypeOK, OpType
    <3>3. ~Holds' /\ ~Entered'
      BY <3>2 DEF Holds, Entered
    <3> QED
      BY <1>0, <2>1, <2>3, <3>1, <3>3, MountKept DEF Granted
  <2> QED
    BY <1>6c, <2>2, <2>3 DEF LockedClose
<1>7. CASE LockedVolume
  <2>1. Holds /\ UNCHANGED <<card, answers, driver>>
    BY <1>7 DEF LockedVolume, Holds, slotVars
  <2>2. fs'.registered = fs.registered /\ fs'.type \in {fs.type, 0}
    BY <1>7 DEF LockedVolume, TypeOK, VolumeType
  <2> QED
    BY <1>5, <1>7, <2>1, <2>2, ResultsReleased DEF LockedVolume
<1>8. CASE Mounted
  <2>1. Holds /\ UNCHANGED <<card, answers, driver>> /\ answers
    BY <1>8 DEF Mounted, Holds, slotVars
  <2>2. fs'.registered = fs.registered
    BY <1>8 DEF Mounted, TypeOK, VolumeType
  <2>3. Granted' = Granted
    BY <1>8, <2>1, GrantMoves DEF Mounted
  <2> QED
    BY <2>1, <2>2, <2>3, GrantMoves DEF MountInv
<1>9. CASE MountFails \/ AccessFails
  <2>1. Holds /\ UNCHANGED <<card, answers, driver, fs>>
    BY <1>9 DEF MountFails, AccessFails, Holds, Fails
  <2>2. Leave("FR_DISK_ERR")
    BY <1>9 DEF MountFails, AccessFails, Abort
  <2> QED
    BY <1>5, <2>1, <2>2, ResultsReleased
<1>10. CASE Opened \/ Written \/ Sought \/ NoFatType
  <2>1. Holds /\ UNCHANGED <<card, answers, driver, fs>>
    BY <1>10 DEF Opened, Written, Sought, NoFatType, Holds, slotVars
  <2>2. Leave("FR_OK") \/ Leave("FR_NO_FILE") \/ Leave("FR_INT_ERR")
    BY <1>10 DEF Opened, Written, Sought, NoFatType, Abort
  <2> QED
    BY <1>5, <2>1, <2>2, ResultsReleased
<1>11. CASE Synced
  BY <1>5a, <1>11 DEF Synced, Holds, slotVars
<1> QED
  BY <1>1, <1>2, <1>3, <1>4, <1>6, <1>6c, <1>7, <1>8, <1>9, <1>10, <1>11 DEF CallStep

\* main mounts the volume only when no call is under way in it.
LEMMA MainGrant ==
  ASSUME TypeOK, MountInv, GrantIsKept, MainStep
  PROVE  MountInv' /\ GrantIsKept'
<1>0. sem \in Nat /\ stuck \in BOOLEAN /\ fs = [registered |-> fs.registered,
                                       type |-> fs.type, id |-> fs.id]
  BY DEF TypeOK, VolumeType, ThreadsType
<1>1. (Entered => InCall) /\ (Holds => Entered)
  BY DEF Entered, InCall, Holds
<1>2. UNCHANGED op => UNCHANGED <<Entered, Holds, InCall>>
  BY DEF Entered, Holds, InCall
<1>3. UNCHANGED <<op, sem, fs>> => GrantIsKept'
  BY <1>2 DEF GrantIsKept
<1>4. CASE WakeUp
  BY <1>1, <1>2, <1>3, <1>4 DEF WakeUp, MountInv, MainGoto, volumeVars, slotVars
<1>5. CASE Automount
  <2>1. /\ main' \in {"unmount", "connect", "nap"}
        /\ main' = "unmount" => card = NoCard /\ fatfs_mounted
        /\ main' = "connect" => ~fatfs_mounted
        /\ main = "poll" /\ UNCHANGED <<volumeVars, fatfs_mounted>>
    BY <1>5 DEF Automount, MainGoto
  <2>2. card = NoCard => ~answers
    BY DEF MountInv
  <2> QED
    BY <1>1, <1>2, <1>3, <2>1, <2>2 DEF MountInv, volumeVars, slotVars
<1>6. CASE SdcardMount
  <2>1. ~Entered /\ ~Holds
    BY <1>1, <1>6 DEF SdcardMount, MountInv
  <2>2. fs'.registered /\ sem' = 1 /\ fatfs_mounted' /\ main' = "nap" /\ UNCHANGED <<op, card>>
        /\ driver' = "ready"
    BY <1>0, <1>6 DEF SdcardMount, Register, MainGoto
  <2>3. card' # NoCard
    BY <1>6 DEF SdcardMount
  <2>4. GrantIsKept'
    BY <1>2, <2>1, <2>2 DEF GrantIsKept
  <2> QED
    BY <2>2, <2>3, <2>4 DEF MountInv
<1>7. CASE ConnectFails
  <2>1. ~Entered
    BY <1>7 DEF ConnectFails, MountInv
  <2> QED
    BY <1>2, <1>3, <1>7, <2>1 DEF ConnectFails, MountInv, MainGoto
<1>8. CASE UnmountVolume
  <2>1. ~fs'.registered /\ fs'.type = 0 /\ sem' = 0
    BY <1>0, <1>8 DEF UnmountVolume, Unregister
  <2>2. GrantIsKept'
    BY <2>1 DEF GrantIsKept
  <2> QED
    BY <1>8, <2>1, <2>2 DEF UnmountVolume, MountInv, MainGoto, slotVars
<1>9. CASE Disconnect
  <2>1. main' = "nap" /\ stuck' = InCall /\ UNCHANGED <<op, sem, fs, card, answers>>
    BY <1>9 DEF Disconnect, MainGoto, slotVars
  <2>2. ~fatfs_mounted' /\ main = "disconnect"
    BY <1>9 DEF Disconnect
  <2> QED
    BY <1>1, <1>2, <1>3, <2>1, <2>2 DEF MountInv
<1> QED
  BY <1>4, <1>5, <1>6, <1>7, <1>8, <1>9 DEF MainStep

LEMMA LogGrant ==
  ASSUME TypeOK, MountInv, GrantIsKept, LogStep
  PROVE  MountInv' /\ GrantIsKept'
<1>1. UNCHANGED <<fatfs_mounted, main>>
  BY DEF LogStep
<1>2. CASE /\ LogOwn
           /\ UNCHANGED <<slotVars, sem, fs, driver>> /\ stuck' \in {stuck, FALSE}
           /\ op.at = "ret" \/ UNCHANGED stuck
  <2>1. UNCHANGED op \/ (op.at \in {"out", "ret"} /\ op'.at \in {"out", "check"})
    <3>1. CASE Wake \/ SkipHeader
      BY <3>1 DEF Wake, SkipHeader
    <3>2. CASE BeginCall
      BY <3>2 DEF BeginCall, Call
    <3>3. CASE Return
      BY <3>3 DEF Return, StartupReturn, RecordReturn, SyncReturn, Idle
    <3> QED
      BY <1>2, <3>1, <3>2, <3>3 DEF LogOwn
  <2>2. (Holds' <=> Holds) /\ (Entered' => Entered /\ op.at # "ret")
    BY <2>1, <1>2 DEF Holds, Entered
  <2> QED
    BY <1>1, <1>2, <2>2 DEF MountInv, GrantIsKept, slotVars
<1>3. CASE CallStep /\ UNCHANGED <<logVars, stuck>>
  <2>1. MountInv' /\ (Granted' = Granted \/ (~fs.registered /\ Granted' <= Granted))
    BY <1>1, <1>3, CallGrant
  <2>2. fs'.registered = fs.registered
    BY <1>3 DEF CallStep, Validate, FindVolume, Lock, LockTimeout, LockedFile, LockedClose,
                LockedVolume, Mounted, MountFails, Opened, Written, Sought, Synced, AccessFails, NoFatType,
                TypeOK, VolumeType
  <2>3. Granted \in Nat /\ Granted' \in Nat
    BY <1>3, CallOpTypes DEF TypeOK, VolumeType, Granted
  <2> QED
    BY <2>1, <2>2, <2>3, GrantIsCounted DEF GrantIsKept, Granted
<1>4. Return => op.at = "ret"
  BY DEF Return, StartupReturn, RecordReturn, SyncReturn
<1> QED
  BY <1>2, <1>3, <1>4 DEF LogStep, LogOwn

(***************************************************************************)
(* The theorems.                                                           *)
(***************************************************************************)
LEMMA InitInvariant == Init => IInv
<1> SUFFICES ASSUME Init PROVE IInv
  OBVIOUS
<1>1. OpType /\ FilesType
  BY DEF Init, OpType, FilesType, Idle, ClosedFile, Calls, Files, LogFile, Places, Results
<1>2. VolumeType
  <2>1. dirsize \in [Cards -> Nat]
    BY DEF Init
  <2>2. fs \in [registered : BOOLEAN, type : {0, 1}, id : Nat]
    BY DEF Init
  <2> QED
    BY <2>1, <2>2 DEF Init, VolumeType
<1>3. ThreadsType
  <2>1. step \in DOMAIN CallOf
    BY StepsOfCalls DEF Init, Steps
  <2>2. sync_needed \in 0..(SyncEvery - 1)
    BY LoggingAssumption DEF Init
  <2>3. error \in BOOLEAN /\ stuck \in BOOLEAN /\ fatfs_mounted \in BOOLEAN
    BY DEF Init
  <2> QED
    BY <2>1, <2>2, <2>3 DEF Init, ThreadsType
<1>4. ~Entered /\ ~Holds
  BY DEF Init, Idle, Entered, Holds
<1>5. fs.registered = fatfs_mounted /\ (fs.type = 1 => fatfs_mounted) /\ fs.type \in {0, 1}
  BY DEF Init
<1>6. MountInv
  BY <1>4, <1>5, <1>2 DEF Init, MountInv, VolumeType
<1>7. GrantIsKept
  BY <1>4, <1>5 DEF Init, GrantIsKept
<1> QED
  BY <1>1, <1>2, <1>3, <1>6, <1>7 DEF IInv, TypeOK

LEMMA NextInvariant == IInv /\ [Next]_vars => IInv'
<1> SUFFICES ASSUME IInv, [Next]_vars PROVE IInv'
  OBVIOUS
<1> USE DEF IInv
<1>1. CASE MainStep
  BY <1>1, MainTypes, MainGrant
<1>2. CASE LogStep
  BY <1>2, LogTypes, LogGrant
<1>3. CASE Pull \/ Insert
  <2>1. /\ UNCHANGED <<op, sem, fs, main, fatfs_mounted, stuck, driver>> /\ ~answers'
    BY <1>3 DEF Pull, Insert
  <2>2. MountInv' /\ GrantIsKept'
    BY <2>1 DEF MountInv, GrantIsKept, Entered, Holds
  <2> QED
    BY <1>3, <2>2, SlotTypes
<1>4. CASE UNCHANGED vars
  BY <1>4 DEF vars, volumeVars, slotVars, logVars, TypeOK, OpType, FilesType, VolumeType,
              ThreadsType, MountInv, GrantIsKept, Entered, Holds
<1> QED
  BY <1>1, <1>2, <1>3, <1>4 DEF Next

THEOREM Invariance == Spec => []IInv
BY InitInvariant, NextInvariant, PTL DEF Spec

\* The variables of the SD card and its threads keep their types.
THEOREM TypeCorrect == Spec => []TypeOK
BY Invariance, PTL DEF IInv

\* Whatever fails in a call and whenever main unmounts the volume under it, the
\* grant of a mounted volume is there exactly once, for sdlog's next call; also
\* when f_close() returns without unlock_fs() because the drive has gone.
THEOREM GrantCorrect == Spec => []GrantIsKept
BY Invariance, PTL DEF IInv

(***************************************************************************)
(* Proofs about the records of the log in SdLogging: they are appended,    *)
(* what a card holds does not shrink, and what is not synced is bounded,   *)
(* for any set of cards, number of records, disk errors and swaps.         *)
(***************************************************************************)

Log == fp[LogFile]

(***************************************************************************)
(* The calls: op is the call that sdlog is in.  A call on a file that has  *)
(* passed validate() has a usable file until the volume is unmounted, and  *)
(* no volume is mounted under it; a file that f_open() works on is not     *)
(* usable.  A mount takes a new id, so that a file of an earlier mount     *)
(* does not become usable again.                                           *)
(***************************************************************************)
CallInv ==
  /\ op.at # "out" => /\ step \in DOMAIN CallOf
                      /\ \/ op.call = CallOf[step][1]
                         \/ op.call = "closing" /\ CallOf[step][1] = "close"
                      /\ op.file = CallOf[step][2]
  /\ Entered /\ fs.registered /\ op.call \notin Opening => Usable(op.file)
  /\ Entered /\ op.call \in Opening => ~fp[op.file].fs
  /\ op.at = "mount" => op.call \in Opening
  /\ op.at = "ret" /\ op.res = "FR_INVALID_OBJECT" => ~Usable(op.file)

IdInv == /\ fs.id <= Fsid /\ Log.id <= Fsid
         /\ fs.type # 0 => driver = "ready"

\* The file pointer is at the end of the log, but between the f_open() and the
\* f_lseek() of the recovery.
Seeking == \/ step = "open" /\ op.at = "ret"
           \/ step = "lseek" /\ op.at # "ret"

EndInv ==
  /\ Usable(LogFile) => Log.err \/ Log.fptr = Log.fsize \/ Seeking
  /\ Entered /\ op.call = "write" /\ op.file = LogFile => Log.err \/ Log.fptr = Log.fsize
  /\ Log.fptr <= Log.fsize

\* By how much the length of the log is ahead of its directory entry at most:
\* the header, the records counted, and one that is written and not counted.
Slack == CASE step = "sync" /\ op.at # "ret" -> SyncEvery + 1
           [] step = "sync" /\ op.at = "ret" -> 1
           [] step = "write" /\ op.at = "ret" -> sync_needed + 2
           [] step = "mpu_open" \/ (step = "mpu_write" /\ op.at # "ret") -> 0
           [] OTHER -> sync_needed + 1

SizeInv ==
  /\ answers /\ Usable(LogFile)
       => /\ dirsize[card] <= Log.fsize
          /\ ~Log.written => Log.fsize = dirsize[card]
          /\ faults = 0 => Log.fsize <= dirsize[card] + Slack
  /\ step \in DOMAIN Startup => sync_needed = 0
  /\ step \in {"version_open", "version_write", "version_close"} => ~Log.fs
  /\ step = "mpu_open" /\ op.at # "ret" => ~Log.fs

FileInv == CallInv /\ IdInv /\ EndInv /\ SizeInv

\* The types of what the invariant speaks of.
LEMMA LogTypesKnown ==
  ASSUME IInv
  PROVE  /\ Log \in FileRecord /\ op.file \in Files /\ fp[op.file] \in FileRecord
         /\ fs.id \in Nat /\ Fsid \in Nat /\ fs.type \in {0, 1} /\ fs.registered \in BOOLEAN
         /\ answers => fs.registered /\ card \in Cards /\ dirsize[card] \in Nat
         /\ faults \in Nat /\ sync_needed \in 0 .. (SyncEvery - 1)
         /\ SyncEvery \in Nat \ {0}
         /\ ~fs.registered => fs.type = 0
         /\ op.at \in Places /\ op.call \in Calls \cup {"none"}
  BY LoggingAssumption DEF IInv, TypeOK, OpType, FilesType, VolumeType, ThreadsType, MountInv, Log,
     LogFile, Files, FileRecord

LEMMA SlackType ==
  ASSUME IInv
  PROVE  Slack \in Nat /\ Slack <= SyncEvery + 1
  BY LogTypesKnown DEF Slack

\* A mount that is registered and not held gives the grant at once, so a call
\* that has to wait in vain finds the volume unmounted.
LEMMA TimeoutUnmounted ==
  ASSUME IInv, LockTimeout
  PROVE  fs.type = 0
BY LogTypesKnown DEF LockTimeout, IInv, GrantIsKept, Holds

LEMMA OpMoves ==
  ASSUME IInv
  PROVE  /\ \A l \in Places : At(l) => op'.at = l /\ op'.call = op.call /\ op'.file = op.file
         /\ \A res : Leave(res) => op'.at = "ret" /\ op'.call = op.call /\ op'.file = op.file
         /\ \A res \in Results : Leave(res) => op'.res = res
         /\ SyncOver => /\ op'.at \in {"check", "ret"} /\ op'.file = op.file
                        /\ \/ op'.call = op.call
                           \/ op.call = "close" /\ op'.call = "closing"
                        /\ op'.at = "ret" => op'.res = "FR_OK"
         /\ LockedClose => /\ op'.at = "ret" /\ op'.call = op.call /\ op'.file = op.file
                           /\ op'.res \in {"FR_OK", "FR_NOT_READY"}
<1>1. \A l \in Places : At(l) => op'.at = l /\ op'.call = op.call /\ op'.file = op.file
  BY DEF At, IInv, TypeOK, OpType
<1>2. \A res : Leave(res) => op'.at = "ret" /\ op'.call = op.call /\ op'.file = op.file
  BY DEF Leave, IInv, TypeOK, OpType
<1>3. \A res \in Results : Leave(res) => op'.res = res
  BY DEF Leave, IInv, TypeOK, OpType
<1>4. LockedClose => \/ Leave("FR_OK")
                     \/ op' = [op EXCEPT !.at = "ret", !.res = "FR_NOT_READY"]
  BY DEF LockedClose
<1>5. "FR_OK" \in Results
  BY DEF Results
<1>6. LockedClose => /\ op'.at = "ret" /\ op'.call = op.call /\ op'.file = op.file
                     /\ op'.res \in {"FR_OK", "FR_NOT_READY"}
  BY <1>2, <1>3, <1>4, <1>5 DEF IInv, TypeOK, OpType
<1> QED
  BY <1>1, <1>2, <1>3, <1>6, SyncOverMoves DEF IInv, TypeOK

(***************************************************************************)
(* The calls into FatFs keep the invariant.                                *)
(***************************************************************************)
LEMMA CallMoves ==
  ASSUME IInv, CallStep
  PROVE  /\ op.at \in {"check", "lock", "locked", "mount", "io"} /\ op'.at # "out"
         /\ op'.call = op.call \/ (op.call = "close" /\ op'.call = "closing")
         /\ op'.file = op.file
         /\ UNCHANGED <<card, answers, driver>> /\ fs'.registered = fs.registered
         /\ faults' \in Nat /\ (faults' = 0 => faults = 0)
<1>1. /\ \A l \in {"lock", "locked", "mount", "io"} :
            At(l) => op'.at # "out" /\ op'.call = op.call /\ op'.file = op.file
      /\ \A res : Leave(res) => op'.at # "out" /\ op'.call = op.call /\ op'.file = op.file
  BY OpMoves DEF Places
<1>2. /\ op'.at # "out" /\ op'.file = op.file
      /\ op'.call = op.call \/ (op.call = "close" /\ op'.call = "closing")
  <2>1. CASE LockedClose \/ SyncOver
    BY <2>1, OpMoves
  <2>2. CASE ~(LockedClose \/ SyncOver)
    BY <1>1, <2>2 DEF CallStep, Validate, FindVolume, Lock, LockTimeout, LockedFile, LockedVolume,
       Mounted, MountFails, Opened, Written, Sought, Synced, AccessFails, NoFatType, Abort
  <2> QED
    BY <2>1, <2>2
<1>3. op.at \in {"check", "lock", "locked", "mount", "io"}
  BY DEF CallStep, Validate, FindVolume, Lock, LockTimeout, LockedFile, LockedClose, LockedVolume,
         Mounted, MountFails, Opened, Written, Sought, Synced, AccessFails, NoFatType
<1>4. fs'.registered = fs.registered
  BY DEF IInv, TypeOK, VolumeType, CallStep, Validate, FindVolume, Lock, LockTimeout, LockedFile, LockedClose,
         LockedVolume, Mounted, MountFails, Opened, Written, Sought, Synced, AccessFails, NoFatType
<1>5. \/ UNCHANGED slotVars
      \/ Fails
  BY DEF CallStep, Validate, FindVolume, Lock, LockTimeout, LockedFile, LockedClose,
         LockedVolume, Mounted, MountFails, Opened, Written, Sought, Synced, AccessFails, NoFatType
<1>6. UNCHANGED <<card, answers>> /\ faults' \in Nat /\ (faults' = 0 => faults = 0)
  BY <1>5, LogTypesKnown DEF slotVars, Fails
<1>7. UNCHANGED driver
  BY DEF CallStep, Validate, FindVolume, Lock, LockTimeout, LockedFile, LockedClose,
         LockedVolume, Mounted, MountFails, Opened, Written, Sought, Synced, AccessFails, NoFatType
<1> QED
  BY <1>2, <1>3, <1>4, <1>6, <1>7

LEMMA CallKeepsCall ==
  ASSUME IInv, CallInv, CallStep, UNCHANGED logVars
  PROVE  CallInv'
<1>1. /\ op.at \in {"check", "lock", "locked", "mount", "io"} /\ op'.at # "out"
      /\ op'.call = op.call \/ (op.call = "close" /\ op'.call = "closing")
      /\ op'.file = op.file /\ UNCHANGED step
      /\ fs'.registered = fs.registered
  BY CallMoves DEF logVars
<1>2. op'.at # "out" => /\ step' \in DOMAIN CallOf
                       /\ \/ op'.call = CallOf[step'][1]
                          \/ op'.call = "closing" /\ CallOf[step'][1] = "close"
                       /\ op'.file = CallOf[step'][2]
  <2>1. /\ op.call = CallOf[step][1] \/ (op.call = "closing" /\ CallOf[step][1] = "close")
        /\ op.file = CallOf[step][2] /\ step \in DOMAIN CallOf
    BY <1>1 DEF CallInv
  <2> QED
    BY <1>1, <2>1
<1>3. CASE op.call \notin Opening
  <2>0. op'.call \notin Opening
    BY <1>1, <1>3 DEF Opening
  <2>1. Entered' => (Usable(op.file) \/ Entered) /\ UNCHANGED <<fp, fs>>
    <3>1. Entered' => op'.at # "ret" /\ op'.at # "check"
      BY DEF Entered
    <3>2. \A res : Leave(res) => op'.at = "ret"
      BY OpMoves
    <3>3. Entered' => ~SyncOver /\ ~LockedClose
      BY <3>1, OpMoves
    <3> QED
      BY <1>1, <1>3, <3>1, <3>2, <3>3 DEF Entered, CallStep, Validate, FindVolume, Lock,
         LockTimeout, LockedFile, LockedVolume, Mounted, MountFails, Opened, Written, Sought,
         Synced, AccessFails, NoFatType, Abort, CallInv
  <2>2. op'.at # "mount"
    <3>1. ~(SyncOver \/ LockedClose) => op'.at # "mount"
      BY <1>1, <1>3, OpMoves DEF CallInv, CallStep, Validate, FindVolume, Lock, LockTimeout,
         LockedFile, LockedVolume, Mounted, MountFails, Opened, Written, Sought, Synced,
         AccessFails, NoFatType, Abort, Places
    <3> QED
      BY <3>1, OpMoves
  <2>3. op'.at = "ret" /\ op'.res = "FR_INVALID_OBJECT" => ~Usable(op.file) /\ UNCHANGED <<fp, fs>>
    <3>1. \A res \in Results : Leave(res) => op'.res = res
      BY OpMoves
    <3>2. \A l \in Places : At(l) => op'.at = l
      BY OpMoves
    <3>3. op'.at = "ret" /\ op'.res = "FR_INVALID_OBJECT" => ~SyncOver /\ ~LockedClose
      BY OpMoves
    <3> QED
      BY <1>1, <1>3, <3>1, <3>2, <3>3 DEF CallStep, Validate, FindVolume, Lock, LockTimeout,
         LockedFile, LockedVolume, Mounted, MountFails, Opened, Written, Sought, Synced,
         AccessFails, NoFatType, Abort, Places, Results
  <2>4. Entered' /\ fs'.registered => Usable(op.file)'
    <3>1. Entered' /\ fs'.registered => Usable(op.file)
      BY <1>1, <1>3, <2>1 DEF CallInv
    <3> QED
      BY <1>1, <2>1, <3>1 DEF Usable
  <2>5. op'.at = "ret" /\ op'.res = "FR_INVALID_OBJECT" => ~Usable(op.file)'
    BY <1>1, <2>3 DEF Usable
  <2>6. op'.file = op.file
    BY <1>1
  <2> QED
    BY <1>2, <2>0, <2>2, <2>4, <2>5, <2>6 DEF CallInv, Usable
<1>4. CASE op.call \in Opening
  <2>1. op.call \notin Syncing \cup {"write", "lseek", "closing"}
    BY <1>4 DEF Opening, Syncing
  <2>2. ~LockedClose /\ ~LockedFile /\ op'.call = op.call
    BY <1>1, <1>4, <2>1 DEF LockedClose, LockedFile, Syncing
  <2>3. Entered' => ~fp'[op.file].fs
    <3>1. CASE FindVolume
      BY <3>1, LogTypesKnown DEF FindVolume, IInv, TypeOK, FilesType
    <3>2. CASE Entered /\ UNCHANGED fp
      BY <1>4, <3>2 DEF CallInv
    <3>3. CASE ~Entered'
      BY <3>3
    <3> QED
      BY <1>4, <2>1, <2>2, <3>1, <3>2, <3>3, OpMoves DEF Entered, CallStep, Validate, Lock,
         LockTimeout, LockedVolume, Mounted, MountFails, Opened, Written, Sought, Synced,
         AccessFails, NoFatType, Abort
  <2>4. ~(op'.at = "ret" /\ op'.res = "FR_INVALID_OBJECT")
    <3>1. \A res \in Results : Leave(res) => op'.res = res
      BY DEF Leave, IInv, TypeOK, OpType
    <3>2. \A l \in Places : At(l) => op'.at = l
      BY OpMoves
    <3> QED
      BY <1>4, <2>1, <2>2, <3>1, <3>2 DEF CallStep, Validate, FindVolume, Lock, LockTimeout,
         LockedVolume, Mounted, MountFails, Opened, Written, Sought, Synced,
         AccessFails, NoFatType, Abort, Places, Results
  <2> QED
    BY <1>1, <1>2, <1>4, <2>2, <2>3, <2>4 DEF CallInv
<1> QED
  BY <1>3, <1>4

LEMMA UsableLog ==
  /\ Usable(LogFile) <=> Log.fs /\ fs.type # 0 /\ fs.id = Log.id
  /\ Usable(LogFile)' <=> Log'.fs /\ fs'.type # 0 /\ fs'.id = Log'.id
BY DEF Usable, Log

\* What FatFs does to the log and its volume when it neither mounts, opens,
\* writes, seeks nor syncs: it may close the file, unmount the volume, or note an
\* error.
LogStays == \/ Log' = Log
            \/ Log' = [Log EXCEPT !.fs = FALSE]
            \/ Log' = [Log EXCEPT !.err = TRUE]

FsStays == fs' = fs \/ fs' = [fs EXCEPT !.type = 0]

LEMMA StaysKnown ==
  ASSUME IInv, LogStays, FsStays
  PROVE  /\ Log'.id = Log.id /\ Log'.fptr = Log.fptr /\ Log'.fsize = Log.fsize
         /\ Log'.written = Log.written /\ (Log.err => Log'.err) /\ (Log'.fs => Log.fs)
         /\ Log'.fs \in BOOLEAN
         /\ fs'.id = fs.id /\ fs'.type \in {fs.type, 0}
<1>1. Log \in FileRecord /\ fs \in [registered : BOOLEAN, type : {0, 1}, id : Nat]
  BY LogTypesKnown DEF IInv, TypeOK, VolumeType
<1>2. fs'.id = fs.id /\ fs'.type \in {fs.type, 0}
  BY <1>1 DEF FsStays
<1>3. CASE Log' = Log
  BY <1>1, <1>2, <1>3 DEF FileRecord
<1>4. CASE Log' = [Log EXCEPT !.fs = FALSE]
  BY <1>1, <1>2, <1>4 DEF FileRecord
<1>5. CASE Log' = [Log EXCEPT !.err = TRUE]
  BY <1>1, <1>2, <1>5 DEF FileRecord
<1> QED
  BY <1>3, <1>4, <1>5 DEF LogStays

\* Each function of FatFs either leaves the log as it is, or is one of the five.
LEMMA CallsOnLog ==
  ASSUME IInv, CallStep
  PROVE  \/ LogStays /\ FsStays /\ UNCHANGED <<dirsize, Fsid>>
         \/ Mounted
         \/ (Opened \/ Written \/ Sought \/ Synced) /\ op.file = LogFile
<1>0. op.file \in Files /\ LogFile \in Files /\ fp \in [Files -> FileRecord]
  BY DEF IInv, TypeOK, OpType, FilesType, FileRecord, Files, LogFile
<1>1. CASE UNCHANGED <<fp, dirsize, Fsid>> /\ FsStays
  BY <1>1 DEF LogStays, Log
<1>2. CASE FindVolume
  <2>1. LogStays
    BY <1>0, <1>2 DEF FindVolume, LogStays, Log
  <2> QED
    BY <1>2, <2>1 DEF FindVolume, FsStays
<1>2c. CASE LockedClose
  <2>1. LogStays
    BY <1>0, <1>2c DEF LockedClose, LogStays, Log
  <2> QED
    BY <1>2c, <2>1 DEF LockedClose, FsStays
<1>3. CASE AccessFails \/ NoFatType
  <2>1. LogStays
    BY <1>0, <1>3 DEF AccessFails, NoFatType, Abort, LogStays, Log
  <2> QED
    BY <1>3, <2>1 DEF AccessFails, NoFatType, FsStays
<1>4. CASE (Opened \/ Written \/ Sought \/ Synced) /\ op.file # LogFile
  <2>1. Log' = Log
    BY <1>0, <1>4 DEF Opened, Written, Sought, Synced, Log
  <2>2. UNCHANGED <<dirsize, fs, Fsid>>
    BY <1>4 DEF Opened, Written, Sought, Synced
  <2> QED
    BY <2>1, <2>2 DEF LogStays, FsStays
<1> QED
  BY <1>1, <1>2, <1>2c, <1>3, <1>4 DEF CallStep, Validate, Lock, LockTimeout, LockedFile,
     LockedVolume, MountFails, FsStays

\* An f_lseek() that leaves the pointer where it is, and an f_sync() that leaves
\* the directory entry, end with an error or with a file that is of no use.
LEMMA CallsInVain ==
  ASSUME IInv, FileInv, CallStep, UNCHANGED logVars, op'.at = "ret",
         LogStays, FsStays, UNCHANGED <<dirsize, Fsid>>, ~((Sought \/ Synced) /\ op.file = LogFile),
         Usable(LogFile)'
  PROVE  /\ step = "lseek" => Log'.err
         /\ step = "sync" => ~Log.written \/ ~answers \/ faults' # 0
<1>0. op.file \in Files /\ LogFile \in Files /\ fp \in [Files -> FileRecord]
  BY DEF IInv, TypeOK, OpType, FilesType, FileRecord, Files, LogFile
<1>1. Usable(LogFile) /\ fs.type # 0 /\ driver = "ready"
  BY StaysKnown, UsableLog, LogTypesKnown DEF FileInv, IdInv
<1>2. SUFFICES ASSUME step = "lseek" \/ step = "sync"
               PROVE  /\ step = "lseek" => Log'.err
                      /\ step = "sync" => ~Log.written \/ ~answers \/ faults' # 0
  OBVIOUS
<1>3. op.file = LogFile /\ op.call = step
  BY <1>2, CallMoves DEF FileInv, CallInv, CallOf
<1>3c. ~LockedClose
  BY <1>2, <1>3 DEF LockedClose
<1>4. op.call \notin Opening
  BY <1>2, <1>3 DEF Opening
<1>5. CASE LockedFile
  <2>1. \A l \in Places : At(l) => op'.at = l
    BY OpMoves
  <2> QED
    BY <1>1, <1>2, <1>3, <1>5, <2>1 DEF LockedFile, Syncing, Log, Places
<1>6. CASE AccessFails \/ NoFatType
  <2>1. CASE step = "lseek"
    <3>1. fp' = [fp EXCEPT ![op.file].err = TRUE]
      BY <1>3, <1>4, <1>6, <2>1 DEF AccessFails, NoFatType, Abort
    <3> QED
      BY <1>0, <1>3, <2>1, <3>1 DEF Log, FileRecord
  <2>2. CASE step = "sync"
    BY <1>1, <1>3, <1>6, <2>2, LogTypesKnown DEF AccessFails, NoFatType, Fails
  <2> QED
    BY <1>2, <2>1, <2>2
<1>7. ~(Validate \/ LockTimeout)
  <2>1. \A l \in Places : At(l) => op'.at = l
    BY OpMoves
  <2> QED
    BY <1>1, <1>3, <2>1, TimeoutUnmounted DEF Validate, Places
<1>8. ~(FindVolume \/ LockedVolume \/ Opened)
  BY <1>4 DEF FindVolume, LockedVolume, Opened
<1>9. ~(Mounted \/ MountFails)
  BY <1>4 DEF FileInv, CallInv, Mounted, MountFails
<1>10. ~Lock
  BY OpMoves DEF Lock, Places
<1>11. ~Written
  BY <1>2, <1>3 DEF Written
<1> QED
  BY <1>3, <1>3c, <1>5, <1>6, <1>7, <1>8, <1>9, <1>10, <1>11 DEF CallStep

\* Such a step keeps the end of the log and the bounds of its length.
LEMMA QuietCall ==
  ASSUME IInv, FileInv, CallStep, UNCHANGED logVars,
         LogStays, FsStays, UNCHANGED <<dirsize, Fsid>>, ~((Sought \/ Synced) /\ op.file = LogFile)
  PROVE  IdInv' /\ EndInv' /\ SizeInv'
<1>0. /\ op.at \in {"check", "lock", "locked", "mount", "io"} /\ op'.at # "out"
      /\ op'.call = op.call \/ (op.call = "close" /\ op'.call = "closing")
      /\ op'.file = op.file
      /\ UNCHANGED <<card, answers, driver, step, sync_needed>>
      /\ (faults' = 0 => faults = 0)
  BY CallMoves DEF logVars
<1>1. Usable(LogFile)' => Usable(LogFile)
  BY StaysKnown, UsableLog, LogTypesKnown
<1>2. IdInv'
  BY <1>0, StaysKnown, LogTypesKnown DEF FileInv, IdInv
<1>3. ASSUME Usable(LogFile)', ~Log'.err, ~Seeking'
      PROVE  Log.fptr = Log.fsize
  <2>1. ~Seeking
    BY <1>0, <1>3, CallsInVain DEF Seeking
  <2> QED
    BY <1>1, <1>3, <2>1, StaysKnown DEF FileInv, EndInv
<1>4. ASSUME Entered', op.call = "write", op.file = LogFile, ~Log'.err
      PROVE  Log.fptr = Log.fsize
  <2>1. CASE Entered
    BY <1>4, <2>1, StaysKnown DEF FileInv, EndInv
  <2>2. CASE Validate
    <3>1. Usable(LogFile)
      BY <1>4, <2>2, OpMoves DEF Validate, Entered
    <3>2. ~Seeking
      BY <1>0, <1>4 DEF Seeking, FileInv, CallInv, CallOf
    <3> QED
      BY <1>4, <3>1, <3>2, StaysKnown DEF FileInv, EndInv
  <2> QED
    BY <1>4, <2>1, <2>2 DEF Entered, Opening, CallStep, FindVolume, Lock, LockTimeout, LockedFile, LockedClose,
       LockedVolume, Mounted, MountFails, Opened, Written, Sought, Synced, AccessFails, NoFatType
<1>5. EndInv'
  BY <1>0, <1>3, <1>4, StaysKnown DEF FileInv, EndInv
<1>6. ASSUME answers, Usable(LogFile)'
      PROVE  /\ dirsize[card] <= Log.fsize
             /\ ~Log.written => Log.fsize = dirsize[card]
             /\ faults' = 0 => Log.fsize <= dirsize[card] + Slack'
  <2>1. /\ dirsize[card] <= Log.fsize
        /\ ~Log.written => Log.fsize = dirsize[card]
        /\ faults' = 0 => Log.fsize <= dirsize[card] + Slack
    BY <1>0, <1>1, <1>6 DEF FileInv, SizeInv
  <2>2. Slack \in Nat /\ Slack' \in Nat /\ Log.fsize \in Nat /\ dirsize[card] \in Nat
    <3>1. sync_needed' \in Nat /\ SyncEvery \in Nat /\ UNCHANGED sync_needed
      BY <1>0, LogTypesKnown
    <3> QED
      BY <1>6, <3>1, LogTypesKnown, SlackType DEF Slack, FileRecord
  <2>3. Slack <= Slack' \/ (step = "sync" /\ op'.at = "ret")
    BY <1>0, LogTypesKnown DEF Slack
  <2>4. CASE step = "sync" /\ op'.at = "ret"
    <3>1. ~Log.written \/ faults' # 0
      BY <1>6, <2>4, CallsInVain
    <3> QED
      BY <2>1, <2>2, <3>1
  <2> QED
    BY <2>1, <2>2, <2>3, <2>4
<1>7. /\ step \in {"version_open", "version_write", "version_close"} => ~Log'.fs
      /\ step = "mpu_open" /\ op'.at # "ret" => ~Log'.fs
  BY <1>0, StaysKnown DEF FileInv, SizeInv
<1> QED
  BY <1>0, <1>2, <1>5, <1>6, <1>7, StaysKnown DEF FileInv, SizeInv

\* A volume that is mounted anew has no usable file.
LEMMA MountedKeeps ==
  ASSUME IInv, FileInv, Mounted, UNCHANGED logVars
  PROVE  IdInv' /\ EndInv' /\ SizeInv'
<1>1. /\ op'.at = "io" /\ op'.call = op.call /\ Log' = Log /\ UNCHANGED <<driver, step, sync_needed>>
      /\ driver = "ready" /\ op.at = "mount"
  BY OpMoves DEF Mounted, Places, Log, logVars
<1>2. fs'.id = Fsid + 1 /\ Fsid' = Fsid + 1 /\ Log.id <= Fsid /\ Log.id \in Nat /\ Fsid \in Nat
  BY LogTypesKnown DEF Mounted, FileInv, IdInv, IInv, TypeOK, VolumeType, FileRecord
<1>3. ~Usable(LogFile)'
  BY <1>1, <1>2, UsableLog
<1>4. op.call # "write"
  BY <1>1 DEF FileInv, CallInv, Opening
<1> QED
  BY <1>1, <1>2, <1>3, <1>4 DEF FileInv, IdInv, EndInv, SizeInv

\* The other four are accesses of a registered volume, by a call that ends here.
LEMMA FunctionMoves ==
  ASSUME IInv, FileInv, Opened \/ Written \/ Sought \/ Synced, op.file = LogFile,
         UNCHANGED logVars
  PROVE  /\ op.at = "io" /\ op'.at = "ret" /\ ~Entered' /\ op'.call = op.call
         /\ UNCHANGED <<card, answers, driver, faults, fs, Fsid, step, sync_needed>>
         /\ step \in {"mpu_open", "mpu_write", "write", "open", "lseek", "sync"}
         /\ op.call = CallOf[step][1]
<1>1. op.at = "io" /\ UNCHANGED <<card, answers, driver, faults, fs, Fsid, step, sync_needed>>
  BY DEF Opened, Written, Sought, Synced, slotVars, logVars
<1>2. op.call \in Opening \cup Syncing \cup {"write", "lseek"}
  BY DEF Opened, Written, Sought, Synced
<1>3. step \in Steps /\ op.call = CallOf[step][1] /\ CallOf[step][2] = LogFile
  BY <1>1, <1>2, StepsOfCalls DEF FileInv, CallInv, Opening, Syncing
<1>4. step \in {"mpu_open", "mpu_write", "write", "open", "lseek", "sync"}
  BY <1>3 DEF Steps, CallOf, LogFile
<1>5. op.call # "close"
  BY <1>3, <1>4 DEF CallOf
<1>6. op'.at = "ret" /\ op'.call = op.call
  BY <1>5, OpMoves DEF Opened, Written, Sought, Synced, SyncOver
<1> QED
  BY <1>1, <1>3, <1>4, <1>6 DEF Entered

LEMMA OpenedKeeps ==
  ASSUME IInv, FileInv, Opened, op.file = LogFile, UNCHANGED logVars
  PROVE  IdInv' /\ EndInv' /\ SizeInv'
<1> DEFINE size == IF op.call = "create" THEN 0 ELSE dirsize[card]
<1>1. step \in {"mpu_open", "open"} /\ (op.call = "create" <=> step = "mpu_open")
  <2>1. op.call \in {"create", "open"}
    BY DEF Opened, Opening
  <2>2. /\ step \in {"mpu_open", "mpu_write", "write", "open", "lseek", "sync"}
        /\ op.call = CallOf[step][1]
    BY FunctionMoves
  <2> QED
    BY <2>1, <2>2 DEF CallOf
<1>2. answers /\ driver = "ready" /\ card \in Cards /\ dirsize \in [Cards -> Nat] /\ size \in Nat
  BY LogTypesKnown DEF Opened, IInv, TypeOK, VolumeType
<1>3. sync_needed \in Nat /\ sync_needed' = sync_needed /\ step' = step /\ op'.at = "ret"
  BY LogTypesKnown, FunctionMoves
<1>4. CASE UNCHANGED <<fp, dirsize>>
  <2>1. ~Log.fs
    BY FunctionMoves DEF Opened, FileInv, CallInv, Entered, Log
  <2>2. ~Usable(LogFile)' /\ Log' = Log
    BY <1>4, <2>1, UsableLog DEF Log
  <2> QED
    BY <1>1, <1>3, <2>1, <2>2, FunctionMoves DEF FileInv, IdInv, EndInv, SizeInv
<1>5. CASE fp' = [fp EXCEPT ![LogFile] = [ClosedFile EXCEPT !.fs = TRUE, !.id = fs.id,
                      !.fsize = size, !.written = (op.call = "create")]]
           /\ dirsize' = [dirsize EXCEPT ![card] = size]
  <2>1. LogFile \in Files /\ fp \in [Files -> FileRecord]
    BY DEF IInv, TypeOK, FilesType, FileRecord, Files, LogFile
  <2>2. /\ Log'.id = fs.id /\ Log'.fptr = 0 /\ Log'.fsize = size
        /\ Log'.written = (op.call = "create")
    BY <1>5, <2>1 DEF ClosedFile, Log
  <2>3. dirsize'[card] = size
    BY <1>2, <1>5
  <2>4. IdInv'
    BY <2>2, FunctionMoves DEF FileInv, IdInv
  <2>5. EndInv'
    <3>1. 0 <= size
      BY <1>2
    <3> QED
      BY <1>1, <1>3, <2>2, <3>1, FunctionMoves DEF EndInv, Seeking
  <2>6. Slack' \in Nat
    BY <1>1, <1>3 DEF Slack
  <2>7. SizeInv'
    <3> HIDE DEF size
    <3>0. \A x, y \in Nat : x <= x + y /\ x <= x
      OBVIOUS
    <3>1. size <= size + Slack' /\ size <= size
      BY <1>2, <2>6, <3>0, Zenon
    <3>3. step' \in DOMAIN Startup => sync_needed' = 0
      BY <1>3 DEF FileInv, SizeInv
    <3> QED
      BY <1>1, <1>3, <2>2, <2>3, <3>1, <3>3, FunctionMoves DEF SizeInv
  <2> QED
    BY <2>4, <2>5, <2>7
<1> QED
  BY <1>4, <1>5 DEF Opened

LEMMA WrittenKeeps ==
  ASSUME IInv, FileInv, Written, op.file = LogFile, UNCHANGED logVars
  PROVE  IdInv' /\ EndInv' /\ SizeInv'
<1> DEFINE end == Log.fptr + 1
           len == IF end > Log.fsize THEN end ELSE Log.fsize
<1>1. step \in {"mpu_write", "write"} /\ op.call = "write"
  BY FunctionMoves DEF Written, CallOf
<1>2. /\ Log'.fs = Log.fs /\ Log'.id = Log.id /\ Log'.err = Log.err
      /\ Log'.fptr = end /\ Log'.fsize = len /\ Log'.written /\ UNCHANGED dirsize
      /\ Log.fptr \in Nat /\ Log.fsize \in Nat
  BY DEF Written, Log, IInv, TypeOK, FilesType, Files, LogFile
<1>3. Log.err \/ Log.fptr = Log.fsize
  BY <1>1, FunctionMoves DEF FileInv, EndInv, Entered
<1>4. Usable(LogFile)' => Usable(LogFile)
  BY <1>2, FunctionMoves, UsableLog
<1>5. /\ sync_needed \in Nat /\ sync_needed' = sync_needed /\ step' = step /\ op'.at = "ret"
      /\ op.at = "io"
  BY LogTypesKnown, FunctionMoves
<1>6. Slack \in Nat /\ Slack' = Slack + 1
  BY <1>1, <1>5 DEF Slack, FileInv, SizeInv, Startup
<1>7. IdInv'
  BY <1>2, FunctionMoves DEF FileInv, IdInv
<1>8. EndInv'
  <2>1. end <= len
    BY <1>2
  <2> QED
    BY <1>2, <1>3, <2>1, FunctionMoves DEF EndInv
<1>9. ASSUME answers, Usable(LogFile)'
      PROVE  /\ dirsize[card] <= len
             /\ faults = 0 => len <= dirsize[card] + Slack'
  <2>1. /\ dirsize[card] <= Log.fsize /\ dirsize[card] \in Nat
        /\ faults = 0 => Log.fsize <= dirsize[card] + Slack
    BY <1>4, <1>9, LogTypesKnown DEF FileInv, SizeInv
  <2>2. Log.fsize <= len /\ len <= Log.fsize + 1 /\ len \in Nat
    BY <1>2 DEF FileInv, EndInv
  <2> HIDE DEF len, end
  <2> QED
    BY <1>2, <1>6, <2>1, <2>2
<1> QED
  BY <1>1, <1>2, <1>5, <1>7, <1>8, <1>9, FunctionMoves DEF FileInv, SizeInv

LEMMA SoughtKeeps ==
  ASSUME IInv, FileInv, Sought, op.file = LogFile, UNCHANGED logVars
  PROVE  IdInv' /\ EndInv' /\ SizeInv'
<1>1. step = "lseek"
  BY FunctionMoves DEF Sought, CallOf
<1>2. /\ Log'.fs = Log.fs /\ Log'.id = Log.id /\ Log'.fptr = Log.fsize
      /\ Log'.fsize = Log.fsize /\ Log'.written = Log.written /\ UNCHANGED dirsize
      /\ Log.fsize \in Nat
  BY DEF Sought, Log, IInv, TypeOK, FilesType, Files, LogFile
<1>3. Usable(LogFile)' => Usable(LogFile)
  BY <1>2, FunctionMoves, UsableLog
<1>4. Slack' = Slack
  BY <1>1, FunctionMoves DEF Slack
<1>5. IdInv' /\ EndInv'
  BY <1>2, FunctionMoves DEF FileInv, IdInv, EndInv
<1> QED
  BY <1>1, <1>2, <1>3, <1>4, <1>5, FunctionMoves DEF FileInv, SizeInv

LEMMA SyncedKeeps ==
  ASSUME IInv, FileInv, Synced, op.file = LogFile, UNCHANGED logVars
  PROVE  IdInv' /\ EndInv' /\ SizeInv'
<1>1. step = "sync" /\ op.call = "sync"
  <2>1. op.call \in {"sync", "close"}
    BY DEF Synced, Syncing
  <2>2. /\ step \in {"mpu_open", "mpu_write", "write", "open", "lseek", "sync"}
        /\ op.call = CallOf[step][1]
    BY FunctionMoves
  <2> QED
    BY <2>1, <2>2 DEF CallOf
<1>2. /\ Log'.id = Log.id /\ Log'.fptr = Log.fptr /\ Log'.err = Log.err
      /\ Log'.fsize = Log.fsize
  BY <1>1 DEF Synced, Log, IInv, TypeOK, FilesType, Files, LogFile
<1>3. answers /\ card \in Cards /\ dirsize'[card] = Log.fsize /\ Log.fsize \in Nat
  BY LogTypesKnown DEF Synced, Log, IInv, TypeOK, VolumeType, FileRecord
<1>4. Usable(LogFile) /\ ~Seeking
  BY <1>1, <1>3, FunctionMoves, LogTypesKnown DEF FileInv, CallInv, Entered, Opening, Seeking
<1>5. IdInv'
  BY <1>2, FunctionMoves DEF FileInv, IdInv
<1>6. EndInv'
  BY <1>2, <1>4, FunctionMoves DEF FileInv, EndInv
<1>7. Slack' = 1
  BY <1>1, FunctionMoves DEF Slack
<1>8. /\ dirsize'[card'] = Log'.fsize /\ Log'.fsize \in Nat
      /\ step' = "sync" /\ "sync" \notin DOMAIN Startup
  BY <1>1, <1>2, <1>3, FunctionMoves DEF Startup
<1>9. SizeInv'
  BY <1>7, <1>8 DEF SizeInv
<1> QED
  BY <1>5, <1>6, <1>9

LEMMA CallKeeps ==
  ASSUME IInv, FileInv, CallStep, UNCHANGED logVars
  PROVE  FileInv'
<1>1. CallInv'
  BY CallKeepsCall DEF FileInv
<1>2. CASE Mounted
  BY <1>1, <1>2, MountedKeeps DEF FileInv
<1>3. CASE (Opened \/ Written \/ Sought \/ Synced) /\ op.file = LogFile
  BY <1>1, <1>3, OpenedKeeps, WrittenKeeps, SoughtKeeps, SyncedKeeps DEF FileInv
<1>4. CASE /\ LogStays /\ FsStays /\ UNCHANGED <<dirsize, Fsid>>
           /\ ~((Opened \/ Written \/ Sought \/ Synced) /\ op.file = LogFile)
  BY <1>1, <1>4, QuietCall DEF FileInv
<1> QED
  BY <1>2, <1>3, <1>4, CallsOnLog

(***************************************************************************)
(* What sdlog does between the calls.                                      *)
(***************************************************************************)
LEMMA BetweenCalls ==
  ASSUME IInv, FileInv, LogOwn
  PROVE  /\ op.at \in {"out", "ret"} /\ ~Entered /\ ~Entered'
         /\ step = "wait" => op.at = "out"
         /\ op.at = "ret" => step \in Steps /\ op.file = CallOf[step][2]
<1>1. op.at \in {"out", "ret"} \/ (Wake /\ UNCHANGED op)
  BY DEF LogOwn, Wake, BeginCall, SkipHeader, Return, StartupReturn, RecordReturn, SyncReturn
<1>2. step = "wait" => op.at = "out"
  BY StepsOfCalls DEF FileInv, CallInv, Steps
<1>3. op.at \in {"out", "ret"}
  BY <1>1, <1>2 DEF Wake
<1>4. op'.at \in {"out", "ret", "check"}
  <2>1. CASE Wake \/ SkipHeader
    BY <1>3, <2>1 DEF Wake, SkipHeader
  <2>2. CASE BeginCall
    BY <2>2 DEF BeginCall, Call
  <2>3. CASE Return
    BY <2>3 DEF Return, StartupReturn, RecordReturn, SyncReturn, Idle
  <2> QED
    BY <2>1, <2>2, <2>3 DEF LogOwn
<1> QED
  BY <1>2, <1>3, <1>4, StepsOfCalls DEF Entered, FileInv, CallInv

LEMMA OwnKeepsCall ==
  ASSUME IInv, FileInv, LogOwn, UNCHANGED <<fs, fp>>
  PROVE  CallInv'
<1>1. CASE BeginCall
  <2>1. /\ op'.at = "check" /\ op'.call = CallOf[step][1] /\ op'.file = CallOf[step][2]
        /\ step \in DOMAIN CallOf /\ step' = step
    BY <1>1 DEF BeginCall, Call, logVars
  <2> QED
    BY <2>1 DEF CallInv, Entered
<1>2. CASE op'.at = "out"
  BY <1>2 DEF CallInv, Entered
<1>3. CASE Wake \/ SkipHeader
  <2>1. op'.at = "out"
    BY <1>3, BetweenCalls DEF Wake, SkipHeader
  <2> QED
    BY <1>2, <2>1
<1>4. CASE Return
  <2>1. op'.at = "out"
    BY <1>4 DEF Return, StartupReturn, RecordReturn, SyncReturn, Idle
  <2> QED
    BY <1>2, <2>1
<1> QED
  BY <1>1, <1>3, <1>4 DEF LogOwn

\* Where the thread is and what it has counted move together with the bounds, or
\* the file is of no use.
LEMMA OwnMoves ==
  ASSUME IInv, FileInv, LogOwn
  PROVE  /\ Slack <= Slack' \/ ~Usable(LogFile)
         /\ Seeking => Seeking'
         /\ step' \in DOMAIN Startup => step \in DOMAIN Startup /\ sync_needed' = sync_needed
         /\ step' \in {"version_open", "version_write", "version_close"}
              => step \in {"version_open", "version_write", "version_close"}
         /\ step' = "mpu_open" /\ op'.at # "ret"
              => step = "version_close" \/ (step = "mpu_open" /\ op.at # "ret")
<1>0. sync_needed \in Nat /\ SyncEvery \in Nat \ {0}
  BY LogTypesKnown
<1>1. CASE Wake
  <2>1. step = "wait" /\ step' = "write" /\ op.at = "out" /\ op'.at = "out"
        /\ sync_needed' = sync_needed
    BY <1>1, BetweenCalls DEF Wake
  <2> QED
    BY <1>0, <2>1 DEF Slack, Seeking, Startup
<1>2. CASE BeginCall
  <2>1. op.at = "out" /\ op'.at = "check" /\ step' = step /\ sync_needed' = sync_needed
    BY <1>2 DEF BeginCall, Call, logVars
  <2> QED
    BY <1>0, <2>1 DEF Slack, Seeking
<1>3. CASE SkipHeader
  <2>1. /\ op.at = "out" /\ op'.at = "out" /\ sync_needed' = sync_needed
        /\ \/ step = "version_write" /\ step' = "version_close"
           \/ step = "mpu_write" /\ step' = "rc_open"
           \/ step = "rc_write" /\ step' = "dead"
    BY <1>3 DEF SkipHeader, SkipsHeader, Headers, AfterStartup, Startup
  <2> QED
    BY <1>0, <2>1 DEF Slack, Seeking, Startup
<1>4. CASE StartupReturn
  <2>1. /\ op.at = "ret" /\ op'.at = "out" /\ sync_needed' = sync_needed
        /\ \/ step = "version_open" /\ step' \in {"version_write", "dead"}
           \/ step = "version_write" /\ step' = "version_close"
           \/ step = "version_close" /\ step' = "mpu_open"
           \/ step = "mpu_open" /\ step' \in {"mpu_write", "dead"}
           \/ step = "mpu_write" /\ step' = "rc_open"
           \/ step = "rc_open" /\ step' \in {"rc_write", "dead"}
           \/ step = "rc_write" /\ step' \in {"wait", "dead"}
    BY <1>4 DEF StartupReturn, Opens, AfterStartup, Startup, Idle
  <2>2. sync_needed = 0
    BY <2>1 DEF FileInv, SizeInv, Startup
  <2>3. CASE step = "version_close"
    <3>1. ~Usable(LogFile)
      BY <2>3, UsableLog DEF FileInv, SizeInv
    <3> QED
      BY <2>1, <2>3, <3>1 DEF Seeking, Startup
  <2>4. CASE step # "version_close"
    <3>1. Slack <= Slack'
      BY <1>0, <2>1, <2>2, <2>4 DEF Slack
    <3> QED
      BY <2>1, <2>4, <3>1 DEF Seeking, Startup
  <2> QED
    BY <2>3, <2>4
<1>5. ASSUME RecordReturn, step = "write" /\ op.res = "FR_INVALID_OBJECT"
      PROVE  step' = "open" /\ op'.at = "out" /\ ~Usable(LogFile) /\ ~Seeking
  <2>1. step' = "open" /\ op'.at = "out" /\ op.at = "ret"
    BY <1>5 DEF RecordReturn, Idle
  <2>2. op.file = LogFile
    BY <1>5, <2>1, BetweenCalls DEF LogOwn, Return, CallOf
  <2> QED
    BY <1>5, <2>1, <2>2 DEF FileInv, CallInv, Seeking
<1>6. ASSUME RecordReturn, step = "open"
      PROVE  step' = "lseek" /\ op'.at = "out" /\ op.at = "ret" /\ sync_needed' = sync_needed
  BY <1>6 DEF RecordReturn, Idle
<1>7. ASSUME RecordReturn, CountRecord, step \in {"write", "lseek"}
      PROVE  /\ op.at = "ret" /\ op'.at = "out" /\ ~Seeking
             /\ Slack \in {sync_needed + 1, sync_needed + 2}
             /\ Slack' = sync_needed + 2 /\ step' \in {"sync", "wait"}
  <2>1. op.at = "ret" /\ op'.at = "out"
    BY <1>7 DEF RecordReturn, Idle
  <2>2. Slack \in {sync_needed + 1, sync_needed + 2} /\ ~Seeking
    BY <1>7, <2>1 DEF Slack, Seeking
  <2>3. CASE step' = "sync" /\ sync_needed + 1 = SyncEvery
    BY <1>0, <2>1, <2>2, <2>3 DEF Slack
  <2>4. CASE step' = "wait" /\ sync_needed' = sync_needed + 1
    BY <1>0, <2>1, <2>2, <2>4 DEF Slack
  <2> QED
    BY <1>7, <2>3, <2>4 DEF CountRecord
<1>8. CASE RecordReturn
  BY <1>0, <1>5, <1>6, <1>7, <1>8 DEF RecordReturn, Slack, Seeking, Startup
<1>9. CASE SyncReturn
  <2>1. step = "sync" /\ op.at = "ret" /\ step' = "wait" /\ op'.at = "out" /\ sync_needed' = sync_needed
    BY <1>9 DEF SyncReturn, Idle
  <2> QED
    BY <1>0, <2>1 DEF Slack, Seeking, Startup
<1> QED
  BY <1>1, <1>2, <1>3, <1>4, <1>8, <1>9 DEF LogOwn, Return

LEMMA OwnKeeps ==
  ASSUME IInv, IInv', FileInv, LogOwn,
         UNCHANGED <<slotVars, driver, logs, dirsize, fs, Fsid, sem, fp>>
  PROVE  FileInv'
<1>1. /\ Log' = Log /\ UNCHANGED <<card, answers, faults, driver, dirsize, fs, Fsid>>
      /\ (Usable(LogFile)' <=> Usable(LogFile))
  BY DEF Log, slotVars, Usable
<1>2. CallInv'
  BY OwnKeepsCall
<1>3. IdInv'
  BY <1>1 DEF FileInv, IdInv
<1>4. EndInv'
  BY <1>1, OwnMoves, BetweenCalls DEF FileInv, EndInv
<1>5. ASSUME answers, Usable(LogFile)
      PROVE  /\ dirsize[card] <= Log.fsize
             /\ ~Log.written => Log.fsize = dirsize[card]
             /\ faults = 0 => Log.fsize <= dirsize[card] + Slack'
  <2>1. Slack \in Nat /\ Slack' \in Nat /\ Log.fsize \in Nat /\ dirsize[card] \in Nat
    <3>1. sync_needed' \in Nat /\ SyncEvery \in Nat
      BY LogTypesKnown DEF IInv, TypeOK, ThreadsType
    <3> QED
      BY <1>5, <3>1, SlackType, LogTypesKnown DEF FileRecord, Slack
  <2> QED
    BY <1>5, <2>1, OwnMoves DEF FileInv, SizeInv
<1>6. SizeInv'
  BY <1>1, <1>5, OwnMoves DEF FileInv, SizeInv
<1> QED
  BY <1>2, <1>3, <1>4, <1>6 DEF FileInv

(***************************************************************************)
(* main and the slot.                                                      *)
(***************************************************************************)

\* What main and the slot do to a call: nothing, but that the volume may be
\* unmounted under it, and that a mount finds no call under way.
LEMMA OthersMove ==
  ASSUME IInv, FileInv, MainStep \/ Pull \/ Insert
  PROVE  /\ UNCHANGED <<op, step, sync_needed, fp, dirsize, Fsid>>
         /\ \/ fs' = fs /\ driver' = driver
            \/ /\ fs'.type = 0 /\ fs'.id = fs.id
               /\ fs'.registered => ~Entered
         /\ fs'.type # 0 /\ answers' => answers /\ UNCHANGED card /\ (faults' = 0 => faults = 0)
<1>0. /\ fs = [registered |-> fs.registered, type |-> fs.type, id |-> fs.id]
      /\ ~fs.registered => fs.type = 0
  BY LogTypesKnown DEF IInv, TypeOK, VolumeType
<1>1. CASE WakeUp \/ Automount
  BY <1>1 DEF WakeUp, Automount, volumeVars, slotVars, logVars
<1>2. CASE SdcardMount
  <2>1. ~Entered
    BY <1>2 DEF SdcardMount, IInv, MountInv
  <2>2. fs'.type = 0 /\ fs'.id = fs.id
    BY <1>0, <1>2 DEF SdcardMount, Register
  <2> QED
    BY <1>2, <2>1, <2>2 DEF SdcardMount, logVars
<1>3. CASE ConnectFails
  <2>1. ~fs.registered /\ fs' = fs
    BY <1>3 DEF ConnectFails, IInv, MountInv
  <2> QED
    BY <1>0, <1>3, <2>1 DEF ConnectFails, logVars
<1>4. CASE UnmountVolume
  <2>1. fs'.type = 0 /\ fs'.id = fs.id /\ ~fs'.registered
    BY <1>0, <1>4 DEF UnmountVolume, Unregister
  <2> QED
    BY <1>4, <2>1 DEF UnmountVolume, logVars
<1>5. CASE Disconnect
  <2>1. ~fs.registered /\ fs' = fs
    BY <1>5 DEF Disconnect, IInv, MountInv
  <2> QED
    BY <1>0, <1>5, <2>1 DEF Disconnect, logVars, slotVars
<1>6. CASE Pull \/ Insert
  BY <1>6 DEF Pull, Insert, logVars
<1> QED
  BY <1>1, <1>2, <1>3, <1>4, <1>5, <1>6 DEF MainStep

LEMMA OthersKeep ==
  ASSUME IInv, FileInv, MainStep \/ Pull \/ Insert
  PROVE  FileInv'
<1>1. /\ Log' = Log /\ UNCHANGED <<op, step, sync_needed, dirsize, Fsid>>
      /\ Slack' = Slack /\ (Seeking' <=> Seeking) /\ (Entered' <=> Entered)
  BY OthersMove DEF Log, Slack, Seeking, Entered
<1>2. \/ fs' = fs /\ driver' = driver
      \/ fs'.type = 0 /\ fs'.id = fs.id /\ (fs'.registered => ~Entered)
  BY OthersMove
<1>3. \A f : Usable(f)' => Usable(f) /\ fs'.type # 0
  BY <1>2, OthersMove DEF Usable
<1>4. CallInv'
  BY <1>1, <1>2, <1>3, OthersMove DEF FileInv, CallInv, Usable
<1>5. IdInv'
  BY <1>1, <1>2 DEF FileInv, IdInv
<1>6. EndInv'
  BY <1>1, <1>3 DEF FileInv, EndInv
<1>7. SizeInv'
  BY <1>1, <1>3, OthersMove DEF FileInv, SizeInv
<1> QED
  BY <1>4, <1>5, <1>6, <1>7 DEF FileInv

(***************************************************************************)
(* The theorems.                                                           *)
(***************************************************************************)
LEMMA InitFiles == Init => FileInv
<1> SUFFICES ASSUME Init PROVE FileInv
  OBVIOUS
<1>1. Log = ClosedFile /\ op.at = "out" /\ step = "version_open" /\ sync_needed = 0
  BY DEF Init, Log, Idle, Files, LogFile
<1>2. ~Usable(LogFile)
  BY <1>1, UsableLog DEF ClosedFile
<1>3. fs.id = Fsid /\ Fsid \in {0, 1} /\ (fs.type # 0 => driver = "ready") /\ fs.type \in {0, 1}
  BY DEF Init
<1>4. CallInv
  BY <1>1 DEF CallInv, Entered
<1>5. IdInv
  BY <1>1, <1>3 DEF IdInv, ClosedFile
<1>6. EndInv
  BY <1>1, <1>2 DEF EndInv, ClosedFile, Entered
<1>7. SizeInv
  BY <1>1, <1>2 DEF SizeInv, ClosedFile
<1> QED
  BY <1>4, <1>5, <1>6, <1>7 DEF FileInv

LEMMA NextFiles == IInv /\ IInv' /\ FileInv /\ [Next]_vars => FileInv'
<1> SUFFICES ASSUME IInv, IInv', FileInv, [Next]_vars PROVE FileInv'
  OBVIOUS
<1>1. CASE MainStep \/ Pull \/ Insert
  BY <1>1, OthersKeep
<1>2. CASE LogStep
  BY <1>2, OwnKeeps, CallKeeps DEF LogStep, LogOwn
<1>3. CASE UNCHANGED vars
  BY <1>3 DEF vars, volumeVars, slotVars, logVars, FileInv, CallInv, IdInv, EndInv, SizeInv, Log,
              Usable, Entered, Seeking, Slack
<1> QED
  BY <1>1, <1>2, <1>3 DEF Next

THEOREM FilesInvariant == Spec => [](IInv /\ FileInv)
<1>1. IInv /\ FileInv /\ [Next]_vars => (IInv /\ FileInv)'
  BY NextInvariant, NextFiles
<1> QED
  BY <1>1, InitInvariant, InitFiles, PTL DEF Spec

\* A record never overwrites one that is on the card, for any cards, disk errors
\* and swaps.
THEOREM RecordsAppended == Spec => []RecordsAreAppended
<1>1. IInv /\ FileInv => RecordsAreAppended
  <2> SUFFICES ASSUME IInv, FileInv, op.call = "write", op.file = LogFile, op.at = "io", ~Log.err
               PROVE  Log.fptr = Log.fsize /\ (answers => dirsize[card] <= Log.fptr)
    BY DEF RecordsAreAppended, Log
  <2>1. Log.fptr = Log.fsize
    BY DEF FileInv, EndInv, Entered
  <2>2. answers => Usable(LogFile)
    BY LogTypesKnown DEF FileInv, CallInv, Entered, Opening
  <2> QED
    BY <2>1, <2>2 DEF FileInv, SizeInv
<1> QED
  BY <1>1, FilesInvariant, PTL

\* Without disk errors a pulled card costs the header and SyncEvery records at
\* most, however often main unmounts a card under the thread.
THEOREM Unsynced == Spec => []UnsyncedBounded
<1>1. IInv /\ FileInv => UnsyncedBounded
  <2> SUFFICES ASSUME IInv, FileInv, faults = 0, answers, Usable(LogFile)
               PROVE  Log.fsize <= dirsize[card] + SyncEvery + 1
    BY DEF UnsyncedBounded, Log
  <2>1. Log.fsize <= dirsize[card] + Slack
    BY DEF FileInv, SizeInv
  <2>2. Slack \in Nat /\ Slack <= SyncEvery + 1 /\ SyncEvery \in Nat
    BY SlackType, LogTypesKnown
  <2>3. Log.fsize \in Nat /\ dirsize[card] \in Nat
    BY LogTypesKnown DEF FileRecord
  <2> HIDE DEF Log, Slack
  <2> QED
    BY <2>1, <2>2, <2>3
<1> QED
  BY <1>1, FilesInvariant, PTL

\* Once sdlog logs, no step of any thread makes the log of a card shorter.
THEOREM NeverShrinks == Spec => LogNeverShrinks
<1>1. ASSUME IInv, FileInv, [Next]_vars, step \notin DOMAIN Startup, NEW c \in Cards
      PROVE  dirsize'[c] >= dirsize[c]
  <2>0. dirsize \in [Cards -> Nat]
    BY <1>1 DEF IInv, TypeOK, VolumeType
  <2>1. CASE UNCHANGED dirsize
    BY <2>0, <2>1
  <2>2. CASE (Opened \/ Synced) /\ op.file = LogFile /\ UNCHANGED logVars
    <3>1. step \in {"write", "open", "lseek", "sync"} /\ op.call = CallOf[step][1]
      BY <1>1, <2>2, FunctionMoves DEF Startup
    <3>2. op.call \in {"write", "open", "lseek", "sync"}
      BY <3>1 DEF CallOf
    <3>3. CASE Opened
      <4>1. dirsize' = dirsize \/ dirsize' = [dirsize EXCEPT ![card] = dirsize[card]]
        BY <3>2, <3>3 DEF Opened
      <4> QED
        BY <2>0, <4>1
    <3>4. CASE Synced
      <4>1. dirsize' = [dirsize EXCEPT ![card] = Log.fsize] /\ answers
        BY <2>2, <3>4 DEF Synced, Log
      <4>2. Usable(LogFile)
        BY <1>1, <2>2, <3>2, <3>4, <4>1, LogTypesKnown DEF FileInv, CallInv, Entered, Synced,
           Opening, Syncing
      <4>3. dirsize[card] <= Log.fsize /\ Log.fsize \in Nat /\ card \in Cards
        BY <1>1, <4>1, <4>2, LogTypesKnown DEF FileInv, SizeInv, FileRecord
      <4> QED
        BY <2>0, <4>1, <4>3
    <3> QED
      BY <2>2, <3>3, <3>4
  <2>3. CASE CallStep /\ UNCHANGED logVars
    <3>1. UNCHANGED dirsize \/ ((Opened \/ Synced) /\ op.file = LogFile)
      BY <1>1, <2>3, CallsOnLog DEF Mounted, Written, Sought
    <3> QED
      BY <2>1, <2>2, <2>3, <3>1
  <2>4. CASE MainStep \/ Pull \/ Insert
    BY <1>1, <2>1, <2>4, OthersMove
  <2>5. CASE LogStep
    BY <2>1, <2>3, <2>5 DEF LogStep
  <2>6. CASE UNCHANGED vars
    BY <2>1, <2>6 DEF vars, volumeVars
  <2> QED
    BY <1>1, <2>4, <2>5, <2>6 DEF Next
<1>2. IInv /\ FileInv /\ [Next]_vars
        => [(step \notin DOMAIN Startup) => \A c \in Cards : dirsize'[c] >= dirsize[c]]_vars
  BY <1>1
<1> QED
  BY <1>2, FilesInvariant, PTL DEF Spec, LogNeverShrinks
=============================================================================
