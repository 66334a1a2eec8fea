------------------------------ MODULE FatVolume ------------------------------
(***************************************************************************)
(* A call into FatFs (fatfs/src/ff.c, fatfs/fatfs_syscall.c,               *)
(* fatfs/fatfs_diskio.c) seen from its volume: the file object is checked, *)
(* the volume's semaphore taken, the disk accessed, the semaphore given    *)
(* back.  The caller sleeps in the disk accesses and can be preempted      *)
(* between any two steps, by the thread that mounts and unmounts.  What a  *)
(* file holds is abstracted to its length in records, and the accesses of  *)
(* one call to one access.                                                 *)
(***************************************************************************)
EXTENDS Naturals

CONSTANTS Cards,     \* the SD cards there are
          MaxFaults  \* bound: transient disk errors

ASSUME VolumeAssumption == MaxFaults \in Nat

VARIABLES
  card,     \* the card in the slot, or NoCard
  answers,  \* it has been initialised since it was inserted
  driver,   \* blkGetDriverState(&SDCD1)
  faults,   \* transient errors so far
  logs,     \* the cards that hold a log file
  dirsize,  \* its length in its directory entry
  fs,       \* SDC_FS: registered in FatFs[0], fs_type, id
  Fsid,     \* the last mount id given
  sem,      \* count of ff_sem[0]
  fp,       \* the file objects
  op        \* the call in progress: what, on which file, where it is, its result

slotVars   == <<card, answers, faults>>
volumeVars == <<slotVars, driver, logs, dirsize, fs, Fsid, sem, fp, op>>

NoCard == "no card"
Files  == {"version", "mpu6000", "rc"}
LogFile == "mpu6000"

Opening == {"create", "open"}            \* f_open() in its two modes
Syncing == {"sync", "close"}             \* f_sync(), and f_close(), which begins with it
\* "closing" is f_close() when its f_sync() is through.
Calls   == Opening \cup Syncing \cup {"write", "lseek", "closing"}

ClosedFile == [fs |-> FALSE, id |-> 0, err |-> FALSE, fptr |-> 0, fsize |-> 0,
               written |-> FALSE]

Idle == [call |-> "none", file |-> LogFile, at |-> "out", res |-> "FR_OK"]

Places  == {"out", "check", "lock", "locked", "mount", "io", "ret"}
Results == {"FR_OK", "FR_DISK_ERR", "FR_INT_ERR", "FR_NOT_READY", "FR_NO_FILE",
            "FR_INVALID_OBJECT", "FR_NOT_ENABLED", "FR_TIMEOUT"}

InCall == op.at \in {"check", "lock", "locked", "mount", "io"}
Holds  == op.at \in {"locked", "mount", "io"}

Usable(f) == fp[f].fs /\ fs.type # 0 /\ fs.id = fp[f].id

(***************************************************************************)
(* lock_fs() and unlock_fs().                                              *)
(***************************************************************************)
At(l) == op' = [op EXCEPT !.at = l]

\* Mutant of Unreleased: an invalid file object is released like any other result.
UnreleasedNoInvalid == {"FR_NOT_ENABLED", "FR_INVALID_DRIVE", "FR_TIMEOUT"}

\* The results that say that the volume was not locked.
Unreleased == {"FR_NOT_ENABLED", "FR_INVALID_DRIVE", "FR_INVALID_OBJECT", "FR_TIMEOUT"}

\* LEAVE_FF(): the call ends, and releases the grant unless it never had one.
Leave(res) == /\ op' = [op EXCEPT !.at = "ret", !.res = res]
              /\ sem' = IF res \in Unreleased THEN sem ELSE sem + 1

\* ABORT(): the error sticks to the file object.
Abort(res) == /\ Leave(res)
              /\ fp' = [fp EXCEPT ![op.file].err = TRUE]

Call(c, f) == op' = [call |-> c, file |-> f, at |-> "check", res |-> "FR_OK"]

\* The end of f_sync() without an error: f_close() checks the file object and
\* locks the volume once more.
SyncOver == IF op.call = "close"
              THEN op' = [op EXCEPT !.call = "closing", !.at = "check"] /\ sem' = sem + 1
              ELSE Leave("FR_OK")

\* validate(): the file object is checked before the volume is locked.
Validate ==
  /\ op.at = "check" /\ op.call \notin Opening
  /\ IF Usable(op.file) THEN At("lock") /\ UNCHANGED sem
                        ELSE Leave("FR_INVALID_OBJECT")
  /\ UNCHANGED <<slotVars, driver, logs, dirsize, fs, Fsid, fp>>

\* f_open() clears the file object, find_volume() looks the volume up.
FindVolume ==
  /\ op.at = "check" /\ op.call \in Opening
  /\ fp' = [fp EXCEPT ![op.file].fs = FALSE]
  /\ IF fs.registered THEN At("lock") /\ UNCHANGED sem
                      ELSE Leave("FR_NOT_ENABLED")
  /\ UNCHANGED <<slotVars, driver, logs, dirsize, fs, Fsid>>

\* ff_req_grant(): chSemWaitTimeout().
Lock == /\ op.at = "lock" /\ sem > 0
        /\ sem' = sem - 1
        /\ At("locked")
        /\ UNCHANGED <<slotVars, driver, logs, dirsize, fs, Fsid, fp>>

LockTimeout == /\ op.at = "lock" /\ sem = 0
               /\ Leave("FR_TIMEOUT")
               /\ UNCHANGED <<slotVars, driver, logs, dirsize, fs, Fsid, fp>>

(***************************************************************************)
(* Under the lock.                                                         *)
(***************************************************************************)

\* The end of validate(), and the tests at the head of the functions.
LockedFile ==
  LET f == op.file IN
  /\ op.at = "locked" /\ op.call \notin Opening \cup {"closing"}
  /\ IF driver # "ready" THEN Leave("FR_NOT_READY")
     ELSE IF op.call \in {"write", "lseek"} /\ fp[f].err THEN Leave("FR_DISK_ERR")
     ELSE IF op.call \in Syncing /\ ~fp[f].written THEN SyncOver
     ELSE At("io") /\ UNCHANGED sem
  /\ UNCHANGED <<slotVars, driver, logs, dirsize, fs, Fsid, fp>>

\* The end of f_close().  When the drive is not ready, it returns without
\* unlock_fs(): the grant is gone.
LockedClose ==
  /\ op.at = "locked" /\ op.call = "closing"
  /\ IF driver = "ready"
       THEN Leave("FR_OK") /\ fp' = [fp EXCEPT ![op.file].fs = FALSE]
       ELSE op' = [op EXCEPT !.at = "ret", !.res = "FR_NOT_READY"] /\ UNCHANGED <<sem, fp>>
  /\ UNCHANGED <<slotVars, driver, logs, dirsize, fs, Fsid>>

\* find_volume(): a volume that is mounted and whose drive is ready is used as
\* it is, any other is mounted now.
LockedVolume ==
  /\ op.at = "locked" /\ op.call \in Opening
  /\ fs' = IF driver = "ready" THEN fs ELSE [fs EXCEPT !.type = 0]
  /\ IF driver # "ready" THEN Leave("FR_NOT_READY")
     ELSE At(IF fs.type # 0 THEN "io" ELSE "mount") /\ UNCHANGED sem
  /\ UNCHANGED <<slotVars, driver, logs, dirsize, Fsid, fp>>

\* A disk access of the call succeeds, or is not needed: f_write() within the
\* sector it buffers, f_lseek() to the end of one.
Accessed == \/ driver = "ready" /\ answers
            \/ op.call \in {"write", "lseek"}

\* A disk access fails: the card does not answer, or answers with an error.
Fails == /\ \/ /\ ~(driver = "ready" /\ answers)
               /\ UNCHANGED faults
            \/ /\ driver = "ready" /\ answers
               /\ faults < MaxFaults /\ faults' = faults + 1
         /\ UNCHANGED <<card, answers>>

\* The end of find_volume(): the volume gets a new mount id.
Mounted == /\ op.at = "mount" /\ driver = "ready" /\ answers
           /\ fs' = [fs EXCEPT !.type = 1, !.id = Fsid + 1]
           /\ Fsid' = Fsid + 1
           /\ At("io")
           /\ UNCHANGED <<slotVars, driver, logs, dirsize, sem, fp>>

MountFails == /\ op.at = "mount"
              /\ Fails
              /\ Leave("FR_DISK_ERR")
              /\ UNCHANGED <<driver, logs, dirsize, fs, Fsid, fp>>

(***************************************************************************)
(* The functions.                                                          *)
(***************************************************************************)

\* f_open(): FA_CREATE_ALWAYS truncates the file or creates it (taken to reach
\* the card at once), without it the file must be there.
Opened ==
  LET f == op.file
      create == op.call = "create"
      size == IF create THEN 0 ELSE dirsize[card] IN
  /\ op.at = "io" /\ op.call \in Opening
  /\ driver = "ready" /\ answers
  /\ IF create \/ card \in logs
       THEN /\ fp' = [fp EXCEPT ![f] = [ClosedFile EXCEPT
                        !.fs = TRUE, !.id = fs.id, !.fsize = size, !.written = create]]
            /\ IF f = LogFile
                 THEN logs' = logs \cup {card} /\ dirsize' = [dirsize EXCEPT ![card] = size]
                 ELSE UNCHANGED <<logs, dirsize>>
            /\ Leave("FR_OK")
       ELSE Leave("FR_NO_FILE") /\ UNCHANGED <<fp, logs, dirsize>>
  /\ UNCHANGED <<slotVars, driver, fs, Fsid>>

\* f_write() of one record; the directory entry is left to f_sync().
Written ==
  LET f == op.file
      end == fp[f].fptr + 1
      len == IF end > fp[f].fsize THEN end ELSE fp[f].fsize IN
  /\ op.at = "io" /\ op.call = "write" /\ Accessed
  /\ fp' = [fp EXCEPT ![f].fptr = end, ![f].fsize = len, ![f].written = TRUE]
  /\ Leave("FR_OK")
  /\ UNCHANGED <<slotVars, driver, logs, dirsize, fs, Fsid>>

\* f_lseek(fp, f_size(fp))
Sought == /\ op.at = "io" /\ op.call = "lseek" /\ Accessed
          /\ fp' = [fp EXCEPT ![op.file].fptr = fp[op.file].fsize]
          /\ Leave("FR_OK")
          /\ UNCHANGED <<slotVars, driver, logs, dirsize, fs, Fsid>>

\* f_sync() of a file that was written.
Synced ==
  LET f == op.file IN
  /\ op.at = "io" /\ op.call \in Syncing /\ driver = "ready" /\ answers
  /\ dirsize' = IF f = LogFile THEN [dirsize EXCEPT ![card] = fp[f].fsize] ELSE dirsize
  /\ fp' = [fp EXCEPT ![f].written = FALSE]
  /\ SyncOver
  /\ UNCHANGED <<slotVars, driver, logs, fs, Fsid>>

\* A disk error: f_write() and f_lseek() abort, f_sync() and f_open() just
\* return it.
AccessFails ==
  /\ op.at = "io"
  /\ Fails
  /\ IF op.call \in {"write", "lseek"} THEN Abort("FR_DISK_ERR")
                                       ELSE Leave("FR_DISK_ERR") /\ UNCHANGED fp
  /\ UNCHANGED <<driver, logs, dirsize, fs, Fsid>>

\* The volume was unmounted under the call: get_fat() finds no FAT type.
NoFatType == /\ op.at = "io" /\ op.call \notin Syncing /\ fs.type = 0
             /\ IF op.call \in Opening THEN Leave("FR_INT_ERR") /\ UNCHANGED fp
                                      ELSE Abort("FR_INT_ERR")
             /\ UNCHANGED <<slotVars, driver, logs, dirsize, fs, Fsid>>

CallStep == \/ Validate \/ FindVolume \/ Lock \/ LockTimeout
            \/ LockedFile \/ LockedClose \/ LockedVolume \/ Mounted \/ MountFails
            \/ Opened \/ Written \/ Sought \/ Synced \/ AccessFails \/ NoFatType

(***************************************************************************)
(* f_mount(), which takes no lock.                                         *)
(***************************************************************************)

\* f_mount(&SDC_FS, "", 0) of a volume that is not registered; the mount
\* itself is left to the first f_open().
Register == /\ fs' = [fs EXCEPT !.registered = TRUE, !.type = 0]
            /\ sem' = 1

\* f_mount(NULL, "", 0): chSemReset() to 0.
Unregister == /\ fs' = [fs EXCEPT !.registered = FALSE, !.type = 0]
              /\ sem' = 0
=============================================================================
