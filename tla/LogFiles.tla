------------------------------- MODULE LogFiles -------------------------------
(***************************************************************************)
(* The files of the firmware on a card whose power can fail: main reads    *)
(* the configuration (sdcard.c), then sdlog creates its files, writes      *)
(* records and syncs (sdlog.c), over FatFile.  The volume can be unmounted *)
(* and mounted again between two calls.  The count of records between two  *)
(* syncs is left open.                                                     *)
(***************************************************************************)
EXTENDS FatFile, SequencesExt

CONSTANTS ConfigUnits,  \* length of the configuration on the card
          LineUnits,    \* sizeof(config_file_buffer)
          HeaderUnits,  \* length of a header
          RecordUnits,  \* length of a record
          MaxUnits,     \* bound: units in the log
          MaxMounts     \* bound: mounts of the volume

ASSUME LogFilesAssumption ==
  /\ {"config", "version", "mpu6000", "rc"} \subseteq Files
  /\ HeaderUnits \in 1 .. SS - 1 /\ RecordUnits \in 1 .. SS - 1
  /\ ConfigUnits \in 1 .. ClusterCount * BCS /\ LineUnits \in Nat \ {0, 1}
  /\ MaxUnits \in Nat /\ MaxMounts \in Nat \ {0}

VARIABLES step,   \* the call that is next or in progress, or what is waited for
          error   \* sdlog's error

vars == <<fileVars, step, error>>

Log  == "mpu6000"
Logs == {"version", Log, "rc"}

Begin(call, name, units) ==
  op' = [Idle EXCEPT !.call = call, !.file = name, !.at = "check",
                    !.from = fp[name].fptr, !.left = units]

(***************************************************************************)
(* The calls, in the order of the code.                                    *)
(***************************************************************************)
CallOf ==
  [cfg_open      |-> <<"open", "config", 0>>,
   cfg_gets      |-> <<"gets", "config", LineUnits - 1>>,
   cfg_close     |-> <<"close", "config", 0>>,
   version_open  |-> <<"create", "version", 0>>,
   version_write |-> <<"write", "version", HeaderUnits>>,
   version_close |-> <<"close", "version", 0>>,
   mpu_open      |-> <<"create", Log, 0>>,
   mpu_write     |-> <<"write", Log, HeaderUnits>>,
   rc_open       |-> <<"create", "rc", 0>>,
   rc_write      |-> <<"write", "rc", HeaderUnits>>,
   write         |-> <<"write", Log, RecordUnits>>,
   open          |-> <<"open", Log, 0>>,
   lseek         |-> <<"lseek", Log, fp[Log].fsize>>,
   sync          |-> <<"sync", Log, 0>>]

Headers == {"version_write", "mpu_write", "rc_write"}

\* What follows a call that returned without an error.
After == [cfg_open |-> "cfg_gets", cfg_gets |-> "cfg_close", cfg_close |-> "version_open",
          version_open |-> "version_write", version_write |-> "version_close",
          version_close |-> "mpu_open", mpu_open |-> "mpu_write", mpu_write |-> "rc_open",
          rc_open |-> "rc_write", rc_write |-> "wait",
          write |-> "wait", open |-> "lseek", lseek |-> "wait", sync |-> "wait"]

\* f_open() reads the size of the file that is there, f_gets() fills its buffer anew.
CallBegins ==
  /\ op.at = "out" /\ step \in DOMAIN CallOf /\ ~(step \in Headers /\ error)
  /\ Begin(CallOf[step][1], CallOf[step][2], CallOf[step][3])
  /\ line' = IF step = "cfg_gets" THEN <<>> ELSE line
  /\ UNCHANGED <<disk, fs, fp, mounts, stream, faults, step, error>>

\* A header is not written after an error.
HeaderSkipped ==
  /\ op.at = "out" /\ step \in Headers /\ error
  /\ step' = IF step = "rc_write" THEN "dead" ELSE After[step]
  /\ UNCHANGED <<fileVars, error>>

\* Mutant of CallReturns: the log is not sought to its end after it was opened again.
CallReturnsUnsought ==
  LET failed == op.res # "FR_OK" IN
  /\ op.at = "ret"
  /\ op' = Idle
  /\ error' = (error \/ (step \in Headers /\ failed))
  /\ step' = CASE step = "cfg_open" /\ failed -> "version_open"
               [] step \in {"version_open", "mpu_open", "rc_open"} /\ failed -> "dead"
               [] step = "rc_write" /\ error' -> "dead"
               [] step = "write" /\ op.res = "FR_INVALID_OBJECT" -> "open"
               [] step = "open" -> "wait"
               [] OTHER -> After[step]
  /\ UNCHANGED <<disk, fs, fp, mounts, stream, line, faults>>

CallReturns ==
  LET failed == op.res # "FR_OK" IN
  /\ op.at = "ret"
  /\ op' = Idle
  /\ error' = (error \/ (step \in Headers /\ failed))
  /\ step' = CASE step = "cfg_open" /\ failed -> "version_open"
               [] step \in {"version_open", "mpu_open", "rc_open"} /\ failed -> "dead"
               [] step = "rc_write" /\ error' -> "dead"
               [] step = "write" /\ op.res = "FR_INVALID_OBJECT" -> "open"
               [] OTHER -> After[step]
  /\ UNCHANGED <<disk, fs, fp, mounts, stream, line, faults>>

\* A sensor event: the next record, or a sync after some records.
Wake == /\ step = "wait"
        /\ \/ Len(stream[Log]) + RecordUnits <= MaxUnits /\ step' = "write"
           \/ step' = "sync"
        /\ UNCHANGED <<fileVars, error>>

(***************************************************************************)
(* What happens to the card.                                               *)
(***************************************************************************)

\* The chain that begins at a cluster, as a function of the cluster's order.
Walk(fat, start) ==
  LET w[i \in Nat] ==
        IF i = 0 THEN start
        ELSE IF w[i - 1] \in Clusters THEN fat[w[i - 1]] ELSE 0
  IN w

Chain(name) == Walk(disk.fat, disk.dir[name].clust)

\* What a reader would find in a file on the card.
OnDisk(name) ==
  LET chain == Chain(name) IN
  [i \in 1 .. disk.dir[name].size |->
     LET p == i - 1
         c == chain[p \div BCS] IN
     IF c \in Clusters THEN disk.data[Clust2Sect(c, (p \div SS) % CSize)][p % SS]
                       ELSE Blank]

Found == [n \in Files |-> OnDisk(n)]

Restart == /\ fs' = Unmounted
           /\ fp' = [n \in Files |-> Closed]
           /\ stream' = Found

\* The power fails, at any point of a call, and comes back.
PowerLoss ==
  /\ mounts < MaxMounts
  /\ Restart
  /\ op' = Idle /\ line' = <<>>
  /\ step' = "cfg_open" /\ error' = FALSE
  /\ UNCHANGED <<disk, mounts, faults>>

\* sdcard_automount() unmounts the volume, without a sync, and mounts it: the
\* file objects have the id of the mount before.  Main reads the configuration
\* itself, before its loop.
Remount ==
  /\ mounts < MaxMounts /\ op.at = "out" /\ fs.type
  /\ step \notin {"cfg_open", "cfg_gets", "cfg_close"}
  /\ Restart
  /\ UNCHANGED <<disk, op, mounts, line, faults, step, error>>

ConfigClusters == 2 .. 2 + (ConfigUnits - 1) \div BCS

\* A card with or without a configuration.
Init ==
  /\ \E config \in BOOLEAN :
       disk = [fat  |-> [c \in Clusters |-> IF c \notin ConfigClusters THEN 0
                           ELSE IF c + 1 \in ConfigClusters THEN c + 1 ELSE EOC],
               dir  |-> [n \in Files |-> IF ~config \/ n # "config" THEN NoEntry
                           ELSE [there |-> TRUE, clust |-> 2, size |-> ConfigUnits]],
               data |-> [s \in DataSectors |-> [i \in 0 .. SS - 1 |->
                           IF s \div CSize \in ConfigClusters
                             THEN <<"config", 0, (s - 2 * CSize) * SS + i>> ELSE Blank]],
               hint |-> 0]
  /\ fs = Unmounted
  /\ fp = [n \in Files |-> Closed]
  /\ op = Idle /\ mounts = 0 /\ line = <<>> /\ faults = 0
  /\ stream = Found
  /\ step = "cfg_open" /\ error = FALSE

InCall == CallStep /\ UNCHANGED <<step, error>>

Caller == CallBegins \/ HeaderSkipped \/ CallReturns \/ Wake

Next == InCall \/ Caller \/ PowerLoss \/ Remount

Spec == Init /\ [][Next]_vars

FairSpec == Spec /\ WF_vars(InCall)

(***************************************************************************)
(* Properties.                                                             *)
(***************************************************************************)
\* The types of the card, the volume and the file objects.
TypeOK ==
  /\ disk.fat \in [Clusters -> {0} \cup Clusters \cup {EOC}]
  /\ fs.fat \in [Clusters -> {0} \cup Clusters \cup {EOC}]
  /\ \A n \in Files : /\ disk.dir[n].clust \in {0} \cup Clusters
                      /\ fs.dir[n].clust \in {0} \cup Clusters
                      /\ fp[n].fsize \in Nat /\ fp[n].fptr \in Nat
                      /\ fp[n].dsect \in {0} \cup DataSectors
  /\ mounts \in 0 .. MaxMounts /\ faults \in 0 .. MaxFaults
  /\ step \in DOMAIN CallOf \cup {"wait", "dead"} /\ error \in BOOLEAN

\* The volume as FatFs has it: the window, and the card where the window is not.
Fat == [c \in Clusters |-> IF FatSect(c) = fs.winsect THEN fs.fat[c] ELSE disk.fat[c]]
Dir == IF fs.winsect = DirSect THEN fs.dir ELSE disk.dir

\* No cluster is the successor of two, a successor is not free, and a cluster
\* a file starts with is in use, nobody's successor and no other file's start.
SoundTable(fat, start) ==
  /\ \A c, d \in Clusters : fat[c] = fat[d] /\ fat[c] \in Clusters => c = d
  /\ \A c \in Clusters : fat[c] \in Clusters => fat[fat[c]] # 0
  /\ \A n \in Files : start[n] # 0 =>
       /\ fat[start[n]] # 0
       /\ \A c \in Clusters : fat[c] # start[n]
       /\ \A m \in Files : start[m] = start[n] => m = n

\* Files share no cluster, whatever was being written when the power failed or
\* an access failed: the table on the card is sound at every moment, and every
\* number in it and in the volume is of a cluster or a sector there is.
CardIsSound == TypeOK /\ SoundTable(disk.fat, [n \in Files |-> disk.dir[n].clust])

\* and a file that is open, which has clusters its entry does not know yet,
\* shares none either.
OpenFilesAreApart ==
  fs.type => SoundTable(Fat, [n \in Files |-> IF fp[n].fs THEN fp[n].sclust ELSE 0])

\* An open file is as long as what was written to it; what was not written yet
\* is in the call.
SizeIsWritten == \A n \in Logs : fp[n].fs => fp[n].fsize = Len(stream[n])

\* The configuration is read to the end of its first line, or a piece of it
\* when an access failed: the caller is not told.
ConfigRead ==
  LET content == [i \in 1 .. ConfigUnits |-> <<"config", 0, i - 1>>]
      ends == {i \in 1 .. ConfigUnits : content[i] \in Newlines \/ i = LineUnits - 1
                                          \/ i = ConfigUnits}
      first == CHOOSE i \in ends : \A j \in ends : i <= j IN
  /\ IsPrefix(line, SubSeq(content, 1, first))
  /\ step = "cfg_gets" /\ op.at = "ret" /\ ~fp["config"].err => Len(line) = first

\* When f_sync() has written the window back, the card holds what was written.
SyncIsDurable ==
  [][op.at = "sync" /\ op'.at = "synced" => OnDisk(file)' = stream[file]]_vars

\* What is on the card of a log is at every moment what was written of it up
\* to a sync, whenever the power fails.
Durable == INSTANCE DurableLog WITH
             written <- [n \in Logs |-> stream[n]],
             durable <- [n \in Logs |-> OnDisk(n)]
LogsAreDurable == Durable!Spec

\* Every call returns: the search for a free cluster ends on a full card.
CallsReturn == (op.at # "out") ~> (op.at \in {"ret", "out"})
=============================================================================
