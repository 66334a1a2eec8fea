------------------------------- MODULE FatFile -------------------------------
(***************************************************************************)
(* FatFs below its calls: what f_open(), f_write(), f_sync(), f_close(),   *)
(* f_lseek() and f_read() (fatfs/src/ff.c) read and write on the card,     *)
(* sector by sector, so that the power can fail or an access can fail      *)
(* between any two of them.  The metadata (the FAT, the directory, FSINFO) *)
(* goes through the one window of the volume, the data through the buffer  *)
(* of each file object.                                                    *)
(*                                                                         *)
(* A sector holds SS units of data, a unit being a byte or a piece of a    *)
(* record.  Calls move less than a sector at a time, as the callers here   *)
(* do.  The directory of the files is one sector; the second copy of the   *)
(* FAT, which nothing reads, the count of free clusters, which nothing     *)
(* reads either, and the times and attributes are left out.  The volume is *)
(* FAT32.                                                                  *)
(***************************************************************************)
EXTENDS Naturals, Sequences

CONSTANTS Files,         \* the names in the directory
          ClusterCount,  \* of the volume
          CSize,         \* csize: sectors of a cluster
          SS,            \* units of a sector
          FatPerSector,  \* FAT entries of a sector
          Newlines,      \* the units that are the byte that ends a line
          MaxFaults      \* bound: disk accesses that fail

ASSUME FatFileAssumption ==
  /\ ClusterCount \in Nat \ {0} /\ CSize \in Nat \ {0} /\ SS \in Nat \ {0}
  /\ FatPerSector \in Nat \ {0} /\ MaxFaults \in Nat

VARIABLES
  disk,    \* the card: its FAT, directory, data sectors and FSINFO hint
  fs,      \* FATFS: whether it is mounted, the window, last_clust, and of fsi_flag
           \* whether FSINFO is used and whether it has to be written
  fp,      \* the file objects
  op,      \* the call in progress and where it is
  mounts,    \* the volume's mounts so far
  stream,  \* what the program has written to each file, for the properties
  line,    \* what f_gets() has put in its buffer
  faults   \* accesses that failed

fileVars == <<disk, fs, fp, op, mounts, stream, line, faults>>

NFatEnt  == ClusterCount + 2
Clusters == 2 .. NFatEnt - 1
EOC      == NFatEnt                       \* any value past the last cluster
BCS      == CSize * SS                    \* units of a cluster

\* Sectors of metadata.
FatSect(c) == <<"fat", c \div FatPerSector>>
RootSect   == <<"root", 0>>
DirSect    == <<"dir", 0>>
InfoSect   == <<"info", 0>>
NoSect     == <<"none", 0>>

\* clust2sect(): the data sector k of cluster c.
Clust2Sect(c, k) == c * CSize + k
DataSectors == 2 * CSize .. NFatEnt * CSize - 1

\* A unit: whose it is, the mount it was written under and its place in the file.
Blank == <<"blank", 0, 0>>
NoEntry == [there |-> FALSE, clust |-> 0, size |-> 0]

Unmounted == [type |-> FALSE, winsect |-> NoSect, wflag |-> FALSE,
              fat |-> [c \in Clusters |-> 0], dir |-> [n \in Files |-> NoEntry],
              last |-> 0, info |-> FALSE, fsi |-> FALSE]

Closed == [fs |-> FALSE, err |-> FALSE, sclust |-> 0, clust |-> 0, fptr |-> 0,
           fsize |-> 0, dsect |-> 0, buf |-> [i \in 0 .. SS - 1 |-> Blank],
           dirty |-> FALSE, written |-> FALSE]

Idle == [call |-> "none", file |-> "none", at |-> "out", from |-> 0, left |-> 0,
         clst |-> 0, scl |-> 0, ncl |-> 0, res |-> "FR_OK"]

file  == op.file
fptr  == fp[file].fptr
csect == (fptr \div SS) % CSize

(***************************************************************************)
(* The end of a call.                                                      *)
(***************************************************************************)
At(l) == op' = [op EXCEPT !.at = l]

Leave(res) == op' = [op EXCEPT !.at = "ret", !.res = res]

\* ABORT(): the error sticks to the file object.
Abort(res) == Leave(res) /\ fp' = [fp EXCEPT ![file].err = TRUE]

\* Mutant of FailCall: an error of the disk does not stick to the file object.
FailCallForgets(res) == Leave(res) /\ UNCHANGED fp

\* What a failed access does to the call: f_write(), f_lseek() and f_read()
\* abort, f_open() and f_sync() return the error.
FailCall(res) == IF op.call \in {"write", "lseek", "gets"}
                   THEN Abort(res) ELSE Leave(res) /\ UNCHANGED fp

\* disk_write(): it succeeds, or fails having written the sector or not.
DiskWrite(written, Then, Else) ==
  \/ disk' = written /\ UNCHANGED faults /\ Then
  \/ /\ faults < MaxFaults /\ faults' = faults + 1
     /\ disk' \in {disk, written} /\ Else

\* disk_read()
DiskRead(Then, Else) ==
  /\ UNCHANGED disk
  /\ \/ UNCHANGED faults /\ Then
     \/ faults < MaxFaults /\ faults' = faults + 1 /\ Else

(***************************************************************************)
(* The window: sync_window() and move_window().                            *)
(***************************************************************************)

\* The sector of metadata the call needs in the window where it is.
Need == CASE op.at = "root" -> RootSect
          [] op.at \in {"path", "back", "entry"} -> DirSect
          [] op.at \in {"follow", "link", "remove"} -> FatSect(op.clst)
          [] op.at = "scan" -> FatSect(op.ncl)
          [] OTHER -> fs.winsect

InWindow == fs.winsect = Need

WindowWritten ==
  [disk EXCEPT
     !.fat = [c \in Clusters |-> IF FatSect(c) = fs.winsect THEN fs.fat[c] ELSE disk.fat[c]],
     !.dir = IF fs.winsect = DirSect THEN fs.dir ELSE disk.dir]

WindowRead(s) ==
  [fs EXCEPT
     !.winsect = s,
     !.fat = [c \in Clusters |-> IF FatSect(c) = s THEN disk.fat[c] ELSE fs.fat[c]],
     !.dir = IF s = DirSect THEN disk.dir ELSE fs.dir]

\* Mutant of SyncWindow: a window that is needed for something else is not
\* written back.
SyncWindowOnlySync ==
  /\ fs.wflag /\ (op.at = "sync" \/ ~InWindow)
  /\ IF op.at = "sync"
       THEN DiskWrite(WindowWritten,
                      fs' = [fs EXCEPT !.wflag = FALSE] /\ UNCHANGED <<fp, op>>,
                      FailCall("FR_DISK_ERR") /\ UNCHANGED fs)
       ELSE fs' = [fs EXCEPT !.wflag = FALSE] /\ UNCHANGED <<disk, fp, op, faults>>
  /\ UNCHANGED <<mounts, stream, line>>

\* A changed window is written back before it moves, and by sync_fs().
SyncWindow ==
  /\ fs.wflag /\ (op.at = "sync" \/ ~InWindow)
  /\ DiskWrite(WindowWritten,
               fs' = [fs EXCEPT !.wflag = FALSE] /\ UNCHANGED <<fp, op>>,
               FailCall("FR_DISK_ERR") /\ UNCHANGED fs)
  /\ UNCHANGED <<mounts, stream, line>>

MoveWindow ==
  /\ ~fs.wflag /\ ~InWindow
  /\ DiskRead(fs' = WindowRead(Need) /\ UNCHANGED <<fp, op>>,
              fs' = [fs EXCEPT !.winsect = NoSect] /\ FailCall("FR_DISK_ERR"))
  /\ UNCHANGED <<mounts, stream, line>>

(***************************************************************************)
(* create_chain(), for f_write() and f_lseek().                            *)
(***************************************************************************)

\* The search goes on at c, after it has begun behind scl.
ScanOp(c, scl) ==
  LET wrapped == IF c >= NFatEnt THEN 2 ELSE c IN
  [op EXCEPT !.scl = scl, !.ncl = wrapped,
             !.at = IF c >= NFatEnt /\ 2 > scl THEN "full" ELSE "scan"]

\* A new chain is searched for behind the last cluster that was allocated.
NewChain == LET scl == IF fs.last = 0 \/ fs.last >= NFatEnt THEN 1 ELSE fs.last IN
            op' = [ScanOp(scl + 1, scl) EXCEPT !.clst = 0]

\* The caller has its cluster: f_write() goes on to the sector, f_lseek() to
\* the next cluster.
GotCluster(c) ==
  IF op.call = "lseek"
    THEN /\ fp' = [fp EXCEPT ![file].clust = c, ![file].fptr = fptr + BCS]
         /\ op' = [op EXCEPT !.at = "seek", !.left = op.left - BCS]
    ELSE /\ fp' = [fp EXCEPT ![file].clust = c,
                             ![file].sclust = IF fp[file].sclust = 0 THEN c ELSE fp[file].sclust]
         /\ At("place")

\* A cluster that already has a successor is not given another one.
Follow ==
  /\ op.at = "follow" /\ InWindow
  /\ LET cs == fs.fat[op.clst] IN
     IF cs = 0 \/ (op.call = "gets" /\ cs \notin Clusters) THEN Abort("FR_INT_ERR")
     ELSE IF cs \in Clusters THEN GotCluster(cs)
     ELSE op' = ScanOp(op.clst + 1, op.clst) /\ UNCHANGED fp
  /\ UNCHANGED <<disk, fs, mounts, stream, line, faults>>

\* Mutant of Scan: the search does not stop where it began.
ScanForever ==
  /\ op.at = "scan" /\ InWindow /\ fs.fat[op.ncl] # 0
  /\ op' = [ScanOp(op.ncl + 1, op.scl) EXCEPT !.at = "scan"]
  /\ UNCHANGED <<disk, fs, fp, mounts, stream, line, faults>>

\* The entry of ncl is in use.
Scan ==
  /\ op.at = "scan" /\ InWindow /\ fs.fat[op.ncl] # 0
  /\ IF op.ncl = op.scl THEN At("full") ELSE op' = ScanOp(op.ncl + 1, op.scl)
  /\ UNCHANGED <<disk, fs, fp, mounts, stream, line, faults>>

\* Mutant of Allocate: the new cluster is not marked.
AllocateUnmarked ==
  /\ op.at = "scan" /\ InWindow /\ fs.fat[op.ncl] = 0
  /\ IF op.clst = 0
       THEN GotCluster(op.ncl) /\ fs' = [fs EXCEPT !.last = op.ncl, !.fsi = fs.info]
       ELSE At("link") /\ UNCHANGED <<fp, fs>>
  /\ UNCHANGED <<disk, mounts, stream, line, faults>>

\* It is free: put_fat() marks it as the last link.
Allocate ==
  /\ op.at = "scan" /\ InWindow /\ fs.fat[op.ncl] = 0
  /\ LET marked == [fs EXCEPT !.fat[op.ncl] = EOC, !.wflag = TRUE] IN
     IF op.clst = 0
       THEN GotCluster(op.ncl) /\ fs' = [marked EXCEPT !.last = op.ncl, !.fsi = fs.info]
       ELSE At("link") /\ fs' = marked /\ UNCHANGED fp
  /\ UNCHANGED <<disk, mounts, stream, line, faults>>

\* and then links it to the chain.
Link ==
  /\ op.at = "link" /\ InWindow
  /\ fs' = [fs EXCEPT !.fat[op.clst] = op.ncl, !.wflag = TRUE, !.last = op.ncl, !.fsi = fs.info]
  /\ GotCluster(op.ncl)
  /\ UNCHANGED <<disk, mounts, stream, line, faults>>

(***************************************************************************)
(* The buffer of the file object.                                          *)
(***************************************************************************)

\* A changed buffer is written back before it gets another sector, and by f_sync().
BufferWritten == [disk EXCEPT !.data[fp[file].dsect] = fp[file].buf]

WriteBack ==
  /\ op.at \in {"place", "flush"} /\ fp[file].dirty
  /\ DiskWrite(BufferWritten,
               fp' = [fp EXCEPT ![file].dirty = FALSE] /\ UNCHANGED op,
               FailCall("FR_DISK_ERR"))
  /\ UNCHANGED <<fs, mounts, stream, line>>

\* It is read unless it holds the sector or the file grows into the sector.
Place ==
  LET sect == Clust2Sect(fp[file].clust, csect)
      fill == fp[file].dsect # sect /\ (op.call = "gets" \/ fptr < fp[file].fsize) IN
  /\ op.at = "place" /\ ~fp[file].dirty
  /\ IF fill
       THEN DiskRead(fp' = [fp EXCEPT ![file].buf = disk.data[sect], ![file].dsect = sect]
                       /\ At("copy"),
                     FailCall("FR_DISK_ERR"))
       ELSE fp' = [fp EXCEPT ![file].dsect = sect] /\ At("copy") /\ UNCHANGED <<disk, faults>>
  /\ UNCHANGED <<fs, mounts, stream, line>>

(***************************************************************************)
(* f_write(): op.left units remain.                                        *)
(***************************************************************************)
Units(first, end) == [i \in 1 .. end - first |-> <<file, mounts, first + i - 1>>]

\* The loop ends, early when the disk is full; the size follows the pointer.
WriteEnds ==
  /\ op.call = "write" /\ (op.at = "full" \/ (op.at = "chunk" /\ op.left = 0))
  /\ fp' = [fp EXCEPT ![file].fsize = IF fptr > fp[file].fsize THEN fptr ELSE fp[file].fsize,
                      ![file].written = TRUE]
  /\ stream' = [stream EXCEPT ![file] = @ \o Units(op.from, fptr)]
  /\ Leave("FR_OK")
  /\ UNCHANGED <<disk, fs, mounts, line, faults>>

\* On a cluster boundary the chain is followed or stretched, on a sector
\* boundary the buffer changes its sector.
NextChunk ==
  /\ op.call = "write" /\ op.at = "chunk" /\ op.left > 0
  /\ IF fptr % SS # 0 THEN At("copy") /\ UNCHANGED fp
     ELSE IF csect # 0 THEN At("place") /\ UNCHANGED fp
     ELSE IF fptr = 0 /\ fp[file].sclust # 0 THEN GotCluster(fp[file].sclust)
     ELSE IF fptr = 0 THEN NewChain /\ UNCHANGED fp
     ELSE op' = [op EXCEPT !.at = "follow", !.clst = fp[file].clust] /\ UNCHANGED fp
  /\ UNCHANGED <<disk, fs, mounts, stream, line, faults>>

CopyIn ==
  LET at == fptr % SS
      room == SS - at
      n == IF op.left < room THEN op.left ELSE room IN
  /\ op.call = "write" /\ op.at = "copy"
  /\ fp' = [fp EXCEPT ![file].fptr = fptr + n, ![file].dirty = TRUE,
              ![file].buf = [i \in 0 .. SS - 1 |->
                            IF i \in at .. at + n - 1
                              THEN <<file, mounts, fptr - at + i>> ELSE fp[file].buf[i]]]
  /\ op' = [op EXCEPT !.at = "chunk", !.left = op.left - n]
  /\ UNCHANGED <<disk, fs, mounts, stream, line, faults>>

(***************************************************************************)
(* f_lseek() to the end of a file just opened: op.left is what remains of  *)
(* the offset.                                                             *)
(***************************************************************************)

\* The chain is followed, and stretched where it ends before the offset; on a
\* full disk the offset is clipped to it.
Seek ==
  /\ op.call = "lseek" /\ (op.at = "full" \/ (op.at = "seek" /\ op.left > BCS))
  /\ op' = IF op.at = "full" THEN [op EXCEPT !.at = "seek", !.left = BCS]
                             ELSE [op EXCEPT !.at = "follow", !.clst = fp[file].clust]
  /\ UNCHANGED <<disk, fs, fp, mounts, stream, line, faults>>

SeekEnds ==
  LET sect == Clust2Sect(fp[file].clust, op.left \div SS)
      sought == [fp EXCEPT ![file].fptr = fptr + op.left] IN
  /\ op.at = "seek" /\ op.left <= BCS
  /\ IF op.left % SS # 0
       THEN DiskRead(fp' = [sought EXCEPT ![file].buf = disk.data[sect], ![file].dsect = sect]
                       /\ Leave("FR_OK"),
                     Leave("FR_DISK_ERR") /\ fp' = [sought EXCEPT ![file].err = TRUE])
       ELSE fp' = sought /\ Leave("FR_OK") /\ UNCHANGED <<disk, faults>>
  /\ UNCHANGED <<fs, mounts, stream, line>>

(***************************************************************************)
(* f_open().                                                               *)
(***************************************************************************)

\* The head of the functions that take a file object, and of f_open().
Check ==
  /\ op.at = "check"
  /\ IF op.call \in {"create", "open"}
       THEN fp' = [fp EXCEPT ![file].fs = FALSE] /\ At(IF fs.type THEN "root" ELSE "mount")
     ELSE /\ UNCHANGED fp
          /\ IF ~fp[file].fs THEN Leave("FR_INVALID_OBJECT")
             ELSE IF op.call \in {"sync", "close"}
               THEN At(IF fp[file].written THEN "flush" ELSE "synced")
             ELSE IF fp[file].err THEN Leave("FR_DISK_ERR")
             ELSE At(CASE op.call = "write" -> "chunk"
                       [] op.call = "gets"  -> "byte"
                       [] op.call = "lseek" -> IF op.left = 0 THEN "seek" ELSE "top")
  /\ UNCHANGED <<disk, fs, mounts, stream, line, faults>>

\* f_lseek() begins at the first cluster.
SeekTop ==
  /\ op.at = "top"
  /\ fp' = [fp EXCEPT ![file].fptr = 0, ![file].clust = fp[file].sclust]
  /\ At("seek")
  /\ UNCHANGED <<disk, fs, mounts, stream, line, faults>>

\* The end of find_volume(): the boot sector is read, and FSINFO, whose hint is
\* not used, and which is not written, when that fails.
MountVolume ==
  /\ op.at = "mount"
  /\ \/ DiskRead(/\ fs' = [Unmounted EXCEPT !.type = TRUE, !.winsect = InfoSect,
                                            !.last = disk.hint, !.info = TRUE]
                 /\ mounts' = mounts + 1
                 /\ At("root"),
                 Leave("FR_DISK_ERR") /\ UNCHANGED <<fs, mounts>>)
     \/ DiskRead(FALSE, /\ fs' = [Unmounted EXCEPT !.type = TRUE]
                        /\ mounts' = mounts + 1
                        /\ At("root"))
  /\ UNCHANGED <<fp, stream, line>>

\* follow_path() reads the root directory
Root == /\ op.at = "root" /\ InWindow
        /\ At("path")
        /\ UNCHANGED <<disk, fs, fp, mounts, stream, line, faults>>

Object == [Closed EXCEPT !.fs = TRUE, !.sclust = fs.dir[file].clust,
                         !.fsize = fs.dir[file].size, !.written = (op.call = "create"),
                         !.buf = fp[file].buf]

\* and then the directory of the files; a file that is not created must be there.
OpenExisting ==
  /\ op.call = "open" /\ op.at = "path" /\ InWindow
  /\ IF fs.dir[file].there THEN fp' = [fp EXCEPT ![file] = Object] /\ Leave("FR_OK")
                        ELSE Leave("FR_NO_FILE") /\ UNCHANGED fp
  /\ UNCHANGED <<disk, fs, mounts, stream, line, faults>>

\* Mutant of Truncate: the chain is freed before the entry lets go of it.
TruncateLate ==
  LET head == fs.dir[file].clust IN
  /\ op.call = "create" /\ op.at = "path" /\ InWindow
  /\ stream' = [stream EXCEPT ![file] = <<>>]
  /\ IF head # 0
       THEN fs' = fs /\ op' = [op EXCEPT !.at = "remove", !.clst = head, !.ncl = head]
       ELSE /\ fs' = [fs EXCEPT !.dir[file] = [there |-> TRUE, clust |-> 0, size |-> 0],
                                !.wflag = TRUE]
            /\ At("back")
  /\ UNCHANGED <<disk, fp, mounts, line, faults>>

\* dir_register() makes the entry of a new file, and an entry that is there
\* lets go of its chain before the chain is freed.
Truncate ==
  LET head == fs.dir[file].clust IN
  /\ op.call = "create" /\ op.at = "path" /\ InWindow
  /\ fs' = [fs EXCEPT !.dir[file] = [there |-> TRUE, clust |-> 0, size |-> 0], !.wflag = TRUE]
  /\ stream' = [stream EXCEPT ![file] = <<>>]
  /\ IF head # 0 THEN op' = [op EXCEPT !.at = "remove", !.clst = head, !.ncl = head]
                 ELSE At("back")
  /\ UNCHANGED <<disk, fp, mounts, line, faults>>

\* remove_chain() frees one cluster after the other.
RemoveChain ==
  LET nxt == fs.fat[op.clst] IN
  /\ op.at = "remove" /\ InWindow
  /\ IF nxt = 0 THEN fs' = [fs EXCEPT !.last = op.ncl - 1] /\ At("back")
     ELSE LET freed == [fs EXCEPT !.fat[op.clst] = 0, !.wflag = TRUE, !.fsi = fs.info] IN
          IF nxt \in Clusters
            THEN fs' = freed /\ op' = [op EXCEPT !.clst = nxt]
            ELSE fs' = [freed EXCEPT !.last = op.ncl - 1] /\ At("back")
  /\ UNCHANGED <<disk, fp, mounts, stream, line, faults>>

\* The window is back on the directory: the file is open.
OpenCreated ==
  /\ op.at = "back" /\ InWindow
  /\ fp' = [fp EXCEPT ![file] = Object] /\ Leave("FR_OK")
  /\ UNCHANGED <<disk, fs, mounts, stream, line, faults>>

(***************************************************************************)
(* f_sync() and f_close().                                                 *)
(***************************************************************************)
Flushed == /\ op.at = "flush" /\ ~fp[file].dirty
           /\ At("entry")
           /\ UNCHANGED <<disk, fs, fp, mounts, stream, line, faults>>

\* The entry gets the size and the start of the file.
UpdateEntry ==
  /\ op.at = "entry" /\ InWindow
  /\ fs' = [fs EXCEPT !.dir[file].size = fp[file].fsize, !.dir[file].clust = fp[file].sclust,
                      !.wflag = TRUE]
  /\ fp' = [fp EXCEPT ![file].written = FALSE]
  /\ At("sync")
  /\ UNCHANGED <<disk, mounts, stream, line, faults>>

\* Mutant of SyncFs: f_sync() ends with the window changed.
SyncFsEarly == /\ op.at = "sync"
               /\ At("synced")
               /\ UNCHANGED <<disk, fs, fp, mounts, stream, line, faults>>

\* sync_fs(): the window has been written back, FSINFO is written through it
\* and whether that fails is not looked at.
SyncFs ==
  /\ op.at = "sync" /\ ~fs.wflag
  /\ At("synced")
  /\ IF fs.fsi
       THEN LET moved == [fs EXCEPT !.winsect = InfoSect, !.fsi = FALSE] IN
            DiskWrite([disk EXCEPT !.hint = fs.last], fs' = moved, fs' = moved)
       ELSE UNCHANGED <<disk, fs, faults>>
  /\ UNCHANGED <<fp, mounts, stream, line>>

SyncEnds ==
  /\ op.at = "synced"
  /\ Leave("FR_OK")
  /\ fp' = [fp EXCEPT ![file].fs = (op.call = "sync")]
  /\ UNCHANGED <<disk, fs, mounts, stream, line, faults>>
(***************************************************************************)
(* f_gets(), which reads a unit at a time with f_read(): op.left is the    *)
(* room in its buffer.  An error ends the line like the end of the file.   *)
(***************************************************************************)
GetsEnds ==
  /\ op.at = "byte" /\ (op.left = 0 \/ fptr >= fp[file].fsize)
  /\ Leave("FR_OK")
  /\ UNCHANGED <<disk, fs, fp, mounts, stream, line, faults>>

\* The sector of the unit: on a cluster boundary the chain is followed.
NextByte ==
  /\ op.at = "byte" /\ op.left > 0 /\ fptr < fp[file].fsize
  /\ IF fptr % SS # 0 THEN At("copy") /\ UNCHANGED fp
     ELSE IF csect # 0 THEN At("place") /\ UNCHANGED fp
     ELSE IF fptr # 0 THEN op' = [op EXCEPT !.at = "follow", !.clst = fp[file].clust]
                           /\ UNCHANGED fp
     ELSE IF fp[file].sclust = 0 THEN Abort("FR_INT_ERR")
     ELSE GotCluster(fp[file].sclust)
  /\ UNCHANGED <<disk, fs, mounts, stream, line, faults>>

CopyOut ==
  LET unit == fp[file].buf[fptr % SS] IN
  /\ op.call = "gets" /\ op.at = "copy"
  /\ line' = Append(line, unit)
  /\ fp' = [fp EXCEPT ![file].fptr = fptr + 1]
  /\ op' = [op EXCEPT !.at = "byte", !.left = IF unit \in Newlines THEN 0 ELSE op.left - 1]
  /\ UNCHANGED <<disk, fs, mounts, stream, faults>>

CallStep ==
  \/ Check \/ SyncWindow \/ MoveWindow
  \/ MountVolume \/ Root \/ OpenExisting \/ Truncate \/ RemoveChain \/ OpenCreated
  \/ Follow \/ Scan \/ Allocate \/ Link \/ WriteBack \/ Place
  \/ NextChunk \/ CopyIn \/ WriteEnds
  \/ SeekTop \/ Seek \/ SeekEnds
  \/ NextByte \/ CopyOut \/ GetsEnds
  \/ Flushed \/ UpdateEntry \/ SyncFs \/ SyncEnds
=============================================================================
