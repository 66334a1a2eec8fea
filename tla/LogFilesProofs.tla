---------------------------- MODULE LogFilesProofs ----------------------------
(***************************************************************************)
(* Proofs about LogFiles: the table of a card is sound at every moment,    *)
(* and files that are open are apart, for any number of files, clusters,   *)
(* failed accesses and losses of power, and any size of the sectors, the   *)
(* clusters and the records.                                               *)
(***************************************************************************)
EXTENDS LogFiles, TLAPS

(***************************************************************************)
(* Types.                                                                  *)
(***************************************************************************)
Links  == {0} \cup Clusters \cup {EOC}
Starts == {0} \cup Clusters

\* An entry with a size has a cluster.
Entry == {e \in [there : BOOLEAN, clust : Starts, size : Nat] : e.size # 0 => e.clust # 0}

Unit    == (Files \cup {"blank"}) \X Nat \X Nat
Sector  == [0 .. SS - 1 -> Unit]
Windows == {"fat", "root", "dir", "info", "none"} \X Nat

CardState == [fat : [Clusters -> Links], dir : [Files -> Entry],
              data : [DataSectors -> Sector], hint : Nat]

VolumeState == [type : BOOLEAN, winsect : Windows, wflag : BOOLEAN,
                fat : [Clusters -> Links], dir : [Files -> Entry],
                last : Nat, info : BOOLEAN, fsi : BOOLEAN]

DiskType == disk \in CardState
FsType   == fs \in VolumeState

FileObject == [fs : BOOLEAN, err : BOOLEAN, sclust : Starts, clust : Starts, fptr : Nat,
               fsize : Nat, dsect : {0} \cup DataSectors, buf : Sector,
               dirty : BOOLEAN, written : BOOLEAN]

Opening == {"create", "open"}
Calls   == Opening \cup {"write", "lseek", "gets", "sync", "close"}
AtOpen  == {"mount", "root", "path", "back", "remove"}
AtFile  == {"follow", "scan", "link", "place", "chunk", "copy", "full", "seek", "top",
            "flush", "entry", "sync", "synced", "byte"}
Places  == {"out", "check", "ret"} \cup AtOpen \cup AtFile

OpType == op \in [call : Calls \cup {"none"}, file : Files \cup {"none"}, at : Places,
                  from : Nat, left : Nat, clst : Nat, scl : Nat, ncl : Nat,
                  res : {"FR_OK", "FR_DISK_ERR", "FR_INT_ERR", "FR_NO_FILE", "FR_INVALID_OBJECT"}]

Steps == {"cfg_open", "cfg_gets", "cfg_close", "version_open", "version_write", "version_close",
          "mpu_open", "mpu_write", "rc_open", "rc_write", "write", "open", "lseek", "sync"}

Counted == /\ mounts \in 0 .. MaxMounts /\ faults \in 0 .. MaxFaults
           /\ step \in Steps \cup {"wait", "dead"} /\ error \in BOOLEAN

Types == DiskType /\ FsType /\ fp \in [Files -> FileObject] /\ OpType /\ Counted

(***************************************************************************)
(* Where a call is, and what the file objects know.                        *)
(***************************************************************************)
Fp == fp[file]

CallInv ==
  /\ op.at # "out" => step \in Steps /\ op.call \in Calls /\ file \in Files
  /\ op.at \in AtOpen => op.call \in Opening /\ ~Fp.fs
  /\ op.at \in AtFile => op.call \notin Opening /\ Fp.fs
  /\ op.at \in {"place", "copy"} => op.call \in {"write", "gets"}
  /\ op.at = "follow" => op.call \in {"write", "lseek", "gets"}
  /\ op.at \in {"scan", "link", "full"} => op.call \in {"write", "lseek"}
  /\ op.at \in {"seek", "top"} => op.call = "lseek"
  /\ op.at = "byte" => op.call = "gets"

\* The units that remain.
LeftInv ==
  /\ op.call = "lseek" /\ op.at \in {"follow", "scan", "link"} => op.left > BCS
  /\ op.call = "gets" /\ op.at \in {"follow", "place", "copy"} => op.left > 0

\* A file with a size or a place in it has clusters.
PointerInv ==
  /\ \A n \in Files : fp[n].fs => /\ fp[n].fsize # 0 => fp[n].sclust # 0
                                  /\ fp[n].fptr # 0 => fp[n].sclust # 0 /\ fp[n].clust # 0
  /\ op.at \in {"place", "copy"} => Fp.sclust # 0 /\ Fp.clust # 0
  /\ op.call = "lseek" /\ op.at = "check" => op.left = Fp.fsize
  /\ op.at = "top" => Fp.sclust # 0
  /\ op.call = "lseek" /\ op.at \in {"follow", "scan", "link", "full"}
       => Fp.sclust # 0 /\ Fp.clust # 0
  /\ op.at = "seek" => op.left = 0 \/ (Fp.sclust # 0 /\ Fp.clust # 0)

\* The search for a cluster.
ScanInv ==
  /\ op.at \in {"scan", "link"} => op.ncl \in Clusters
  /\ op.at \in {"follow", "link"} \/ (op.at = "scan" /\ op.clst # 0)
       => op.clst \in Clusters /\ Fp.sclust # 0
  /\ op.at = "scan" /\ op.clst = 0 => op.call = "write"
  /\ op.at = "follow" => op.call # "gets" \/ op.clst \in Clusters
  /\ op.at = "remove" => op.clst \in Clusters /\ op.ncl \in Clusters

(***************************************************************************)
(* The volume.  What the window holds is either on the card or is still to *)
(* be written to it.  The files start where their objects say, or their    *)
(* entries: an entry that does not know the start of an open file yet has  *)
(* no cluster.  The table is sound with these starts, and so is the one on *)
(* the card with its entries, now and when the window is written.          *)
(***************************************************************************)
Start == [n \in Files |-> IF fp[n].fs THEN fp[n].sclust ELSE Dir[n].clust]

\* A cluster that no link and no file leads to.
Loose(c) == (\A d \in Clusters : Fat[d] # c) /\ (\A n \in Files : Start[n] # c)

MountInv ==
  /\ ~fs.type => ~fs.wflag /\ mounts < MaxMounts /\ \A n \in Files : ~fp[n].fs
  /\ op.at = "mount" => ~fs.type
  /\ op.at \in (AtOpen \ {"mount"}) \cup AtFile => fs.type

WindowInv == ~fs.wflag => Fat = disk.fat /\ Dir = disk.dir

SoundInv ==
  /\ SoundTable(Fat, Start)
  /\ \A n \in Files : fp[n].fs => Dir[n].clust \in {0, fp[n].sclust}
  /\ SoundTable(disk.fat, [n \in Files |-> disk.dir[n].clust])

LooseInv ==
  /\ op.at = "link" => Loose(op.ncl) /\ Fat[op.ncl] = EOC
  /\ op.at = "remove" => Loose(op.clst)

Control == CallInv /\ LeftInv /\ PointerInv /\ ScanInv
Volume  == MountInv /\ WindowInv /\ SoundInv /\ LooseInv
IInv == Types /\ Control /\ Volume

(***************************************************************************)
(* The constants.                                                          *)
(***************************************************************************)
LEMMA Constants ==
  /\ SS \in Nat \ {0} /\ CSize \in Nat \ {0} /\ BCS \in Nat \ {0} /\ NFatEnt \in Nat
  /\ NFatEnt > 2 /\ EOC = NFatEnt /\ Clusters \subseteq Nat
  /\ 0 \notin Clusters /\ EOC \notin Clusters /\ EOC # 0
  /\ \A c : c \in Clusters <=> c \in Nat /\ 2 <= c /\ c < NFatEnt
<1>1. SS \in Nat \ {0} /\ CSize \in Nat \ {0} /\ ClusterCount \in Nat \ {0}
  BY FatFileAssumption
<1>2. BCS \in Nat \ {0}
  BY <1>1 DEF BCS
<1> QED
  BY <1>1, <1>2 DEF NFatEnt, EOC, Clusters

LEMMA StepsNamed == DOMAIN CallOf = Steps /\ DOMAIN CallOf' = Steps /\ DOMAIN After = Steps
BY DEF CallOf, After, Steps

LEMMA FilesNamed == {"config", "version", "mpu6000", "rc"} \subseteq Files
BY LogFilesAssumption

\* The sectors of a cluster are sectors of data.
LEMMA SectorOfCluster ==
  ASSUME NEW c \in Clusters, NEW k \in 0 .. CSize - 1
  PROVE  Clust2Sect(c, k) \in DataSectors
<1>1. \A n, s, x, y \in Nat : 2 <= x /\ x < n /\ s > 0 /\ y < s => x * s + y \in 2 * s .. n * s - 1
  OBVIOUS
<1>2. c \in Nat /\ k \in Nat /\ k < CSize /\ CSize \in Nat /\ CSize > 0 /\ NFatEnt \in Nat
      /\ 2 <= c /\ c < NFatEnt
  BY Constants
<1> HIDE DEF NFatEnt
<1> QED
  BY <1>1, <1>2 DEF Clust2Sect, DataSectors

LEMMA PlaceOfPointer ==
  ASSUME NEW p \in Nat
  PROVE  /\ p % SS \in 0 .. SS - 1 /\ (p \div SS) % CSize \in 0 .. CSize - 1
         /\ (p \div SS) % CSize # 0 => p # 0
         /\ p % SS # 0 => p # 0
         /\ p <= BCS /\ p % SS # 0 => p \div SS \in 0 .. CSize - 1
<1>1. SS \in Nat \ {0} /\ CSize \in Nat \ {0}
  BY Constants
<1>2. p % SS \in 0 .. SS - 1 /\ p \div SS \in Nat /\ (p = 0 => p % SS = 0 /\ p \div SS = 0)
  BY <1>1
<1>3. (p \div SS) % CSize \in 0 .. CSize - 1 /\ (p = 0 => (p \div SS) % CSize = 0)
  BY <1>1, <1>2
<1>4. \A a, s, c \in Nat : s > 0 /\ c > 0 /\ a <= c * s /\ a % s # 0 => a \div s \in 0 .. c - 1
  OBVIOUS
<1>5. p <= BCS /\ p % SS # 0 => p \div SS \in 0 .. CSize - 1
  BY <1>1, <1>4 DEF BCS
<1> QED
  BY <1>2, <1>3, <1>5

(***************************************************************************)
(* The types of a call.                                                    *)
(***************************************************************************)
LEMMA OpMoves ==
  ASSUME OpType
  PROVE  /\ \A l \in Places : At(l) => /\ OpType' /\ op'.at = l
              /\ op'.call = op.call /\ op'.file = op.file /\ op'.left = op.left
              /\ op'.clst = op.clst /\ op'.scl = op.scl /\ op'.ncl = op.ncl
         /\ \A r \in {"FR_OK", "FR_DISK_ERR", "FR_INT_ERR", "FR_NO_FILE", "FR_INVALID_OBJECT"} :
              Leave(r) => /\ OpType' /\ op'.at = "ret" /\ op'.call = op.call /\ op'.file = op.file
<1>1. \A l \in Places : At(l) => /\ OpType' /\ op'.at = l
              /\ op'.call = op.call /\ op'.file = op.file /\ op'.left = op.left
              /\ op'.clst = op.clst /\ op'.scl = op.scl /\ op'.ncl = op.ncl
  BY DEF OpType, At
<1>2. \A r \in {"FR_OK", "FR_DISK_ERR", "FR_INT_ERR", "FR_NO_FILE", "FR_INVALID_OBJECT"} :
         Leave(r) => /\ OpType' /\ op'.at = "ret" /\ op'.call = op.call /\ op'.file = op.file
  BY DEF OpType, Leave, Places
<1> QED
  BY <1>1, <1>2

LEMMA PlacesNamed ==
  /\ {"out", "check", "ret", "mount", "root", "path", "back", "remove", "follow", "scan", "link",
      "place", "chunk", "copy", "full", "seek", "top", "flush", "entry", "sync", "synced",
      "byte"} \subseteq Places
BY DEF Places, AtOpen, AtFile

LEMMA ScanOpType ==
  ASSUME OpType, NEW c \in Nat, NEW s \in Nat, op' = ScanOp(c, s), 1 < c
  PROVE  /\ OpType' /\ op'.at \in {"full", "scan"} /\ op'.ncl \in Clusters
         /\ op'.call = op.call /\ op'.file = op.file /\ op'.left = op.left /\ op'.clst = op.clst
<1> DEFINE w == IF c >= NFatEnt THEN 2 ELSE c
<1>1. w \in Clusters /\ w \in Nat
  BY Constants
<1>2. op' = [op EXCEPT !.scl = s, !.ncl = w,
                       !.at = IF c >= NFatEnt /\ 2 > s THEN "full" ELSE "scan"]
  BY DEF ScanOp
<1>3. {"full", "scan"} \subseteq Places
  BY PlacesNamed
<1> HIDE DEF w
<1> QED
  BY <1>1, <1>2, <1>3 DEF OpType

(***************************************************************************)
(* The file objects.                                                       *)
(***************************************************************************)
FilesType == fp \in [Files -> FileObject]

\* Of a call that is under way, the facts that its steps use.
LEMMA CallKnown ==
  ASSUME Types, Control, op.at # "out"
  PROVE  /\ file \in Files /\ Fp \in FileObject /\ Fp = fp[file] /\ op.call \in Calls
         /\ op.left \in Nat /\ op.clst \in Nat /\ op.scl \in Nat /\ op.ncl \in Nat /\ op.from \in Nat
         /\ fptr = Fp.fptr /\ fptr \in Nat /\ csect \in 0 .. CSize - 1
         /\ csect # 0 => fptr # 0
         /\ fptr % SS \in 0 .. SS - 1 /\ (fptr % SS # 0 => fptr # 0)
         /\ step \in Steps
         /\ fs.dir[file] \in Entry
<1>1. file \in Files /\ op.call \in Calls /\ step \in Steps
  BY DEF Control, CallInv
<1>2. Fp \in FileObject /\ fptr = Fp.fptr /\ fptr \in Nat
  BY <1>1 DEF Types, FileObject, Fp, fptr
<1>3. csect \in 0 .. CSize - 1 /\ (csect # 0 => fptr # 0)
      /\ fptr % SS \in 0 .. SS - 1 /\ (fptr % SS # 0 => fptr # 0)
  BY <1>2, PlaceOfPointer DEF csect
<1>4. fs.dir[file] \in Entry
  BY <1>1 DEF Types, FsType, VolumeState
<1>5. op.left \in Nat /\ op.clst \in Nat /\ op.scl \in Nat /\ op.ncl \in Nat /\ op.from \in Nat
  BY DEF Types, OpType
<1> QED
  BY <1>1, <1>2, <1>3, <1>4, <1>5 DEF Fp

\* A call that returns, whatever becomes of its file.
LEMMA Returns ==
  ASSUME Types, Control, op'.at = "ret", op.at # "out", op'.call = op.call, op'.file = op.file,
         UNCHANGED step,
         \A n \in Files : fp'[n].fs =>
           /\ fp'[n].fsize # 0 => fp'[n].sclust # 0
           /\ fp'[n].fptr # 0 => fp'[n].sclust # 0 /\ fp'[n].clust # 0
  PROVE  Control'
<1>1. CallInv'
  BY DEF Control, CallInv, AtOpen, AtFile, file
<1>2. LeftInv' /\ ScanInv' /\ PointerInv'
  BY DEF LeftInv, ScanInv, PointerInv
<1> QED
  BY <1>1, <1>2 DEF Control

LEMMA ReturnsAsIs ==
  ASSUME Types, Control, op'.at = "ret", op.at # "out", op'.call = op.call, op'.file = op.file,
         UNCHANGED step, UNCHANGED fp \/ fp' = [fp EXCEPT ![file].err = TRUE]
  PROVE  Control' /\ FilesType'
<1>1. file \in Files /\ fp \in [Files -> FileObject]
  BY CallKnown DEF Types
<1>2. FilesType'
  BY <1>1 DEF FilesType, FileObject
<1>3. \A n \in Files : fp'[n].fs = fp[n].fs /\ fp'[n].fsize = fp[n].fsize
         /\ fp'[n].fptr = fp[n].fptr /\ fp'[n].sclust = fp[n].sclust /\ fp'[n].clust = fp[n].clust
  BY <1>1 DEF FileObject
<1>4. \A n \in Files : fp'[n].fs =>
           /\ fp'[n].fsize # 0 => fp'[n].sclust # 0
           /\ fp'[n].fptr # 0 => fp'[n].sclust # 0 /\ fp'[n].clust # 0
  BY <1>3 DEF Control, PointerInv
<1> QED
  BY <1>2, <1>4, Returns

ResultsNamed == {"FR_OK", "FR_DISK_ERR", "FR_INT_ERR", "FR_NO_FILE", "FR_INVALID_OBJECT"}

LEMMA LeavesAsIs ==
  ASSUME Types, Control, op.at # "out", UNCHANGED step, NEW r \in ResultsNamed,
         \/ Leave(r) /\ UNCHANGED fp
         \/ Abort(r)
         \/ FailCall(r)
  PROVE  Control' /\ FilesType' /\ OpType' /\ op'.at = "ret"
<1>1. Leave(r) /\ (UNCHANGED fp \/ fp' = [fp EXCEPT ![file].err = TRUE])
  BY DEF Abort, FailCall
<1>2. OpType' /\ op'.at = "ret" /\ op'.call = op.call /\ op'.file = op.file
  BY <1>1, OpMoves DEF Types, ResultsNamed
<1> QED
  BY <1>1, <1>2, ReturnsAsIs

\* A call that goes on at l with the file as it is.
LEMMA GoesOn ==
  ASSUME Types, Control, op.at # "out", UNCHANGED <<step, fp>>, NEW l \in Places, At(l),
         l \in {"out", "check"} => FALSE,
         l \in AtOpen => op.call \in Opening /\ ~Fp.fs,
         l \in AtFile => op.call \notin Opening /\ Fp.fs,
         l \in {"place", "copy"} => op.call \in {"write", "gets"} /\ Fp.sclust # 0 /\ Fp.clust # 0
                                     /\ (op.call = "gets" => op.left > 0),
         l \in {"seek", "top"} => op.call = "lseek",
         l = "byte" => op.call = "gets",
         l = "top" => Fp.sclust # 0,
         l = "seek" => op.left = 0 \/ (Fp.sclust # 0 /\ Fp.clust # 0),
         l \notin {"follow", "scan", "link", "full", "remove"}
  PROVE  Control' /\ FilesType' /\ OpType'
<1>1. /\ OpType' /\ op'.at = l
      /\ op'.call = op.call /\ op'.file = op.file /\ op'.left = op.left
  BY OpMoves DEF Types
<1>2. FilesType' /\ Fp' = Fp
  BY <1>1 DEF FilesType, Types, Fp, file
<1>3. CallInv'
  BY <1>1, <1>2 DEF Control, CallInv, file
<1>4. LeftInv' /\ ScanInv'
  BY <1>1 DEF LeftInv, ScanInv
<1>5. PointerInv'
  BY <1>1, <1>2 DEF Control, PointerInv
<1> QED
  BY <1>1, <1>2, <1>3, <1>4, <1>5 DEF Control

(***************************************************************************)
(* The steps of a call keep the types of the call and of the files, and    *)
(* what Control says.                                                      *)
(***************************************************************************)
CallKept == Control' /\ FilesType' /\ OpType'

LEMMA CheckKeeps ==
  ASSUME Types, Control, Check, UNCHANGED step
  PROVE  CallKept
<1>0. op.at = "check" /\ op.at # "out"
  BY DEF Check
<1>1. CASE op.call \in Opening
  <2>1. PICK l \in {"root", "mount"} : At(l)
    BY <1>1 DEF Check, Opening
  <2>2. fp' = [fp EXCEPT ![file].fs = FALSE]
    BY <1>1 DEF Check, Opening
  <2>3. OpType' /\ op'.at = l /\ op'.call = op.call /\ op'.file = op.file
    BY <2>1, OpMoves, PlacesNamed DEF Types
  <2>4. FilesType' /\ ~Fp'.fs /\ (\A n \in Files : n # file => fp'[n] = fp[n])
    BY <1>0, <2>2, <2>3, CallKnown DEF FilesType, Types, FileObject, Fp, file
  <2>5. CallInv'
    BY <1>0, <1>1, <2>3, <2>4, CallKnown DEF CallInv, AtOpen, AtFile, file
  <2>6. LeftInv' /\ ScanInv'
    BY <1>1, <2>3 DEF LeftInv, ScanInv
  <2>7. \A n \in Files : fp'[n].fs => fp'[n] = fp[n] /\ fp[n].fs
    BY <2>3, <2>4 DEF Fp, file
  <2>8. PointerInv'
    BY <1>1, <2>3, <2>7 DEF PointerInv, Control, Opening
  <2> QED
    BY <2>3, <2>4, <2>5, <2>6, <2>8 DEF CallKept, Control
<1>2. CASE op.call \notin Opening /\ ~Fp.fs
  <2>1. Leave("FR_INVALID_OBJECT") /\ UNCHANGED fp
    BY <1>2 DEF Check, Opening, Fp
  <2> QED
    BY <1>0, <2>1, LeavesAsIs DEF CallKept, ResultsNamed
<1>3. CASE op.call \notin Opening /\ Fp.fs /\ op.call \in {"sync", "close"}
  <2>1. PICK l \in {"flush", "synced"} : At(l) /\ UNCHANGED fp
    BY <1>3 DEF Check, Opening, Fp
  <2> QED
    BY <1>0, <1>3, <2>1, GoesOn, PlacesNamed DEF CallKept, AtOpen, AtFile
<1>4. CASE op.call \notin Opening /\ Fp.fs /\ op.call \notin {"sync", "close"} /\ Fp.err
  <2>1. Leave("FR_DISK_ERR") /\ UNCHANGED fp
    BY <1>4 DEF Check, Opening, Fp
  <2> QED
    BY <1>0, <2>1, LeavesAsIs DEF CallKept, ResultsNamed
<1>5. CASE op.call \notin Opening /\ Fp.fs /\ op.call \notin {"sync", "close"} /\ ~Fp.err
  <2>0. op.call \in {"write", "gets", "lseek"}
    BY <1>0, <1>5, CallKnown DEF Calls, Opening
  <2>1. At(CASE op.call = "write" -> "chunk"
             [] op.call = "gets"  -> "byte"
             [] op.call = "lseek" -> IF op.left = 0 THEN "seek" ELSE "top") /\ UNCHANGED fp
    BY <1>5 DEF Check, Opening, Fp
  <2>2. CASE op.call \in {"write", "gets"}
    <3>1. PICK l \in {"chunk", "byte"} : At(l) /\ UNCHANGED fp /\ (l = "byte" => op.call = "gets")
      BY <2>1, <2>2
    <3> QED
      BY <1>0, <1>5, <3>1, GoesOn, PlacesNamed DEF CallKept, AtOpen, AtFile
  <2>3. CASE op.call = "lseek" /\ op.left = 0
    BY <1>0, <1>5, <2>1, <2>3, GoesOn, PlacesNamed DEF CallKept, AtOpen, AtFile
  <2>4. CASE op.call = "lseek" /\ op.left # 0
    <3>1. Fp.sclust # 0
      BY <1>0, <1>5, <2>4, CallKnown DEF Control, PointerInv
    <3> QED
      BY <1>0, <1>5, <2>1, <2>4, <3>1, GoesOn, PlacesNamed DEF CallKept, AtOpen, AtFile
  <2> QED
    BY <2>0, <2>2, <2>3, <2>4
<1> QED
  BY <1>1, <1>2, <1>3, <1>4, <1>5

\* The window, and the steps that only go on.
LEMMA WindowKeeps ==
  ASSUME Types, Control, SyncWindow \/ MoveWindow, op.at # "out", UNCHANGED step
  PROVE  CallKept
<1>1. UNCHANGED <<fp, op>> \/ FailCall("FR_DISK_ERR")
  BY DEF SyncWindow, MoveWindow, DiskWrite, DiskRead
<1>2. CASE UNCHANGED <<fp, op>>
  BY <1>2 DEF CallKept, Control, CallInv, LeftInv, PointerInv, ScanInv, Fp, file, FilesType,
              OpType, Types
<1> QED
  BY <1>1, <1>2, LeavesAsIs DEF CallKept, ResultsNamed

LEMMA MountKeeps ==
  ASSUME Types, Control, MountVolume, UNCHANGED step
  PROVE  CallKept
<1>1. op.at = "mount" /\ UNCHANGED fp /\ (At("root") \/ Leave("FR_DISK_ERR"))
  BY DEF MountVolume, DiskRead
<1>2. op.call \in Opening /\ ~Fp.fs
  BY <1>1 DEF Control, CallInv, AtOpen
<1> QED
  BY <1>1, <1>2, GoesOn, LeavesAsIs, PlacesNamed DEF CallKept, AtOpen, AtFile, ResultsNamed

LEMMA RootKeeps ==
  ASSUME Types, Control, Root, UNCHANGED step
  PROVE  CallKept
<1>1. op.at = "root" /\ UNCHANGED fp /\ At("path")
  BY DEF Root
<1>2. op.call \in Opening /\ ~Fp.fs
  BY <1>1 DEF Control, CallInv, AtOpen
<1> QED
  BY <1>1, <1>2, GoesOn, PlacesNamed DEF CallKept, AtOpen, AtFile

LEMMA ObjectType ==
  ASSUME Types, Control, op.at # "out"
  PROVE  /\ Object \in FileObject
         /\ Object.fs /\ Object.sclust = fs.dir[file].clust
         /\ Object.fsize # 0 => Object.sclust # 0
         /\ Object.fptr = 0
<1>1. fp[file].buf \in Sector /\ fs.dir[file] \in Entry
  BY CallKnown DEF FileObject
<1>2. [i \in 0 .. SS - 1 |-> Blank] \in Sector
  BY DEF Sector, Unit, Blank
<1> QED
  BY <1>1, <1>2 DEF Object, Closed, FileObject, Starts, Entry

LEMMA OpenKeeps ==
  ASSUME Types, Control, OpenExisting \/ OpenCreated, UNCHANGED step
  PROVE  CallKept
<1>0. op.at # "out"
  BY DEF OpenExisting, OpenCreated
<1>1. CASE Leave("FR_NO_FILE") /\ UNCHANGED fp
  BY <1>0, <1>1, LeavesAsIs DEF CallKept, ResultsNamed
<1>2. CASE Leave("FR_OK") /\ fp' = [fp EXCEPT ![file] = Object]
  <2>1. OpType' /\ op'.at = "ret" /\ op'.call = op.call /\ op'.file = op.file
    BY <1>2, OpMoves DEF Types
  <2>2. FilesType'
    BY <1>2, ObjectType, <1>0, CallKnown DEF FilesType, Types
  <2>3. \A n \in Files : fp'[n] = IF n = file THEN Object ELSE fp[n]
    BY <1>2 DEF Types
  <2>4. \A n \in Files : fp'[n].fs =>
           /\ fp'[n].fsize # 0 => fp'[n].sclust # 0
           /\ fp'[n].fptr # 0 => fp'[n].sclust # 0 /\ fp'[n].clust # 0
    BY <2>3, <1>0, ObjectType DEF Control, PointerInv
  <2> QED
    BY <1>0, <2>1, <2>2, <2>4, Returns DEF CallKept
<1> QED
  BY <1>1, <1>2 DEF OpenExisting, OpenCreated

LEMMA TruncateKeeps ==
  ASSUME Types, Control, Truncate, UNCHANGED step
  PROVE  CallKept
<1>0. op.at = "path" /\ op.at # "out" /\ UNCHANGED fp /\ op.call \in Opening /\ ~Fp.fs
  BY DEF Truncate, Control, CallInv, AtOpen, Opening
<1>1. CASE At("back")
  BY <1>0, <1>1, GoesOn, PlacesNamed DEF CallKept, AtOpen, AtFile
<1>2. CASE /\ fs.dir[file].clust # 0
           /\ op' = [op EXCEPT !.at = "remove", !.clst = fs.dir[file].clust,
                               !.ncl = fs.dir[file].clust]
  <2>1. fs.dir[file].clust \in Clusters /\ fs.dir[file].clust \in Nat
    BY <1>0, <1>2, CallKnown, Constants DEF Entry, Starts
  <2>2. /\ OpType' /\ op'.at = "remove" /\ op'.call = op.call /\ op'.file = op.file
        /\ op'.clst \in Clusters /\ op'.ncl \in Clusters
    BY <1>2, <2>1, PlacesNamed DEF Types, OpType
  <2>3. FilesType' /\ Fp' = Fp
    BY <1>0, <2>2 DEF FilesType, Types, Fp, file
  <2>4. CallInv'
    BY <1>0, <2>2, <2>3, CallKnown DEF CallInv, AtOpen, AtFile, file
  <2>5. LeftInv' /\ ScanInv' /\ PointerInv'
    BY <1>0, <2>2 DEF LeftInv, ScanInv, PointerInv, Control, Opening
  <2> QED
    BY <2>2, <2>3, <2>4, <2>5 DEF CallKept, Control
<1> QED
  BY <1>1, <1>2 DEF Truncate

LEMMA RemoveKeeps ==
  ASSUME Types, Control, RemoveChain, UNCHANGED step
  PROVE  CallKept
<1>0. /\ op.at = "remove" /\ op.at # "out" /\ UNCHANGED fp /\ op.call \in Opening /\ ~Fp.fs
      /\ op.ncl \in Clusters
  BY DEF RemoveChain, Control, CallInv, AtOpen, Opening, ScanInv
<1>1. CASE At("back")
  BY <1>0, <1>1, GoesOn, PlacesNamed DEF CallKept, AtOpen, AtFile
<1>2. CASE fs.fat[op.clst] \in Clusters /\ op' = [op EXCEPT !.clst = fs.fat[op.clst]]
  <2>1. /\ OpType' /\ op'.at = "remove" /\ op'.call = op.call /\ op'.file = op.file
        /\ op'.clst \in Clusters /\ op'.ncl \in Clusters
    BY <1>0, <1>2, Constants DEF Types, OpType
  <2>2. FilesType' /\ Fp' = Fp
    BY <1>0, <2>1 DEF FilesType, Types, Fp, file
  <2>3. CallInv'
    BY <1>0, <2>1, <2>2, CallKnown DEF CallInv, AtOpen, AtFile, file
  <2>4. LeftInv' /\ ScanInv' /\ PointerInv'
    BY <1>0, <2>1 DEF LeftInv, ScanInv, PointerInv, Control, Opening
  <2> QED
    BY <2>1, <2>2, <2>3, <2>4 DEF CallKept, Control
<1> QED
  BY <1>1, <1>2 DEF RemoveChain

LEMMA GotKeeps ==
  ASSUME Types, Control, op.at \in {"follow", "scan", "link", "chunk", "byte"}, UNCHANGED step,
         NEW c \in Clusters, GotCluster(c), op.call \in {"write", "lseek", "gets"},
         op.call = "lseek" => op.left > BCS /\ Fp.sclust # 0,
         op.call = "gets" => op.left > 0
  PROVE  /\ CallKept /\ op'.file = op.file /\ op'.at \in {"seek", "place"}
         /\ \A n \in Files : fp'[n].fs = fp[n].fs /\ (n # file => fp'[n] = fp[n])
         /\ Fp'.sclust = IF op.call # "lseek" /\ Fp.sclust = 0 THEN c ELSE Fp.sclust
<1>0. /\ op.at # "out" /\ op.call \notin Opening /\ Fp.fs
      /\ c \in Nat /\ c # 0 /\ c \in Starts /\ BCS \in Nat \ {0}
  BY Constants DEF Control, CallInv, AtFile, Starts
<1>1. file \in Files /\ fp \in [Files -> FileObject] /\ Fp \in FileObject /\ fptr \in Nat
      /\ op.left \in Nat /\ fp[file] = Fp
  BY <1>0, CallKnown DEF Types
<1>2. CASE op.call = "lseek"
  <2>1. /\ fp' = [fp EXCEPT ![file].clust = c, ![file].fptr = fptr + BCS]
        /\ op' = [op EXCEPT !.at = "seek", !.left = op.left - BCS]
    BY <1>2 DEF GotCluster
  <2>2. op.left - BCS \in Nat /\ op.left - BCS # 0
    BY <1>0, <1>1, <1>2
  <2>3. /\ OpType' /\ op'.at = "seek" /\ op'.call = op.call /\ op'.file = op.file
    BY <2>1, <2>2, PlacesNamed DEF Types, OpType
  <2>4. /\ FilesType' /\ Fp'.clust = c /\ Fp'.sclust = Fp.sclust /\ Fp'.fsize = Fp.fsize /\ Fp'.fs
        /\ \A n \in Files : fp'[n].fs = fp[n].fs /\ (n # file => fp'[n] = fp[n])
    BY <1>0, <1>1, <2>1, <2>3 DEF FilesType, FileObject, Fp, file
  <2>5. CallInv'
    BY <1>0, <1>1, <1>2, <2>3, <2>4, CallKnown DEF CallInv, AtOpen, AtFile, file
  <2>6. LeftInv' /\ ScanInv'
    BY <2>3 DEF LeftInv, ScanInv
  <2>7. PointerInv'
    <3>1. \A n \in Files : n # file => fp'[n] = fp[n]
      BY <2>4
    <3>2. fp'[file] = Fp'
      BY <2>3 DEF Fp, file
    <3>3. Fp'.sclust # 0 /\ Fp'.clust # 0
      BY <1>0, <1>2, <2>4
    <3>4. \A n \in Files : fp'[n].fs =>
             /\ fp'[n].fsize # 0 => fp'[n].sclust # 0
             /\ fp'[n].fptr # 0 => fp'[n].sclust # 0 /\ fp'[n].clust # 0
      BY <3>1, <3>2, <3>3 DEF Control, PointerInv
    <3> QED
      BY <2>3, <3>3, <3>4 DEF PointerInv
  <2> QED
    BY <1>2, <2>3, <2>4, <2>5, <2>6, <2>7 DEF CallKept, Control
<1>3. CASE op.call # "lseek"
  <2> DEFINE s == IF Fp.sclust = 0 THEN c ELSE Fp.sclust
  <2>1. /\ fp' = [fp EXCEPT ![file].clust = c, ![file].sclust = s]
        /\ At("place")
    BY <1>1, <1>3 DEF GotCluster
  <2>2. s \in Starts /\ s # 0
    BY <1>0, <1>1 DEF FileObject
  <2>3. /\ OpType' /\ op'.at = "place" /\ op'.call = op.call /\ op'.file = op.file
        /\ op'.left = op.left
    BY <2>1, OpMoves, PlacesNamed DEF Types
  <2> HIDE DEF s
  <2>4. /\ FilesType' /\ Fp'.clust = c /\ Fp'.sclust = s /\ Fp'.fsize = Fp.fsize /\ Fp'.fs
        /\ \A n \in Files : fp'[n].fs = fp[n].fs /\ (n # file => fp'[n] = fp[n])
    BY <1>0, <1>1, <2>1, <2>2, <2>3 DEF FilesType, FileObject, Fp, file
  <2>5. CallInv'
    BY <1>0, <1>1, <1>3, <2>3, <2>4, CallKnown DEF CallInv, AtOpen, AtFile, file
  <2>6. LeftInv' /\ ScanInv'
    BY <1>3, <2>3 DEF LeftInv, ScanInv
  <2>7. PointerInv'
    <3>1. \A n \in Files : n # file => fp'[n] = fp[n]
      BY <2>4
    <3>2. fp'[file] = Fp'
      BY <2>3 DEF Fp, file
    <3>3. Fp'.sclust # 0 /\ Fp'.clust # 0
      BY <1>0, <2>2, <2>4
    <3>4. \A n \in Files : fp'[n].fs =>
             /\ fp'[n].fsize # 0 => fp'[n].sclust # 0
             /\ fp'[n].fptr # 0 => fp'[n].sclust # 0 /\ fp'[n].clust # 0
      BY <3>1, <3>2, <3>3 DEF Control, PointerInv
    <3> QED
      BY <1>3, <2>3, <3>3, <3>4 DEF PointerInv
  <2>8. s = IF op.call # "lseek" /\ Fp.sclust = 0 THEN c ELSE Fp.sclust
    BY <1>3 DEF s
  <2> QED
    BY <2>3, <2>4, <2>5, <2>6, <2>7, <2>8 DEF CallKept, Control
<1> QED
  BY <1>2, <1>3

\* A search begins or goes on.
LEMMA Scans ==
  ASSUME Types, Control, op.at \in {"follow", "scan", "chunk"}, UNCHANGED <<step, fp>>,
         OpType', op'.at \in {"full", "scan"}, op'.ncl \in Clusters,
         op'.call = op.call, op'.file = op.file, op'.left = op.left,
         op.call \in {"write", "lseek"},
         op'.clst # 0 => op'.clst \in Clusters /\ Fp.sclust # 0,
         op'.clst = 0 => op.call = "write",
         op.call = "lseek" => op.left > BCS /\ Fp.sclust # 0 /\ Fp.clust # 0
  PROVE  CallKept
<1>0. op.at # "out" /\ op.call \notin Opening /\ Fp.fs
  BY DEF Control, CallInv, AtFile
<1>1. FilesType' /\ Fp' = Fp
  BY DEF FilesType, Types, Fp, file
<1>2. CallInv'
  BY <1>0, <1>1, CallKnown DEF CallInv, AtOpen, AtFile, file
<1>3. LeftInv' /\ ScanInv'
  BY <1>1 DEF LeftInv, ScanInv
<1>4. PointerInv'
  BY <1>1 DEF PointerInv, Control
<1> QED
  BY <1>1, <1>2, <1>3, <1>4 DEF CallKept, Control

LEMMA FollowKeeps ==
  ASSUME Types, Control, Follow, UNCHANGED step
  PROVE  /\ CallKept
         /\ \A n \in Files : fp'[n].fs = fp[n].fs /\ fp'[n].sclust = fp[n].sclust
<1> DEFINE cs == fs.fat[op.clst]
<1>0. /\ op.at = "follow" /\ op.at # "out" /\ op.clst \in Clusters /\ Fp.sclust # 0 /\ Fp.fs
      /\ op.call \in {"write", "lseek", "gets"}
      /\ op.call = "lseek" => op.left > BCS /\ Fp.clust # 0
      /\ op.call = "gets" => op.left > 0
      /\ file \in Files
  BY CallKnown DEF Follow, Control, CallInv, LeftInv, PointerInv, ScanInv, AtFile
<1>1. CASE Abort("FR_INT_ERR")
  BY <1>0, <1>1, LeavesAsIs DEF CallKept, ResultsNamed, Abort, Types, FileObject
<1>2. CASE cs \in Clusters /\ GotCluster(cs)
  <2>1. /\ CallKept /\ op'.file = op.file
        /\ \A n \in Files : fp'[n].fs = fp[n].fs /\ (n # file => fp'[n] = fp[n])
        /\ Fp'.sclust = Fp.sclust
    BY <1>0, <1>2, GotKeeps
  <2> QED
    BY <2>1 DEF Fp, file
<1>3. CASE op.call # "gets" /\ op' = ScanOp(op.clst + 1, op.clst) /\ UNCHANGED fp
  <2>1. op.clst \in Nat /\ op.clst + 1 \in Nat /\ 1 < op.clst + 1 /\ op.clst # 0
    BY <1>0, Constants
  <2>2. /\ OpType' /\ op'.at \in {"full", "scan"} /\ op'.ncl \in Clusters
        /\ op'.call = op.call /\ op'.file = op.file /\ op'.left = op.left /\ op'.clst = op.clst
    BY <1>3, <2>1, ScanOpType DEF Types
  <2> QED
    BY <1>0, <1>3, <2>1, <2>2, Scans
<1> QED
  BY <1>1, <1>2, <1>3 DEF Follow

LEMMA ScanKeeps ==
  ASSUME Types, Control, Scan, UNCHANGED step
  PROVE  CallKept /\ UNCHANGED fp
<1>0. /\ op.at = "scan" /\ op.at # "out" /\ op.ncl \in Clusters /\ Fp.fs
      /\ op.call \in {"write", "lseek"} /\ UNCHANGED fp
      /\ op.clst # 0 => op.clst \in Clusters /\ Fp.sclust # 0
      /\ op.clst = 0 => op.call = "write"
      /\ op.call = "lseek" => op.left > BCS /\ Fp.sclust # 0 /\ Fp.clust # 0
  BY DEF Scan, Control, CallInv, LeftInv, PointerInv, ScanInv, AtFile
<1>1. /\ OpType' /\ op'.at \in {"full", "scan"} /\ op'.ncl \in Clusters
      /\ op'.call = op.call /\ op'.file = op.file /\ op'.left = op.left /\ op'.clst = op.clst
  <2>1. CASE At("full")
    BY <1>0, <2>1, OpMoves, PlacesNamed DEF Types
  <2>2. CASE op' = ScanOp(op.ncl + 1, op.scl)
    <3>1. op.ncl + 1 \in Nat /\ 1 < op.ncl + 1 /\ op.scl \in Nat
      BY <1>0, Constants, CallKnown
    <3> QED
      BY <2>2, <3>1, ScanOpType DEF Types
  <2> QED
    BY <2>1, <2>2 DEF Scan
<1> QED
  BY <1>0, <1>1, Scans

LEMMA AllocateKeeps ==
  ASSUME Types, Control, Allocate, UNCHANGED step
  PROVE  CallKept
<1>0. /\ op.at = "scan" /\ op.at # "out" /\ op.ncl \in Clusters /\ Fp.fs /\ op.call \notin Opening
      /\ op.call \in {"write", "lseek"}
      /\ op.clst # 0 => op.clst \in Clusters /\ Fp.sclust # 0
      /\ op.clst = 0 => op.call = "write"
      /\ op.call = "lseek" => op.left > BCS /\ Fp.sclust # 0 /\ Fp.clust # 0
  BY DEF Allocate, Control, CallInv, LeftInv, PointerInv, ScanInv, AtFile
<1>1. CASE op.clst = 0 /\ GotCluster(op.ncl)
  BY <1>0, <1>1, GotKeeps
<1>2. CASE op.clst # 0 /\ At("link") /\ UNCHANGED fp
  <2>1. /\ OpType' /\ op'.at = "link" /\ op'.call = op.call /\ op'.file = op.file
        /\ op'.left = op.left /\ op'.clst = op.clst /\ op'.ncl = op.ncl
    BY <1>2, OpMoves, PlacesNamed DEF Types
  <2>2. FilesType' /\ Fp' = Fp
    BY <1>2, <2>1 DEF FilesType, Types, Fp, file
  <2>3. CallInv'
    BY <1>0, <2>1, <2>2, CallKnown DEF CallInv, AtOpen, AtFile, file
  <2>4. LeftInv' /\ ScanInv'
    BY <1>0, <1>2, <2>1, <2>2 DEF LeftInv, ScanInv
  <2>5. PointerInv'
    BY <1>0, <1>2, <2>1, <2>2 DEF PointerInv, Control
  <2> QED
    BY <2>1, <2>2, <2>3, <2>4, <2>5 DEF CallKept, Control
<1> QED
  BY <1>1, <1>2 DEF Allocate

LEMMA LinkKeeps ==
  ASSUME Types, Control, Link, UNCHANGED step
  PROVE  /\ CallKept /\ op'.at \in {"seek", "place"}
         /\ \A n \in Files : fp'[n].fs = fp[n].fs /\ fp'[n].sclust = fp[n].sclust
<1>0. /\ op.at = "link" /\ op.at # "out" /\ op.ncl \in Clusters /\ Fp.sclust # 0
      /\ op.call \in {"write", "lseek"}
      /\ op.call = "lseek" => op.left > BCS
  BY DEF Link, Control, CallInv, LeftInv, PointerInv, ScanInv, AtFile
<1>1. /\ CallKept /\ op'.file = op.file /\ op'.at \in {"seek", "place"}
      /\ \A n \in Files : fp'[n].fs = fp[n].fs /\ (n # file => fp'[n] = fp[n])
      /\ Fp'.sclust = Fp.sclust
  BY <1>0, GotKeeps DEF Link
<1> QED
  BY <1>1 DEF Fp, file

\* A file object that changes, in a call that goes on or returns.
LEMMA FileMoves ==
  ASSUME Types, Control, op.at \in AtFile, UNCHANGED step, NEW o \in FileObject,
         fp' = [fp EXCEPT ![file] = o],
         o.fsize # 0 => o.sclust # 0,
         o.fptr # 0 => o.sclust # 0 /\ o.clust # 0,
         OpType', op'.call = op.call, op'.file = op.file,
         op'.at \in {"ret", "chunk", "copy", "place", "seek", "byte", "flush", "sync"},
         op'.at # "ret" => o.fs,
         op'.at \in {"place", "copy"} => /\ op.call \in {"write", "gets"}
                                         /\ o.sclust # 0 /\ o.clust # 0
                                         /\ op.call = "gets" => op'.left > 0,
         op'.at = "byte" => op.call = "gets",
         op'.at = "seek" => /\ op.call = "lseek"
                            /\ op'.left = 0 \/ (o.sclust # 0 /\ o.clust # 0)
  PROVE  CallKept /\ (\A n \in Files : fp'[n] = IF n = file THEN o ELSE fp[n])
<1>0. op.at # "out" /\ op.call \notin Opening /\ file \in Files /\ fp \in [Files -> FileObject]
      /\ step \in Steps /\ op.call \in Calls
  BY CallKnown DEF Control, CallInv, AtFile, Types
<1>1. FilesType' /\ (\A n \in Files : fp'[n] = IF n = file THEN o ELSE fp[n])
  BY <1>0 DEF FilesType
<1>2. Fp' = o
  BY <1>0, <1>1 DEF Fp, file
<1>3. CallInv'
  BY <1>0, <1>2 DEF CallInv, AtOpen, AtFile, file
<1>4. LeftInv' /\ ScanInv'
  BY DEF LeftInv, ScanInv
<1>5. \A n \in Files : fp'[n].fs =>
         /\ fp'[n].fsize # 0 => fp'[n].sclust # 0
         /\ fp'[n].fptr # 0 => fp'[n].sclust # 0 /\ fp'[n].clust # 0
  BY <1>1 DEF Control, PointerInv
<1>6. PointerInv'
  BY <1>2, <1>5 DEF PointerInv
<1> QED
  BY <1>1, <1>3, <1>4, <1>6 DEF CallKept, Control

\* The chain of the file is followed.
LEMMA Follows ==
  ASSUME Types, Control, op.at \in AtFile, UNCHANGED <<step, fp>>,
         op' = [op EXCEPT !.at = "follow", !.clst = Fp.clust],
         Fp.clust # 0, Fp.sclust # 0, op.call \in {"write", "lseek", "gets"},
         op.call = "lseek" => op.left > BCS,
         op.call = "gets" => op.left > 0
  PROVE  CallKept
<1>0. op.at # "out" /\ op.call \notin Opening /\ Fp.fs
  BY DEF Control, CallInv, AtFile
<1>1. Fp.clust \in Clusters /\ Fp.clust \in Nat
  BY <1>0, CallKnown, Constants DEF FileObject, Starts
<1>2. /\ OpType' /\ op'.at = "follow" /\ op'.call = op.call /\ op'.file = op.file
      /\ op'.left = op.left /\ op'.clst = Fp.clust
  BY <1>1, PlacesNamed DEF Types, OpType
<1>3. FilesType' /\ Fp' = Fp
  BY <1>2 DEF FilesType, Types, Fp, file
<1>4. CallInv'
  BY <1>0, <1>2, <1>3, CallKnown DEF CallInv, AtOpen, AtFile, file
<1>5. LeftInv' /\ ScanInv'
  BY <1>1, <1>2, <1>3 DEF LeftInv, ScanInv
<1>6. PointerInv'
  BY <1>0, <1>2, <1>3 DEF PointerInv, Control
<1> QED
  BY <1>2, <1>3, <1>4, <1>5, <1>6 DEF CallKept, Control

\* What a step inside a call does to where the files start: nothing.
StartsKept == \A n \in Files : fp'[n].fs = fp[n].fs /\ fp'[n].sclust = fp[n].sclust

LEMMA ErrStarts ==
  ASSUME Types, Control, op.at # "out",
         UNCHANGED fp \/ fp' = [fp EXCEPT ![file].err = TRUE]
  PROVE  StartsKept
BY CallKnown DEF StartsKept, Types, FileObject

LEMMA WriteBackKeeps ==
  ASSUME Types, Control, WriteBack, UNCHANGED step
  PROVE  CallKept /\ StartsKept
<1> DEFINE o == [Fp EXCEPT !.dirty = FALSE]
<1>0. op.at \in {"place", "flush"} /\ op.at # "out" /\ op.at \in AtFile /\ Fp.fs
  BY DEF WriteBack, AtFile, Control, CallInv
<1>1. Fp \in FileObject /\ file \in Files /\ Fp = fp[file] /\ fp \in [Files -> FileObject]
  BY <1>0, CallKnown DEF Types
<1>2. CASE fp' = [fp EXCEPT ![file].dirty = FALSE] /\ UNCHANGED op
  <2>1. fp' = [fp EXCEPT ![file] = o]
    BY <1>1, <1>2
  <2>2. /\ o \in FileObject /\ o.fs = Fp.fs /\ o.sclust = Fp.sclust /\ o.clust = Fp.clust
        /\ o.fsize = Fp.fsize /\ o.fptr = Fp.fptr
    BY <1>1 DEF FileObject
  <2>3. /\ o.fsize # 0 => o.sclust # 0
        /\ o.fptr # 0 => o.sclust # 0 /\ o.clust # 0
    BY <1>0, <1>1, <2>2 DEF Control, PointerInv
  <2>4. OpType' /\ op' = op
    BY <1>2 DEF OpType, Types
  <2>5. op.at = "place" => /\ op.call \in {"write", "gets"} /\ o.sclust # 0 /\ o.clust # 0
                           /\ op.call = "gets" => op'.left > 0
    BY <2>2, <2>4 DEF Control, CallInv, PointerInv, LeftInv
  <2> HIDE DEF o
  <2>6. CallKept /\ (\A n \in Files : fp'[n] = IF n = file THEN o ELSE fp[n])
    BY <1>0, <2>1, <2>2, <2>3, <2>4, <2>5, FileMoves
  <2> QED
    BY <1>1, <2>2, <2>6 DEF StartsKept
<1>3. CASE FailCall("FR_DISK_ERR")
  <2>1. UNCHANGED fp \/ fp' = [fp EXCEPT ![file].err = TRUE]
    BY <1>3 DEF FailCall, Abort
  <2> QED
    BY <1>0, <1>3, <2>1, LeavesAsIs, ErrStarts DEF CallKept, ResultsNamed
<1> QED
  BY <1>2, <1>3 DEF WriteBack, DiskWrite

LEMMA PlaceKeeps ==
  ASSUME Types, Control, Place, UNCHANGED step
  PROVE  CallKept /\ StartsKept
<1> DEFINE sect == Clust2Sect(fp[file].clust, csect)
<1>0. /\ op.at = "place" /\ op.at # "out" /\ op.at \in AtFile /\ Fp.fs
      /\ Fp.sclust # 0 /\ Fp.clust # 0 /\ op.call \in {"write", "gets"}
      /\ op.call = "gets" => op.left > 0
  BY DEF Place, AtFile, Control, CallInv, PointerInv, LeftInv
<1>1. Fp \in FileObject /\ file \in Files /\ Fp = fp[file] /\ fp \in [Files -> FileObject]
      /\ csect \in 0 .. CSize - 1
  BY <1>0, CallKnown DEF Types
<1>2. sect \in DataSectors
  <2>1. Fp.clust \in Clusters
    BY <1>0, <1>1 DEF FileObject, Starts
  <2> QED
    BY <1>1, <2>1, SectorOfCluster
<1>3. disk.data[sect] \in Sector
  BY <1>2 DEF Types, DiskType, CardState
<1> HIDE DEF sect
<1>4. CASE At("copy") /\ \E b \in Sector : fp' = [fp EXCEPT ![file] = [Fp EXCEPT !.buf = b, !.dsect = sect]]
  <2>1. PICK b \in Sector : fp' = [fp EXCEPT ![file] = [Fp EXCEPT !.buf = b, !.dsect = sect]]
    BY <1>4
  <2> DEFINE o == [Fp EXCEPT !.buf = b, !.dsect = sect]
  <2>2. /\ o \in FileObject /\ o.fs = Fp.fs /\ o.sclust = Fp.sclust /\ o.clust = Fp.clust
        /\ o.fsize = Fp.fsize /\ o.fptr = Fp.fptr
    BY <1>1, <1>2 DEF FileObject
  <2>3. /\ OpType' /\ op'.at = "copy" /\ op'.call = op.call /\ op'.file = op.file
        /\ op'.left = op.left
    BY <1>4, OpMoves, PlacesNamed DEF Types
  <2>4. fp' = [fp EXCEPT ![file] = o]
    BY <2>1
  <2> HIDE DEF o
  <2>5. CallKept /\ (\A n \in Files : fp'[n] = IF n = file THEN o ELSE fp[n])
    BY <1>0, <2>2, <2>3, <2>4, FileMoves
  <2> QED
    BY <1>1, <2>2, <2>5 DEF StartsKept
<1>5. CASE FailCall("FR_DISK_ERR")
  <2>1. UNCHANGED fp \/ fp' = [fp EXCEPT ![file].err = TRUE]
    BY <1>5 DEF FailCall, Abort
  <2> QED
    BY <1>0, <1>5, <2>1, LeavesAsIs, ErrStarts DEF CallKept, ResultsNamed
<1>6. fp' = [fp EXCEPT ![file].buf = disk.data[sect], ![file].dsect = sect]
        => fp' = [fp EXCEPT ![file] = [Fp EXCEPT !.buf = disk.data[sect], !.dsect = sect]]
  BY <1>1
<1>7. fp' = [fp EXCEPT ![file].dsect = sect]
        => fp' = [fp EXCEPT ![file] = [Fp EXCEPT !.buf = Fp.buf, !.dsect = sect]]
  BY <1>1 DEF FileObject
<1>8. Fp.buf \in Sector
  BY <1>1 DEF FileObject
<1>9. \/ /\ At("copy")
         /\ \/ fp' = [fp EXCEPT ![file].buf = disk.data[sect], ![file].dsect = sect]
            \/ fp' = [fp EXCEPT ![file].dsect = sect]
      \/ FailCall("FR_DISK_ERR")
  BY DEF Place, DiskRead, sect
<1> QED
  BY <1>3, <1>4, <1>5, <1>6, <1>7, <1>8, <1>9

\* Of a write or a read that has come to its next unit.
LEMMA ChunkKnown ==
  ASSUME Types, Control, op.at \in AtFile
  PROVE  /\ op.at # "out" /\ op.call \notin Opening /\ Fp.fs
         /\ Fp \in FileObject /\ file \in Files /\ Fp = fp[file] /\ fp \in [Files -> FileObject]
         /\ fptr = Fp.fptr
         /\ Fp.fsize # 0 => Fp.sclust # 0
         /\ fptr # 0 => Fp.sclust # 0 /\ Fp.clust # 0
<1>1. op.at # "out" /\ op.call \notin Opening /\ Fp.fs
  BY DEF AtFile, Control, CallInv
<1>2. Fp \in FileObject /\ file \in Files /\ Fp = fp[file] /\ fp \in [Files -> FileObject]
      /\ fptr = Fp.fptr
  BY <1>1, CallKnown DEF Types
<1> QED
  BY <1>1, <1>2 DEF Control, PointerInv

LEMMA NextChunkKeeps ==
  ASSUME Types, Control, NextChunk, UNCHANGED step
  PROVE  CallKept /\ StartsKept
<1>0. /\ op.at = "chunk" /\ op.at \in AtFile /\ op.call = "write"
  BY DEF NextChunk, AtFile
<1>1. /\ op.at # "out" /\ op.call \notin Opening /\ Fp.fs
      /\ Fp \in FileObject /\ file \in Files /\ Fp = fp[file] /\ fp \in [Files -> FileObject]
      /\ fptr # 0 => Fp.sclust # 0 /\ Fp.clust # 0
  BY <1>0, ChunkKnown
<1>2. csect # 0 => fptr # 0
  BY <1>1, CallKnown
<1>3. fptr % SS # 0 => fptr # 0
  BY <1>1, CallKnown
<1>4. CASE UNCHANGED fp /\ fptr # 0 /\ (At("copy") \/ At("place"))
  BY <1>0, <1>1, <1>4, GoesOn, PlacesNamed DEF CallKept, AtOpen, AtFile, StartsKept
<1>5. CASE fptr = 0 /\ Fp.sclust # 0 /\ GotCluster(Fp.sclust)
  <2>1. Fp.sclust \in Clusters
    BY <1>1, <1>5 DEF FileObject, Starts
  <2>2. /\ CallKept /\ op'.file = op.file
        /\ \A n \in Files : fp'[n].fs = fp[n].fs /\ (n # file => fp'[n] = fp[n])
        /\ Fp'.sclust = Fp.sclust
    BY <1>0, <1>5, <2>1, GotKeeps
  <2> QED
    BY <1>1, <2>2 DEF Fp, file, StartsKept
<1>6. CASE NewChain /\ UNCHANGED fp
  <2> DEFINE s == IF fs.last = 0 \/ fs.last >= NFatEnt THEN 1 ELSE fs.last
             w == IF s + 1 >= NFatEnt THEN 2 ELSE s + 1
  <2>1. s \in Nat /\ s + 1 \in Nat /\ 1 < s + 1
    BY Constants DEF Types, FsType, VolumeState
  <2>2. w \in Clusters /\ w \in Nat
    BY <2>1, Constants
  <2>3. op' = [ScanOp(s + 1, s) EXCEPT !.clst = 0]
    BY <1>6 DEF NewChain
  <2>4. op' = [op EXCEPT !.scl = s, !.ncl = w, !.clst = 0,
                       !.at = IF s + 1 >= NFatEnt /\ 2 > s THEN "full" ELSE "scan"]
    BY <2>3 DEF ScanOp, Types, OpType
  <2>5. {"full", "scan"} \subseteq Places
    BY PlacesNamed
  <2> HIDE DEF w, s
  <2>6. /\ OpType' /\ op'.at \in {"full", "scan"} /\ op'.ncl \in Clusters
        /\ op'.call = op.call /\ op'.file = op.file /\ op'.left = op.left /\ op'.clst = 0
    BY <2>1, <2>2, <2>4, <2>5 DEF OpType, Types
  <2> QED
    BY <1>0, <1>6, <2>6, Scans DEF StartsKept
<1>7. CASE op' = [op EXCEPT !.at = "follow", !.clst = fp[file].clust] /\ UNCHANGED fp /\ fptr # 0
  BY <1>0, <1>1, <1>7, Follows DEF StartsKept
<1> QED
  BY <1>1, <1>2, <1>3, <1>4, <1>5, <1>6, <1>7 DEF NextChunk

LEMMA CopyInKeeps ==
  ASSUME Types, Control, CopyIn, UNCHANGED step
  PROVE  CallKept /\ StartsKept
<1> DEFINE at == fptr % SS
           room == SS - at
           n == IF op.left < room THEN op.left ELSE room
           buf == [i \in 0 .. SS - 1 |-> IF i \in at .. at + n - 1
                              THEN <<file, mounts, fptr - at + i>> ELSE fp[file].buf[i]]
           o == [Fp EXCEPT !.fptr = fptr + n, !.dirty = TRUE, !.buf = buf]
<1>0. op.at = "copy" /\ op.call = "write" /\ op.at \in AtFile
  BY DEF CopyIn, AtFile
<1>1. /\ op.at # "out" /\ Fp.fs
      /\ Fp \in FileObject /\ file \in Files /\ Fp = fp[file] /\ fp \in [Files -> FileObject]
      /\ Fp.sclust # 0 /\ Fp.clust # 0 /\ fptr \in Nat /\ op.left \in Nat
  BY <1>0, ChunkKnown, CallKnown DEF Control, PointerInv
<1>2. at \in Nat /\ at < SS /\ at <= fptr /\ SS \in Nat
  <2>1. \A p \in Nat, s \in Nat \ {0} : p % s \in Nat /\ p % s < s /\ p % s <= p
    OBVIOUS
  <2> QED
    BY <1>1, <2>1, Constants
<1>3. n \in Nat /\ op.left - n \in Nat /\ fptr + n \in Nat
  BY <1>1, <1>2
<1>4. buf \in Sector
  <2> HIDE DEF n, at
  <2>1. \A i \in 0 .. SS - 1 : fptr - at + i \in Nat
    BY <1>1, <1>2
  <2>2. mounts \in Nat
    BY LogFilesAssumption DEF Types, Counted
  <2>3. \A i \in 0 .. SS - 1 : fp[file].buf[i] \in Unit
    BY <1>1 DEF FileObject, Sector
  <2>4. \A i \in 0 .. SS - 1 : <<file, mounts, fptr - at + i>> \in Unit
    BY <1>1, <2>1, <2>2 DEF Unit
  <2> QED
    BY <2>3, <2>4 DEF Sector
<1>5. fp' = [fp EXCEPT ![file].fptr = fptr + n, ![file].dirty = TRUE, ![file].buf = buf]
      /\ op' = [op EXCEPT !.at = "chunk", !.left = op.left - n]
  BY DEF CopyIn
<1> HIDE DEF n, at, room, buf
<1>6. fp' = [fp EXCEPT ![file] = o]
  BY <1>1, <1>5
<1>7. /\ o \in FileObject /\ o.fs = Fp.fs /\ o.sclust = Fp.sclust /\ o.clust = Fp.clust
  BY <1>1, <1>3, <1>4 DEF FileObject
<1>8. /\ OpType' /\ op'.at = "chunk" /\ op'.call = op.call /\ op'.file = op.file
  BY <1>3, <1>5, PlacesNamed DEF Types, OpType
<1> HIDE DEF o
<1>9. CallKept /\ (\A m \in Files : fp'[m] = IF m = file THEN o ELSE fp[m])
  BY <1>0, <1>1, <1>6, <1>7, <1>8, FileMoves
<1> QED
  BY <1>1, <1>7, <1>9 DEF StartsKept

LEMMA WriteEndsKeeps ==
  ASSUME Types, Control, WriteEnds, UNCHANGED step
  PROVE  CallKept /\ StartsKept /\ op'.at = "ret"
<1> DEFINE size == IF fptr > fp[file].fsize THEN fptr ELSE fp[file].fsize
           o == [Fp EXCEPT !.fsize = size, !.written = TRUE]
<1>0. op.at \in AtFile /\ Leave("FR_OK")
      /\ fp' = [fp EXCEPT ![file].fsize = size, ![file].written = TRUE]
  BY DEF WriteEnds, AtFile
<1>1. /\ op.at # "out" /\ Fp.fs
      /\ Fp \in FileObject /\ file \in Files /\ Fp = fp[file] /\ fp \in [Files -> FileObject]
      /\ fptr = Fp.fptr /\ fptr \in Nat
      /\ Fp.fsize # 0 => Fp.sclust # 0
      /\ fptr # 0 => Fp.sclust # 0 /\ Fp.clust # 0
  BY <1>0, ChunkKnown, CallKnown
<1>2. size \in Nat /\ size \in {fptr, Fp.fsize}
  BY <1>1 DEF FileObject
<1> HIDE DEF size
<1>3. fp' = [fp EXCEPT ![file] = o]
  BY <1>0, <1>1
<1>4. /\ o \in FileObject /\ o.fs = Fp.fs /\ o.sclust = Fp.sclust /\ o.clust = Fp.clust
      /\ o.fsize = size /\ o.fptr = fptr
  BY <1>1, <1>2 DEF FileObject
<1>5. /\ OpType' /\ op'.at = "ret" /\ op'.call = op.call /\ op'.file = op.file
  BY <1>0, OpMoves DEF Types
<1> HIDE DEF o
<1>6. CallKept /\ (\A m \in Files : fp'[m] = IF m = file THEN o ELSE fp[m])
  BY <1>0, <1>1, <1>2, <1>3, <1>4, <1>5, FileMoves
<1> QED
  BY <1>1, <1>4, <1>5, <1>6 DEF StartsKept

LEMMA SeekTopKeeps ==
  ASSUME Types, Control, SeekTop, UNCHANGED step
  PROVE  CallKept /\ StartsKept
<1> DEFINE o == [Fp EXCEPT !.fptr = 0, !.clust = Fp.sclust]
<1>0. op.at = "top" /\ op.at \in AtFile /\ At("seek") /\ op.call = "lseek" /\ Fp.sclust # 0
  BY DEF SeekTop, AtFile, Control, CallInv, PointerInv
<1>1. /\ Fp.fs
      /\ Fp \in FileObject /\ file \in Files /\ Fp = fp[file] /\ fp \in [Files -> FileObject]
  BY <1>0, ChunkKnown
<1>2. fp' = [fp EXCEPT ![file] = o]
  BY <1>1 DEF SeekTop
<1>3. /\ o \in FileObject /\ o.fs = Fp.fs /\ o.sclust = Fp.sclust /\ o.clust = Fp.sclust
  BY <1>1 DEF FileObject
<1>4. /\ OpType' /\ op'.at = "seek" /\ op'.call = op.call /\ op'.file = op.file
  BY <1>0, OpMoves, PlacesNamed DEF Types
<1> HIDE DEF o
<1>5. CallKept /\ (\A m \in Files : fp'[m] = IF m = file THEN o ELSE fp[m])
  BY <1>0, <1>1, <1>2, <1>3, <1>4, FileMoves
<1> QED
  BY <1>1, <1>3, <1>5 DEF StartsKept

LEMMA SeekKeeps ==
  ASSUME Types, Control, Seek, UNCHANGED step
  PROVE  CallKept /\ StartsKept
<1>0. op.at \in {"full", "seek"} /\ op.at \in AtFile /\ op.call = "lseek" /\ UNCHANGED fp
  BY DEF Seek, AtFile
<1>1. /\ op.at # "out" /\ Fp.fs
      /\ Fp \in FileObject /\ file \in Files /\ Fp = fp[file] /\ fp \in [Files -> FileObject]
      /\ Fp.fsize # 0 => Fp.sclust # 0
      /\ Fp.fptr # 0 => Fp.sclust # 0 /\ Fp.clust # 0
      /\ op.left \in Nat
  BY <1>0, ChunkKnown, CallKnown
<1>2. CASE op.at = "full"
  <2>1. op' = [op EXCEPT !.at = "seek", !.left = BCS]
    BY <1>2 DEF Seek
  <2>2. /\ OpType' /\ op'.at = "seek" /\ op'.call = op.call /\ op'.file = op.file
    BY <2>1, Constants, PlacesNamed DEF Types, OpType
  <2>3. fp' = [fp EXCEPT ![file] = Fp]
    BY <1>0, <1>1
  <2>4. Fp.sclust # 0 /\ Fp.clust # 0
    BY <1>0, <1>2 DEF Control, PointerInv
  <2> QED
    BY <1>0, <1>1, <2>2, <2>3, <2>4, FileMoves DEF StartsKept
<1>3. CASE op.at = "seek" /\ op.left > BCS
  <2>1. op' = [op EXCEPT !.at = "follow", !.clst = Fp.clust]
    BY <1>1, <1>3 DEF Seek
  <2>2. op.left # 0
    BY <1>3, <1>1, Constants
  <2>3. Fp.sclust # 0 /\ Fp.clust # 0
    BY <1>3, <2>2 DEF Control, PointerInv
  <2> QED
    BY <1>0, <1>3, <2>1, <2>3, Follows DEF StartsKept
<1> QED
  BY <1>2, <1>3 DEF Seek

LEMMA SeekEndsKeeps ==
  ASSUME Types, Control, SeekEnds, UNCHANGED step
  PROVE  CallKept /\ StartsKept /\ op'.at = "ret"
<1> DEFINE sect == Clust2Sect(fp[file].clust, op.left \div SS)
<1>0. op.at = "seek" /\ op.at \in AtFile /\ op.left <= BCS
  BY DEF SeekEnds, AtFile
<1>1. /\ op.at # "out" /\ Fp.fs
      /\ Fp \in FileObject /\ file \in Files /\ Fp = fp[file] /\ fp \in [Files -> FileObject]
      /\ Fp.fsize # 0 => Fp.sclust # 0
      /\ fptr = Fp.fptr /\ fptr \in Nat /\ op.left \in Nat /\ fptr + op.left \in Nat
      /\ fptr + op.left # 0 => Fp.sclust # 0 /\ Fp.clust # 0
  <2>1. /\ op.at # "out" /\ Fp.fs
        /\ Fp \in FileObject /\ file \in Files /\ Fp = fp[file] /\ fp \in [Files -> FileObject]
        /\ Fp.fsize # 0 => Fp.sclust # 0
        /\ fptr = Fp.fptr /\ fptr \in Nat /\ op.left \in Nat
        /\ fptr # 0 => Fp.sclust # 0 /\ Fp.clust # 0
    BY <1>0, ChunkKnown, CallKnown
  <2>2. op.left # 0 => Fp.sclust # 0 /\ Fp.clust # 0
    BY <1>0 DEF Control, PointerInv
  <2>3. fptr + op.left # 0 => fptr # 0 \/ op.left # 0
    BY <2>1
  <2> QED
    BY <2>1, <2>2, <2>3
\* The pointer is moved, and the buffer with it when the sector is read.
<1>2. ASSUME NEW b \in Sector, NEW d \in {0} \cup DataSectors, NEW e \in BOOLEAN,
             NEW r \in ResultsNamed, Leave(r),
             fp' = [fp EXCEPT ![file] = [Fp EXCEPT !.fptr = fptr + op.left, !.buf = b,
                                                   !.dsect = d, !.err = e]]
      PROVE  CallKept /\ StartsKept /\ op'.at = "ret"
  <2> DEFINE o == [Fp EXCEPT !.fptr = fptr + op.left, !.buf = b, !.dsect = d, !.err = e]
  <2>1. /\ o \in FileObject /\ o.fs = Fp.fs /\ o.sclust = Fp.sclust /\ o.clust = Fp.clust
        /\ o.fsize = Fp.fsize /\ o.fptr = fptr + op.left
    BY <1>1 DEF FileObject
  <2>2. /\ OpType' /\ op'.at = "ret" /\ op'.call = op.call /\ op'.file = op.file
    BY <1>2, OpMoves DEF Types, ResultsNamed
  <2>3. fp' = [fp EXCEPT ![file] = o]
    BY <1>2
  <2> HIDE DEF o
  <2>4. CallKept /\ (\A m \in Files : fp'[m] = IF m = file THEN o ELSE fp[m])
    BY <1>0, <1>1, <2>1, <2>2, <2>3, FileMoves
  <2> QED
    BY <1>1, <2>1, <2>2, <2>4 DEF StartsKept
<1>3. /\ Fp.buf \in Sector /\ Fp.dsect \in {0} \cup DataSectors /\ Fp.err \in BOOLEAN
      /\ {"FR_OK", "FR_DISK_ERR"} \subseteq ResultsNamed
  BY <1>1 DEF FileObject, ResultsNamed
<1>4. CASE op.left % SS # 0
  <2>1. sect \in DataSectors
    <3>1. op.left # 0 /\ op.left \div SS \in 0 .. CSize - 1
      BY <1>0, <1>1, <1>4, PlaceOfPointer
    <3>2. Fp.clust \in Clusters
      BY <1>0, <1>1, <3>1 DEF FileObject, Starts, Control, PointerInv
    <3> QED
      BY <1>1, <3>1, <3>2, SectorOfCluster
  <2>2. disk.data[sect] \in Sector
    BY <2>1 DEF Types, DiskType, CardState
  <2> HIDE DEF sect
  <2> DEFINE sought == [fp EXCEPT ![file].fptr = fptr + op.left]
  <2>3. \/ /\ fp' = [sought EXCEPT ![file].buf = disk.data[sect], ![file].dsect = sect]
           /\ Leave("FR_OK")
        \/ Leave("FR_DISK_ERR") /\ fp' = [sought EXCEPT ![file].err = TRUE]
    BY <1>4 DEF SeekEnds, DiskRead, sect
  <2>4. CASE /\ fp' = [sought EXCEPT ![file].buf = disk.data[sect], ![file].dsect = sect]
             /\ Leave("FR_OK")
    <3>1. fp' = [fp EXCEPT ![file] = [Fp EXCEPT !.fptr = fptr + op.left, !.buf = disk.data[sect],
                                                !.dsect = sect, !.err = Fp.err]]
      BY <1>1, <2>4 DEF FileObject
    <3> QED
      BY <1>2, <1>3, <2>1, <2>2, <2>4, <3>1
  <2>5. CASE Leave("FR_DISK_ERR") /\ fp' = [sought EXCEPT ![file].err = TRUE]
    <3>1. fp' = [fp EXCEPT ![file] = [Fp EXCEPT !.fptr = fptr + op.left, !.buf = Fp.buf,
                                                !.dsect = Fp.dsect, !.err = TRUE]]
      BY <1>1, <2>5 DEF FileObject
    <3> QED
      BY <1>2, <1>3, <2>5, <3>1
  <2> QED
    BY <2>3, <2>4, <2>5
<1>5. CASE op.left % SS = 0
  <2>1. fp' = [fp EXCEPT ![file].fptr = fptr + op.left] /\ Leave("FR_OK")
    BY <1>5 DEF SeekEnds
  <2>2. fp' = [fp EXCEPT ![file] = [Fp EXCEPT !.fptr = fptr + op.left, !.buf = Fp.buf,
                                              !.dsect = Fp.dsect, !.err = Fp.err]]
    BY <1>1, <2>1 DEF FileObject
  <2> QED
    BY <1>2, <1>3, <2>1, <2>2
<1> QED
  BY <1>4, <1>5

LEMMA NextByteKeeps ==
  ASSUME Types, Control, NextByte, UNCHANGED step
  PROVE  CallKept /\ StartsKept
<1>0. op.at = "byte" /\ op.at \in AtFile /\ op.left > 0
  BY DEF NextByte, AtFile
<1>1. /\ op.at # "out" /\ op.call \notin Opening /\ Fp.fs
      /\ Fp \in FileObject /\ file \in Files /\ Fp = fp[file] /\ fp \in [Files -> FileObject]
      /\ fptr # 0 => Fp.sclust # 0 /\ Fp.clust # 0
  BY <1>0, ChunkKnown
<1>2. op.call = "gets"
  BY <1>0 DEF Control, CallInv
<1>3. (csect # 0 => fptr # 0) /\ (fptr % SS # 0 => fptr # 0)
  BY <1>1, CallKnown
<1>4. CASE UNCHANGED fp /\ fptr # 0 /\ (At("copy") \/ At("place"))
  BY <1>0, <1>1, <1>2, <1>4, GoesOn, PlacesNamed DEF CallKept, AtOpen, AtFile, StartsKept
<1>5. CASE Fp.sclust # 0 /\ GotCluster(Fp.sclust)
  <2>1. Fp.sclust \in Clusters
    BY <1>1, <1>5 DEF FileObject, Starts
  <2>2. /\ CallKept /\ op'.file = op.file
        /\ \A n \in Files : fp'[n].fs = fp[n].fs /\ (n # file => fp'[n] = fp[n])
        /\ Fp'.sclust = Fp.sclust
    BY <1>0, <1>2, <1>5, <2>1, GotKeeps
  <2> QED
    BY <1>1, <2>2 DEF Fp, file, StartsKept
<1>6. CASE Abort("FR_INT_ERR")
  <2>1. fp' = [fp EXCEPT ![file].err = TRUE]
    BY <1>6 DEF Abort
  <2> QED
    BY <1>1, <1>6, <2>1, LeavesAsIs, ErrStarts DEF CallKept, ResultsNamed
<1>7. CASE op' = [op EXCEPT !.at = "follow", !.clst = fp[file].clust] /\ UNCHANGED fp /\ fptr # 0
  BY <1>0, <1>1, <1>2, <1>7, Follows DEF StartsKept
<1> QED
  BY <1>1, <1>3, <1>4, <1>5, <1>6, <1>7 DEF NextByte

LEMMA CopyOutKeeps ==
  ASSUME Types, Control, CopyOut, UNCHANGED step
  PROVE  CallKept /\ StartsKept
<1> DEFINE left == IF fp[file].buf[fptr % SS] \in Newlines THEN 0 ELSE op.left - 1
           o == [Fp EXCEPT !.fptr = fptr + 1]
<1>0. op.at = "copy" /\ op.at \in AtFile /\ op.call = "gets" /\ op.left > 0
  BY DEF CopyOut, AtFile, Control, LeftInv
<1>1. /\ op.at # "out" /\ Fp.fs
      /\ Fp \in FileObject /\ file \in Files /\ Fp = fp[file] /\ fp \in [Files -> FileObject]
      /\ Fp.sclust # 0 /\ Fp.clust # 0 /\ fptr \in Nat /\ op.left \in Nat
  BY <1>0, ChunkKnown, CallKnown DEF Control, PointerInv
<1>2. left \in Nat /\ fptr + 1 \in Nat
  BY <1>0, <1>1
<1>3. fp' = [fp EXCEPT ![file].fptr = fptr + 1] /\ op' = [op EXCEPT !.at = "byte", !.left = left]
  BY DEF CopyOut
<1> HIDE DEF left
<1>4. fp' = [fp EXCEPT ![file] = o]
  BY <1>1, <1>3
<1>5. /\ o \in FileObject /\ o.fs = Fp.fs /\ o.sclust = Fp.sclust /\ o.clust = Fp.clust
  BY <1>1, <1>2 DEF FileObject
<1>6. /\ OpType' /\ op'.at = "byte" /\ op'.call = op.call /\ op'.file = op.file
  BY <1>2, <1>3, PlacesNamed DEF Types, OpType
<1> HIDE DEF o
<1>7. CallKept /\ (\A m \in Files : fp'[m] = IF m = file THEN o ELSE fp[m])
  BY <1>0, <1>1, <1>4, <1>5, <1>6, FileMoves
<1> QED
  BY <1>1, <1>5, <1>7 DEF StartsKept

LEMMA GetsEndsKeeps ==
  ASSUME Types, Control, GetsEnds, UNCHANGED step
  PROVE  CallKept /\ StartsKept
<1>1. op.at # "out" /\ Leave("FR_OK") /\ UNCHANGED fp
  BY DEF GetsEnds
<1> QED
  BY <1>1, LeavesAsIs DEF CallKept, ResultsNamed, StartsKept

LEMMA FlushKeeps ==
  ASSUME Types, Control, Flushed \/ SyncFs, UNCHANGED step
  PROVE  CallKept /\ StartsKept
<1>1. PICK l \in {"entry", "synced"} : At(l) /\ UNCHANGED fp
  BY DEF Flushed, SyncFs
<1>2. op.at \in AtFile
  BY DEF Flushed, SyncFs, AtFile
<1>3. op.at # "out" /\ op.call \notin Opening /\ Fp.fs
  BY <1>2, ChunkKnown
<1> QED
  BY <1>1, <1>3, GoesOn, PlacesNamed DEF CallKept, AtOpen, AtFile, StartsKept

LEMMA UpdateEntryKeeps ==
  ASSUME Types, Control, UpdateEntry, UNCHANGED step
  PROVE  CallKept /\ StartsKept
<1> DEFINE o == [Fp EXCEPT !.written = FALSE]
<1>0. op.at = "entry" /\ op.at \in AtFile /\ At("sync")
  BY DEF UpdateEntry, AtFile
<1>1. /\ Fp.fs
      /\ Fp \in FileObject /\ file \in Files /\ Fp = fp[file] /\ fp \in [Files -> FileObject]
      /\ fptr = Fp.fptr
      /\ Fp.fsize # 0 => Fp.sclust # 0
      /\ fptr # 0 => Fp.sclust # 0 /\ Fp.clust # 0
  BY <1>0, ChunkKnown
<1>2. fp' = [fp EXCEPT ![file] = o]
  BY <1>1 DEF UpdateEntry
<1>3. /\ o \in FileObject /\ o.fs = Fp.fs /\ o.sclust = Fp.sclust /\ o.clust = Fp.clust
      /\ o.fsize = Fp.fsize /\ o.fptr = Fp.fptr
  BY <1>1 DEF FileObject
<1>4. /\ OpType' /\ op'.at = "sync" /\ op'.call = op.call /\ op'.file = op.file
  BY <1>0, OpMoves, PlacesNamed DEF Types
<1> HIDE DEF o
<1>5. CallKept /\ (\A m \in Files : fp'[m] = IF m = file THEN o ELSE fp[m])
  BY <1>0, <1>1, <1>2, <1>3, <1>4, FileMoves
<1> QED
  BY <1>1, <1>3, <1>5 DEF StartsKept

LEMMA SyncEndsKeeps ==
  ASSUME Types, Control, SyncEnds, UNCHANGED step
  PROVE  /\ CallKept /\ op'.at = "ret"
         /\ \A n \in Files : fp'[n].sclust = fp[n].sclust /\ (fp'[n].fs => fp[n].fs)
<1> DEFINE o == [Fp EXCEPT !.fs = (op.call = "sync")]
<1>0. op.at = "synced" /\ op.at \in AtFile /\ Leave("FR_OK")
  BY DEF SyncEnds, AtFile
<1>1. /\ Fp.fs
      /\ Fp \in FileObject /\ file \in Files /\ Fp = fp[file] /\ fp \in [Files -> FileObject]
      /\ fptr = Fp.fptr
      /\ Fp.fsize # 0 => Fp.sclust # 0
      /\ fptr # 0 => Fp.sclust # 0 /\ Fp.clust # 0
  BY <1>0, ChunkKnown
<1>2. fp' = [fp EXCEPT ![file] = o]
  BY <1>1 DEF SyncEnds
<1>3. /\ o \in FileObject /\ o.sclust = Fp.sclust /\ o.clust = Fp.clust
      /\ o.fsize = Fp.fsize /\ o.fptr = Fp.fptr
  BY <1>1 DEF FileObject
<1>4. /\ OpType' /\ op'.at = "ret" /\ op'.call = op.call /\ op'.file = op.file
  BY <1>0, OpMoves DEF Types
<1> HIDE DEF o
<1>5. CallKept /\ (\A m \in Files : fp'[m] = IF m = file THEN o ELSE fp[m])
  BY <1>0, <1>1, <1>2, <1>3, <1>4, FileMoves
<1> QED
  BY <1>1, <1>3, <1>4, <1>5

(***************************************************************************)
(* The types of the card and of the volume.                                *)
(***************************************************************************)
LEMMA WindowTypes ==
  ASSUME Types
  PROVE  /\ WindowWritten \in CardState
         /\ \A s \in Windows : WindowRead(s) \in VolumeState
         /\ Need \in Windows
         /\ Unmounted \in VolumeState
<1>1. disk \in CardState /\ fs \in VolumeState
  BY DEF Types, DiskType, FsType
<1>2. WindowWritten \in CardState
  BY <1>1 DEF WindowWritten, CardState, VolumeState
<1>3. \A s \in Windows : WindowRead(s) \in VolumeState
  BY <1>1 DEF WindowRead, CardState, VolumeState
<1>4. /\ RootSect \in Windows /\ DirSect \in Windows /\ InfoSect \in Windows /\ NoSect \in Windows
      /\ fs.winsect \in Windows
  BY <1>1 DEF VolumeState, Windows, RootSect, DirSect, InfoSect, NoSect
<1>5. \A c \in Nat : FatSect(c) \in Windows
  BY FatFileAssumption DEF FatSect, Windows
<1>6. op.clst \in Nat /\ op.ncl \in Nat
  BY DEF Types, OpType
<1>7. Need \in Windows
  BY <1>4, <1>5, <1>6 DEF Need
<1>8. NoEntry \in Entry /\ 0 \in Links
  BY DEF NoEntry, Entry, Starts, Links
<1>9. Unmounted \in VolumeState
  BY <1>4, <1>8 DEF Unmounted, VolumeState
<1> QED
  BY <1>2, <1>3, <1>7, <1>9

LEMMA CallTypes ==
  ASSUME Types, Control, MountInv, CallStep, UNCHANGED <<step, error>>
  PROVE  DiskType' /\ FsType' /\ Counted'
<1> USE DEF DiskType, FsType
<1>1. disk \in CardState /\ fs \in VolumeState
  BY DEF Types
<1>2. /\ step \in Steps \cup {"wait", "dead"} /\ error \in BOOLEAN /\ mounts \in 0 .. MaxMounts
      /\ faults \in 0 .. MaxFaults /\ MaxFaults \in Nat /\ MaxMounts \in Nat
      /\ faults < MaxFaults => faults + 1 \in 0 .. MaxFaults
  BY FatFileAssumption, LogFilesAssumption DEF Types, Counted
\* Most steps change neither the card nor the volume.
<1>3. CASE UNCHANGED <<disk, fs, mounts, faults>>
  BY <1>1, <1>2, <1>3 DEF Counted
<1>4. CASE SyncWindow
  <2>1. UNCHANGED mounts /\ disk' \in {disk, WindowWritten} /\ fs' \in {fs, [fs EXCEPT !.wflag = FALSE]}
        /\ (UNCHANGED faults \/ (faults < MaxFaults /\ faults' = faults + 1))
    BY <1>4 DEF SyncWindow, DiskWrite
  <2>2. [fs EXCEPT !.wflag = FALSE] \in VolumeState
    BY <1>1 DEF VolumeState
  <2> QED
    BY <1>1, <1>2, <2>1, <2>2, WindowTypes DEF Counted
<1>5. CASE MoveWindow
  <2>1. UNCHANGED <<mounts, disk>> /\ fs' \in {WindowRead(Need), [fs EXCEPT !.winsect = NoSect]}
        /\ (UNCHANGED faults \/ (faults < MaxFaults /\ faults' = faults + 1))
    BY <1>5 DEF MoveWindow, DiskRead
  <2>2. [fs EXCEPT !.winsect = NoSect] \in VolumeState
    BY <1>1 DEF VolumeState, Windows, NoSect
  <2> QED
    BY <1>1, <1>2, <2>1, <2>2, WindowTypes DEF Counted
<1>6. CASE MountVolume
  <2> DEFINE new == [Unmounted EXCEPT !.type = TRUE, !.winsect = InfoSect,
                                      !.last = disk.hint, !.info = TRUE]
             bare == [Unmounted EXCEPT !.type = TRUE]
  <2>1. UNCHANGED disk
        /\ (UNCHANGED faults \/ (faults < MaxFaults /\ faults' = faults + 1))
        /\ (UNCHANGED <<fs, mounts>> \/ (fs' \in {new, bare} /\ mounts' = mounts + 1))
    BY <1>6 DEF MountVolume, DiskRead
  <2>2. new \in VolumeState /\ bare \in VolumeState
    BY <1>1, WindowTypes DEF VolumeState, CardState, Windows, InfoSect
  <2>3. mounts + 1 \in 0 .. MaxMounts
    BY <1>2, <1>6 DEF MountInv, MountVolume
  <2> HIDE DEF new, bare
  <2> QED
    BY <1>1, <1>2, <2>1, <2>2, <2>3 DEF Counted
<1>7. CASE Truncate
  <2>1. UNCHANGED <<disk, mounts, faults>> /\ file \in Files
        /\ fs' = [fs EXCEPT !.dir[file] = [there |-> TRUE, clust |-> 0, size |-> 0], !.wflag = TRUE]
    BY <1>7, CallKnown DEF Truncate
  <2>2. [there |-> TRUE, clust |-> 0, size |-> 0] \in Entry
    BY DEF Entry, Starts
  <2>3. fs' \in VolumeState
    BY <1>1, <2>1, <2>2 DEF VolumeState
  <2> QED
    BY <1>1, <1>2, <2>1, <2>3 DEF Counted
<1>8. CASE RemoveChain
  <2> DEFINE freed == [fs EXCEPT !.fat[op.clst] = 0, !.wflag = TRUE, !.fsi = fs.info]
  <2>1. UNCHANGED <<disk, mounts, faults>>
        /\ fs' \in {[fs EXCEPT !.last = op.ncl - 1], freed, [freed EXCEPT !.last = op.ncl - 1]}
    BY <1>8 DEF RemoveChain
  <2>2. op.ncl - 1 \in Nat
    BY <1>8, Constants DEF RemoveChain, Control, ScanInv
  <2>3. 0 \in Links
    BY DEF Links
  <2>4. freed \in VolumeState
    BY <1>1, <2>3 DEF VolumeState
  <2>5. [fs EXCEPT !.last = op.ncl - 1] \in VolumeState
    BY <1>1, <2>2 DEF VolumeState
  <2> HIDE DEF freed
  <2>6. [freed EXCEPT !.last = op.ncl - 1] \in VolumeState
    BY <2>2, <2>4 DEF VolumeState
  <2> QED
    BY <1>1, <1>2, <2>1, <2>4, <2>5, <2>6 DEF Counted
<1>9. CASE Allocate
  <2> DEFINE marked == [fs EXCEPT !.fat[op.ncl] = EOC, !.wflag = TRUE]
  <2>1. UNCHANGED <<disk, mounts, faults>>
        /\ fs' \in {marked, [marked EXCEPT !.last = op.ncl, !.fsi = fs.info]}
    BY <1>9 DEF Allocate
  <2>2. op.ncl \in Nat
    BY DEF Types, OpType
  <2>3. EOC \in Links
    BY DEF Links
  <2>4. marked \in VolumeState
    BY <1>1, <2>3 DEF VolumeState
  <2> HIDE DEF marked
  <2>5. [marked EXCEPT !.last = op.ncl, !.fsi = fs.info] \in VolumeState
    BY <1>1, <2>2, <2>4 DEF VolumeState
  <2> QED
    BY <1>1, <1>2, <2>1, <2>4, <2>5 DEF Counted
<1>10. CASE Link
  <2>1. UNCHANGED <<disk, mounts, faults>>
        /\ fs' = [fs EXCEPT !.fat[op.clst] = op.ncl, !.wflag = TRUE, !.last = op.ncl, !.fsi = fs.info]
    BY <1>10 DEF Link
  <2>2. op.ncl \in Nat /\ op.ncl \in Links
    BY <1>10, Constants DEF Link, Control, ScanInv, Links
  <2>3. fs' \in VolumeState
    BY <1>1, <2>1, <2>2 DEF VolumeState
  <2> QED
    BY <1>1, <1>2, <2>1, <2>3 DEF Counted
<1>11. CASE WriteBack
  <2>1. UNCHANGED <<fs, mounts>> /\ disk' \in {disk, BufferWritten}
        /\ (UNCHANGED faults \/ (faults < MaxFaults /\ faults' = faults + 1))
    BY <1>11 DEF WriteBack, DiskWrite
  <2>2. fp[file].buf \in Sector
    BY <1>11, CallKnown DEF WriteBack, FileObject
  <2>3. BufferWritten \in CardState
    BY <1>1, <2>2 DEF BufferWritten, CardState
  <2> QED
    BY <1>1, <1>2, <2>1, <2>3 DEF Counted
<1>12. CASE Place \/ SeekEnds
  <2>1. UNCHANGED <<disk, fs, mounts>>
        /\ (UNCHANGED faults \/ (faults < MaxFaults /\ faults' = faults + 1))
    BY <1>12 DEF Place, SeekEnds, DiskRead
  <2> QED
    BY <1>1, <1>2, <2>1 DEF Counted
<1>13. CASE UpdateEntry
  <2>0. op.at \in AtFile
    BY <1>13 DEF UpdateEntry, AtFile
  <2>1. UNCHANGED <<disk, mounts, faults>> /\ file \in Files
        /\ fs' = [fs EXCEPT !.dir[file].size = Fp.fsize, !.dir[file].clust = Fp.sclust,
                            !.wflag = TRUE]
    BY <1>13, <2>0, ChunkKnown DEF UpdateEntry
  <2>2. /\ fs.dir[file] \in Entry /\ Fp.fsize \in Nat /\ Fp.sclust \in Starts
        /\ Fp.fsize # 0 => Fp.sclust # 0
    BY <2>0, ChunkKnown, CallKnown DEF FileObject
  <2>3. fs' \in VolumeState
    <3> DEFINE e == [fs.dir[file] EXCEPT !.size = Fp.fsize, !.clust = Fp.sclust]
    <3>1. e \in Entry
      BY <2>2 DEF Entry
    <3>2. fs' = [fs EXCEPT !.dir[file] = e, !.wflag = TRUE]
      BY <1>1, <2>1 DEF VolumeState
    <3> HIDE DEF e
    <3> QED
      BY <1>1, <3>1, <3>2 DEF VolumeState
  <2> QED
    BY <1>1, <1>2, <2>1, <2>3 DEF Counted
<1>14. CASE SyncFs
  <2> DEFINE moved == [fs EXCEPT !.winsect = InfoSect, !.fsi = FALSE]
  <2>1. UNCHANGED mounts /\ fs' \in {fs, moved} /\ disk' \in {disk, [disk EXCEPT !.hint = fs.last]}
        /\ (UNCHANGED faults \/ (faults < MaxFaults /\ faults' = faults + 1))
    BY <1>14 DEF SyncFs, DiskWrite
  <2>2. moved \in VolumeState
    BY <1>1 DEF VolumeState, Windows, InfoSect
  <2>3. [disk EXCEPT !.hint = fs.last] \in CardState
    BY <1>1 DEF VolumeState, CardState
  <2> HIDE DEF moved
  <2> QED
    BY <1>1, <1>2, <2>1, <2>2, <2>3 DEF Counted
<1> QED
  BY <1>3, <1>4, <1>5, <1>6, <1>7, <1>8, <1>9, <1>10, <1>11, <1>12, <1>13, <1>14
  DEF CallStep, Check, Root, OpenExisting, OpenCreated, Follow, Scan, NextChunk, CopyIn, WriteEnds,
      SeekTop, Seek, NextByte, CopyOut, GetsEnds, Flushed, SyncEnds

(***************************************************************************)
(* The volume.  Most steps leave what FatFs has of the table and of the    *)
(* directory as it is, and the card as it is or with the window written.   *)
(***************************************************************************)
SameView == /\ Fat' = Fat /\ Dir' = Dir
            /\ \/ disk'.fat = disk.fat /\ disk'.dir = disk.dir
               \/ disk'.fat = Fat /\ disk'.dir = Dir

LEMMA ViewTypes ==
  ASSUME Types
  PROVE  /\ disk \in CardState /\ fs \in VolumeState
         /\ disk.fat \in [Clusters -> Links] /\ disk.dir \in [Files -> Entry]
         /\ fs.fat \in [Clusters -> Links] /\ fs.dir \in [Files -> Entry]
         /\ Fat \in [Clusters -> Links] /\ Dir \in [Files -> Entry] /\ Start \in [Files -> Starts]
<1>1. /\ disk \in CardState /\ fs \in VolumeState
      /\ disk.fat \in [Clusters -> Links] /\ disk.dir \in [Files -> Entry]
      /\ fs.fat \in [Clusters -> Links] /\ fs.dir \in [Files -> Entry]
  BY DEF Types, DiskType, FsType, CardState, VolumeState
<1>2. Fat \in [Clusters -> Links] /\ Dir \in [Files -> Entry]
  BY <1>1 DEF Fat, Dir
<1>3. \A n \in Files : fp[n].sclust \in Starts /\ Dir[n].clust \in Starts
  BY <1>2 DEF Types, FileObject, Entry
<1>4. Start \in [Files -> Starts]
  BY <1>3 DEF Start
<1> QED
  BY <1>1, <1>2, <1>4

LEMMA SectorsDiffer ==
  /\ \A c : FatSect(c) # DirSect /\ FatSect(c) # InfoSect /\ FatSect(c) # NoSect
            /\ FatSect(c) # RootSect
  /\ DirSect # InfoSect /\ DirSect # NoSect /\ DirSect # RootSect
BY DEF FatSect, DirSect, InfoSect, NoSect, RootSect

LEMMA UnchangedView ==
  ASSUME Types, WindowInv, UNCHANGED fs, disk'.fat = disk.fat, disk'.dir = disk.dir
  PROVE  SameView /\ WindowInv'
<1>1. Fat' = Fat /\ Dir' = Dir
  BY DEF Fat, Dir
<1> QED
  BY <1>1 DEF SameView, WindowInv

\* The window is written, or moves when there is nothing to write.
LEMMA WindowView ==
  ASSUME Types, WindowInv, SyncWindow \/ MoveWindow \/ SyncFs
  PROVE  SameView /\ WindowInv'
<1>0. /\ disk \in CardState /\ fs \in VolumeState
      /\ disk.fat \in [Clusters -> Links] /\ disk.dir \in [Files -> Entry]
      /\ fs.fat \in [Clusters -> Links] /\ fs.dir \in [Files -> Entry]
      /\ Fat \in [Clusters -> Links]
  BY ViewTypes
<1>1. CASE SyncWindow
  <2>1. /\ disk' \in {disk, WindowWritten} /\ fs.wflag
        /\ UNCHANGED fs \/ (fs' = [fs EXCEPT !.wflag = FALSE] /\ disk' = WindowWritten)
    BY <1>1 DEF SyncWindow, DiskWrite
  <2>2. WindowWritten.fat = Fat /\ WindowWritten.dir = Dir
    BY <1>0 DEF WindowWritten, Fat, Dir, CardState
  <2>3. fs'.winsect = fs.winsect /\ fs'.fat = fs.fat /\ fs'.dir = fs.dir
    BY <1>0, <2>1 DEF VolumeState
  <2>4. \/ disk'.fat = disk.fat /\ disk'.dir = disk.dir
        \/ disk'.fat = Fat /\ disk'.dir = Dir
    BY <2>1, <2>2
  <2>5. \A c \in Clusters : Fat'[c] = Fat[c]
    BY <2>3, <2>4 DEF Fat
  <2>6. Fat' = Fat /\ Dir' = Dir
    BY <2>3, <2>4, <2>5 DEF Fat, Dir
  <2>7. ~fs'.wflag => disk'.fat = Fat /\ disk'.dir = Dir
    BY <2>1, <2>2
  <2> QED
    BY <2>4, <2>6, <2>7 DEF SameView, WindowInv
<1>2. CASE MoveWindow
  <2>1. /\ UNCHANGED disk /\ ~fs.wflag
        /\ fs' \in {WindowRead(Need), [fs EXCEPT !.winsect = NoSect]}
    BY <1>2 DEF MoveWindow, DiskRead
  <2>2. Fat = disk.fat /\ Dir = disk.dir
    BY <2>1 DEF WindowInv
  <2>3. CASE fs' = WindowRead(Need)
    <3>1. /\ fs'.winsect = Need
          /\ fs'.fat = [c \in Clusters |-> IF FatSect(c) = Need THEN disk.fat[c] ELSE fs.fat[c]]
          /\ fs'.dir = IF Need = DirSect THEN disk.dir ELSE fs.dir
      BY <1>0, <2>3 DEF WindowRead, VolumeState
    <3>2. \A c \in Clusters : Fat'[c] = disk.fat[c]
      BY <2>1, <3>1 DEF Fat
    <3>3. Fat' = disk.fat
      BY <1>0, <3>2 DEF Fat
    <3>4. Dir' = disk.dir
      BY <2>1, <3>1 DEF Dir
    <3> QED
      BY <2>1, <2>2, <3>3, <3>4 DEF SameView, WindowInv
  <2>4. CASE fs' = [fs EXCEPT !.winsect = NoSect]
    <3>1. fs'.winsect = NoSect
      BY <1>0, <2>4 DEF VolumeState
    <3>2. \A c \in Clusters : Fat'[c] = disk.fat[c]
      BY <2>1, <3>1, SectorsDiffer DEF Fat
    <3>3. Fat' = disk.fat
      BY <1>0, <3>2 DEF Fat
    <3>4. Dir' = disk.dir
      BY <2>1, <3>1, SectorsDiffer DEF Dir
    <3> QED
      BY <2>1, <2>2, <3>3, <3>4 DEF SameView, WindowInv
  <2> QED
    BY <2>1, <2>3, <2>4
<1>3. CASE SyncFs
  <2> DEFINE moved == [fs EXCEPT !.winsect = InfoSect, !.fsi = FALSE]
  <2>1. fs' \in {fs, moved} /\ disk' \in {disk, [disk EXCEPT !.hint = fs.last]} /\ ~fs.wflag
    BY <1>3 DEF SyncFs, DiskWrite
  <2>2. Fat = disk.fat /\ Dir = disk.dir
    BY <2>1 DEF WindowInv
  <2>3. disk'.fat = disk.fat /\ disk'.dir = disk.dir
    BY <1>0, <2>1 DEF CardState
  <2>4. CASE fs' = fs
    BY <2>3, <2>4, UnchangedView
  <2>5. CASE fs' = moved
    <3>1. fs'.winsect = InfoSect
      BY <1>0, <2>5 DEF VolumeState
    <3>2. \A c \in Clusters : Fat'[c] = disk.fat[c]
      BY <2>3, <3>1, SectorsDiffer DEF Fat
    <3>3. Fat' = disk.fat
      BY <1>0, <3>2 DEF Fat
    <3>4. Dir' = disk.dir
      BY <2>3, <3>1, SectorsDiffer DEF Dir
    <3> QED
      BY <2>2, <2>3, <3>3, <3>4 DEF SameView, WindowInv
  <2> QED
    BY <2>1, <2>4, <2>5
<1> QED
  BY <1>1, <1>2, <1>3

\* A table stays sound when files let go of their chains.
LEMMA FewerStarts ==
  ASSUME NEW fat, NEW s, NEW t, SoundTable(fat, s), \A n \in Files : t[n] \in {0, s[n]}
  PROVE  SoundTable(fat, t)
BY DEF SoundTable

LEMMA VolumeKept ==
  ASSUME Types, Control, Volume, FilesType', MountInv', SameView, WindowInv',
         \A n \in Files : fp'[n].fs => Dir[n].clust \in {0, fp'[n].sclust},
         \A n \in Files : Start'[n] \in {0, Start[n]},
         op'.at = "link" => op.at = "link" /\ op'.ncl = op.ncl,
         op'.at = "remove" => op.at = "remove" /\ op'.clst = op.clst
  PROVE  Volume'
<1>1. SoundTable(Fat, Start) /\ SoundTable(disk.fat, [n \in Files |-> disk.dir[n].clust])
  BY DEF Volume, SoundInv
<1>2. Fat' = Fat /\ Dir' = Dir
  BY DEF SameView
<1>3. SoundTable(Fat', Start')
  BY <1>1, <1>2, FewerStarts
<1>4. SoundTable(disk'.fat, [n \in Files |-> disk'.dir[n].clust])
  <2>1. CASE disk'.fat = disk.fat /\ disk'.dir = disk.dir
    BY <1>1, <2>1
  <2>2. CASE disk'.fat = Fat /\ disk'.dir = Dir
    <3>1. \A n \in Files : Dir[n].clust \in {0, Start[n]}
      BY DEF Volume, SoundInv, Start
    <3>2. \A n \in Files : [m \in Files |-> disk'.dir[m].clust][n] \in {0, Start[n]}
      BY <2>2, <3>1
    <3>3. SoundTable(Fat, [n \in Files |-> disk'.dir[n].clust])
      BY <1>1, <3>2, FewerStarts
    <3> QED
      BY <2>2, <3>3
  <2> QED
    BY <2>1, <2>2 DEF SameView
<1>5. SoundInv'
  BY <1>2, <1>3, <1>4 DEF SoundInv, SoundTable
<1>6. \A c \in Clusters : Loose(c) => Loose(c)'
  BY <1>2, Constants DEF Loose
<1>7. LooseInv'
  BY <1>2, <1>6 DEF LooseInv, Volume, Control, ScanInv
<1> QED
  BY <1>5, <1>7 DEF Volume

\* Where a step of a call leads.
LEMMA OpFrame ==
  ASSUME OpType, CallStep, op.at # "check"
  PROVE  \/ UNCHANGED op
         \/ /\ op'.at \notin {"mount", "out", "check"}
            /\ op'.at = "link" => Allocate
            /\ op'.at = "remove" => Truncate \/ RemoveChain
            /\ op'.at = "path" => Root
            /\ op'.at = "entry" => Flushed
            /\ op'.at = "sync" => UpdateEntry
<1> DEFINE Goes == /\ op'.at \notin {"mount", "out", "check"}
                   /\ op'.at = "link" => Allocate
                   /\ op'.at = "remove" => Truncate \/ RemoveChain
                   /\ op'.at = "path" => Root
                   /\ op'.at = "entry" => Flushed
                   /\ op'.at = "sync" => UpdateEntry
<1>1. \A r : Leave(r) => Goes
  BY DEF Leave, OpType
<1>2. \A r : Abort(r) \/ FailCall(r) => Goes
  BY <1>1 DEF Abort, FailCall
<1>3. \A l \in {"place", "copy", "full", "chunk", "byte", "seek", "flush", "synced",
                "root", "back"} : At(l) => Goes
  BY DEF At, OpType
<1>4. \A c : GotCluster(c) => Goes
  BY <1>3 DEF GotCluster, OpType
<1>5. \A c, s : op' = ScanOp(c, s) => Goes
  BY DEF ScanOp, OpType
<1>6. NewChain => Goes
  <2>1. \A c, s : ScanOp(c, s).at \in {"full", "scan"} /\ "at" \in DOMAIN ScanOp(c, s)
    BY DEF ScanOp, OpType
  <2>2. \A c, s : op' = [ScanOp(c, s) EXCEPT !.clst = 0] => op'.at \in {"full", "scan"}
    BY <2>1 DEF ScanOp, OpType
  <2> QED
    BY <2>2 DEF NewChain
<1>7. CASE SyncWindow \/ MoveWindow \/ MountVolume \/ Root \/ OpenExisting \/ OpenCreated
  <2>1. Root => Goes
    BY DEF Root, At, OpType
  <2> QED
    BY <1>1, <1>2, <1>3, <1>7, <2>1 DEF SyncWindow, MoveWindow, MountVolume, OpenExisting, OpenCreated,
       DiskRead, DiskWrite
<1>8. CASE Truncate \/ RemoveChain
  <2>1. At("back") \/ op'.at = "remove"
    BY <1>8 DEF Truncate, RemoveChain, OpType
  <2> QED
    BY <1>3, <1>8, <2>1
<1>9. CASE Follow \/ Scan \/ Link
  BY <1>2, <1>3, <1>4, <1>5, <1>9 DEF Follow, Scan, Link
<1>10. CASE Allocate
  <2>1. GotCluster(op.ncl) \/ op'.at = "link"
    BY <1>10 DEF Allocate, At, OpType
  <2> QED
    BY <1>4, <1>10, <2>1
<1>11. CASE WriteBack \/ Place \/ NextChunk \/ NextByte
  <2>1. \A c : op' = [op EXCEPT !.at = "follow", !.clst = c] => Goes
    BY DEF OpType
  <2> QED
    BY <1>2, <1>3, <1>4, <1>6, <1>11, <2>1 DEF WriteBack, Place, NextChunk, NextByte, DiskRead, DiskWrite
<1>12. CASE CopyIn \/ CopyOut
  <2>1. \A l \in {"chunk", "byte"} : \A n : op' = [op EXCEPT !.at = l, !.left = n] => Goes
    BY DEF OpType
  <2> QED
    BY <1>12, <2>1 DEF CopyIn, CopyOut
<1>13. CASE WriteEnds \/ SeekTop \/ Seek \/ SeekEnds \/ GetsEnds
  <2>1. \A n : op' = [op EXCEPT !.at = "seek", !.left = n] => Goes
    BY DEF OpType
  <2>2. \A n : op' = [op EXCEPT !.at = "follow", !.clst = n] => Goes
    BY DEF OpType
  <2> QED
    BY <1>1, <1>3, <1>13, <2>1, <2>2 DEF WriteEnds, SeekTop, Seek, SeekEnds, GetsEnds, DiskRead
<1>14. CASE Flushed \/ UpdateEntry \/ SyncFs \/ SyncEnds
  <2>1. Flushed \/ UpdateEntry => Goes
    BY DEF Flushed, UpdateEntry, At, OpType
  <2> QED
    BY <1>1, <1>3, <1>14, <2>1 DEF SyncFs, SyncEnds
<1> QED
  BY <1>7, <1>8, <1>9, <1>10, <1>11, <1>12, <1>13, <1>14 DEF CallStep, Check

\* A call that is past its head works on a volume that is mounted.
LEMMA Mounted ==
  ASSUME Types, Control, MountInv, CallStep, op.at \notin {"check", "mount"}
  PROVE  op.at # "out" /\ fs.type
<1>1. op.at \in AtOpen \cup AtFile => op.at # "out" /\ fs.type
  BY DEF MountInv, AtOpen, AtFile
<1>2. ~InWindow => op.at \in AtOpen \cup AtFile
  BY DEF InWindow, Need, AtOpen, AtFile
<1>3. CASE SyncWindow \/ MoveWindow
  BY <1>1, <1>2, <1>3 DEF SyncWindow, MoveWindow, AtFile
<1>4. CASE ~(SyncWindow \/ MoveWindow)
  BY <1>1, <1>4 DEF CallStep, Check, MountVolume, Root, OpenExisting, Truncate, RemoveChain, OpenCreated,
     Follow, Scan, Allocate, Link, WriteBack, Place, NextChunk, CopyIn, WriteEnds, SeekTop, Seek,
     SeekEnds, NextByte, CopyOut, GetsEnds, Flushed, UpdateEntry, SyncFs, SyncEnds, AtOpen, AtFile
<1> QED
  BY <1>3, <1>4

\* and it stays mounted.
LEMMA StaysMounted ==
  ASSUME Types, Control, MountInv, CallStep, op.at \notin {"check", "mount"}, fs'.type = fs.type
  PROVE  MountInv'
<1>1. op.at # "out" /\ fs.type
  BY Mounted
<1>2. op'.at # "mount"
  BY OpFrame DEF Types
<1> QED
  BY <1>1, <1>2 DEF MountInv

LEMMA TypeFrame ==
  ASSUME Types, CallStep, ~MountVolume
  PROVE  fs'.type = fs.type
<1>0. fs \in VolumeState
  BY ViewTypes
<1>1. CASE UNCHANGED fs
  BY <1>1
<1>2. CASE SyncWindow \/ MoveWindow \/ SyncFs
  BY <1>0, <1>2 DEF SyncWindow, MoveWindow, SyncFs, DiskWrite, DiskRead, WindowRead, VolumeState
<1>3. CASE Truncate \/ RemoveChain \/ UpdateEntry
  BY <1>0, <1>3 DEF Truncate, RemoveChain, UpdateEntry, VolumeState
<1>4. CASE Allocate \/ Link
  BY <1>0, <1>4 DEF Allocate, Link, VolumeState
<1> QED
  BY <1>1, <1>2, <1>3, <1>4 DEF CallStep, Check, Root, OpenExisting, OpenCreated,
     Follow, Scan, WriteBack, Place, NextChunk, CopyIn, WriteEnds, SeekTop, Seek,
     SeekEnds, NextByte, CopyOut, GetsEnds, Flushed, SyncEnds

(***************************************************************************)
(* The steps that leave the starts of the files as they are.               *)
(***************************************************************************)
LEMMA SameStarts ==
  ASSUME Types, Control, Volume, FilesType', MountInv', SameView, WindowInv', StartsKept,
         op'.at = "link" => op.at = "link" /\ op'.ncl = op.ncl,
         op'.at = "remove" => op.at = "remove" /\ op'.clst = op.clst
  PROVE  Volume'
<1>1. \A n \in Files : fp'[n].fs => Dir[n].clust \in {0, fp'[n].sclust}
  BY DEF StartsKept, Volume, SoundInv
<1>2. \A n \in Files : Start'[n] = Start[n]
  BY DEF Start, StartsKept, SameView
<1> QED
  BY <1>1, <1>2, VolumeKept

\* The window.
LEMMA WindowSound ==
  ASSUME Types, Control, Volume, SyncWindow \/ MoveWindow \/ SyncFs, FilesType', UNCHANGED step
  PROVE  Volume'
<1>1. SameView /\ WindowInv'
  BY WindowView DEF Volume
<1>2. CallStep
  BY DEF CallStep
<1>3. op.at \notin {"check", "mount"}
  BY DEF SyncWindow, MoveWindow, SyncFs, InWindow, Need
<1>4. op.at # "out"
  BY <1>2, <1>3, Mounted DEF Volume
<1>5. MountInv'
  BY <1>2, <1>3, StaysMounted, TypeFrame DEF Volume, MountVolume, SyncWindow, MoveWindow, SyncFs
<1>6. StartsKept
  <2>1. UNCHANGED fp \/ fp' = [fp EXCEPT ![file].err = TRUE]
    BY DEF SyncWindow, MoveWindow, SyncFs, DiskWrite, DiskRead, FailCall, Abort
  <2> QED
    BY <1>4, <2>1, ErrStarts
<1>7. UNCHANGED op \/ op'.at \in {"ret", "synced"}
  BY DEF SyncWindow, MoveWindow, SyncFs, DiskWrite, DiskRead, FailCall, Abort, Leave, At, Types, OpType
<1> QED
  BY <1>1, <1>5, <1>6, <1>7, SameStarts

\* The steps on a file.
LEMMA FileStepSound ==
  ASSUME Types, Control, Volume, FilesType', StartsKept,
         \/ Root \/ Follow \/ Scan \/ WriteBack \/ Place \/ NextChunk \/ CopyIn \/ WriteEnds
         \/ SeekTop \/ Seek \/ SeekEnds \/ NextByte \/ CopyOut \/ GetsEnds \/ Flushed
  PROVE  Volume'
<1>1. CallStep
  BY DEF CallStep
<1>2. /\ op.at \notin {"check", "mount"} /\ ~Allocate /\ ~Truncate /\ ~RemoveChain
      /\ op.at \notin {"link", "remove"}
  BY DEF Root, Follow, Scan, WriteBack, Place, NextChunk, CopyIn, WriteEnds, SeekTop, Seek,
     SeekEnds, NextByte, CopyOut, GetsEnds, Flushed, Allocate, Truncate, RemoveChain
<1>3. MountInv'
  BY <1>1, <1>2, StaysMounted, TypeFrame DEF Volume, MountVolume
<1>4. UNCHANGED fs
  BY DEF Root, Follow, Scan, WriteBack, Place, NextChunk, CopyIn, WriteEnds, SeekTop, Seek,
     SeekEnds, NextByte, CopyOut, GetsEnds, Flushed
<1>5. disk'.fat = disk.fat /\ disk'.dir = disk.dir
  <2>1. UNCHANGED disk \/ disk' = BufferWritten
    BY DEF Root, Follow, Scan, WriteBack, Place, NextChunk, CopyIn, WriteEnds, SeekTop, Seek,
       SeekEnds, NextByte, CopyOut, GetsEnds, Flushed, DiskRead, DiskWrite
  <2> QED
    BY <2>1, ViewTypes DEF BufferWritten, CardState
<1>6. SameView /\ WindowInv'
  BY <1>4, <1>5, UnchangedView DEF Volume
<1>7. op'.at \notin {"link", "remove"}
  BY <1>1, <1>2, OpFrame DEF Types
<1> QED
  BY <1>3, <1>6, <1>7, SameStarts

(***************************************************************************)
(* The steps that open and close files.                                    *)
(***************************************************************************)
LEMMA CheckSound ==
  ASSUME Types, Control, Volume, FilesType', Check
  PROVE  Volume'
<1>1. op.at = "check" /\ op.at # "out" /\ UNCHANGED <<disk, fs, mounts>>
  BY DEF Check
<1>2. file \in Files /\ fp \in [Files -> FileObject]
  BY <1>1, CallKnown DEF Types
<1>3. UNCHANGED fp \/ fp' = [fp EXCEPT ![file].fs = FALSE]
  BY DEF Check
<1>4. \A n \in Files : fp'[n].sclust = fp[n].sclust /\ (fp'[n].fs => fp[n].fs)
  BY <1>2, <1>3 DEF FileObject
<1>5. SameView /\ WindowInv'
  BY <1>1, UnchangedView DEF Volume
<1>6. \A n \in Files : fp'[n].fs => Dir[n].clust \in {0, fp'[n].sclust}
  BY <1>4 DEF Volume, SoundInv
<1>7. \A n \in Files : Start'[n] \in {0, Start[n]}
  BY <1>4, <1>5 DEF Start, SameView, Volume, SoundInv
<1>8. /\ op'.at \in {"root", "mount", "ret", "flush", "synced", "chunk", "byte", "seek", "top"}
      /\ op'.at \notin {"link", "remove"}
      /\ op'.at = "mount" => ~fs.type
      /\ op'.at \notin {"mount", "ret"} => fs.type
  <2>1. CASE op.call \in Opening
    BY <2>1 DEF Check, Opening, At, Types, OpType
  <2>2. CASE op.call \notin Opening /\ ~fp[file].fs
    BY <2>2 DEF Check, Opening, Leave, Types, OpType
  <2>3. CASE op.call \notin Opening /\ fp[file].fs
    <3>1. fs.type
      BY <1>2, <2>3 DEF Volume, MountInv
    <3>2. CASE op.call \in {"sync", "close"}
      BY <3>1, <3>2, <2>3 DEF Check, Opening, At, Types, OpType
    <3>3. CASE op.call \notin {"sync", "close"} /\ fp[file].err
      BY <3>1, <3>3, <2>3 DEF Check, Opening, Leave, Types, OpType
    <3>4. CASE op.call \notin {"sync", "close"} /\ ~fp[file].err
      <4>1. op.call \in {"write", "gets", "lseek"}
        BY <1>1, <2>3, <3>4, CallKnown DEF Calls, Opening
      <4> QED
        BY <3>1, <3>4, <2>3, <4>1 DEF Check, Opening, At, Types, OpType
    <3> QED
      BY <3>2, <3>3, <3>4
  <2> QED
    BY <2>1, <2>2, <2>3
<1>9. MountInv'
  BY <1>1, <1>4, <1>8 DEF Volume, MountInv, AtOpen, AtFile
<1> QED
  BY <1>5, <1>6, <1>7, <1>8, <1>9, VolumeKept

LEMMA OpenSound ==
  ASSUME Types, Control, Volume, FilesType', OpenExisting \/ OpenCreated
  PROVE  Volume'
<1>1. /\ op.at \in {"path", "back"} /\ op.at # "out" /\ UNCHANGED <<disk, fs, mounts>> /\ InWindow
      /\ op.at \notin {"check", "mount"} /\ CallStep
  BY DEF OpenExisting, OpenCreated, CallStep
<1>2. file \in Files /\ fp \in [Files -> FileObject] /\ ~fp[file].fs
  BY <1>1, CallKnown DEF Types, Control, CallInv, AtOpen, Fp
<1>3. fs.dir[file] = Dir[file]
  BY <1>1 DEF InWindow, Need, Dir
<1>4. UNCHANGED fp \/ fp' = [fp EXCEPT ![file] = Object]
  BY DEF OpenExisting, OpenCreated
<1>5. Object.fs /\ Object.sclust = Dir[file].clust
  BY <1>1, <1>3, ObjectType
<1>6. SameView /\ WindowInv'
  BY <1>1, UnchangedView DEF Volume
<1>7. \A n \in Files : fp'[n].fs => Dir[n].clust \in {0, fp'[n].sclust}
  BY <1>2, <1>4, <1>5 DEF Volume, SoundInv
<1>8. \A n \in Files : Start'[n] = Start[n]
  BY <1>2, <1>4, <1>5, <1>6 DEF Start, SameView
<1>9. op'.at = "ret"
  BY DEF OpenExisting, OpenCreated, Leave, Types, OpType
<1>10. MountInv'
  BY <1>1, StaysMounted, TypeFrame DEF Volume, MountVolume
<1> QED
  BY <1>6, <1>7, <1>8, <1>9, <1>10, VolumeKept

LEMMA SyncEndsSound ==
  ASSUME Types, Control, Volume, FilesType', SyncEnds,
         \A n \in Files : fp'[n].sclust = fp[n].sclust /\ (fp'[n].fs => fp[n].fs)
  PROVE  Volume'
<1>1. op.at = "synced" /\ UNCHANGED <<disk, fs, mounts>> /\ CallStep
  BY DEF SyncEnds, CallStep
<1>2. SameView /\ WindowInv'
  BY <1>1, UnchangedView DEF Volume
<1>3. \A n \in Files : fp'[n].fs => Dir[n].clust \in {0, fp'[n].sclust}
  BY DEF Volume, SoundInv
<1>4. \A n \in Files : Start'[n] \in {0, Start[n]}
  BY <1>2 DEF Start, SameView, Volume, SoundInv
<1>5. op'.at = "ret"
  BY DEF SyncEnds, Leave, Types, OpType
<1>6. MountInv'
  BY <1>1, StaysMounted, TypeFrame DEF Volume, MountVolume
<1> QED
  BY <1>2, <1>3, <1>4, <1>5, <1>6, VolumeKept

LEMMA MountSound ==
  ASSUME Types, Control, Volume, FilesType', MountVolume
  PROVE  Volume'
<1>0. disk \in CardState /\ disk.fat \in [Clusters -> Links]
  BY ViewTypes
<1>1. op.at = "mount" /\ ~fs.type /\ UNCHANGED <<disk, fp>>
  BY DEF MountVolume, DiskRead, Volume, MountInv
<1>2. Fat = disk.fat /\ Dir = disk.dir /\ \A n \in Files : ~fp[n].fs
  BY <1>1 DEF Volume, MountInv, WindowInv
<1>3. \/ Leave("FR_DISK_ERR") /\ UNCHANGED <<fs, mounts>>
      \/ At("root") /\ fs'.type /\ fs'.winsect \in {InfoSect, NoSect} /\ ~fs'.wflag
  BY DEF MountVolume, DiskRead, Unmounted
<1>4. op'.at \in {"ret", "root"} /\ (op'.at = "root" => fs'.type)
  BY <1>3 DEF Leave, At, Types, OpType
<1>5. SameView /\ WindowInv'
  <2>1. CASE UNCHANGED fs
    BY <1>1, <2>1, UnchangedView DEF Volume
  <2>2. CASE fs'.winsect \in {InfoSect, NoSect}
    <3>1. \A c \in Clusters : Fat'[c] = disk.fat[c]
      BY <1>1, <2>2, SectorsDiffer DEF Fat
    <3>2. Fat' = disk.fat
      BY <1>0, <3>1 DEF Fat
    <3>3. Dir' = disk.dir
      BY <1>1, <2>2, SectorsDiffer DEF Dir
    <3> QED
      BY <1>1, <1>2, <3>2, <3>3 DEF SameView, WindowInv
  <2> QED
    BY <1>3, <2>1, <2>2
<1>6. MountInv'
  BY <1>1, <1>3, <1>4 DEF Volume, MountInv, AtOpen, AtFile
<1>7. StartsKept
  BY <1>1 DEF StartsKept
<1> QED
  BY <1>4, <1>5, <1>6, <1>7, SameStarts

(***************************************************************************)
(* The steps that change the table or an entry.                            *)
(***************************************************************************)
LEMMA LinkSet ==
  ASSUME Types, NEW c \in Clusters, NEW v \in Links, fs.winsect = FatSect(c), UNCHANGED disk,
         fs'.winsect = fs.winsect, fs'.fat = [fs.fat EXCEPT ![c] = v], fs'.dir = fs.dir
  PROVE  Fat' = [Fat EXCEPT ![c] = v] /\ Dir' = Dir
<1>1. \A d \in Clusters : Fat'[d] = IF d = c THEN v ELSE Fat[d]
  BY ViewTypes DEF Fat
<1>2. Fat' = [d \in Clusters |-> Fat'[d]]
  BY DEF Fat
<1>3. [Fat EXCEPT ![c] = v] = [d \in Clusters |-> IF d = c THEN v ELSE Fat[d]]
  BY ViewTypes
<1>4. Dir' = Dir
  BY DEF Dir
<1> QED
  BY <1>1, <1>2, <1>3, <1>4

LEMMA EntrySet ==
  ASSUME Types, NEW n \in Files, NEW e \in Entry, fs.winsect = DirSect, UNCHANGED disk,
         fs'.winsect = fs.winsect, fs'.dir = [fs.dir EXCEPT ![n] = e], fs'.fat = fs.fat
  PROVE  Dir' = [Dir EXCEPT ![n] = e] /\ Fat' = Fat
BY ViewTypes DEF Dir, Fat

\* The table on the card is not touched.
LEMMA DiskSound ==
  ASSUME Volume, UNCHANGED disk
  PROVE  SoundTable(disk.fat, [n \in Files |-> disk.dir[n].clust])'
BY DEF Volume, SoundInv, SoundTable

\* A free cluster is nobody's successor and nobody's start.
LEMMA FreeIsLoose ==
  ASSUME NEW fat, NEW s, SoundTable(fat, s), NEW c \in Clusters, fat[c] = 0
  PROVE  (\A d \in Clusters : fat[d] # c) /\ (\A n \in Files : s[n] # c)
BY Constants DEF SoundTable

\* It is marked, and may become the start of a file.
LEMMA Marked ==
  ASSUME NEW fat \in [Clusters -> Links], NEW s \in [Files -> Starts], SoundTable(fat, s),
         NEW c \in Clusters, fat[c] = 0, NEW t, NEW f \in Files,
         \A n \in Files : n # f => t[n] = s[n], t[f] \in {s[f], c},
         NEW g, g = [fat EXCEPT ![c] = EOC]
  PROVE  SoundTable(g, t)
<1>1. /\ EOC # 0 /\ EOC \notin Clusters /\ c # 0
      /\ \A d \in Clusters : g[d] = IF d = c THEN EOC ELSE fat[d]
  BY Constants
<1>2. (\A d \in Clusters : fat[d] # c) /\ (\A n \in Files : s[n] # c)
  BY FreeIsLoose
<1>3. ASSUME NEW a \in Clusters, NEW b \in Clusters, g[a] = g[b], g[a] \in Clusters
      PROVE  a = b
  BY <1>1, <1>3 DEF SoundTable
<1>4. ASSUME NEW a \in Clusters, g[a] \in Clusters
      PROVE  g[g[a]] # 0
  BY <1>1, <1>2, <1>4 DEF SoundTable
<1>5. ASSUME NEW n \in Files, t[n] # 0
      PROVE  /\ g[t[n]] # 0
             /\ \A a \in Clusters : g[a] # t[n]
             /\ \A m \in Files : t[m] = t[n] => m = n
  <2>1. t[n] \in Clusters
    BY <1>5 DEF Starts
  <2>2. CASE t[n] = c
    BY <1>1, <1>2, <2>2
  <2>3. CASE t[n] # c
    <3>1. t[n] = s[n]
      BY <2>3
    <3>2. /\ fat[s[n]] # 0
          /\ \A a \in Clusters : fat[a] # s[n]
          /\ \A m \in Files : s[m] = s[n] => m = n
      BY <1>5, <3>1 DEF SoundTable
    <3>3. \A a \in Clusters : g[a] # t[n]
      BY <1>1, <2>1, <3>1, <3>2
    <3> QED
      BY <1>1, <2>1, <2>3, <3>1, <3>2, <3>3
  <2> QED
    BY <2>2, <2>3
<1> QED
  BY <1>3, <1>4, <1>5 DEF SoundTable

\* A cluster nothing leads to becomes the successor of another.
LEMMA Linked ==
  ASSUME NEW fat \in [Clusters -> Links], NEW s \in [Files -> Starts], SoundTable(fat, s),
         NEW c \in Clusters, NEW d \in Clusters, fat[c] # 0,
         \A a \in Clusters : fat[a] # c, \A n \in Files : s[n] # c
  PROVE  SoundTable([fat EXCEPT ![d] = c], s)
<1> DEFINE g == [fat EXCEPT ![d] = c]
<1>1. c # 0 /\ (\A a \in Clusters : g[a] = IF a = d THEN c ELSE fat[a])
  BY Constants
<1> HIDE DEF g
<1>2. ASSUME NEW a \in Clusters, NEW b \in Clusters, g[a] = g[b], g[a] \in Clusters
      PROVE  a = b
  BY <1>1, <1>2 DEF SoundTable
<1>3. ASSUME NEW a \in Clusters, g[a] \in Clusters
      PROVE  g[g[a]] # 0
  BY <1>1, <1>3 DEF SoundTable
<1>4. ASSUME NEW n \in Files, s[n] # 0
      PROVE  /\ g[s[n]] # 0
             /\ \A a \in Clusters : g[a] # s[n]
             /\ \A m \in Files : s[m] = s[n] => m = n
  <2>1. s[n] \in Clusters
    BY <1>4 DEF Starts
  <2>2. /\ fat[s[n]] # 0
        /\ \A a \in Clusters : fat[a] # s[n]
        /\ \A m \in Files : s[m] = s[n] => m = n
    BY <1>4 DEF SoundTable
  <2> QED
    BY <1>1, <2>1, <2>2
<1>5. SoundTable(g, s)
  BY <1>2, <1>3, <1>4 DEF SoundTable
<1> QED
  BY <1>5 DEF g

LEMMA TruncateSound ==
  ASSUME Types, Control, Volume, FilesType', Truncate
  PROVE  Volume'
<1> DEFINE head == fs.dir[file].clust
           new  == [there |-> TRUE, clust |-> 0, size |-> 0]
<1>1. /\ op.at = "path" /\ op.at # "out" /\ UNCHANGED <<disk, fp, mounts>> /\ InWindow /\ CallStep
      /\ op.at \notin {"check", "mount"}
      /\ fs' = [fs EXCEPT !.dir[file] = new, !.wflag = TRUE]
  BY DEF Truncate, CallStep
<1>2. file \in Files /\ ~fp[file].fs
  BY <1>1, CallKnown DEF Control, CallInv, AtOpen, Fp
<1>3. fs.winsect = DirSect /\ head = Dir[file].clust
  BY <1>1 DEF InWindow, Need, Dir
<1>4. new \in Entry
  BY DEF Entry, Starts
<1>5. /\ fs'.winsect = fs.winsect /\ fs'.dir = [fs.dir EXCEPT ![file] = new]
      /\ fs'.fat = fs.fat /\ fs'.wflag
  BY <1>1, ViewTypes DEF VolumeState
<1>6. Dir' = [Dir EXCEPT ![file] = new] /\ Fat' = Fat
  BY <1>1, <1>2, <1>3, <1>4, <1>5, EntrySet
<1>7. \A n \in Files : Start'[n] = IF n = file THEN 0 ELSE Start[n]
  BY <1>1, <1>2, <1>6, ViewTypes DEF Start
<1>8. SoundTable(Fat, Start)
  BY DEF Volume, SoundInv
<1>9. SoundTable(Fat, Start)'
  <2>1. SoundTable(Fat', Start')
    BY <1>6, <1>7, <1>8, FewerStarts
  <2> QED
    BY <2>1 DEF SoundTable
<1>10. SoundInv'
  <2>1. \A n \in Files : fp'[n].fs => Dir'[n].clust \in {0, fp'[n].sclust}
    BY <1>1, <1>2, <1>6, ViewTypes DEF Volume, SoundInv
  <2> QED
    BY <1>1, <1>9, <2>1, DiskSound DEF SoundInv
<1>11. MountInv'
  BY <1>1, StaysMounted, TypeFrame DEF Volume, MountVolume
<1>12. WindowInv'
  BY <1>5 DEF WindowInv
<1>13. LooseInv'
  <2>1. CASE op' = [op EXCEPT !.at = "remove", !.clst = head, !.ncl = head] /\ head # 0
    <3>1. op'.at = "remove" /\ op'.clst = head
      BY <2>1 DEF Types, OpType
    <3>2. Start[file] = head
      BY <1>2, <1>3 DEF Start
    <3>3. \A d \in Clusters : Fat[d] # head
      BY <1>2, <1>8, <2>1, <3>2 DEF SoundTable
    <3>4. \A n \in Files : n # file => Start[n] # head
      BY <1>2, <1>8, <2>1, <3>2 DEF SoundTable
    <3> QED
      BY <1>6, <1>7, <2>1, <3>1, <3>3, <3>4 DEF LooseInv, Loose
  <2>2. CASE At("back")
    BY <2>2 DEF LooseInv, At, Types, OpType
  <2> QED
    BY <2>1, <2>2 DEF Truncate
<1> QED
  BY <1>10, <1>11, <1>12, <1>13 DEF Volume

LEMMA RemoveSound ==
  ASSUME Types, Control, Volume, FilesType', RemoveChain
  PROVE  Volume'
<1> DEFINE nxt == fs.fat[op.clst]
           freed == [fs EXCEPT !.fat[op.clst] = 0, !.wflag = TRUE, !.fsi = fs.info]
<1>1. /\ op.at = "remove" /\ op.at # "out" /\ UNCHANGED <<disk, fp, mounts>> /\ InWindow /\ CallStep
      /\ op.at \notin {"check", "mount"} /\ op.clst \in Clusters
  BY DEF RemoveChain, CallStep, Control, ScanInv
<1>2. MountInv'
  BY <1>1, StaysMounted, TypeFrame DEF Volume, MountVolume
<1>3. CASE fs' = [fs EXCEPT !.last = op.ncl - 1] /\ At("back")
  <2>1. fs'.winsect = fs.winsect /\ fs'.dir = fs.dir /\ fs'.fat = fs.fat /\ fs'.wflag = fs.wflag
    BY <1>3, ViewTypes DEF VolumeState
  <2>2. SameView /\ WindowInv'
    BY <1>1, <2>1 DEF SameView, Fat, Dir, WindowInv, Volume
  <2>3. op'.at = "back"
    BY <1>3 DEF At, Types, OpType
  <2>4. StartsKept
    BY <1>1 DEF StartsKept
  <2> QED
    BY <1>2, <2>2, <2>3, <2>4, SameStarts
<1>4. CASE /\ fs' \in {freed, [freed EXCEPT !.last = op.ncl - 1]}
           /\ (nxt \in Clusters /\ op' = [op EXCEPT !.clst = nxt]) \/ At("back")
  <2>1. fs.winsect = FatSect(op.clst) /\ nxt = Fat[op.clst]
    BY <1>1 DEF InWindow, Need, Fat
  <2>2. /\ fs'.winsect = fs.winsect /\ fs'.fat = [fs.fat EXCEPT ![op.clst] = 0]
        /\ fs'.dir = fs.dir /\ fs'.wflag
    BY <1>4, ViewTypes DEF VolumeState
  <2>3. Fat' = [Fat EXCEPT ![op.clst] = 0] /\ Dir' = Dir
    BY <1>1, <2>1, <2>2, LinkSet DEF Links
  <2>4. \A n \in Files : Start'[n] = Start[n]
    BY <1>1, <2>3 DEF Start
  <2>5. SoundTable(Fat, Start)
    BY DEF Volume, SoundInv
  <2>6. (\A d \in Clusters : Fat[d] # op.clst) /\ (\A n \in Files : Start[n] # op.clst)
    BY <1>1 DEF Volume, LooseInv, Loose
  <2>7. \A c \in Clusters : Fat'[c] = IF c = op.clst THEN 0 ELSE Fat[c]
    BY <1>1, <2>3, ViewTypes
  <2>8. 0 \notin Clusters /\ \A n \in Files : Start[n] # 0 => Start[n] \in Clusters
    BY Constants, ViewTypes DEF Starts
  <2>9. SoundTable(Fat', Start')
    BY <2>4, <2>5, <2>6, <2>7, <2>8 DEF SoundTable
  <2>10. SoundInv'
    <3>1. \A n \in Files : fp'[n].fs => Dir'[n].clust \in {0, fp'[n].sclust}
      BY <1>1, <2>3 DEF Volume, SoundInv
    <3>2. SoundTable(Fat, Start)'
      BY <2>9 DEF SoundTable
    <3> QED
      BY <1>1, <3>1, <3>2, DiskSound DEF SoundInv
  <2>11. WindowInv'
    BY <2>2 DEF WindowInv
  <2>12. LooseInv'
    <3>1. CASE At("back")
      BY <3>1 DEF LooseInv, At, Types, OpType
    <3>2. CASE nxt \in Clusters /\ op' = [op EXCEPT !.clst = nxt]
      <4>1. op'.at = "remove" /\ op'.clst = nxt
        BY <1>1, <3>2 DEF Types, OpType
      <4>2. \A c \in Clusters : Fat[c] = nxt => c = op.clst
        BY <1>1, <2>1, <2>5, <3>2 DEF SoundTable
      <4>3. \A n \in Files : Start[n] # nxt
        BY <1>1, <2>1, <2>5, <2>8, <3>2 DEF SoundTable
      <4> QED
        BY <2>4, <2>7, <2>8, <3>2, <4>1, <4>2, <4>3 DEF LooseInv, Loose
    <3> QED
      BY <1>4, <3>1, <3>2
  <2> QED
    BY <1>2, <2>10, <2>11, <2>12 DEF Volume
<1> QED
  BY <1>3, <1>4 DEF RemoveChain

LEMMA AllocateSound ==
  ASSUME Types, Control, Volume, FilesType', Allocate
  PROVE  Volume'
<1> DEFINE c == op.ncl
           marked == [fs EXCEPT !.fat[op.ncl] = EOC, !.wflag = TRUE]
<1>1. /\ op.at = "scan" /\ op.at # "out" /\ UNCHANGED <<disk, mounts>> /\ InWindow /\ CallStep
      /\ op.at \notin {"check", "mount"} /\ c \in Clusters /\ fs.fat[c] = 0
      /\ fs' \in {marked, [marked EXCEPT !.last = op.ncl, !.fsi = fs.info]}
  BY DEF Allocate, CallStep, Control, ScanInv
<1>2. file \in Files /\ Fp.fs /\ Fp = fp[file] /\ fp \in [Files -> FileObject]
  BY <1>1, ChunkKnown DEF AtFile
<1>3. MountInv'
  BY <1>1, StaysMounted, TypeFrame DEF Volume, MountVolume
<1>4. fs.winsect = FatSect(c) /\ Fat[c] = 0
  BY <1>1 DEF InWindow, Need, Fat
<1>5. /\ fs'.winsect = fs.winsect /\ fs'.fat = [fs.fat EXCEPT ![c] = EOC]
      /\ fs'.dir = fs.dir /\ fs'.wflag
  BY <1>1, ViewTypes DEF VolumeState
<1>6. Fat' = [Fat EXCEPT ![c] = EOC] /\ Dir' = Dir
  BY <1>1, <1>4, <1>5, LinkSet DEF Links
<1>7. /\ EOC # 0 /\ EOC \notin Clusters /\ c # 0
      /\ \A d \in Clusters : Fat'[d] = IF d = c THEN EOC ELSE Fat[d]
  BY <1>1, <1>6, ViewTypes, Constants
<1>8. SoundTable(Fat, Start)
  BY DEF Volume, SoundInv
<1>9. (\A d \in Clusters : Fat[d] # c) /\ (\A n \in Files : Start[n] # c)
  BY <1>1, <1>4, <1>8, FreeIsLoose
<1>10. /\ \A n \in Files : fp'[n].fs = fp[n].fs
       /\ \A n \in Files : n # file => fp'[n].sclust = fp[n].sclust
       /\ fp'[file].sclust \in {fp[file].sclust, c}
       /\ fp'[file].sclust # fp[file].sclust => fp[file].sclust = 0
  <2>1. UNCHANGED fp \/ GotCluster(c)
    BY DEF Allocate
  <2>2. CASE GotCluster(c)
    BY <1>2, <2>2 DEF GotCluster, FileObject
  <2> QED
    BY <2>1, <2>2
<1>11. /\ \A n \in Files : n # file => Start'[n] = Start[n]
       /\ Start'[file] \in {Start[file], c}
  BY <1>2, <1>6, <1>10 DEF Start
<1>12. SoundTable(Fat', Start')
  <2>1. /\ Fat \in [Clusters -> Links] /\ Start \in [Files -> Starts]
        /\ c \in Clusters /\ file \in Files /\ Fat[c] = 0
    BY <1>1, <1>2, <1>4, ViewTypes
  <2> HIDE DEF c
  <2> QED
    BY <1>6, <1>8, <1>11, <2>1, Marked
<1>13. SoundInv'
  <2>1. \A n \in Files : fp'[n].fs => Dir'[n].clust \in {0, fp'[n].sclust}
    BY <1>6, <1>10 DEF Volume, SoundInv
  <2>2. SoundTable(Fat, Start)'
    BY <1>12 DEF SoundTable
  <2> QED
    BY <1>1, <2>1, <2>2, DiskSound DEF SoundInv
<1>14. WindowInv'
  BY <1>5 DEF WindowInv
<1>15. LooseInv'
  <2>1. CASE op.clst = 0 /\ GotCluster(c)
    BY <2>1 DEF LooseInv, GotCluster, At, Types, OpType
  <2>2. CASE At("link") /\ UNCHANGED fp
    <3>1. op'.at = "link" /\ op'.ncl = c
      BY <2>2 DEF At, Types, OpType
    <3>2. \A n \in Files : Start'[n] = Start[n]
      BY <1>6, <2>2 DEF Start
    <3>3. Loose(c)'
      BY <1>1, <1>7, <1>9, <3>1, <3>2 DEF Loose
    <3> QED
      BY <1>1, <1>7, <3>1, <3>3 DEF LooseInv, Loose
  <2> QED
    BY <2>1, <2>2 DEF Allocate
<1> QED
  BY <1>3, <1>13, <1>14, <1>15 DEF Volume

LEMMA LinkSound ==
  ASSUME Types, Control, Volume, FilesType', StartsKept, Link, op'.at \in {"seek", "place"}
  PROVE  Volume'
<1> DEFINE c == op.ncl
<1>1. /\ op.at = "link" /\ op.at # "out" /\ UNCHANGED <<disk, mounts>> /\ InWindow /\ CallStep
      /\ op.at \notin {"check", "mount"} /\ c \in Clusters /\ op.clst \in Clusters
      /\ fs' = [fs EXCEPT !.fat[op.clst] = op.ncl, !.wflag = TRUE, !.last = op.ncl, !.fsi = fs.info]
  BY DEF Link, CallStep, Control, ScanInv
<1>2. MountInv'
  BY <1>1, StaysMounted, TypeFrame DEF Volume, MountVolume
<1>3. fs.winsect = FatSect(op.clst)
  BY <1>1 DEF InWindow, Need
<1>4. /\ fs'.winsect = fs.winsect /\ fs'.fat = [fs.fat EXCEPT ![op.clst] = c]
      /\ fs'.dir = fs.dir /\ fs'.wflag
  BY <1>1, ViewTypes DEF VolumeState
<1>5. Fat' = [Fat EXCEPT ![op.clst] = c] /\ Dir' = Dir
  BY <1>1, <1>3, <1>4, LinkSet DEF Links
<1>6. EOC # 0
  BY Constants
<1>7. SoundTable(Fat, Start)
  BY DEF Volume, SoundInv
<1>8. /\ \A d \in Clusters : Fat[d] # c
      /\ \A n \in Files : Start[n] # c
      /\ Fat[c] = EOC
  BY <1>1 DEF Volume, LooseInv, Loose
<1>9. \A n \in Files : Start'[n] = Start[n]
  BY <1>5 DEF Start, StartsKept
<1>10. SoundTable(Fat', Start')
  <2>1. SoundTable(Fat', Start)
    BY <1>1, <1>5, <1>6, <1>7, <1>8, ViewTypes, Linked
  <2> QED
    BY <1>9, <2>1, FewerStarts
<1>11. SoundInv'
  <2>1. \A n \in Files : fp'[n].fs => Dir'[n].clust \in {0, fp'[n].sclust}
    BY <1>5 DEF Volume, SoundInv, StartsKept
  <2>2. SoundTable(Fat, Start)'
    BY <1>10 DEF SoundTable
  <2> QED
    BY <1>1, <2>1, <2>2, DiskSound DEF SoundInv
<1>12. WindowInv'
  BY <1>4 DEF WindowInv
<1>13. LooseInv'
  BY DEF LooseInv
<1> QED
  BY <1>2, <1>11, <1>12, <1>13 DEF Volume

LEMMA UpdateSound ==
  ASSUME Types, Control, Volume, FilesType', StartsKept, UpdateEntry
  PROVE  Volume'
<1> DEFINE e == [fs.dir[file] EXCEPT !.size = Fp.fsize, !.clust = Fp.sclust]
<1>1. /\ op.at = "entry" /\ op.at # "out" /\ UNCHANGED <<disk, mounts>> /\ InWindow /\ CallStep
      /\ op.at \notin {"check", "mount"} /\ op.at \in AtFile
  BY DEF UpdateEntry, CallStep, AtFile
<1>2. /\ file \in Files /\ Fp.fs /\ Fp = fp[file] /\ fp \in [Files -> FileObject]
      /\ fs.dir[file] \in Entry /\ Fp.fsize \in Nat /\ Fp.sclust \in Starts
      /\ Fp.fsize # 0 => Fp.sclust # 0
  BY <1>1, ChunkKnown, CallKnown DEF FileObject
<1>3. e \in Entry /\ e.clust = Fp.sclust
  BY <1>2 DEF Entry
<1>4. fs' = [fs EXCEPT !.dir[file] = e, !.wflag = TRUE]
  BY <1>2, ViewTypes DEF UpdateEntry, VolumeState
<1> HIDE DEF e
<1>5. /\ fs'.winsect = fs.winsect /\ fs'.dir = [fs.dir EXCEPT ![file] = e]
      /\ fs'.fat = fs.fat /\ fs'.wflag
  BY <1>4, ViewTypes DEF VolumeState
<1>6. fs.winsect = DirSect
  BY <1>1 DEF InWindow, Need
<1>7. Dir' = [Dir EXCEPT ![file] = e] /\ Fat' = Fat
  BY <1>1, <1>2, <1>3, <1>5, <1>6, EntrySet
<1>8. \A n \in Files : Start'[n] = Start[n]
  BY <1>2, <1>7, ViewTypes DEF Start, StartsKept
<1>9. SoundInv'
  <2>1. \A n \in Files : fp'[n].fs => Dir'[n].clust \in {0, fp'[n].sclust}
    BY <1>2, <1>3, <1>7, ViewTypes DEF Volume, SoundInv, StartsKept
  <2>2. SoundTable(Fat', Start')
    BY <1>7, <1>8, FewerStarts DEF Volume, SoundInv
  <2>3. SoundTable(Fat, Start)'
    BY <2>2 DEF SoundTable
  <2> QED
    BY <1>1, <2>1, <2>3, DiskSound DEF SoundInv
<1>10. MountInv'
  BY <1>1, StaysMounted, TypeFrame DEF Volume, MountVolume
<1>11. WindowInv'
  BY <1>5 DEF WindowInv
<1>12. LooseInv'
  BY DEF LooseInv, UpdateEntry, At, Types, OpType
<1> QED
  BY <1>9, <1>10, <1>11, <1>12 DEF Volume

(***************************************************************************)
(* A step of a call keeps the invariant.                                   *)
(***************************************************************************)
LEMMA CallKeepsIInv ==
  ASSUME IInv, CallStep, UNCHANGED <<step, error>>
  PROVE  IInv'
<1>0. Types /\ Control /\ Volume /\ MountInv /\ UNCHANGED step
  BY DEF IInv, Volume
<1>1. DiskType' /\ FsType' /\ Counted'
  BY <1>0, CallTypes
<1>2. ASSUME CallKept, Volume'
      PROVE  IInv'
  BY <1>1, <1>2 DEF IInv, Types, CallKept, FilesType
<1>3. ASSUME CallKept, StartsKept,
             \/ Root \/ Follow \/ Scan \/ WriteBack \/ Place \/ NextChunk \/ CopyIn \/ WriteEnds
             \/ SeekTop \/ Seek \/ SeekEnds \/ NextByte \/ CopyOut \/ GetsEnds \/ Flushed
      PROVE  IInv'
  BY <1>0, <1>2, <1>3, FileStepSound DEF CallKept
<1>4. CASE Check
  BY <1>0, <1>2, <1>4, CheckKeeps, CheckSound DEF CallKept
<1>5. CASE SyncWindow \/ MoveWindow
  <2>1. op.at \notin {"check", "mount"}
    BY <1>5 DEF SyncWindow, MoveWindow, InWindow, Need
  <2>2. op.at # "out"
    BY <1>0, <2>1, Mounted
  <2> QED
    BY <1>0, <1>2, <1>5, <2>2, WindowKeeps, WindowSound DEF CallKept
<1>6. CASE MountVolume
  BY <1>0, <1>2, <1>6, MountKeeps, MountSound DEF CallKept
<1>7. CASE Root
  <2>1. StartsKept
    BY <1>7 DEF Root, StartsKept
  <2> QED
    BY <1>0, <1>3, <1>7, <2>1, RootKeeps
<1>8. CASE OpenExisting \/ OpenCreated
  BY <1>0, <1>2, <1>8, OpenKeeps, OpenSound DEF CallKept
<1>9. CASE Truncate
  BY <1>0, <1>2, <1>9, TruncateKeeps, TruncateSound DEF CallKept
<1>10. CASE RemoveChain
  BY <1>0, <1>2, <1>10, RemoveKeeps, RemoveSound DEF CallKept
<1>11. CASE Follow
  BY <1>0, <1>3, <1>11, FollowKeeps DEF StartsKept
<1>12. CASE Scan
  BY <1>0, <1>3, <1>12, ScanKeeps DEF StartsKept
<1>13. CASE Allocate
  BY <1>0, <1>2, <1>13, AllocateKeeps, AllocateSound DEF CallKept
<1>14. CASE Link
  <2>1. CallKept /\ StartsKept /\ op'.at \in {"seek", "place"}
    BY <1>0, <1>14, LinkKeeps DEF StartsKept
  <2>2. Volume'
    BY <1>0, <1>14, <2>1, LinkSound DEF CallKept
  <2> QED
    BY <1>2, <2>1, <2>2
<1>15. CASE WriteBack \/ Place
  BY <1>0, <1>3, <1>15, WriteBackKeeps, PlaceKeeps
<1>16. CASE NextChunk \/ CopyIn \/ WriteEnds
  BY <1>0, <1>3, <1>16, NextChunkKeeps, CopyInKeeps, WriteEndsKeeps
<1>17. CASE SeekTop \/ Seek \/ SeekEnds
  BY <1>0, <1>3, <1>17, SeekTopKeeps, SeekKeeps, SeekEndsKeeps
<1>18. CASE NextByte \/ CopyOut \/ GetsEnds
  BY <1>0, <1>3, <1>18, NextByteKeeps, CopyOutKeeps, GetsEndsKeeps
<1>19. CASE Flushed
  BY <1>0, <1>3, <1>19, FlushKeeps
<1>20. CASE UpdateEntry
  BY <1>0, <1>2, <1>20, UpdateEntryKeeps, UpdateSound DEF CallKept
<1>21. CASE SyncFs
  BY <1>0, <1>2, <1>21, FlushKeeps, WindowSound DEF CallKept
<1>22. CASE SyncEnds
  <2>1. CallKept /\ \A n \in Files : fp'[n].sclust = fp[n].sclust /\ (fp'[n].fs => fp[n].fs)
    BY <1>0, <1>22, SyncEndsKeeps
  <2>2. Volume'
    BY <1>0, <1>22, <2>1, SyncEndsSound DEF CallKept
  <2> QED
    BY <1>2, <2>1, <2>2
<1> QED
  BY <1>4, <1>5, <1>6, <1>7, <1>8, <1>9, <1>10, <1>11, <1>12, <1>13, <1>14, <1>15, <1>16, <1>17,
     <1>18, <1>19, <1>20, <1>21, <1>22 DEF CallStep

(***************************************************************************)
(* The caller's steps.                                                     *)
(***************************************************************************)
LEMMA CallOfType ==
  ASSUME FilesType, NEW s \in Steps
  PROVE  /\ CallOf[s][1] \in Calls /\ CallOf[s][2] \in Files /\ CallOf[s][3] \in Nat
         /\ CallOf[s][1] = "lseek" => CallOf[s][3] = fp[CallOf[s][2]].fsize
<1>1. LineUnits - 1 \in Nat /\ HeaderUnits \in Nat /\ RecordUnits \in Nat
  BY LogFilesAssumption, Constants
<1>2. Log \in Files /\ fp[Log].fsize \in Nat
  BY FilesNamed DEF Log, FilesType, FileObject
<1>3. CASE s \in {"cfg_open", "cfg_gets", "cfg_close", "version_open", "version_write"}
  BY <1>1, <1>3, FilesNamed DEF CallOf, Calls, Opening
<1>4. CASE s \in {"version_close", "mpu_open", "mpu_write", "rc_open", "rc_write"}
  BY <1>1, <1>2, <1>4, FilesNamed DEF CallOf, Calls, Opening
<1>5. CASE s \in {"write", "open", "lseek", "sync"}
  BY <1>1, <1>2, <1>5 DEF CallOf, Calls, Opening
<1> QED
  BY <1>3, <1>4, <1>5 DEF Steps

LEMMA CallerVolume ==
  ASSUME IInv, UNCHANGED <<disk, fs, fp, mounts>>, op'.at \in {"out", "check"}
  PROVE  Volume'
<1>1. Fat' = Fat /\ Dir' = Dir
  BY DEF Fat, Dir
<1>2. Start' = Start
  BY <1>1 DEF Start
<1>3. MountInv' /\ LooseInv'
  BY DEF IInv, Volume, MountInv, LooseInv, AtOpen, AtFile
<1>4. WindowInv'
  BY <1>1 DEF IInv, Volume, WindowInv
<1>5. SoundInv'
  BY <1>1, <1>2 DEF IInv, Volume, SoundInv, SoundTable
<1> QED
  BY <1>3, <1>4, <1>5 DEF Volume

LEMMA CallBeginsIInv ==
  ASSUME IInv, CallBegins
  PROVE  IInv'
<1> DEFINE call == CallOf[step][1]
           name == CallOf[step][2]
           left == CallOf[step][3]
<1>1. step \in Steps /\ FilesType
  BY StepsNamed DEF CallBegins, IInv, Types, FilesType
<1>2. call \in Calls /\ name \in Files /\ left \in Nat /\ (call = "lseek" => left = fp[name].fsize)
      /\ fp[name].fptr \in Nat
  BY <1>1, CallOfType DEF FilesType, FileObject
<1>3. op' = [Idle EXCEPT !.call = call, !.file = name, !.at = "check",
                         !.from = fp[name].fptr, !.left = left]
      /\ UNCHANGED <<disk, fs, fp, mounts, faults, step, error>>
  BY DEF CallBegins, Begin
<1> HIDE DEF call, name, left
<1>4. OpType' /\ op'.at = "check" /\ op'.call = call /\ op'.file = name /\ op'.left = left
  BY <1>2, <1>3, PlacesNamed DEF Idle, OpType
<1>5. Types'
  BY <1>3, <1>4 DEF IInv, Types, DiskType, FsType, Counted
<1>6. CallInv'
  BY <1>1, <1>2, <1>3, <1>4 DEF CallInv, AtOpen, AtFile, file
<1>7. LeftInv' /\ ScanInv'
  BY <1>4 DEF LeftInv, ScanInv
<1>8. PointerInv'
  BY <1>2, <1>3, <1>4 DEF PointerInv, IInv, Control, Fp, file
<1>9. Volume'
  BY <1>3, <1>4, CallerVolume
<1> QED
  BY <1>5, <1>6, <1>7, <1>8, <1>9 DEF IInv, Control

\* Between two calls.
LEMMA OutIInv ==
  ASSUME IInv, UNCHANGED <<disk, fs, fp, mounts, faults>>, OpType', op'.at = "out",
         step' \in Steps \cup {"wait", "dead"}, error' \in BOOLEAN
  PROVE  IInv'
<1>1. Types'
  BY DEF IInv, Types, DiskType, FsType, Counted
<1>2. CallInv' /\ LeftInv' /\ ScanInv'
  BY DEF CallInv, LeftInv, ScanInv, AtOpen, AtFile
<1>3. PointerInv'
  BY DEF PointerInv, IInv, Control
<1>4. Volume'
  BY CallerVolume
<1> QED
  BY <1>1, <1>2, <1>3, <1>4 DEF IInv, Control

LEMMA CallerIInv ==
  ASSUME IInv, HeaderSkipped \/ CallReturns \/ Wake
  PROVE  IInv'
<1>1. UNCHANGED <<disk, fs, fp, mounts, faults>>
  BY DEF HeaderSkipped, CallReturns, Wake, fileVars
<1>2. \A s \in Steps : After[s] \in Steps \cup {"wait", "dead"}
  BY DEF After, Steps
<1>3. error \in BOOLEAN /\ OpType /\ CallInv
  BY DEF IInv, Types, Counted, Control
<1>4. CASE HeaderSkipped
  <2>1. step \in Steps
    BY <1>4 DEF HeaderSkipped, Headers, Steps
  <2>2. step' \in Steps \cup {"wait", "dead"} /\ UNCHANGED <<op, error>> /\ op.at = "out"
    BY <1>2, <1>4, <2>1 DEF HeaderSkipped, fileVars
  <2> QED
    BY <1>1, <1>3, <2>2, OutIInv DEF OpType
<1>5. CASE CallReturns
  <2>1. step \in Steps
    BY <1>3, <1>5 DEF CallReturns, CallInv
  <2>2. step' \in {"version_open", "dead", "open", After[step]} /\ error' \in BOOLEAN /\ op' = Idle
    BY <1>3, <1>5 DEF CallReturns
  <2>3. step' \in Steps \cup {"wait", "dead"}
    BY <1>2, <2>1, <2>2 DEF Steps
  <2>4. OpType' /\ op'.at = "out"
    BY <2>2, PlacesNamed DEF OpType, Idle
  <2> QED
    BY <1>1, <2>2, <2>3, <2>4, OutIInv
<1>6. CASE Wake
  <2>1. op.at = "out"
    BY <1>3, <1>6 DEF Wake, CallInv, Steps
  <2>2. step' \in Steps \cup {"wait", "dead"} /\ UNCHANGED <<op, error>>
    BY <1>6 DEF Wake, Steps, fileVars
  <2> QED
    BY <1>1, <1>3, <2>1, <2>2, OutIInv DEF OpType
<1> QED
  BY <1>4, <1>5, <1>6

(***************************************************************************)
(* Without a volume, what FatFs has is what the card has.                  *)
(***************************************************************************)
LEMMA UnmountedTypes ==
  /\ Unmounted \in VolumeState /\ ~Unmounted.type /\ ~Unmounted.wflag
  /\ \A c : FatSect(c) # Unmounted.winsect
  /\ Unmounted.winsect # DirSect
  /\ Closed \in FileObject /\ ~Closed.fs
  /\ Idle.at = "out"
<1>1. NoEntry \in Entry
  BY DEF NoEntry, Entry, Starts
<1>2. NoSect \in Windows
  BY DEF NoSect, Windows
<1>3. [c \in Clusters |-> 0] \in [Clusters -> Links] /\ [n \in Files |-> NoEntry] \in [Files -> Entry]
  BY <1>1 DEF Links
<1>4. Unmounted \in VolumeState
  BY <1>2, <1>3 DEF Unmounted, VolumeState
<1>5. [i \in 0 .. SS - 1 |-> Blank] \in Sector
  BY DEF Sector, Unit, Blank
<1>6. Closed \in FileObject
  BY <1>5 DEF Closed, FileObject, Starts
<1> QED
  BY <1>4, <1>6, SectorsDiffer DEF Unmounted, Closed, Idle

LEMMA RestartIInv ==
  ASSUME IInv, PowerLoss \/ Remount
  PROVE  IInv'
<1>1. fs' = Unmounted /\ fp' = [n \in Files |-> Closed] /\ UNCHANGED <<disk, mounts, faults>>
      /\ mounts < MaxMounts
  BY DEF PowerLoss, Remount, Restart
<1>2. /\ OpType' /\ op'.at = "out"
      /\ step' \in Steps \cup {"wait", "dead"} /\ error' \in BOOLEAN
  <2>1. CASE PowerLoss
    BY <2>1, PlacesNamed DEF PowerLoss, OpType, Idle, Steps
  <2>2. CASE Remount
    BY <2>2 DEF Remount, IInv, Types, OpType, Counted
  <2> QED
    BY <2>1, <2>2
<1>3. Types'
  BY <1>1, <1>2, UnmountedTypes DEF IInv, Types, DiskType, FsType, Counted
<1>4. \A n \in Files : fp'[n] = Closed /\ ~fp'[n].fs
  BY <1>1, UnmountedTypes
<1>5. CallInv' /\ LeftInv' /\ ScanInv' /\ PointerInv'
  BY <1>2, <1>4 DEF CallInv, LeftInv, ScanInv, PointerInv, AtOpen, AtFile
<1>6. disk \in CardState /\ disk.fat \in [Clusters -> Links]
  BY ViewTypes DEF IInv
<1>7. Fat' = disk.fat
  <2>1. \A c \in Clusters : Fat'[c] = disk.fat[c]
    BY <1>1, UnmountedTypes DEF Fat
  <2> QED
    BY <1>6, <2>1 DEF Fat
<1>8. Dir' = disk.dir
  BY <1>1, UnmountedTypes DEF Dir
<1>9. \A n \in Files : Start'[n] = disk.dir[n].clust
  BY <1>4, <1>8 DEF Start
<1>10. SoundInv'
  <2>1. SoundTable(disk.fat, [n \in Files |-> disk.dir[n].clust])
    BY DEF IInv, Volume, SoundInv
  <2>2. SoundTable(disk.fat, Start')
    BY <1>9, <2>1, FewerStarts
  <2>3. SoundTable(Fat, Start)'
    BY <1>7, <2>2 DEF SoundTable
  <2>4. SoundTable(disk.fat, [n \in Files |-> disk.dir[n].clust])'
    BY <1>1, <2>1 DEF SoundTable
  <2> QED
    BY <1>4, <2>3, <2>4 DEF SoundInv
<1>11. MountInv' /\ WindowInv' /\ LooseInv'
  BY <1>1, <1>2, <1>4, <1>7, <1>8, UnmountedTypes
  DEF MountInv, WindowInv, LooseInv, AtOpen, AtFile
<1> QED
  BY <1>3, <1>5, <1>10, <1>11 DEF IInv, Control, Volume

(***************************************************************************)
(* The card the program starts with.                                       *)
(***************************************************************************)
LEMMA InitDisk ==
  ASSUME Init
  PROVE  /\ disk \in CardState
         /\ SoundTable(disk.fat, [n \in Files |-> disk.dir[n].clust])
<1>1. PICK config \in BOOLEAN :
         disk = [fat  |-> [c \in Clusters |-> IF c \notin ConfigClusters THEN 0
                             ELSE IF c + 1 \in ConfigClusters THEN c + 1 ELSE EOC],
                 dir  |-> [n \in Files |-> IF ~config \/ n # "config" THEN NoEntry
                             ELSE [there |-> TRUE, clust |-> 2, size |-> ConfigUnits]],
                 data |-> [s \in DataSectors |-> [i \in 0 .. SS - 1 |->
                             IF s \div CSize \in ConfigClusters
                               THEN <<"config", 0, (s - 2 * CSize) * SS + i>> ELSE Blank]],
                 hint |-> 0]
  BY DEF Init
<1>2. 2 \in Clusters /\ 2 \in ConfigClusters /\ ConfigClusters \subseteq Nat
      /\ \A c \in ConfigClusters : c >= 2
  <2>1. (ConfigUnits - 1) \div BCS \in Nat
    BY LogFilesAssumption, Constants
  <2>2. 2 \in Clusters
    BY Constants
  <2> QED
    BY <2>1, <2>2 DEF ConfigClusters
<1>3. /\ \A c \in Clusters : disk.fat[c] = IF c \notin ConfigClusters THEN 0
                               ELSE IF c + 1 \in ConfigClusters THEN c + 1 ELSE EOC
      /\ \A n \in Files : disk.dir[n].clust \in {0, 2} /\ (disk.dir[n].clust = 2 => n = "config")
  BY <1>1 DEF NoEntry
<1>4. disk.fat \in [Clusters -> Links]
  <2>1. \A c \in Clusters : c + 1 \in Links
    BY Constants DEF Links
  <2>2. [c \in Clusters |-> IF c \notin ConfigClusters THEN 0
           ELSE IF c + 1 \in ConfigClusters THEN c + 1 ELSE EOC] \in [Clusters -> Links]
    BY <2>1 DEF Links
  <2> QED
    BY <1>1, <2>2
<1>5. disk.dir \in [Files -> Entry]
  <2>1. NoEntry \in Entry /\ [there |-> TRUE, clust |-> 2, size |-> ConfigUnits] \in Entry
    BY <1>2, LogFilesAssumption DEF Entry, NoEntry, Starts
  <2> QED
    BY <1>1, <2>1
<1>6. disk.data \in [DataSectors -> Sector]
  <2>1. \A s \in DataSectors, i \in 0 .. SS - 1 : (s - 2 * CSize) * SS + i \in Nat
    <3>1. \A s \in DataSectors : s - 2 * CSize \in Nat
      BY Constants DEF DataSectors
    <3>2. \A a, b \in Nat : a * b \in Nat
      OBVIOUS
    <3> QED
      BY <3>1, <3>2, Constants
  <2>2. "config" \in Files
    BY FilesNamed
  <2>3. \A s \in DataSectors, i \in 0 .. SS - 1 :
          (IF s \div CSize \in ConfigClusters
             THEN <<"config", 0, (s - 2 * CSize) * SS + i>> ELSE Blank) \in Unit
    BY <2>1, <2>2 DEF Unit, Blank
  <2> QED
    BY <1>1, <2>3 DEF Sector
<1>7. disk \in CardState
  BY <1>1, <1>4, <1>5, <1>6 DEF CardState
<1>8. ASSUME NEW c \in Clusters, NEW d \in Clusters, disk.fat[c] = disk.fat[d],
             disk.fat[c] \in Clusters
      PROVE  c = d
  BY <1>3, <1>8, Constants
<1>9. ASSUME NEW c \in Clusters, disk.fat[c] \in Clusters
      PROVE  disk.fat[disk.fat[c]] # 0
  BY <1>3, <1>9, Constants
<1>10. \A c \in Clusters : disk.fat[c] # 2
  BY <1>2, <1>3, Constants
<1> DEFINE s == [n \in Files |-> disk.dir[n].clust]
<1>11. /\ \A n \in Files : s[n] \in {0, 2} /\ (s[n] = 2 => n = "config")
       /\ disk.fat[2] # 0
  BY <1>2, <1>3, Constants
<1> HIDE DEF s
<1>12. SoundTable(disk.fat, s)
  BY <1>8, <1>9, <1>10, <1>11 DEF SoundTable
<1> QED
  BY <1>7, <1>12 DEF s

LEMMA InitIInv ==
  ASSUME Init
  PROVE  IInv
<1>1. /\ fs = Unmounted /\ fp = [n \in Files |-> Closed] /\ op = Idle /\ mounts = 0 /\ faults = 0
      /\ step = "cfg_open" /\ error = FALSE
  BY DEF Init
<1>2. Types
  <2>1. OpType
    BY <1>1, PlacesNamed DEF OpType, Idle
  <2>2. Counted
    <3>1. MaxMounts \in Nat /\ MaxFaults \in Nat
      BY LogFilesAssumption, FatFileAssumption
    <3>2. mounts \in 0 .. MaxMounts /\ faults \in 0 .. MaxFaults
      BY <1>1, <3>1
    <3>3. step \in Steps /\ error \in BOOLEAN
      BY <1>1 DEF Steps
    <3> QED
      BY <3>2, <3>3 DEF Counted
  <2> QED
    BY <1>1, <2>1, <2>2, InitDisk, UnmountedTypes DEF Types, DiskType, FsType
<1>3. op.at = "out" /\ \A n \in Files : fp[n] = Closed /\ ~fp[n].fs
  BY <1>1, UnmountedTypes
<1>4. Control
  BY <1>3 DEF Control, CallInv, LeftInv, ScanInv, PointerInv, AtOpen, AtFile
<1>5. Fat = disk.fat
  <2>1. disk.fat \in [Clusters -> Links]
    BY <1>2, ViewTypes
  <2>2. \A c \in Clusters : Fat[c] = disk.fat[c]
    BY <1>1, UnmountedTypes DEF Fat
  <2> QED
    BY <2>1, <2>2 DEF Fat
<1>6. Dir = disk.dir
  BY <1>1, UnmountedTypes DEF Dir
<1>7. SoundInv
  <2>1. SoundTable(disk.fat, [n \in Files |-> disk.dir[n].clust])
    BY InitDisk
  <2>2. \A n \in Files : Start[n] = disk.dir[n].clust
    BY <1>3, <1>6 DEF Start
  <2>3. SoundTable(disk.fat, Start)
    BY <2>1, <2>2, FewerStarts
  <2> QED
    BY <1>3, <1>5, <2>1, <2>3 DEF SoundInv
<1>8. mounts < MaxMounts
  BY <1>1, LogFilesAssumption
<1>9. MountInv /\ WindowInv /\ LooseInv
  BY <1>1, <1>3, <1>5, <1>6, <1>8, UnmountedTypes
  DEF MountInv, WindowInv, LooseInv, AtOpen, AtFile
<1> QED
  BY <1>2, <1>4, <1>7, <1>9 DEF IInv, Volume

(***************************************************************************)
(* The theorems.                                                           *)
(***************************************************************************)
LEMMA NextIInv ==
  ASSUME IInv, [Next]_vars
  PROVE  IInv'
<1>1. CASE InCall
  BY <1>1, CallKeepsIInv DEF InCall
<1>2. CASE CallBegins
  BY <1>2, CallBeginsIInv
<1>3. CASE HeaderSkipped \/ CallReturns \/ Wake
  BY <1>3, CallerIInv
<1>4. CASE PowerLoss \/ Remount
  BY <1>4, RestartIInv
<1>5. CASE UNCHANGED vars
  <2>1. UNCHANGED <<disk, fs, fp, op, mounts, faults, step, error>>
    BY <1>5 DEF vars, fileVars
  <2>2. Fat' = Fat /\ Dir' = Dir /\ Start' = Start
    BY <2>1 DEF Fat, Dir, Start
  <2>3. Types' /\ Control'
    BY <2>1 DEF IInv, Types, DiskType, FsType, OpType, Counted, Control, CallInv, LeftInv,
                PointerInv, ScanInv, Fp, file
  <2>4. MountInv' /\ WindowInv' /\ SoundInv' /\ LooseInv'
    BY <2>1, <2>2 DEF IInv, Volume, MountInv, WindowInv, SoundInv, LooseInv, SoundTable, Loose
  <2> QED
    BY <2>3, <2>4 DEF IInv, Volume
<1> QED
  BY <1>1, <1>2, <1>3, <1>4, <1>5 DEF Next, Caller

\* The invariant holds whatever is written, opened or searched for, and
\* wherever the power or an access fails.
THEOREM LogFilesInvariant == Spec => []IInv
<1>1. Init => IInv
  BY InitIInv
<1>2. IInv /\ [Next]_vars => IInv'
  BY NextIInv
<1> QED
  BY <1>1, <1>2, PTL DEF Spec

\* The table on the card is sound at every moment (put_fat(), create_chain(),
\* remove_chain(), f_sync() and the order in which the window is written): files
\* share no cluster after a loss of power.
THEOREM CardAlwaysSound == Spec => []CardIsSound
<1>1. IInv => CardIsSound
  <2> SUFFICES ASSUME IInv
               PROVE  CardIsSound
    OBVIOUS
  <2>1. /\ disk.fat \in [Clusters -> Links] /\ disk.dir \in [Files -> Entry]
        /\ fs.fat \in [Clusters -> Links] /\ fs.dir \in [Files -> Entry]
    BY ViewTypes DEF IInv
  <2>2. \A n \in Files : disk.dir[n].clust \in Starts /\ fs.dir[n].clust \in Starts
    BY <2>1 DEF Entry
  <2>3. \A n \in Files : fp[n].fsize \in Nat /\ fp[n].fptr \in Nat
                         /\ fp[n].dsect \in {0} \cup DataSectors
    BY DEF IInv, Types, FileObject
  <2>4. TypeOK
    BY <2>1, <2>2, <2>3, StepsNamed DEF TypeOK, IInv, Types, Counted, Links, Starts
  <2> QED
    BY <2>4 DEF CardIsSound, IInv, Volume, SoundInv
<1> QED
  BY <1>1, LogFilesInvariant, PTL

\* Files that are open share no cluster, those included that their entries do
\* not know yet.
THEOREM OpenFilesAlwaysApart == Spec => []OpenFilesAreApart
<1>1. IInv => OpenFilesAreApart
  <2> SUFFICES ASSUME IInv
               PROVE  OpenFilesAreApart
    OBVIOUS
  <2>1. \A n \in Files : [m \in Files |-> IF fp[m].fs THEN fp[m].sclust ELSE 0][n] \in {0, Start[n]}
    BY DEF Start
  <2>2. SoundTable(Fat, Start)
    BY DEF IInv, Volume, SoundInv
  <2>3. SoundTable(Fat, [n \in Files |-> IF fp[n].fs THEN fp[n].sclust ELSE 0])
    BY <2>1, <2>2, FewerStarts
  <2> QED
    BY <2>3 DEF OpenFilesAreApart
<1> QED
  BY <1>1, LogFilesInvariant, PTL
=============================================================================
