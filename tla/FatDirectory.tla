---------------------------- MODULE FatDirectory ----------------------------
(***************************************************************************)
(* A directory of a FAT volume: dir_find(), dir_alloc() and dir_register() *)
(* of fatfs/src/ff.c entry by entry, over a table that is written a sector *)
(* at a time through the window of the volume.  The power can fail between *)
(* two sectors, and a PC edits the table while the card is in it.          *)
(***************************************************************************)
EXTENDS FatName

CONSTANTS Names,       \* the names that files are opened with, here or on a PC
          Tables,      \* the tables a card can have when it comes from a PC
          PerSector,   \* entries of a sector
          PerCluster,  \* entries of a cluster
          MaxTable,    \* entries the free clusters allow
          MaxEdits,    \* bound: losses of power and edits on a PC
          MaxOpens     \* bound: calls of f_open()

ASSUME DirectoryAssumption ==
  /\ PerSector \in Nat \ {0} /\ PerCluster \in Nat \ {0} /\ PerCluster % PerSector = 0
  /\ MaxTable \in 0 .. 65536   \* dir_next() ends at the index 65535
  /\ MaxEdits \in Nat /\ MaxOpens \in Nat

\* create_name() takes a control character, as the one that stands for 0xE5 is,
\* for the end of the path.
ASSUME NamesAssumption ==
  \A name \in Names : name \in Seq(STRING) /\ \A i \in DOMAIN name : name[i] # "05"

VARIABLES table,  \* the entries on the card
          win,    \* the window: its sector, whether it is changed, what it shows
          op,     \* the call in progress
          opens, edits,
          torn    \* history: a loss of power has left a cluster that was not zeroed

vars == <<table, win, op, opens, edits, torn>>

End     == [kind |-> "end"]
Deleted == [kind |-> "deleted"]
Volume  == [kind |-> "volume"]
Stale   == [kind |-> "stale"]   \* what a cluster held before it was a directory's
\* who is the name the entry was made for.
Sfn(fn, who) == [kind |-> "sfn", fn |-> fn, who |-> who]

(***************************************************************************)
(* What a table holds when it comes from a PC.                             *)
(***************************************************************************)
\* The names as a long name keeps them, and the short names one can have.
Stored == {Stripped(name) : name \in {n \in Names : ~InvalidName(n)}}
ShortNames(w) == LET cw == CreateName(w) IN
                 IF cw.loss THEN {GenNumname(cw.fn, n) : n \in 1 .. NumMax} ELSE {cw.fn}
IsLong(w) == CreateName(w).long
\* The sums an entry of a long name can have, or none yet.
Sums == {255} \cup {SumSfn(f) : f \in UNION {ShortNames(w) : w \in Stored}}

\* The entries k to m of t are the first of those that hold the long name w.
Chain(t, k, m, w, sum) ==
  /\ k \in 1 .. m /\ m - k < LfnEntries(w)
  /\ \A j \in k .. m : t[j] = FitLfn(w, LfnEntries(w) - (j - k), sum)

IsSfn(e) == \E w \in Stored : \E f \in ShortNames(w) : e = Sfn(f, w)

\* Parts of long names may be left without their file, but from the first on.
Chained(t) ==
  \A m \in DOMAIN t : t[m].kind = "lfn" =>
    \E k \in 1 .. m : \E w \in Stored : \E f \in ShortNames(w) :
      IsLong(w) /\ Chain(t, k, m, w, SumSfn(f))

\* A file has its own long name before it.
Whole(t) ==
  \A i \in DOMAIN t : t[i].kind = "sfn" /\ IsLong(t[i].who) =>
    Chain(t, i - LfnEntries(t[i].who), i - 1, t[i].who, SumSfn(t[i].fn))

Distinct(t) == \A i, j \in DOMAIN t :
  t[i].kind = "sfn" /\ t[j].kind = "sfn" /\ t[i].fn = t[j].fn => i = j

\* Nothing is in use behind the end mark.
Ended(t) == \A i, j \in DOMAIN t : t[i] = End /\ i < j => t[j] = End

ASSUME TablesAssumption ==
  \A t \in Tables :
    /\ t = [i \in 1 .. Len(t) |-> t[i]]
    /\ Len(t) \in 1 .. MaxTable /\ Len(t) % PerCluster = 0
    /\ \A i \in DOMAIN t : t[i] \in {End, Deleted, Volume} \/ t[i].kind = "lfn" \/ IsSfn(t[i])
    /\ Chained(t) /\ Whole(t) /\ Distinct(t) /\ Ended(t)

Free(e) == e.kind \in {"end", "deleted"}

\* An entry whose name begins with the deletion mark is no entry.
Dead(e) == e.kind \in {"deleted", "volume"} \/ (e.kind = "sfn" /\ e.fn[1][1] = "E5")

NoName == <<>>
Idle == [call |-> "none", name |-> NoName, at |-> "out", pos |-> 0, ord |-> 255,
         sum |-> 255, num |-> 0, n |-> 0, res |-> "FR_OK"]
NoWindow(t) == [sect |-> 0, dirty |-> FALSE, view |-> t]

\* The name in its forms; while numbered names are tried, only the short one.
cn   == CreateName(op.name)
fn   == IF op.num = 0 THEN cn.fn ELSE GenNumname(cn.fn, op.num)
loss == op.num = 0 /\ cn.loss

(***************************************************************************)
(* The window.                                                             *)
(***************************************************************************)
SectorOf(i) == (i - 1) \div PerSector + 1
Working  == op.at \in {"find", "alloc", "put"}
InWindow == SectorOf(op.pos) = win.sect

\* The table as FatFs has it.
View == [i \in DOMAIN table |-> IF SectorOf(i) = win.sect THEN win.view[i] ELSE table[i]]

Flush == /\ table' = View
         /\ win' = [win EXCEPT !.dirty = FALSE]

\* Mutant of MoveWindow: the changed sector is dropped.
MoveWindowDropping ==
  /\ Working /\ ~InWindow
  /\ win' = [sect |-> SectorOf(op.pos), dirty |-> FALSE, view |-> table]
  /\ UNCHANGED <<table, op, opens, edits, torn>>

\* move_window(): the sector is written back if it was changed, then the other read.
MoveWindow ==
  /\ Working /\ ~InWindow
  /\ IF win.dirty THEN Flush
                  ELSE /\ win' = [sect |-> SectorOf(op.pos), dirty |-> FALSE, view |-> table]
                       /\ UNCHANGED table
  /\ UNCHANGED <<op, opens, edits, torn>>

\* The call changes the entry it is at.
Put(e) == win' = [win EXCEPT !.view[op.pos] = e, !.dirty = TRUE]

(***************************************************************************)
(* dir_find().                                                             *)
(***************************************************************************)
Return(res) == op' = [op EXCEPT !.at = "ret", !.res = res]

\* dir_sdi(): back to the first entry.
Rewind(l) == [op EXCEPT !.at = l, !.pos = 1, !.ord = 255, !.sum = 255, !.n = 0]

\* Mutant of NotFound: the first number is taken without looking.
NotFoundUnnumbered ==
  IF op.call = "open" THEN Return("FR_NO_FILE")
  ELSE op' = [Rewind("alloc") EXCEPT !.num = IF loss THEN 1 ELSE 0]

\* The name is not there: f_open() without creating is done, dir_register()
\* looks for a number that is not taken, then for free entries.
NotFound == IF op.call = "open" THEN Return("FR_NO_FILE")
            ELSE op' = IF loss THEN [Rewind("find") EXCEPT !.num = 1] ELSE Rewind("alloc")

\* The name is there, or the numbered name is taken.
Found == IF op.num = 0 THEN Return("FR_OK")
         ELSE IF op.num = NumMax THEN Return("FR_DENIED")
         ELSE op' = [Rewind("find") EXCEPT !.num = op.num + 1]

\* dir_next() without stretching the table.
Follow(ord, sum) == IF op.pos = Len(table) THEN NotFound
                   ELSE op' = [op EXCEPT !.pos = op.pos + 1, !.ord = ord, !.sum = sum]

\* An entry of a long name continues the sequence that ends at the short name.
FindLfn(e) ==
  \E same \in CmpLfn(cn.lfn, e) :
    LET ord == IF e.last THEN e.ord ELSE op.ord
        sum == IF e.last THEN e.sum ELSE op.sum IN
    Follow(IF e.ord = ord /\ sum = e.sum /\ same THEN ord - 1 ELSE 255, sum)

\* Mutant of FindSfn: the check sum of the short name is not compared.
FindSfnUnsummed(e) == IF op.ord = 0 \/ (~loss /\ e.fn = fn)
                        THEN Found ELSE Follow(255, op.sum)

\* The long name led here, or the short name is the one, unless it is lossy.
FindSfn(e) == IF \/ op.ord = 0 /\ op.sum = SumSfn(e.fn)
                 \/ ~loss /\ e.fn = fn
                THEN Found ELSE Follow(255, op.sum)

\* What was never written can look like anything: the end of the table, a short
\* name, the one that is looked for among them, or a part of a long name.
FindStale ==
  \/ NotFound
  \/ (op.ord = 0 \/ ~loss) /\ Found
  \/ Follow(255, op.sum)
  \/ op.num = 0 /\ \E ord \in 0 .. MaxEntries, sum \in Sums : Follow(ord, sum)

Find ==
  LET e == win.view[op.pos] IN
  /\ op.at = "find" /\ InWindow
  /\ CASE e.kind = "end" -> NotFound
       [] e.kind = "stale" -> FindStale
       [] Dead(e) -> Follow(255, op.sum)
       [] e.kind = "lfn" -> IF op.num = 0 THEN FindLfn(e) ELSE Follow(op.ord, op.sum)
       [] e.kind = "sfn" /\ ~Dead(e) -> FindSfn(e)
  /\ UNCHANGED <<table, win, opens, edits, torn>>

(***************************************************************************)
(* dir_alloc() and dir_register().                                         *)
(***************************************************************************)
Entries == 1 + (IF cn.long THEN LfnEntries(cn.lfn) ELSE 0)

\* op.n counts the contiguous free entries, or what looks like them; then op.n
\* entries are to be put.
Alloc ==
  LET e == win.view[op.pos] IN
  /\ op.at = "alloc" /\ InWindow
  /\ \E free \in IF e.kind = "stale" THEN BOOLEAN ELSE {Free(e)} :
       LET n == IF free THEN op.n + 1 ELSE 0 IN
       IF n = Entries
         THEN op' = [op EXCEPT !.at = "put", !.pos = op.pos - n + 1, !.n = n]
       ELSE IF op.pos < Len(table) THEN op' = [op EXCEPT !.pos = op.pos + 1, !.n = n]
       ELSE IF Len(table) + PerCluster > MaxTable THEN Return("FR_DENIED")
       ELSE op' = [op EXCEPT !.at = "link", !.n = n]
  /\ UNCHANGED <<table, win, opens, edits, torn>>

\* dir_next() stretches the table: the window is written back, the FAT links
\* the new cluster, which still holds what it held before,
Stretch ==
  LET flushed == IF win.dirty THEN View ELSE table
      longer == flushed \o [i \in 1 .. PerCluster |-> Stale] IN
  /\ op.at = "link"
  /\ table' = longer
  /\ win' = NoWindow(longer)
  /\ op' = [op EXCEPT !.at = "zero", !.pos = op.pos + 1]
  /\ UNCHANGED <<opens, edits, torn>>

\* Mutant of ZeroFill: one sector is written for the whole cluster.
ZeroFillOnce ==
  LET filled == [i \in DOMAIN table |-> IF SectorOf(i) = SectorOf(op.pos)
                                           THEN End ELSE table[i]] IN
  /\ op.at = "zero"
  /\ table' = filled
  /\ win' = NoWindow(filled)
  /\ op' = [op EXCEPT !.at = "alloc", !.pos = Len(table) - PerCluster + 1]
  /\ UNCHANGED <<opens, edits, torn>>

\* and then its sectors are written with zeros, one after the other.
ZeroFill ==
  LET sect == {i \in DOMAIN table : SectorOf(i) = SectorOf(op.pos)}
      filled == [i \in DOMAIN table |-> IF i \in sect THEN End ELSE table[i]]
      first == Len(table) - PerCluster + 1 IN
  /\ op.at = "zero"
  /\ table' = filled
  /\ win' = NoWindow(filled)
  /\ op' = IF op.pos + PerSector <= Len(table)
             THEN [op EXCEPT !.pos = op.pos + PerSector]
             ELSE [op EXCEPT !.at = "alloc", !.pos = first]
  /\ UNCHANGED <<opens, edits, torn>>

\* The long name goes in bottom first, the short name after it.
PutEntry ==
  /\ op.at = "put" /\ InWindow
  /\ Put(IF op.n > 1 THEN FitLfn(cn.lfn, op.n - 1, SumSfn(fn)) ELSE Sfn(fn, cn.lfn))
  /\ IF op.n > 1 THEN op' = [op EXCEPT !.pos = op.pos + 1, !.n = op.n - 1]
                 ELSE Return("FR_OK")
  /\ UNCHANGED <<table, opens, edits, torn>>

(***************************************************************************)
(* The caller, and what happens to the card.                               *)
(***************************************************************************)

\* follow_path(): the last part of the path is looked up.
Open(call, name) ==
  /\ op.at = "out" /\ opens < MaxOpens
  /\ opens' = opens + 1
  /\ op' = IF InvalidName(name)
             THEN [Idle EXCEPT !.call = call, !.name = name, !.at = "ret",
                               !.res = "FR_INVALID_NAME"]
             ELSE [Idle EXCEPT !.call = call, !.name = name, !.at = "find", !.pos = 1]
  /\ UNCHANGED <<table, win, edits, torn>>

CallReturns == /\ op.at = "ret"
               /\ op' = Idle
               /\ UNCHANGED <<table, win, opens, edits, torn>>

\* f_sync() of the file that was opened.
Sync == /\ op.at = "out" /\ win.dirty
        /\ Flush
        /\ UNCHANGED <<op, opens, edits, torn>>

PowerLoss == /\ edits < MaxEdits
             /\ win' = NoWindow(table)
             /\ op' = Idle
             /\ edits' = edits + 1
             /\ torn' = (torn \/ \E i \in DOMAIN table : table[i] = Stale)
             /\ UNCHANGED <<table, opens>>

\* A PC deletes a file: with its long name, or without if it does not know of
\* long names.
PcDeletes ==
  /\ op.at = "out" /\ edits < MaxEdits
  /\ \E i \in DOMAIN table, from \in DOMAIN table :
       /\ table[i].kind = "sfn" /\ from <= i
       /\ \A j \in from .. i - 1 : table[j].kind = "lfn"
       /\ from \in 2 .. i - 1 => table[from - 1].kind # "lfn"
       /\ table' = [j \in DOMAIN table |-> IF j \in from .. i THEN Deleted ELSE table[j]]
       /\ win' = NoWindow(table')
  /\ edits' = edits + 1
  /\ UNCHANGED <<op, opens, torn>>

Init == /\ table \in Tables
        /\ win = NoWindow(table)
        /\ op = Idle /\ opens = 0 /\ edits = 0 /\ torn = FALSE

OpStep == MoveWindow \/ Find \/ Alloc \/ Stretch \/ ZeroFill \/ PutEntry

Next == \/ OpStep \/ CallReturns \/ Sync \/ PowerLoss \/ PcDeletes
        \/ \E name \in Names : Open("open", name) \/ Open("create", name)

Spec == Init /\ [][Next]_vars

(***************************************************************************)
(* Properties.                                                             *)
(***************************************************************************)
\* The types of the directory and of the call.
TypeOK ==
  /\ Len(table) <= MaxTable /\ DOMAIN win.view = DOMAIN table
  /\ win.dirty \in BOOLEAN /\ win.sect \in 0 .. SectorOf(Len(table))
  /\ op.pos \in 0 .. Len(table)
  /\ \A i \in DOMAIN table :
       table[i].kind \in {"end", "deleted", "volume", "stale", "lfn", "sfn"}
  /\ opens \in 0 .. MaxOpens /\ edits \in 0 .. MaxEdits /\ torn \in BOOLEAN

\* Two names that differ in capitals only are one.
SameName(m, n) == UpperAll(Stripped(m)) = UpperAll(Stripped(n))

\* A long name is tied to its file by eight bits.  Of the names in use, none that
\* has a short name of its own has the sum of another's with a long name.
SumsTellApart ==
  \A m, n \in Stored : ~CreateName(m).loss /\ IsLong(n) =>
    \A f \in ShortNames(n) : SumSfn(f) = SumSfn(CreateName(m).fn) => SameName(m, n)

\* f_open() finds no other file than the one it was asked for, whatever halves
\* of names a loss of power or a PC has left in the table: it can only take for it
\* what is in, or directly behind, a cluster that was not zeroed.
FoundIsAsked ==
  op.at = "ret" /\ op.res = "FR_OK" =>
    \/ View[op.pos].kind = "sfn" /\ SameName(View[op.pos].who, op.name)
    \/ View[op.pos] = Stale
    \/ op.pos > 1 /\ View[op.pos - 1] = Stale

\* and it finds that one, if it is there and no such cluster is before it.  The
\* exception is a name of MaxLfn characters that does not fill its last entry:
\* ffconf.h:98 says that _MAX_LFN is the longest name that is handled, f_open()
\* creates such a file, and it is never found again (ff.c:1244).
MissingIsAbsent ==
  op.at = "ret" /\ op.res = "FR_NO_FILE" /\ ~AtLimit(Stripped(op.name)) =>
    ~ \E i \in DOMAIN View :
        /\ View[i].kind = "sfn" /\ SameName(View[i].who, op.name)
        /\ \A j \in 1 .. i : View[j] # End /\ View[j] # Stale

\* A lookup is right in both its answers.
LookupIsRight == TypeOK /\ FoundIsAsked /\ MissingIsAbsent

\* No file gets the short name of another, so none is there twice, unless a
\* cluster was left half written: what is then put behind it may not be found.
ShortNamesDiffer == ~torn => Distinct(View)

\* The long name a reader of the table puts together before entry i: it begins
\* anew at an entry that is marked as the last.
LongName(t, i) ==
  LET from == {k \in 1 .. i - 1 :
                 /\ t[k].kind = "lfn" /\ t[k].last /\ t[k].ord = i - k
                 /\ \A j \in k .. i - 1 : t[j].kind = "lfn" /\ t[j].ord = i - j
                                            /\ t[j].sum = SumSfn(t[i].fn)
                 /\ \A j \in k + 1 .. i - 1 : ~t[j].last} IN
  IF from = {} THEN <<>>
  ELSE LET k == CHOOSE k \in from : TRUE IN FlattenSeq([j \in 1 .. i - k |-> t[i - j].seg])

\* A file on the card has its whole long name before it as soon as it is there,
\* and a file without one has none of somebody else's: what a PC left of a
\* deleted file's long name is taken for its own only if it is the same name.  Of
\* what directly follows a cluster that was not zeroed, nothing can be said.
NamesAreWhole ==
  \A i \in DOMAIN table : table[i].kind = "sfn" =>
    LET who == table[i].who
        name == LongName(table, i) IN
    IF CreateName(who).long THEN name = who
    ELSE name = <<>> \/ SameName(name, who) \/ table[i - 1] = Stale

\* A cluster that is added to the directory holds no entries of its own, except while
\* it is written with zeros, and after a loss of power in that very time.
StretchedIsClean ==
  ~torn => \A i \in DOMAIN table : table[i].kind = "stale" => op.at = "zero"
=============================================================================
