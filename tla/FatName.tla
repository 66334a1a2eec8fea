------------------------------- MODULE FatName -------------------------------
(***************************************************************************)
(* File names on a FAT volume (fatfs/src/ff.c with _USE_LFN): create_name()*)
(* makes the short name in directory form and decides whether a long name  *)
(* is needed, gen_numname() tells short names apart, sum_sfn() ties a      *)
(* short name to the entries of its long name and fit_lfn() cuts the long  *)
(* name into them.  A name is a sequence of characters, each a string; the *)
(* widths are parameters.                                                  *)
(***************************************************************************)
EXTENDS Naturals, Sequences, FiniteSets, SequencesExt

CONSTANTS BODY,   \* 8: characters of the body of a short name
          EXT,    \* 3: of its extension
          SEG,    \* 13: characters of a long name in an entry
          MaxLfn, \* 255: characters of a long name, _MAX_LFN
          NumMax  \* 99: numbered names that are tried

ASSUME NameAssumption == /\ BODY \in Nat /\ BODY > 2 /\ EXT \in Nat \ {0}
                         /\ SEG \in Nat \ {0} /\ MaxLfn \in 1 .. 255
                         /\ NumMax \in 1 .. 5

\* The characters, by what create_name() makes of them.
Lower   == [a |-> "A", b |-> "B", c |-> "C"]    \* small capitals
Extd    == [oe |-> "OE", E5 |-> "E5"]           \* above 0x80: ExCvt[]
Illegal == {"+", ","}                           \* not in a short name
Refused == {"*", ":"}                           \* not in any name

Upper(c) == IF c \in DOMAIN Lower THEN Lower[c]
            ELSE IF c \in DOMAIN Extd THEN Extd[c] ELSE c
UpperAll(s) == [i \in DOMAIN s |-> Upper(s[i])]

Blanks == {" ", "."}
MaxOf(S) == CHOOSE x \in S : \A y \in S : y <= x
Take(s, n) == SubSeq(s, 1, IF Len(s) < n THEN Len(s) ELSE n)

\* Without its blanks.
Kept(s) == LET kept[n \in 0 .. Len(s)] ==
                 IF n = 0 THEN <<>>
                 ELSE IF s[n] \in Blanks THEN kept[n - 1] ELSE Append(kept[n - 1], s[n])
           IN kept[Len(s)]

\* Trailing spaces and dots are not part of a name.
Stripped(name) == LET keep == {i \in DOMAIN name : name[i] \notin Blanks} IN
                  IF keep = {} THEN <<>> ELSE SubSeq(name, 1, MaxOf(keep))

InvalidName(name) == \/ Stripped(name) = <<>> \/ Len(name) > MaxLfn
                     \/ \E i \in DOMAIN name : name[i] \in Refused

\* The position of the dot before the extension, 0 when there is none.
ExtDot(lfn) == LET named == {i \in DOMAIN lfn : lfn[i] \notin Blanks}
                   dots == {i \in DOMAIN lfn : lfn[i] = "." /\ \E j \in named : j < i} IN
               IF dots = {} THEN 0 ELSE MaxOf(dots)

Capitals == {Lower[c] : c \in DOMAIN Lower}
Has(s, chars) == \E i \in DOMAIN s : s[i] \in chars
Mixed(s) == Has(s, DOMAIN Lower) /\ Has(s, Capitals)

ToSfn(s) == [i \in DOMAIN s |-> IF s[i] \in Illegal THEN "_" ELSE Upper(s[i])]

\* create_name(): NS_LOSS when the short name does not give the name back,
\* NS_LFN when a long name has to be kept.  Spaces, and dots but the last, are
\* removed; what does not fit is cut; 0xE5, which marks a deleted entry, is
\* replaced.
CreateName(name) ==
  LET lfn   == Stripped(name)
      dot   == ExtDot(lfn)
      body  == Kept(SubSeq(lfn, 1, IF dot = 0 THEN Len(lfn) ELSE dot - 1))
      ext   == IF dot = 0 THEN <<>> ELSE Kept(SubSeq(lfn, dot + 1, Len(lfn)))
      shown == Take(body, BODY) \o Take(ext, EXT)
      loss  == \/ Len(body) + Len(ext) + (IF dot = 0 THEN 0 ELSE 1) < Len(lfn)
               \/ Len(body) > BODY \/ Len(ext) > EXT
               \/ Has(shown, Illegal)
      fn    == ToSfn(Take(body, BODY))
  IN [lfn  |-> lfn,
      fn   |-> <<IF fn[1] = "E5" THEN <<"05">> \o Tail(fn) ELSE fn, ToSfn(Take(ext, EXT))>>,
      loss |-> loss,
      long |-> \/ loss \/ Has(shown, DOMAIN Extd)
               \/ Mixed(Take(body, BODY)) \/ Mixed(Take(ext, EXT))]

\* gen_numname(): the body is cut for the number (more than five collisions,
\* for which a hash is taken, are left out).
GenNumname(fn, n) ==
  LET digit == <<"1", "2", "3", "4", "5">> IN
  <<Take(fn[1], BODY - 2) \o <<"~", digit[n]>>, fn[2]>>

Code == [A |-> 65, B |-> 66, C |-> 67, OE |-> 153, E5 |-> 229] @@
        ("05" :> 5) @@ ("_" :> 95) @@ ("~" :> 126) @@ (" " :> 32) @@
        ("1" :> 49) @@ ("2" :> 50) @@ ("3" :> 51) @@ ("4" :> 52) @@ ("5" :> 53)

\* sum_sfn(): an 8-bit sum over the padded name, rotated at each character.
SumSfn(fn) ==
  LET pad(s, n) == s \o [i \in 1 .. n - Len(s) |-> " "]
      add(sum, c) == (sum \div 2 + (sum % 2) * 128 + Code[c]) % 256
  IN FoldLeft(add, 0, pad(fn[1], BODY) \o pad(fn[2], EXT))

\* dir_register(): the entries of a long name.
LfnEntries(lfn) == (Len(lfn) + 2 * SEG - 1) \div SEG - 1

MaxEntries == (MaxLfn + SEG - 1) \div SEG

\* fit_lfn(): entry ord holds the segment ord; the one where the name ends is
\* marked as the last.
FitLfn(lfn, ord, sum) ==
  [kind |-> "lfn", ord |-> ord, sum |-> sum,
   seg |-> SubSeq(lfn, (ord - 1) * SEG + 1, IF ord * SEG < Len(lfn) THEN ord * SEG ELSE Len(lfn)),
   last |-> ord * SEG >= Len(lfn)]

\* The position of the character behind the segment, if the entry holds one: the
\* end of the name is marked, unless it is the end of the entry as well.
Marks(e)  == Len(e.seg) < SEG
MarkAt(e) == (e.ord - 1) * SEG + Len(e.seg)

\* cmp_lfn(): whether an entry matches a name.  No character at MaxLfn or behind
\* matches, and the mark of the end is one.  Where the entry begins behind the end
\* of the name, the buffer holds what it held before, and the result is anything.
CmpLfn(lfn, e) ==
  LET from == (e.ord - 1) * SEG
      rest == SubSeq(lfn, from + 1, Len(lfn)) IN
  IF Marks(e) /\ MarkAt(e) >= MaxLfn THEN {FALSE}
  ELSE IF from > Len(lfn) THEN BOOLEAN
  ELSE {UpperAll(e.seg) = UpperAll(IF e.last THEN rest ELSE Take(rest, SEG))}

\* A name as long as create_name() takes, whose end is marked in its last entry:
\* cmp_lfn() does not know it again.
AtLimit(lfn) == Len(lfn) = MaxLfn /\ MaxLfn % SEG # 0
=============================================================================
