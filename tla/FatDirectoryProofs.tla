-------------------------- MODULE FatDirectoryProofs --------------------------
(***************************************************************************)
(* Proofs about FatDirectory, for every set of names, every table that a   *)
(* PC can leave, every size of sectors, clusters, segments and short names,*)
(* and any number of calls, losses of power and deletions by a PC.         *)
(*                                                                         *)
(* A directory is right because of what the entries before a file are:     *)
(* Chain, the entries of one long name from the first on.  Every entry of  *)
(* a long name is in a chain (Chained), and a file with a long name has    *)
(* its whole chain before it (Whole), at every moment on the card and in   *)
(* the window: dir_alloc() gives only runs of free entries, no chain       *)
(* crosses them, and dir_register() writes from the first on.  From there  *)
(* on it is about names.  A lookup that has followed a chain to its end    *)
(* has compared each segment of one name (AllMatch), and a short name that *)
(* is not lossy gives the name back but for its capitals (ShortTellsName). *)
(* What remains is the eight bits that tie a long name to its file; that   *)
(* they tell the names in use apart is the hypothesis SumsTellApart.       *)
(***************************************************************************)
EXTENDS FatDirectory, SequenceTheorems, WellFoundedInduction, TLAPS

(***************************************************************************)
(* The inductive invariant.                                                *)
(***************************************************************************)

\* A call.
OpType == [call : {"none", "open", "create"}, name : Names \cup {NoName},
           at : {"out", "ret", "find", "alloc", "link", "zero", "put"},
           pos : Nat, ord : Nat, sum : Sums, num : 0 .. NumMax, n : Nat,
           res : {"FR_OK", "FR_NO_FILE", "FR_DENIED", "FR_INVALID_NAME"}]

\* A table of whole clusters.
IsTable(t) == /\ t = [i \in 1 .. Len(t) |-> t[i]]
              /\ Len(t) \in 1 .. MaxTable /\ Len(t) % PerCluster = 0

\* The types.
TypeInv ==
  /\ IsTable(table)
  /\ win = [sect |-> win.sect, dirty |-> win.dirty, view |-> win.view]
  /\ win.view = [i \in 1 .. Len(table) |-> win.view[i]]
  /\ win.dirty \in BOOLEAN /\ win.sect \in 0 .. SectorOf(Len(table))
  /\ op \in OpType /\ op.pos \in 0 .. Len(table)
  /\ Working => op.pos > 0
  /\ opens \in 0 .. MaxOpens /\ edits \in 0 .. MaxEdits /\ torn \in BOOLEAN

\* The sorts of entries, and the names they are for, of a table as a whole:
Sorts(t) == \A i \in DOMAIN t : t[i] \in {End, Deleted, Volume, Stale} \/ t[i].kind = "lfn" \/ IsSfn(t[i])

\* and all that is promised of a table.
Held(t) == Sorts(t) /\ Chained(t) /\ Whole(t)

\* The same at one entry.
HeldAt(t, m) ==
  /\ t[m] \in {End, Deleted, Volume, Stale} \/ t[m].kind = "lfn" \/ IsSfn(t[m])
  /\ t[m].kind = "lfn" => \E k \in 1 .. m : \E w \in Stored : \E f \in ShortNames(w) :
                            IsLong(w) /\ Chain(t, k, m, w, SumSfn(f))
  /\ t[m].kind = "sfn" /\ IsLong(t[m].who) =>
       Chain(t, m - LfnEntries(t[m].who), m - 1, t[m].who, SumSfn(t[m].fn))

\* Both on the card and as FatFs has it.
HeldInv == Held(table) /\ Held(View)

\* A window that is not changed shows the card.  What was never written in it was not
\* on the card either.
WindowInv == /\ ~win.dirty => View = table
             /\ \A i \in DOMAIN table : View[i] = Stale => table[i] = Stale

\* Nothing in use is behind an end mark, but for a cluster that was not written.
Marked(t) == \A i, j \in DOMAIN t : t[i] = End /\ i < j => t[j] \in {End, Stale}

\* Short names are apart, unless a loss of power left a cluster that was not written.
ApartInv == ~torn => /\ Distinct(table) /\ Marked(table)
                     /\ Distinct(View) /\ Marked(View)

\* Otherwise, what was not written is in the cluster that is being written.
Zeroed == \A i \in DOMAIN table : table[i].kind = "stale" =>
            op.at = "zero" /\ i > Len(table) - PerCluster
TornInv == ~torn => Zeroed

\* While a cluster is written with zeros: it is one behind the table that was, and
\* the sectors up to op.pos are done.
ZeroInv == op.at = "zero" =>
  /\ ~win.dirty
  /\ (op.pos - 1) % PerSector = 0 /\ op.pos > Len(table) - PerCluster
  /\ Len(table) > PerCluster
  /\ \A i \in DOMAIN table : i > Len(table) - PerCluster =>
       table[i] = End \/ (table[i] = Stale /\ i >= op.pos)

\* What call it is, and of which name.
NameInv ==
  /\ op.at # "out" => op.name \in Names
  /\ op.at \notin {"out", "ret"} => ~InvalidName(op.name) /\ op.call # "none"
  /\ op.num > 0 => cn.loss /\ op.call = "create" /\ (op.at = "find" => op.ord = 255)
  /\ op.at \in {"alloc", "link", "zero", "put"} => op.call = "create" /\ (op.num = 0 => ~cn.loss)

\* No entry behind k is the last of a name.
Nearest(t, k, m) == \A j \in k + 1 .. m : ~t[j].last

\* The entries k to m are the first of a long name and match lfn.
Matches(t, k, m, lfn) ==
  /\ k \in 1 .. m /\ t[k].kind = "lfn" /\ t[k].last
  /\ \A j \in k .. m : /\ t[j].kind = "lfn" /\ TRUE \in CmpLfn(lfn, t[j])
                       /\ t[j].ord = t[k].ord - (j - k) /\ t[j].sum = t[k].sum
  /\ Nearest(t, k, m)

\* The entry before i was never written, and can have looked like anything.
Behind(t, i) == i > 1 /\ t[i - 1] = Stale

\* What dir_find() knows of the entries that it has passed: none of them is the file,
\* and the long name it follows matches up to here.  It does follow one that is the
\* name's own, unless that is at the limit.
FindInv == op.at = "find" =>
  /\ \A j \in 1 .. op.pos - 1 : View[j] # End
  /\ \A j \in 1 .. op.pos - 1 : View[j].kind = "sfn" /\ ~loss => View[j].fn # fn
  /\ op.num = 0 =>
      /\ \A j \in 1 .. op.pos - 1 : View[j].kind = "sfn" =>
            ~SameName(View[j].who, op.name) \/ AtLimit(cn.lfn)
      /\ op.ord # 255 => Behind(View, op.pos) \/ \E k \in 1 .. op.pos - 1 :
            Matches(View, k, op.pos - 1, cn.lfn) /\ op.ord = View[op.pos - 1].ord - 1 /\ op.sum = View[k].sum
      /\ \A k \in 1 .. op.pos - 1, w \in Stored, s \in Sums : 
            SameName(w, op.name) /\ ~AtLimit(cn.lfn) /\ Chain(View, k, op.pos - 1, w, s) =>
              op.ord = View[op.pos - 1].ord - 1 /\ op.sum = s

\* The short name that is to be written is not there.
NewInv == ~torn /\ op.at \in {"alloc", "link", "zero", "put"} =>
            \A j \in DOMAIN View : View[j].kind = "sfn" => View[j].fn # fn

\* An entry that can be taken for a free one.
Vacant(e) == Free(e) \/ e = Stale

\* The n entries before i look free, and the one before them does not, at least not
\* for sure.
Run(t, i, n) == /\ n < i /\ \A j \in i - n .. i - 1 : Vacant(t[j])
                /\ i - n = 1 \/ ~Free(t[i - n - 1])

\* dir_alloc() counts the free entries right up to op.pos.
AllocInv ==
  /\ op.at = "alloc" => op.n < Entries /\ Run(View, op.pos, op.n)
  /\ op.at = "link" => op.n < Entries /\ op.pos = Len(table) /\ Run(View, op.pos + 1, op.n)
                       /\ Len(table) + PerCluster <= MaxTable
  /\ op.at = "zero" => op.n < Entries /\ Run(View, Len(table) - PerCluster + 1, op.n)

\* dir_register() has room for its entries, and the long name before op.pos is its own.
PutInv == op.at = "put" =>
  /\ op.n \in 1 .. Entries /\ op.pos + op.n - 1 <= Len(table)
  /\ \A j \in op.pos .. op.pos + op.n - 1 : Vacant(View[j])
  /\ op.pos = 1 \/ ~Free(View[op.pos - 1])
  /\ op.n < Entries => Chain(View, op.pos - (Entries - op.n), op.pos - 1, cn.lfn, SumSfn(fn))

\* What a call returns is right: the file is found by its name, or by a chain that
\* matches the name and has the sum of the file, unless it is in or directly behind
\* a cluster that was not written.
RetInv == op.at = "ret" =>
  /\ op.res = "FR_OK" =>
      /\ op.pos > 0 /\ ~InvalidName(op.name)
      /\ \/ View[op.pos] = Stale
         \/ /\ View[op.pos].kind = "sfn"
            /\ \/ View[op.pos].who = cn.lfn
               \/ ~cn.loss /\ View[op.pos].fn = cn.fn
               \/ Behind(View, op.pos)
               \/ \E k \in 1 .. op.pos - 1 : /\ Matches(View, k, op.pos - 1, cn.lfn)
                                             /\ View[op.pos - 1].ord = 1
                                             /\ View[k].sum = SumSfn(View[op.pos].fn)
  /\ op.res = "FR_NO_FILE" => MissingIsAbsent

\* The inductive invariant.
IInv == /\ TypeInv /\ HeldInv /\ WindowInv /\ ApartInv /\ TornInv /\ ZeroInv
        /\ NameInv /\ FindInv /\ NewInv /\ AllocInv /\ PutInv /\ RetInv

(***************************************************************************)
(* Numbers.                                                                *)
(***************************************************************************)
\* Induction over the natural numbers, with a set for the predicate.
LEMMA SetInduction ==
  ASSUME NEW T, 0 \in T, \A n \in Nat : n \in T => n + 1 \in T
  PROVE  \A n \in Nat : n \in T
<1> DEFINE S == {n \in Nat : n \notin T}
<1> SUFFICES ASSUME S # {}
             PROVE  FALSE
  OBVIOUS
<1> DEFINE R == OpToRel(<, Nat)
<1>1. IsWellFoundedOn(R, Nat) /\ S \subseteq Nat
  BY NatLessThanWellFounded
<1> HIDE DEF S
<1>2. PICK x \in S : \A y \in S : ~ (<<y, x>> \in R)
  BY <1>1, WFMin
<1>3. \A y \in S : ~ (y < x)
  BY <1>1, <1>2 DEF OpToRel
<1>4. x \in Nat /\ x \notin T /\ x # 0
  BY DEF S
<1>5. x - 1 \in Nat /\ x - 1 < x /\ (x - 1) + 1 = x
  BY <1>4
<1>6. x - 1 \in T
  BY <1>3, <1>5 DEF S
<1> QED
  BY <1>4, <1>5, <1>6

\* A set of numbers up to n has a greatest one, which MaxOf() is.
LEMMA MaxOfIs ==
  ASSUME NEW n \in Nat, NEW S, S \subseteq 0 .. n, S # {}
  PROVE  MaxOf(S) \in S /\ \A y \in S : y <= MaxOf(S)
<1> DEFINE T == {k \in Nat : \A U : U \subseteq 0 .. k /\ U # {} =>
                                    \E x \in U : \A y \in U : y <= x}
<1>1. 0 \in T
  OBVIOUS
<1>2. ASSUME NEW k \in Nat, k \in T
      PROVE  k + 1 \in T
  <2> SUFFICES ASSUME NEW U, U \subseteq 0 .. k + 1, U # {}
               PROVE  \E x \in U : \A y \in U : y <= x
    OBVIOUS
  <2>1. CASE k + 1 \in U
    BY <2>1
  <2>2. CASE k + 1 \notin U
    <3>1. U \subseteq 0 .. k
      BY <2>2
    <3> QED
      BY <1>2, <3>1
  <2> QED
    BY <2>1, <2>2
<1> HIDE DEF T
<1>3. n \in T
  BY <1>1, <1>2, SetInduction
<1>4. \E x \in S : \A y \in S : y <= x
  BY <1>3 DEF T
<1> QED
  BY <1>4 DEF MaxOf

\* A number lies between the multiples that the quotient tells.
LEMMA Quotient ==
  ASSUME NEW a \in Nat, NEW b \in Nat \ {0}
  PROVE  /\ a \div b \in Nat /\ (a \div b) * b <= a /\ a < (a \div b) * b + b
         /\ (a \div b + 1) * b = (a \div b) * b + b
OBVIOUS

\* Only one multiple is that near.
LEMMA QuotientUnique ==
  ASSUME NEW a \in Nat, NEW b \in Nat \ {0}, NEW q \in Nat, q * b <= a, a < q * b + b
  PROVE  a \div b = q
OBVIOUS

\* The multiples of c, by the remainder.
LEMMA Remainder ==
  ASSUME NEW a \in Nat, NEW c \in Nat, c > 0, NEW q \in Nat
  PROVE  /\ a % c = 0 => a = (a \div c) * c /\ a \div c \in Nat
         /\ a = q * c => a % c = 0
<1>1. a % c = 0 => a = (a \div c) * c
  OBVIOUS
<1>2. a = q * c => a % c = 0
  OBVIOUS
<1> QED
  BY <1>1, <1>2, Quotient

\* More of the same is not less.
LEMMA ProductMonotone ==
  ASSUME NEW a \in Nat, NEW b \in Nat, NEW c \in Nat, a <= b
  PROVE  a * c <= b * c /\ a * c \in Nat /\ b * c \in Nat
OBVIOUS

\* One more, one less of the same.
LEMMA ProductStep ==
  ASSUME NEW a \in Int, NEW c \in Nat
  PROVE  (a + 1) * c = a * c + c /\ (a - 1) * c = a * c - c /\ a * c \in Int
OBVIOUS

\* A function that is defined by what it is at 0 and by a step.
LEMMA Iterate ==
  ASSUME NEW L \in Nat, NEW X, NEW b \in X, NEW F \in [1 .. L -> [X -> X]]
  PROVE  \E v \in [0 .. L -> X] : v[0] = b /\ \A n \in 1 .. L : v[n] = F[n][v[n - 1]]
<1> DEFINE T == {k \in Nat : k <= L => \E v \in [0 .. k -> X] :
                               v[0] = b /\ \A n \in 1 .. k : v[n] = F[n][v[n - 1]]}
<1>1. 0 \in T
  <2> DEFINE v == [i \in 0 .. 0 |-> b]
  <2>1. v \in [0 .. 0 -> X] /\ v[0] = b /\ \A n \in 1 .. 0 : v[n] = F[n][v[n - 1]]
    OBVIOUS
  <2> HIDE DEF v
  <2> QED
    BY <2>1
<1>2. ASSUME NEW k \in Nat, k \in T
      PROVE  k + 1 \in T
  <2> SUFFICES ASSUME k + 1 <= L
               PROVE  \E v \in [0 .. k + 1 -> X] :
                        v[0] = b /\ \A n \in 1 .. k + 1 : v[n] = F[n][v[n - 1]]
    OBVIOUS
  <2>1. PICK u \in [0 .. k -> X] : u[0] = b /\ \A n \in 1 .. k : u[n] = F[n][u[n - 1]]
    BY <1>2
  <2> DEFINE v == [i \in 0 .. k + 1 |-> IF i = k + 1 THEN F[k + 1][u[k]] ELSE u[i]]
  <2>2. v \in [0 .. k + 1 -> X]
    <3>1. u[k] \in X /\ k + 1 \in 1 .. L
      OBVIOUS
    <3> QED
      BY <3>1
  <2>3. v[0] = b
    BY <2>1
  <2>4. ASSUME NEW n \in 1 .. k + 1
        PROVE  v[n] = F[n][v[n - 1]]
    <3>1. n - 1 \in 0 .. k + 1 /\ n - 1 # k + 1
      OBVIOUS
    <3>2. v[n - 1] = u[n - 1]
      BY <3>1
    <3>3. CASE n = k + 1
      BY <3>2, <3>3
    <3>4. CASE n # k + 1
      <4>1. n \in 1 .. k
        BY <3>4
      <4>2. v[n] = u[n]
        BY <3>4
      <4> QED
        BY <2>1, <3>2, <4>1, <4>2
    <3> QED
      BY <3>3, <3>4
  <2> HIDE DEF v
  <2> QED
    BY <2>2, <2>3, <2>4
<1> HIDE DEF T
<1>3. L \in T
  BY <1>1, <1>2, SetInduction
<1> QED
  BY <1>3 DEF T

(***************************************************************************)
(* Characters and names.                                                   *)
(***************************************************************************)

\* The characters there are.
Char == STRING \cup {"A", "B", "C", "OE", "E5", "05", "_", "~", "1", "2", "3", "4", "5"}

\* ff_wtoupper() character by character.
LEMMA UpperIs ==
  ASSUME NEW c
  PROVE  Upper(c) = IF c = "a" THEN "A" ELSE IF c = "b" THEN "B"
                    ELSE IF c = "c" THEN "C" ELSE IF c = "oe" THEN "OE"
                    ELSE IF c = "E5" THEN "E5" ELSE c
<1>1. DOMAIN Lower = {"a", "b", "c"} /\ Lower["a"] = "A" /\ Lower["b"] = "B" /\ Lower["c"] = "C"
  BY DEF Lower
<1>2. DOMAIN Extd = {"oe", "E5"} /\ Extd["oe"] = "OE" /\ Extd["E5"] = "E5"
  BY DEF Extd
<1> QED
  BY <1>1, <1>2 DEF Upper

\* Capitals leave the classes of characters alone.
LEMMA UpperKeeps ==
  ASSUME NEW c
  PROVE  /\ Upper(c) \in Blanks <=> c \in Blanks
         /\ Upper(c) \in Illegal <=> c \in Illegal
         /\ Upper(c) = "." <=> c = "."
         /\ Upper(c) = "05" <=> c = "05"
         /\ c \in Char => Upper(c) \in Char
<1> DEFINE u == Upper(c)
<1>1. u = IF c = "a" THEN "A" ELSE IF c = "b" THEN "B"
          ELSE IF c = "c" THEN "C" ELSE IF c = "oe" THEN "OE"
          ELSE IF c = "E5" THEN "E5" ELSE c
  BY UpperIs
<1> HIDE DEF u
<1>2. (u \in Blanks <=> c \in Blanks) /\ (u \in Illegal <=> c \in Illegal)
  BY <1>1 DEF Blanks, Illegal
<1>3. (u = "." <=> c = ".") /\ (u = "05" <=> c = "05")
  BY <1>1
<1>4. c \in Char => u \in Char
  BY <1>1 DEF Char
<1> QED
  BY <1>2, <1>3, <1>4 DEF u

\* A name in capitals has the same length.
LEMMA UpperAllIs ==
  ASSUME NEW s \in Seq(Char)
  PROVE  /\ UpperAll(s) \in Seq(Char) /\ Len(UpperAll(s)) = Len(s)
         /\ \A i \in 1 .. Len(s) : UpperAll(s)[i] = Upper(s[i])
<1>1. \A i \in 1 .. Len(s) : Upper(s[i]) \in Char
  BY UpperKeeps
<1> QED
  BY <1>1 DEF UpperAll

\* Sequences with the same capitals, place by place.
LEMMA SameUpper ==
  ASSUME NEW s \in Seq(Char), NEW t \in Seq(Char)
  PROVE  UpperAll(s) = UpperAll(t) <=>
           Len(s) = Len(t) /\ \A i \in 1 .. Len(s) : Upper(s[i]) = Upper(t[i])
<1>1. ASSUME UpperAll(s) = UpperAll(t)
      PROVE  Len(s) = Len(t) /\ \A i \in 1 .. Len(s) : Upper(s[i]) = Upper(t[i])
  <2>1. Len(s) = Len(t)
    BY <1>1, UpperAllIs
  <2>2. \A i \in 1 .. Len(s) : UpperAll(s)[i] = Upper(s[i]) /\ UpperAll(t)[i] = Upper(t[i])
    BY <2>1, UpperAllIs
  <2> QED
    BY <1>1, <2>1, <2>2
<1>2. ASSUME Len(s) = Len(t), \A i \in 1 .. Len(s) : Upper(s[i]) = Upper(t[i])
      PROVE  UpperAll(s) = UpperAll(t)
  BY <1>2 DEF UpperAll
<1> QED
  BY <1>1, <1>2

\* The beginning of a sequence.
LEMMA TakeIs ==
  ASSUME NEW s \in Seq(Char), NEW n \in Nat
  PROVE  /\ Take(s, n) \in Seq(Char)
         /\ Len(Take(s, n)) = IF Len(s) < n THEN Len(s) ELSE n
         /\ \A i \in 1 .. Len(Take(s, n)) : Take(s, n)[i] = s[i]
         /\ Len(s) <= n => Take(s, n) = s
BY DEF Take

\* Trailing blanks are taken off a name, and nothing else.
LEMMA StrippedIs ==
  ASSUME NEW name \in Seq(Char)
  PROVE  /\ Stripped(name) \in Seq(Char) /\ Len(Stripped(name)) <= Len(name)
         /\ \A i \in 1 .. Len(Stripped(name)) : Stripped(name)[i] = name[i]
         /\ Stripped(name) # <<>> =>
              Len(Stripped(name)) > 0 /\ Stripped(name)[Len(Stripped(name))] \notin Blanks
<1> DEFINE keep == {i \in DOMAIN name : name[i] \notin Blanks}
<1>1. CASE keep = {}
  <2>1. Stripped(name) = <<>>
    BY <1>1 DEF Stripped
  <2> QED
    BY <2>1
<1>2. CASE keep # {}
  <2>1. Stripped(name) = SubSeq(name, 1, MaxOf(keep))
    BY <1>2 DEF Stripped
  <2>2. MaxOf(keep) \in keep
    <3>1. Len(name) \in Nat /\ keep \subseteq 0 .. Len(name)
      OBVIOUS
    <3> HIDE DEF keep
    <3> QED
      BY <1>2, <3>1, MaxOfIs
  <2>3. MaxOf(keep) \in 1 .. Len(name) /\ name[MaxOf(keep)] \notin Blanks
    BY <2>2
  <2> HIDE DEF keep
  <2> QED
    BY <2>1, <2>3
<1> QED
  BY <1>1, <1>2

\* A name that ends in no blank is left as it is.
LEMMA StrippedTwice ==
  ASSUME NEW w \in Seq(Char), w # <<>>, w[Len(w)] \notin Blanks
  PROVE  Stripped(w) = w
<1> DEFINE keep == {i \in DOMAIN w : w[i] \notin Blanks}
<1>1. Len(w) \in keep /\ Len(w) \in Nat /\ keep \subseteq 0 .. Len(w)
  OBVIOUS
<1>2. Stripped(w) = SubSeq(w, 1, MaxOf(keep))
  BY <1>1 DEF Stripped
<1> HIDE DEF keep
<1>3. MaxOf(keep) = Len(w)
  <2>1. MaxOf(keep) \in keep /\ \A y \in keep : y <= MaxOf(keep)
    BY <1>1, MaxOfIs
  <2>2. MaxOf(keep) \in 0 .. Len(w) /\ Len(w) <= MaxOf(keep)
    BY <1>1, <2>1
  <2> QED
    BY <1>1, <2>2
<1> QED
  BY <1>2, <1>3

(***************************************************************************)
(* Names: create_name() and the short names.                               *)
(***************************************************************************)
\* Kept() takes the characters one after the other.
LEMMA KeptIs ==
  ASSUME NEW s \in Seq(Char)
  PROVE  \E k \in [0 .. Len(s) -> Seq(Char)] :
           /\ k[0] = <<>> /\ Kept(s) = k[Len(s)]
           /\ \A n \in 1 .. Len(s) :
                k[n] = IF s[n] \in Blanks THEN k[n - 1] ELSE Append(k[n - 1], s[n])
<1> DEFINE H(k) == [n \in 0 .. Len(s) |->
                      IF n = 0 THEN <<>>
                      ELSE IF s[n] \in Blanks THEN k[n - 1] ELSE Append(k[n - 1], s[n])]
           F == [n \in 1 .. Len(s) |->
                   [x \in Seq(Char) |-> IF s[n] \in Blanks THEN x ELSE Append(x, s[n])]]
           K == CHOOSE k : k = H(k)
<1>1. <<>> \in Seq(Char) /\ Len(s) \in Nat
  OBVIOUS
<1>2. F \in [1 .. Len(s) -> [Seq(Char) -> Seq(Char)]]
  OBVIOUS
<1>3. \A n \in 1 .. Len(s) : \A x \in Seq(Char) :
        F[n][x] = IF s[n] \in Blanks THEN x ELSE Append(x, s[n])
  OBVIOUS
<1> HIDE DEF F
<1>4. PICK v \in [0 .. Len(s) -> Seq(Char)] :
        v[0] = <<>> /\ \A n \in 1 .. Len(s) : v[n] = F[n][v[n - 1]]
  <2> DEFINE X == Seq(Char)
             L == Len(s)
             none == <<>>
  <2>1. L \in Nat /\ none \in X /\ F \in [1 .. L -> [X -> X]]
    BY <1>1, <1>2
  <2> HIDE DEF X, L, none
  <2>2. \E v \in [0 .. L -> X] : v[0] = none /\ \A n \in 1 .. L : v[n] = F[n][v[n - 1]]
    BY <2>1, Iterate, SMTT(30)
  <2> QED
    BY <2>2 DEF X, L, none
<1>5. \A n \in 1 .. Len(s) : v[n] = IF s[n] \in Blanks THEN v[n - 1] ELSE Append(v[n - 1], s[n])
  <2> TAKE n \in 1 .. Len(s)
  <2>1. n - 1 \in 0 .. Len(s)
    OBVIOUS
  <2>2. v[n - 1] \in Seq(Char)
    BY <2>1
  <2> QED
    BY <1>3, <1>4, <2>2
<1>6. v = H(v)
  <2>1. ASSUME NEW n \in 0 .. Len(s)
        PROVE  v[n] = H(v)[n]
    <3>1. CASE n = 0
      BY <1>1, <1>4, <3>1
    <3>2. CASE n # 0
      <4>1. n \in 1 .. Len(s)
        BY <1>1, <3>2
      <4> QED
        BY <1>5, <3>2, <4>1
    <3> QED
      BY <3>1, <3>2
  <2>2. H(v) = [n \in 0 .. Len(s) |-> H(v)[n]] /\ v = [n \in 0 .. Len(s) |-> v[n]]
    BY <1>4
  <2> HIDE DEF H
  <2> QED
    BY <2>1, <2>2
<1>7. K = H(K)
  <2> HIDE DEF H
  <2> QED
    BY <1>6
<1>8. Kept(s) = K[Len(s)]
  BY DEF Kept
<1> HIDE DEF K
<1>9. \A n \in 0 .. Len(s) : K[n] = IF n = 0 THEN <<>>
                      ELSE IF s[n] \in Blanks THEN K[n - 1] ELSE Append(K[n - 1], s[n])
  BY <1>7
<1>10. K[0] = <<>>
  BY <1>1, <1>9
<1>11. \A n \in 1 .. Len(s) : K[n] = IF s[n] \in Blanks THEN K[n - 1] ELSE Append(K[n - 1], s[n])
  BY <1>9
<1>12. \A n \in 0 .. Len(s) : K[n] \in Seq(Char)
  <2> DEFINE T == {n \in Nat : n <= Len(s) => K[n] \in Seq(Char)}
  <2>1. 0 \in T
    BY <1>10
  <2>2. ASSUME NEW n \in Nat, n \in T
        PROVE  n + 1 \in T
    <3> SUFFICES ASSUME n + 1 <= Len(s)
                 PROVE  K[n + 1] \in Seq(Char)
      OBVIOUS
    <3>1. K[n] \in Seq(Char) /\ n + 1 \in 1 .. Len(s) /\ (n + 1) - 1 = n
      BY <2>2
    <3>2. s[n + 1] \in Char
      BY <3>1
    <3>3. K[n + 1] = IF s[n + 1] \in Blanks THEN K[n] ELSE Append(K[n], s[n + 1])
      BY <1>11, <3>1
    <3> QED
      BY <3>1, <3>2, <3>3
  <2> HIDE DEF T
  <2>3. \A n \in Nat : n \in T
    BY <2>1, <2>2, SetInduction
  <2> QED
    BY <2>3 DEF T
<1>13. K \in [0 .. Len(s) -> Seq(Char)]
  <2>1. K = [n \in 0 .. Len(s) |-> K[n]]
    <3>1. H(K) = [n \in 0 .. Len(s) |-> H(K)[n]]
      OBVIOUS
    <3> HIDE DEF H
    <3> QED
      BY <1>7, <3>1
  <2> QED
    BY <1>12, <2>1
<1> QED
  BY <1>8, <1>10, <1>11, <1>13

\* What is kept is all when nothing is lost, and something when anything can be.
LEMMA KeptLength ==
  ASSUME NEW s \in Seq(Char)
  PROVE  /\ Kept(s) \in Seq(Char) /\ Len(Kept(s)) <= Len(s)
         /\ Len(Kept(s)) = Len(s) => Kept(s) = s
         /\ (\E i \in 1 .. Len(s) : s[i] \notin Blanks) => Len(Kept(s)) > 0
<1>1. PICK k \in [0 .. Len(s) -> Seq(Char)] :
           /\ k[0] = <<>> /\ Kept(s) = k[Len(s)]
           /\ \A n \in 1 .. Len(s) :
                k[n] = IF s[n] \in Blanks THEN k[n - 1] ELSE Append(k[n - 1], s[n])
  BY KeptIs
<1> DEFINE Good(n) == /\ Len(k[n]) <= n
                      /\ Len(k[n]) = n => \A i \in 1 .. n : k[n][i] = s[i]
                      /\ (\E i \in 1 .. n : s[i] \notin Blanks) => Len(k[n]) > 0
           T == {n \in Nat : n <= Len(s) => Good(n)}
<1>2. 0 \in T
  BY <1>1
<1>3. ASSUME NEW n \in Nat, n \in T
      PROVE  n + 1 \in T
  <2> SUFFICES ASSUME n + 1 <= Len(s)
               PROVE  Good(n + 1)
    OBVIOUS
  <2>1. Good(n) /\ n \in 0 .. Len(s) /\ n + 1 \in 1 .. Len(s) /\ (n + 1) - 1 = n
    BY <1>3
  <2>2. k[n + 1] = IF s[n + 1] \in Blanks THEN k[n] ELSE Append(k[n], s[n + 1])
    BY <1>1, <2>1
  <2>3. k[n] \in Seq(Char) /\ s[n + 1] \in Char
    BY <2>1
  <2>4. CASE s[n + 1] \in Blanks
    <3>1. \A i \in 1 .. n + 1 : s[i] \notin Blanks => i \in 1 .. n
      BY <2>4
    <3> QED
      BY <2>1, <2>2, <2>3, <2>4, <3>1
  <2>5. CASE s[n + 1] \notin Blanks
    <3>1. /\ Len(k[n + 1]) = Len(k[n]) + 1 /\ k[n + 1][Len(k[n]) + 1] = s[n + 1]
          /\ \A i \in 1 .. Len(k[n]) : k[n + 1][i] = k[n][i]
      BY <2>2, <2>3, <2>5
    <3>2. Len(k[n]) \in Nat
      BY <2>3
    <3>3. ASSUME Len(k[n + 1]) = n + 1, NEW i \in 1 .. n + 1
          PROVE  k[n + 1][i] = s[i]
      <4>1. Len(k[n]) = n
        BY <3>1, <3>2, <3>3
      <4>2. CASE i = n + 1
        BY <3>1, <4>1, <4>2
      <4>3. CASE i # n + 1
        <5>1. i \in 1 .. n
          BY <4>3
        <5> QED
          BY <2>1, <3>1, <4>1, <5>1
      <4> QED
        BY <4>2, <4>3
    <3> QED
      BY <2>1, <3>1, <3>2, <3>3
  <2> QED
    BY <2>4, <2>5
<1> HIDE DEF T
<1>4. Len(s) \in T
  BY <1>2, <1>3, SetInduction
<1>5. Good(Len(s))
  BY <1>4 DEF T
<1>6. Kept(s) \in Seq(Char)
  BY <1>1
<1> QED
  BY <1>1, <1>5, <1>6

\* What is kept depends on the capitals of a name only.
LEMMA KeptUpper ==
  ASSUME NEW s \in Seq(Char), NEW t \in Seq(Char), UpperAll(s) = UpperAll(t)
  PROVE  UpperAll(Kept(s)) = UpperAll(Kept(t))
<1>1. PICK k \in [0 .. Len(s) -> Seq(Char)] :
           /\ k[0] = <<>> /\ Kept(s) = k[Len(s)]
           /\ \A n \in 1 .. Len(s) :
                k[n] = IF s[n] \in Blanks THEN k[n - 1] ELSE Append(k[n - 1], s[n])
  BY KeptIs
<1>2. PICK l \in [0 .. Len(t) -> Seq(Char)] :
           /\ l[0] = <<>> /\ Kept(t) = l[Len(t)]
           /\ \A n \in 1 .. Len(t) :
                l[n] = IF t[n] \in Blanks THEN l[n - 1] ELSE Append(l[n - 1], t[n])
  BY KeptIs
<1>3. Len(s) = Len(t) /\ \A n \in 1 .. Len(s) : Upper(s[n]) = Upper(t[n])
  BY SameUpper
<1> DEFINE Good(n) == Len(k[n]) = Len(l[n]) /\ \A i \in 1 .. Len(k[n]) : Upper(k[n][i]) = Upper(l[n][i])
           T == {n \in Nat : n <= Len(s) => Good(n)}
<1>4. 0 \in T
  BY <1>1, <1>2
<1>5. ASSUME NEW n \in Nat, n \in T
      PROVE  n + 1 \in T
  <2> SUFFICES ASSUME n + 1 <= Len(s)
               PROVE  Good(n + 1)
    OBVIOUS
  <2>1. Good(n) /\ n \in 0 .. Len(s) /\ n + 1 \in 1 .. Len(s) /\ (n + 1) - 1 = n
    <3>1. Len(s) \in Nat
      OBVIOUS
    <3> HIDE DEF Good
    <3>2. Good(n)
      BY <1>5, <3>1
    <3> QED
      BY <3>1, <3>2
  <2>2. /\ k[n + 1] = IF s[n + 1] \in Blanks THEN k[n] ELSE Append(k[n], s[n + 1])
        /\ l[n + 1] = IF t[n + 1] \in Blanks THEN l[n] ELSE Append(l[n], t[n + 1])
    <3>1. k[n + 1] = IF s[n + 1] \in Blanks THEN k[n] ELSE Append(k[n], s[n + 1])
      BY <1>1, <2>1
    <3>2. n + 1 \in 1 .. Len(t)
      BY <1>3, <2>1
    <3>3. l[n + 1] = IF t[n + 1] \in Blanks THEN l[n] ELSE Append(l[n], t[n + 1])
      BY <1>2, <2>1, <3>2
    <3> QED
      BY <3>1, <3>3
  <2>3. k[n] \in Seq(Char) /\ s[n + 1] \in Char /\ l[n] \in Seq(Char) /\ t[n + 1] \in Char
    BY <1>3, <2>1
  <2>4. Upper(s[n + 1]) = Upper(t[n + 1])
    BY <1>3, <2>1
  <2>5. s[n + 1] \in Blanks <=> t[n + 1] \in Blanks
    BY <2>4, UpperKeeps
  <2>6. CASE s[n + 1] \in Blanks
    BY <2>1, <2>2, <2>5, <2>6
  <2>7. CASE s[n + 1] \notin Blanks
    <3>1. /\ Len(k[n + 1]) = Len(k[n]) + 1 /\ k[n + 1][Len(k[n]) + 1] = s[n + 1]
          /\ \A i \in 1 .. Len(k[n]) : k[n + 1][i] = k[n][i]
      BY <2>2, <2>3, <2>7
    <3>2. /\ Len(l[n + 1]) = Len(l[n]) + 1 /\ l[n + 1][Len(l[n]) + 1] = t[n + 1]
          /\ \A i \in 1 .. Len(l[n]) : l[n + 1][i] = l[n][i]
      BY <2>2, <2>3, <2>5, <2>7
    <3>3. Len(k[n]) \in Nat
      BY <2>3
    <3> QED
      BY <2>1, <2>4, <3>1, <3>2, <3>3
  <2> QED
    BY <2>6, <2>7
<1> HIDE DEF T
<1>6. Len(s) \in T
  BY <1>4, <1>5, SetInduction
<1>7. Good(Len(s))
  BY <1>6 DEF T
<1>8. Kept(s) \in Seq(Char) /\ Kept(t) \in Seq(Char)
  BY <1>1, <1>2
<1> QED
  BY <1>1, <1>2, <1>3, <1>7, <1>8, SameUpper

(***************************************************************************)
(* create_name().                                                          *)
(***************************************************************************)
\* A name without blanks at its end.
Proper(w) == w \in Seq(Char) /\ w # <<>> /\ w[Len(w)] \notin Blanks

\* The parts of a name, and what of them goes into the short name.
Body(w)   == SubSeq(w, 1, IF ExtDot(w) = 0 THEN Len(w) ELSE ExtDot(w) - 1)
Ext(w)    == IF ExtDot(w) = 0 THEN <<>> ELSE SubSeq(w, ExtDot(w) + 1, Len(w))
Cut(w)    == Take(Kept(Body(w)), BODY)
CutExt(w) == Take(Kept(Ext(w)), EXT)
Lossy(w)  == \/ Len(Kept(Body(w))) + Len(Kept(Ext(w))) + (IF ExtDot(w) = 0 THEN 0 ELSE 1) < Len(w)
             \/ Len(Kept(Body(w))) > BODY \/ Len(Kept(Ext(w))) > EXT
             \/ Has(Cut(w) \o CutExt(w), Illegal)

\* A name that begins with 0xE5 is written with 0x05.
Undead(f) == IF f[1] = "E5" THEN <<"05">> \o Tail(f) ELSE f

\* The dot of the extension is not the last character, and follows a named one.
LEMMA ExtDotIs ==
  ASSUME NEW w, Proper(w)
  PROVE  /\ ExtDot(w) \in 0 .. Len(w) - 1
         /\ ExtDot(w) # 0 => /\ w[ExtDot(w)] = "."
                             /\ \E j \in 1 .. ExtDot(w) - 1 : w[j] \notin Blanks
<1> DEFINE named == {i \in DOMAIN w : w[i] \notin Blanks}
           dots == {i \in DOMAIN w : w[i] = "." /\ \E j \in named : j < i}
<1>1. w \in Seq(Char) /\ Len(w) \in Nat /\ Len(w) > 0 /\ w[Len(w)] \notin Blanks
  BY DEF Proper
<1>2. ExtDot(w) = IF dots = {} THEN 0 ELSE MaxOf(dots)
  BY DEF ExtDot
<1>3. CASE dots = {}
  BY <1>1, <1>2, <1>3
<1>4. CASE dots # {}
  <2>1. dots \subseteq 0 .. Len(w)
    BY <1>1
  <2>2. ExtDot(w) \in dots
    <3> HIDE DEF dots
    <3> QED
      BY <1>1, <1>2, <1>4, <2>1, MaxOfIs
  <2>3. PICK j \in named : j < ExtDot(w)
    BY <2>2
  <2>4. ExtDot(w) \in 1 .. Len(w) /\ w[ExtDot(w)] = "." /\ j \in 1 .. Len(w) /\ w[j] \notin Blanks
    BY <1>1, <2>2
  <2>5. ExtDot(w) # Len(w)
    BY <1>1, <2>4 DEF Blanks
  <2>6. ExtDot(w) \in 0 .. Len(w) - 1 /\ j \in 1 .. ExtDot(w) - 1
    BY <1>1, <2>3, <2>4, <2>5
  <2> QED
    BY <2>4, <2>6
<1> QED
  BY <1>3, <1>4

\* The dot depends on the capitals of a name only.
LEMMA ExtDotUpper ==
  ASSUME NEW w \in Seq(Char), NEW v \in Seq(Char), UpperAll(w) = UpperAll(v)
  PROVE  ExtDot(w) = ExtDot(v)
<1>1. DOMAIN w = DOMAIN v /\ \A i \in DOMAIN w : Upper(w[i]) = Upper(v[i])
  BY SameUpper
<1>2. \A i \in DOMAIN w : (w[i] = "." <=> v[i] = ".") /\ (w[i] \in Blanks <=> v[i] \in Blanks)
  BY <1>1, UpperKeeps
<1>3. {i \in DOMAIN w : w[i] \notin Blanks} = {i \in DOMAIN v : v[i] \notin Blanks}
  BY <1>1, <1>2
<1> DEFINE S == {i \in DOMAIN w : w[i] \notin Blanks}
<1>4. {i \in DOMAIN w : w[i] = "." /\ \E j \in S : j < i}
        = {i \in DOMAIN v : v[i] = "." /\ \E j \in S : j < i}
  BY <1>1, <1>2
<1> QED
  BY <1>3, <1>4 DEF ExtDot

\* A name is its body, its dot and its extension.
LEMMA PartsAre ==
  ASSUME NEW w, Proper(w)
  PROVE  /\ Body(w) \in Seq(Char) /\ Ext(w) \in Seq(Char)
         /\ \E i \in 1 .. Len(Body(w)) : Body(w)[i] \notin Blanks
         /\ Len(Ext(w)) = 0 <=> ExtDot(w) = 0
         /\ Len(w) = Len(Body(w)) + Len(Ext(w)) + (IF ExtDot(w) = 0 THEN 0 ELSE 1)
         /\ \A i \in 1 .. Len(Body(w)) : Body(w)[i] = w[i]
         /\ ExtDot(w) # 0 =>
              /\ w[Len(Body(w)) + 1] = "."
              /\ \A i \in 1 .. Len(Ext(w)) : Ext(w)[i] = w[Len(Body(w)) + 1 + i]
<1>1. w \in Seq(Char) /\ Len(w) \in Nat /\ Len(w) > 0 /\ w[Len(w)] \notin Blanks
  BY DEF Proper
<1>2. CASE ExtDot(w) = 0
  <2>1. Body(w) = w /\ Ext(w) = <<>>
    BY <1>1, <1>2 DEF Body, Ext
  <2> QED
    BY <1>1, <1>2, <2>1
<1>3. CASE ExtDot(w) # 0
  <2> DEFINE d == ExtDot(w)
  <2>1. d \in 1 .. Len(w) - 1 /\ w[d] = "."
    BY <1>1, <1>3, ExtDotIs
  <2>2. PICK j \in 1 .. d - 1 : w[j] \notin Blanks
    BY <1>1, <1>3, ExtDotIs
  <2>3. Body(w) = SubSeq(w, 1, d - 1) /\ Ext(w) = SubSeq(w, d + 1, Len(w))
    BY <1>3 DEF Body, Ext
  <2> HIDE DEF d
  <2>4. /\ Body(w) \in Seq(Char) /\ Len(Body(w)) = d - 1
        /\ \A i \in 1 .. d - 1 : Body(w)[i] = w[i]
    BY <1>1, <2>1, <2>3
  <2>5. /\ Ext(w) \in Seq(Char) /\ Len(Ext(w)) = Len(w) - d
        /\ \A i \in 1 .. Len(w) - d : Ext(w)[i] = w[d + i]
    BY <1>1, <2>1, <2>3
  <2>6. \E i \in 1 .. Len(Body(w)) : Body(w)[i] \notin Blanks
    <3>1. j \in 1 .. Len(Body(w)) /\ Body(w)[j] \notin Blanks
      BY <2>1, <2>2, <2>4
    <3> QED
      BY <3>1
  <2>7. /\ Len(Ext(w)) # 0 /\ Len(w) = Len(Body(w)) + Len(Ext(w)) + 1
        /\ w[Len(Body(w)) + 1] = "."
    BY <1>1, <2>1, <2>4, <2>5
  <2>8. \A i \in 1 .. Len(Body(w)) : Body(w)[i] = w[i]
    BY <2>4
  <2>9. \A i \in 1 .. Len(Ext(w)) : Ext(w)[i] = w[Len(Body(w)) + 1 + i]
    <3>1. Len(Body(w)) + 1 = d
      BY <2>1, <2>4
    <3> QED
      BY <2>5, <3>1
  <2> QED
    BY <1>3, <2>4, <2>5, <2>6, <2>7, <2>8, <2>9
<1> QED
  BY <1>2, <1>3

\* create_name() in the terms above.
LEMMA CreateIs ==
  ASSUME NEW name, Proper(Stripped(name))
  PROVE  LET w == Stripped(name) IN
         /\ CreateName(name).lfn = w
         /\ CreateName(name).fn = <<Undead(ToSfn(Cut(w))), ToSfn(CutExt(w))>>
         /\ CreateName(name).loss = Lossy(w)
         /\ CreateName(name).loss => CreateName(name).long
<1> DEFINE w == Stripped(name)
<1>1. Kept(<<>>) = <<>>
  <2>1. <<>> \in Seq(Char) /\ Len(<<>>) = 0
    OBVIOUS
  <2>2. Kept(<<>>) \in Seq(Char) /\ Len(Kept(<<>>)) <= 0 /\ (Len(Kept(<<>>)) = 0 => Kept(<<>>) = <<>>)
    BY <2>1, KeptLength
  <2>3. Len(Kept(<<>>)) \in Nat
    BY <2>2
  <2> QED
    BY <2>2, <2>3
<1>2. Kept(Ext(w)) = IF ExtDot(w) = 0 THEN <<>> ELSE Kept(SubSeq(w, ExtDot(w) + 1, Len(w)))
  BY <1>1 DEF Ext
<1>3. CreateName(name).lfn = w
  BY DEF CreateName
<1>4. CreateName(name).loss = Lossy(w)
  BY <1>2 DEF CreateName, Lossy, Cut, CutExt, Body
<1>5. CreateName(name).fn = <<Undead(ToSfn(Cut(w))), ToSfn(CutExt(w))>>
  BY <1>2 DEF CreateName, Undead, Cut, CutExt, Body
<1>6. CreateName(name).loss => CreateName(name).long
  BY DEF CreateName
<1> QED
  BY <1>3, <1>4, <1>5, <1>6

\* A part of a short name has the characters of the part, made legal.
LEMMA ToSfnIs ==
  ASSUME NEW s \in Seq(Char)
  PROVE  /\ ToSfn(s) \in Seq(Char) /\ Len(ToSfn(s)) = Len(s)
         /\ \A i \in 1 .. Len(s) : ToSfn(s)[i] = IF s[i] \in Illegal THEN "_" ELSE Upper(s[i])
<1> DEFINE e(c) == IF c \in Illegal THEN "_" ELSE Upper(c)
<1>1. \A i \in 1 .. Len(s) : e(s[i]) \in Char
  <2> TAKE i \in 1 .. Len(s)
  <2>1. "_" \in Char
    BY DEF Char
  <2>2. s[i] \in Char
    OBVIOUS
  <2> QED
    BY <2>1, <2>2, UpperKeeps
<1>2. ToSfn(s) = [i \in 1 .. Len(s) |-> e(s[i])]
  BY DEF ToSfn
<1> HIDE DEF e
<1>3. /\ ToSfn(s) \in Seq(Char) /\ Len(ToSfn(s)) = Len(s)
      /\ \A i \in 1 .. Len(s) : ToSfn(s)[i] = e(s[i])
  BY <1>1, <1>2
<1> QED
  BY <1>3 DEF e

\* It depends on their capitals only.
LEMMA ToSfnUpper ==
  ASSUME NEW s \in Seq(Char), NEW t \in Seq(Char), UpperAll(s) = UpperAll(t)
  PROVE  ToSfn(s) = ToSfn(t)
<1>1. DOMAIN s = DOMAIN t /\ \A i \in DOMAIN s : Upper(s[i]) = Upper(t[i])
  BY SameUpper
<1>2. \A i \in DOMAIN s : s[i] \in Illegal <=> t[i] \in Illegal
  BY <1>1, UpperKeeps
<1> QED
  BY <1>1, <1>2 DEF ToSfn

\* Undead() changes the first character and nothing else.
LEMMA UndeadIs ==
  ASSUME NEW f \in Seq(Char), f # <<>>
  PROVE  /\ Undead(f) \in Seq(Char) /\ Len(Undead(f)) = Len(f) /\ Len(f) > 0
         /\ \A i \in 1 .. Len(f) : Undead(f)[i] = IF i = 1 /\ f[1] = "E5" THEN "05" ELSE f[i]
<1>1. CASE f[1] = "E5"
  <2>1. Undead(f) = <<"05">> \o Tail(f)
    BY <1>1 DEF Undead
  <2>2. "05" \in Char
    BY DEF Char
  <2>3. Tail(f) \in Seq(Char) /\ Len(Tail(f)) = Len(f) - 1 /\ Len(f) > 0
        /\ \A i \in 1 .. Len(f) - 1 : Tail(f)[i] = f[i + 1]
    OBVIOUS
  <2>4. <<"05">> \in Seq(Char) /\ Len(<<"05">>) = 1 /\ <<"05">>[1] = "05"
    BY <2>2
  <2> DEFINE t == Tail(f)
             b == <<"05">>
  <2>5. Undead(f) = b \o t
    BY <2>1
  <2>6. b \in Seq(Char) /\ Len(b) = 1 /\ b[1] = "05" /\ t \in Seq(Char) /\ Len(t) = Len(f) - 1
        /\ Len(f) > 0 /\ \A i \in 1 .. Len(f) - 1 : t[i] = f[i + 1]
    BY <2>3, <2>4
  <2> HIDE DEF t, b
  <2>7. /\ b \o t \in Seq(Char) /\ Len(b \o t) = Len(f) /\ (b \o t)[1] = "05"
        /\ \A i \in 2 .. Len(f) : (b \o t)[i] = t[i - 1]
    <3>1. Len(f) \in Nat
      OBVIOUS
    <3>2. b \in Seq(Char) /\ t \in Seq(Char)
      BY <2>6
    <3>3. /\ b \o t \in Seq(Char) /\ Len(b \o t) = Len(b) + Len(t)
          /\ \A i \in 1 .. Len(b) + Len(t) :
               (b \o t)[i] = IF i <= Len(b) THEN b[i] ELSE t[i - Len(b)]
      BY <3>2, ConcatProperties
    <3>4. Len(b) + Len(t) = Len(f)
      BY <2>6, <3>1
    <3>5. \A i \in 1 .. Len(f) : (b \o t)[i] = IF i <= 1 THEN b[i] ELSE t[i - 1]
      BY <2>6, <3>3, <3>4
    <3> QED
      BY <2>6, <3>1, <3>3, <3>4, <3>5
  <2>8. \A i \in 2 .. Len(f) : t[i - 1] = f[i]
    BY <2>6
  <2> QED
    BY <1>1, <2>5, <2>6, <2>7, <2>8
<1>2. CASE f[1] # "E5"
  BY <1>2 DEF Undead
<1> QED
  BY <1>1, <1>2

\* Undead() keeps apart what does not begin with the replacement itself.
LEMMA UndeadInjective ==
  ASSUME NEW f \in Seq(Char), NEW g \in Seq(Char), f # <<>>, g # <<>>,
         f[1] # "05", g[1] # "05", Undead(f) = Undead(g)
  PROVE  f = g
<1>1. Len(f) = Len(g) /\ Len(f) > 0
  BY UndeadIs
<1>2. \A i \in 1 .. Len(f) : /\ Undead(f)[i] = IF i = 1 /\ f[1] = "E5" THEN "05" ELSE f[i]
                             /\ Undead(g)[i] = IF i = 1 /\ g[1] = "E5" THEN "05" ELSE g[i]
  BY <1>1, UndeadIs
<1>3. \A i \in 1 .. Len(f) : f[i] = g[i]
  BY <1>1, <1>2
<1> QED
  BY <1>1, <1>3, SeqEqual

\* What of a name goes into its short name.
LEMMA CutIs ==
  ASSUME NEW w, Proper(w)
  PROVE  /\ Cut(w) \in Seq(Char) /\ Len(Cut(w)) > 0
         /\ CutExt(w) \in Seq(Char)
         /\ ~Lossy(w) => /\ Cut(w) = Body(w) /\ CutExt(w) = Ext(w)
                         /\ \A i \in 1 .. Len(Body(w)) : Body(w)[i] \notin Illegal
                         /\ \A i \in 1 .. Len(Ext(w)) : Ext(w)[i] \notin Illegal
<1> DEFINE b == Kept(Body(w))
           x == Kept(Ext(w))
<1>1. Body(w) \in Seq(Char) /\ Ext(w) \in Seq(Char)
      /\ Len(w) = Len(Body(w)) + Len(Ext(w)) + (IF ExtDot(w) = 0 THEN 0 ELSE 1)
      /\ \E i \in 1 .. Len(Body(w)) : Body(w)[i] \notin Blanks
  BY PartsAre
<1>2. b \in Seq(Char) /\ Len(b) <= Len(Body(w)) /\ (Len(b) = Len(Body(w)) => b = Body(w))
      /\ Len(b) > 0
  BY <1>1, KeptLength
<1>3. x \in Seq(Char) /\ Len(x) <= Len(Ext(w)) /\ (Len(x) = Len(Ext(w)) => x = Ext(w))
  BY <1>1, KeptLength
<1>4. BODY \in Nat /\ BODY > 2 /\ EXT \in Nat
  BY NameAssumption
<1>5. Cut(w) = Take(b, BODY) /\ CutExt(w) = Take(x, EXT)
  BY DEF Cut, CutExt
<1>6. Lossy(w) <=> \/ Len(b) + Len(x) + (IF ExtDot(w) = 0 THEN 0 ELSE 1) < Len(w)
                   \/ Len(b) > BODY \/ Len(x) > EXT
                   \/ Has(Cut(w) \o CutExt(w), Illegal)
  BY DEF Lossy
<1> HIDE DEF b, x
<1>7. Cut(w) \in Seq(Char) /\ Len(Cut(w)) > 0 /\ CutExt(w) \in Seq(Char)
  BY <1>2, <1>3, <1>4, <1>5, TakeIs
<1>8. ASSUME ~Lossy(w)
      PROVE  /\ Cut(w) = Body(w) /\ CutExt(w) = Ext(w)
             /\ \A i \in 1 .. Len(Body(w)) : Body(w)[i] \notin Illegal
             /\ \A i \in 1 .. Len(Ext(w)) : Ext(w)[i] \notin Illegal
  <2>1. Len(b) + Len(x) + (IF ExtDot(w) = 0 THEN 0 ELSE 1) >= Len(w) /\ Len(b) <= BODY /\ Len(x) <= EXT
    <3>1. Len(b) \in Nat /\ Len(x) \in Nat /\ Len(w) \in Nat
      BY <1>1, <1>2, <1>3
    <3> QED
      BY <1>4, <1>6, <1>8, <3>1
  <2>2. Len(b) = Len(Body(w)) /\ Len(x) = Len(Ext(w))
    <3>1. Len(b) \in Nat /\ Len(x) \in Nat /\ Len(Body(w)) \in Nat /\ Len(Ext(w)) \in Nat
      BY <1>1, <1>2, <1>3
    <3> QED
      BY <1>1, <1>2, <1>3, <2>1, <3>1
  <2>3. b = Body(w) /\ x = Ext(w)
    BY <1>2, <1>3, <2>2
  <2>4. Cut(w) = b /\ CutExt(w) = x
    BY <1>2, <1>3, <1>4, <1>5, <2>1, TakeIs
  <2>5. ~Has(Cut(w) \o CutExt(w), Illegal)
    BY <1>6, <1>8
  <2>6. \A i \in 1 .. Len(b) + Len(x) : (b \o x)[i] \notin Illegal
    BY <1>2, <1>3, <2>4, <2>5 DEF Has
  <2>7. /\ \A i \in 1 .. Len(b) : (b \o x)[i] = b[i]
        /\ \A i \in 1 .. Len(x) : (b \o x)[Len(b) + i] = x[i]
    BY <1>2, <1>3
  <2>8. Len(b) \in Nat /\ Len(x) \in Nat
    BY <1>2, <1>3
  <2>9. \A i \in 1 .. Len(b) : b[i] \notin Illegal
    BY <2>6, <2>7, <2>8
  <2>10. ASSUME NEW i \in 1 .. Len(x)
         PROVE  x[i] \notin Illegal
    <3>1. Len(b) + i \in 1 .. Len(b) + Len(x)
      BY <2>8
    <3> QED
      BY <2>6, <2>7, <3>1
  <2> QED
    BY <2>3, <2>4, <2>9, <2>10
<1> QED
  BY <1>7, <1>8

\* The short name of a name does not begin with the mark of a deleted entry.
LEMMA FnAlive ==
  ASSUME NEW name, Proper(Stripped(name))
  PROVE  /\ CreateName(name).fn[1] \in Seq(Char) /\ Len(CreateName(name).fn[1]) > 0
         /\ CreateName(name).fn[1][1] # "E5"
<1> DEFINE w == Stripped(name)
           f == ToSfn(Cut(w))
<1>1. f \in Seq(Char) /\ f # <<>>
  <2>1. Cut(w) \in Seq(Char) /\ Len(Cut(w)) > 0
    BY CutIs
  <2>2. f \in Seq(Char) /\ Len(f) = Len(Cut(w))
    BY <2>1, ToSfnIs
  <2> QED
    BY <2>1, <2>2
<1>2. CreateName(name).fn[1] = Undead(f)
  BY CreateIs
<1> HIDE DEF f
<1> QED
  BY <1>1, <1>2, UndeadIs

\* Nor does a numbered short name.
LEMMA GenAlive ==
  ASSUME NEW f, f[1] \in Seq(Char), Len(f[1]) > 0, f[1][1] # "E5", NEW n \in 1 .. NumMax
  PROVE  GenNumname(f, n)[1][1] # "E5"
<1> DEFINE d == <<"1", "2", "3", "4", "5">>
           t == Take(f[1], BODY - 2)
           e == <<"~", d[n]>>
<1>1. GenNumname(f, n)[1] = t \o e
  BY DEF GenNumname
<1>2. e \in Seq(Char)
  <2>1. n \in 1 .. 5
    BY NameAssumption
  <2>2. d[n] \in {"1", "2", "3", "4", "5"}
    BY <2>1
  <2>3. d[n] \in Char /\ "~" \in Char
    BY <2>2 DEF Char
  <2> QED
    BY <2>3
<1>3. t \in Seq(Char) /\ Len(t) > 0 /\ t[1] = f[1][1]
  <2>1. BODY - 2 \in Nat /\ BODY - 2 > 0
    BY NameAssumption
  <2> DEFINE m == BODY - 2
  <2>2. m \in Nat /\ m > 0
    BY <2>1
  <2> HIDE DEF m
  <2>3. LET u == Take(f[1], m) IN u \in Seq(Char) /\ Len(u) > 0 /\ u[1] = f[1][1]
    BY <2>2, TakeIs
  <2> QED
    BY <2>3 DEF m
<1> HIDE DEF t, e
<1>4. (t \o e)[1] = t[1]
  BY <1>2, <1>3
<1> QED
  BY <1>1, <1>3, <1>4

\* The names of the files.
LEMMA NameIs ==
  ASSUME NEW name \in Names, ~InvalidName(name)
  PROVE  /\ name \in Seq(Char) /\ Proper(Stripped(name)) /\ Stripped(name) \in Stored
         /\ Len(Stripped(name)) <= 255 /\ Len(Stripped(name)) <= MaxLfn
         /\ \A i \in 1 .. Len(Stripped(name)) : Stripped(name)[i] # "05"
<1>1. name \in Seq(Char)
  <2>1. name \in Seq(STRING)
    BY NamesAssumption
  <2>2. STRING \subseteq Char
    BY DEF Char
  <2>3. Len(name) \in Nat /\ name = [i \in 1 .. Len(name) |-> name[i]]
        /\ \A i \in 1 .. Len(name) : name[i] \in STRING
    BY <2>1
  <2>4. \A i \in 1 .. Len(name) : name[i] \in Char
    BY <2>2, <2>3
  <2>5. [i \in 1 .. Len(name) |-> name[i]] \in [1 .. Len(name) -> Char]
    BY <2>4
  <2>6. name \in [1 .. Len(name) -> Char]
    BY <2>3, <2>5
  <2> QED
    BY <2>3, <2>6, IsASeq
<1>2. /\ Len(name) <= MaxLfn /\ MaxLfn \in Nat /\ MaxLfn <= 255
      /\ \A i \in DOMAIN name : name[i] # "05"
  <2>1. MaxLfn \in Nat /\ MaxLfn <= 255
    BY NameAssumption
  <2>2. Len(name) \in Nat
    BY <1>1
  <2> QED
    BY <2>1, <2>2, NamesAssumption DEF InvalidName
<1>3. Stripped(name) # <<>>
  BY DEF InvalidName
<1>4. /\ Stripped(name) \in Seq(Char) /\ Len(Stripped(name)) <= Len(name)
      /\ \A i \in 1 .. Len(Stripped(name)) : Stripped(name)[i] = name[i]
      /\ Stripped(name)[Len(Stripped(name))] \notin Blanks
  BY <1>1, <1>3, StrippedIs
<1>5. Proper(Stripped(name))
  BY <1>3, <1>4 DEF Proper
<1>6. Len(name) \in Nat /\ Len(Stripped(name)) \in Nat
  BY <1>1, <1>4
<1>7. \A i \in 1 .. Len(Stripped(name)) : Stripped(name)[i] # "05"
  BY <1>1, <1>2, <1>4, <1>6
<1> QED
  BY <1>1, <1>2, <1>4, <1>5, <1>6, <1>7 DEF Stored

\* The names that long names keep are stripped already.
LEMMA StoredIs ==
  ASSUME NEW w \in Stored
  PROVE  /\ Proper(w) /\ w \in Seq(Char) /\ Stripped(w) = w /\ Len(w) \in Nat /\ Len(w) > 0 /\ Len(w) <= 255
         /\ Len(w) <= MaxLfn
         /\ \A i \in 1 .. Len(w) : w[i] # "05"
         /\ CreateName(w).lfn = w
<1>1. PICK name \in Names : ~InvalidName(name) /\ w = Stripped(name)
  BY DEF Stored
<1>2. Proper(w) /\ Len(w) <= 255 /\ Len(w) <= MaxLfn /\ \A i \in 1 .. Len(w) : w[i] # "05"
  BY <1>1, NameIs
<1>3. w \in Seq(Char) /\ w # <<>> /\ w[Len(w)] \notin Blanks
  BY <1>2 DEF Proper
<1>4. Stripped(w) = w
  BY <1>3, StrippedTwice
<1>5. CreateName(w).lfn = w
  BY <1>2, <1>4, CreateIs
<1>6. Len(w) \in Nat /\ Len(w) > 0 /\ Len(w) <= 255
  <2>1. Len(w) \in Nat /\ Len(w) > 0
    BY <1>3
  <2>2. Len(w) <= 255
    BY <1>2
  <2> QED
    BY <2>1, <2>2
<1> QED
  BY <1>2, <1>3, <1>4, <1>5, <1>6

\* Names that differ in capitals only are one for create_name().
LEMMA CreateSame ==
  ASSUME NEW m, NEW n, Proper(Stripped(m)), Proper(Stripped(n)), SameName(m, n)
  PROVE  CreateName(m).fn = CreateName(n).fn /\ CreateName(m).loss = CreateName(n).loss
<1> DEFINE w == Stripped(m)
           v == Stripped(n)
<1>1. Proper(w) /\ Proper(v) /\ UpperAll(w) = UpperAll(v)
  BY DEF SameName
<1>2. /\ CreateName(m).fn = <<Undead(ToSfn(Cut(w))), ToSfn(CutExt(w))>>
      /\ CreateName(n).fn = <<Undead(ToSfn(Cut(v))), ToSfn(CutExt(v))>>
      /\ CreateName(m).loss = Lossy(w) /\ CreateName(n).loss = Lossy(v)
  BY CreateIs
<1> HIDE DEF w, v
<1>3. w \in Seq(Char) /\ v \in Seq(Char)
  BY <1>1 DEF Proper
<1>4. ExtDot(w) = ExtDot(v)
  BY <1>1, <1>3, ExtDotUpper
<1>5. Len(w) = Len(v) /\ \A i \in 1 .. Len(w) : Upper(w[i]) = Upper(v[i])
  BY <1>1, <1>3, SameUpper
<1>6. /\ Body(w) \in Seq(Char) /\ Body(v) \in Seq(Char) /\ Ext(w) \in Seq(Char) /\ Ext(v) \in Seq(Char)
      /\ \A i \in 1 .. Len(Body(w)) : Body(w)[i] = w[i]
      /\ \A i \in 1 .. Len(Body(v)) : Body(v)[i] = v[i]
  BY <1>1, PartsAre
<1>7. ExtDot(w) \in 0 .. Len(w) - 1
  BY <1>1, ExtDotIs
<1>8. UpperAll(Body(w)) = UpperAll(Body(v))
  <2>1. Len(Body(w)) = Len(Body(v)) /\ Len(Body(w)) <= Len(w)
    BY <1>3, <1>4, <1>5, <1>7 DEF Body
  <2>2. \A i \in 1 .. Len(Body(w)) : Upper(Body(w)[i]) = Upper(Body(v)[i])
    BY <1>3, <1>5, <1>6, <2>1
  <2> QED
    BY <1>6, <2>1, <2>2, SameUpper
<1>9. UpperAll(Ext(w)) = UpperAll(Ext(v))
  <2>1. CASE ExtDot(w) = 0
    BY <1>4, <2>1 DEF Ext
  <2>2. CASE ExtDot(w) # 0
    <3> DEFINE d == ExtDot(w)
    <3>1. Ext(w) = SubSeq(w, d + 1, Len(w)) /\ Ext(v) = SubSeq(v, d + 1, Len(v))
      BY <1>4, <2>2 DEF Ext
    <3>2. d \in 1 .. Len(w) - 1
      BY <1>3, <1>7, <2>2
    <3> HIDE DEF d
    <3>3. Len(Ext(w)) = Len(w) - d /\ Len(Ext(v)) = Len(w) - d
      BY <1>3, <1>5, <3>1, <3>2
    <3>4. \A i \in 1 .. Len(w) - d : Ext(w)[i] = w[d + i] /\ Ext(v)[i] = v[d + i]
      BY <1>3, <1>5, <3>1, <3>2
    <3>5. \A i \in 1 .. Len(w) - d : Upper(Ext(w)[i]) = Upper(Ext(v)[i])
      BY <1>3, <1>5, <3>2, <3>4
    <3> QED
      BY <1>6, <3>3, <3>5, SameUpper
  <2> QED
    BY <2>1, <2>2
<1> DEFINE b == Kept(Body(w))
           c == Kept(Body(v))
           x == Kept(Ext(w))
           y == Kept(Ext(v))
<1>10. /\ b \in Seq(Char) /\ c \in Seq(Char) /\ x \in Seq(Char) /\ y \in Seq(Char)
  BY <1>6, KeptLength
<1>11. UpperAll(b) = UpperAll(c) /\ UpperAll(x) = UpperAll(y)
  BY <1>6, <1>8, <1>9, KeptUpper
<1>12. /\ Cut(w) = Take(b, BODY) /\ Cut(v) = Take(c, BODY)
       /\ CutExt(w) = Take(x, EXT) /\ CutExt(v) = Take(y, EXT)
  BY DEF Cut, CutExt
<1>13. /\ Lossy(w) <=> \/ Len(b) + Len(x) + (IF ExtDot(w) = 0 THEN 0 ELSE 1) < Len(w)
                       \/ Len(b) > BODY \/ Len(x) > EXT
                       \/ Has(Cut(w) \o CutExt(w), Illegal)
       /\ Lossy(v) <=> \/ Len(c) + Len(y) + (IF ExtDot(v) = 0 THEN 0 ELSE 1) < Len(v)
                       \/ Len(c) > BODY \/ Len(y) > EXT
                       \/ Has(Cut(v) \o CutExt(v), Illegal)
  BY DEF Lossy
<1> HIDE DEF b, c, x, y
<1>14. /\ Len(b) = Len(c) /\ \A i \in 1 .. Len(b) : Upper(b[i]) = Upper(c[i])
       /\ Len(x) = Len(y) /\ \A i \in 1 .. Len(x) : Upper(x[i]) = Upper(y[i])
  BY <1>10, <1>11, SameUpper
<1>15. BODY \in Nat /\ EXT \in Nat
  BY NameAssumption
<1>16. /\ Cut(w) \in Seq(Char) /\ Cut(v) \in Seq(Char) /\ CutExt(w) \in Seq(Char) /\ CutExt(v) \in Seq(Char)
       /\ Len(Cut(w)) = Len(Cut(v)) /\ Len(CutExt(w)) = Len(CutExt(v))
       /\ Len(Cut(w)) <= Len(b) /\ Len(CutExt(w)) <= Len(x)
  BY <1>10, <1>12, <1>14, <1>15, TakeIs
<1>17. \A i \in 1 .. Len(Cut(w)) : Upper(Cut(w)[i]) = Upper(Cut(v)[i])
  <2> TAKE i \in 1 .. Len(Cut(w))
  <2>1. Cut(w)[i] = b[i] /\ Cut(v)[i] = c[i]
    BY <1>10, <1>12, <1>15, <1>16, TakeIs
  <2>2. i \in 1 .. Len(b)
    BY <1>10, <1>16
  <2> QED
    BY <1>14, <2>1, <2>2
<1>18. \A i \in 1 .. Len(CutExt(w)) : Upper(CutExt(w)[i]) = Upper(CutExt(v)[i])
  <2> TAKE i \in 1 .. Len(CutExt(w))
  <2>1. CutExt(w)[i] = x[i] /\ CutExt(v)[i] = y[i]
    BY <1>10, <1>12, <1>15, <1>16, TakeIs
  <2>2. i \in 1 .. Len(x)
    BY <1>10, <1>16
  <2> QED
    BY <1>14, <2>1, <2>2
<1>19. UpperAll(Cut(w)) = UpperAll(Cut(v)) /\ UpperAll(CutExt(w)) = UpperAll(CutExt(v))
  BY <1>16, <1>17, <1>18, SameUpper
<1>20. ToSfn(Cut(w)) = ToSfn(Cut(v)) /\ ToSfn(CutExt(w)) = ToSfn(CutExt(v))
  BY <1>16, <1>19, ToSfnUpper
<1>21. Has(Cut(w) \o CutExt(w), Illegal) <=> Has(Cut(v) \o CutExt(v), Illegal)
  <2> DEFINE s == Cut(w) \o CutExt(w)
             t == Cut(v) \o CutExt(v)
  <2>1. DOMAIN s = 1 .. Len(Cut(w)) + Len(CutExt(w)) /\ DOMAIN t = DOMAIN s
        /\ \A i \in 1 .. Len(Cut(w)) + Len(CutExt(w)) :
             /\ s[i] = IF i <= Len(Cut(w)) THEN Cut(w)[i] ELSE CutExt(w)[i - Len(Cut(w))]
             /\ t[i] = IF i <= Len(Cut(w)) THEN Cut(v)[i] ELSE CutExt(v)[i - Len(Cut(w))]
    <3> DEFINE p == Cut(w)
               q == CutExt(w)
               r == Cut(v)
               u == CutExt(v)
    <3>1. p \in Seq(Char) /\ q \in Seq(Char) /\ r \in Seq(Char) /\ u \in Seq(Char)
          /\ Len(p) = Len(r) /\ Len(q) = Len(u)
      BY <1>16
    <3> HIDE DEF p, q, r, u
    <3>2. /\ p \o q \in Seq(Char) /\ Len(p \o q) = Len(p) + Len(q)
          /\ \A i \in 1 .. Len(p) + Len(q) : (p \o q)[i] = IF i <= Len(p) THEN p[i] ELSE q[i - Len(p)]
      BY <3>1, ConcatProperties
    <3>3. /\ r \o u \in Seq(Char) /\ Len(r \o u) = Len(p) + Len(q)
          /\ \A i \in 1 .. Len(p) + Len(q) : (r \o u)[i] = IF i <= Len(p) THEN r[i] ELSE u[i - Len(p)]
      BY <3>1, ConcatProperties
    <3>4. DOMAIN (p \o q) = 1 .. Len(p) + Len(q) /\ DOMAIN (r \o u) = 1 .. Len(p) + Len(q)
      BY <3>2, <3>3
    <3> QED
      BY <3>2, <3>3, <3>4 DEF p, q, r, u
  <2>2. ASSUME NEW i \in DOMAIN s
        PROVE  s[i] \in Illegal <=> t[i] \in Illegal
    <3>1. Len(Cut(w)) \in Nat /\ Len(CutExt(w)) \in Nat /\ i \in 1 .. Len(Cut(w)) + Len(CutExt(w))
      BY <1>16, <2>1
    <3>2. CASE i <= Len(Cut(w))
      <4>1. s[i] = Cut(w)[i] /\ t[i] = Cut(v)[i] /\ i \in 1 .. Len(Cut(w))
        BY <2>1, <3>1, <3>2
      <4> QED
        BY <1>17, <4>1, UpperKeeps
    <3>3. CASE i > Len(Cut(w))
      <4>1. /\ s[i] = CutExt(w)[i - Len(Cut(w))] /\ t[i] = CutExt(v)[i - Len(Cut(w))]
            /\ i - Len(Cut(w)) \in 1 .. Len(CutExt(w))
        BY <2>1, <3>1, <3>3
      <4> QED
        BY <1>18, <4>1, UpperKeeps
    <3>4. i <= Len(Cut(w)) \/ i > Len(Cut(w))
      <4> HIDE DEF s
      <4> QED
        BY <3>1
    <3> HIDE DEF s, t
    <3> QED
      BY <3>2, <3>3, <3>4
  <2> HIDE DEF s, t
  <2>3. Has(s, Illegal) <=> Has(t, Illegal)
    BY <2>1, <2>2 DEF Has
  <2> QED
    BY <2>3 DEF s, t
<1>22. Lossy(w) <=> Lossy(v)
  BY <1>4, <1>5, <1>13, <1>14, <1>21
<1>23. Lossy(w) = Lossy(v)
  BY <1>22 DEF Lossy
<1> QED
  BY <1>2, <1>20, <1>23

\* What FatFs writes as a short name is not taken for a deleted entry.
LEMMA ShortAlive ==
  ASSUME NEW w \in Stored, NEW f \in ShortNames(w)
  PROVE  f[1][1] # "E5"
<1> DEFINE c == CreateName(w)
<1>1. /\ c.fn[1] \in Seq(Char) /\ Len(c.fn[1]) > 0 /\ c.fn[1][1] # "E5"
  <2>1. Proper(Stripped(w))
    BY StoredIs
  <2> QED
    BY <2>1, FnAlive
<1>2. f \in IF c.loss THEN {GenNumname(c.fn, n) : n \in 1 .. NumMax} ELSE {c.fn}
  BY DEF ShortNames
<1> HIDE DEF c
<1>3. CASE c.loss
  <2>1. PICK n \in 1 .. NumMax : f = GenNumname(c.fn, n)
    BY <1>2, <1>3
  <2> QED
    BY <1>1, <2>1, GenAlive
<1>4. CASE ~c.loss
  BY <1>1, <1>2, <1>4
<1> QED
  BY <1>3, <1>4

\* A short name that loses nothing gives the name back, but for its capitals.
LEMMA ShortTellsName ==
  ASSUME NEW m, NEW n, Proper(Stripped(m)), Proper(Stripped(n)),
         \A i \in 1 .. Len(Stripped(m)) : Stripped(m)[i] # "05",
         \A i \in 1 .. Len(Stripped(n)) : Stripped(n)[i] # "05",
         ~CreateName(m).loss, ~CreateName(n).loss, CreateName(m).fn = CreateName(n).fn
  PROVE  SameName(m, n)
<1> DEFINE w == Stripped(m)
           v == Stripped(n)
<1>1. /\ Proper(w) /\ Proper(v)
      /\ \A i \in 1 .. Len(w) : w[i] # "05"
      /\ \A i \in 1 .. Len(v) : v[i] # "05"
  OBVIOUS
<1>2. /\ CreateName(m).fn = <<Undead(ToSfn(Cut(w))), ToSfn(CutExt(w))>>
      /\ CreateName(n).fn = <<Undead(ToSfn(Cut(v))), ToSfn(CutExt(v))>>
      /\ CreateName(m).loss = Lossy(w) /\ CreateName(n).loss = Lossy(v)
  BY CreateIs
<1>3. SameName(m, n) <=> UpperAll(w) = UpperAll(v)
  BY DEF SameName
<1> HIDE DEF w, v
<1>4. ~Lossy(w) /\ ~Lossy(v)
  BY <1>2
<1>5. /\ Cut(w) = Body(w) /\ CutExt(w) = Ext(w)
      /\ \A i \in 1 .. Len(Body(w)) : Body(w)[i] \notin Illegal
      /\ \A i \in 1 .. Len(Ext(w)) : Ext(w)[i] \notin Illegal
      /\ Len(Body(w)) > 0
  BY <1>1, <1>4, CutIs
<1>6. /\ Cut(v) = Body(v) /\ CutExt(v) = Ext(v)
      /\ \A i \in 1 .. Len(Body(v)) : Body(v)[i] \notin Illegal
      /\ \A i \in 1 .. Len(Ext(v)) : Ext(v)[i] \notin Illegal
      /\ Len(Body(v)) > 0
  BY <1>1, <1>4, CutIs
<1>7. Undead(ToSfn(Body(w))) = Undead(ToSfn(Body(v))) /\ ToSfn(Ext(w)) = ToSfn(Ext(v))
  <2> DEFINE a == Undead(ToSfn(Cut(w)))
             b == ToSfn(CutExt(w))
             c == Undead(ToSfn(Cut(v)))
             d == ToSfn(CutExt(v))
  <2>1. <<a, b>> = <<c, d>>
    BY <1>2
  <2> HIDE DEF a, b, c, d
  <2>2. a = c /\ b = d
    BY <2>1
  <2> QED
    BY <1>5, <1>6, <2>2 DEF a, b, c, d
<1>8. /\ Body(w) \in Seq(Char) /\ Ext(w) \in Seq(Char) /\ w \in Seq(Char)
      /\ Len(w) = Len(Body(w)) + Len(Ext(w)) + (IF ExtDot(w) = 0 THEN 0 ELSE 1)
      /\ (Len(Ext(w)) = 0 <=> ExtDot(w) = 0)
      /\ \A i \in 1 .. Len(Body(w)) : Body(w)[i] = w[i]
      /\ ExtDot(w) # 0 => /\ w[Len(Body(w)) + 1] = "."
                          /\ \A i \in 1 .. Len(Ext(w)) : Ext(w)[i] = w[Len(Body(w)) + 1 + i]
  BY <1>1, PartsAre DEF Proper
<1>9. /\ Body(v) \in Seq(Char) /\ Ext(v) \in Seq(Char) /\ v \in Seq(Char)
      /\ Len(v) = Len(Body(v)) + Len(Ext(v)) + (IF ExtDot(v) = 0 THEN 0 ELSE 1)
      /\ (Len(Ext(v)) = 0 <=> ExtDot(v) = 0)
      /\ \A i \in 1 .. Len(Body(v)) : Body(v)[i] = v[i]
      /\ ExtDot(v) # 0 => /\ v[Len(Body(v)) + 1] = "."
                          /\ \A i \in 1 .. Len(Ext(v)) : Ext(v)[i] = v[Len(Body(v)) + 1 + i]
  BY <1>1, PartsAre DEF Proper
<1>10. /\ ToSfn(Body(w)) \in Seq(Char) /\ Len(ToSfn(Body(w))) = Len(Body(w))
       /\ \A i \in 1 .. Len(Body(w)) : ToSfn(Body(w))[i] = Upper(Body(w)[i])
  BY <1>5, <1>8, ToSfnIs
<1>11. /\ ToSfn(Body(v)) \in Seq(Char) /\ Len(ToSfn(Body(v))) = Len(Body(v))
       /\ \A i \in 1 .. Len(Body(v)) : ToSfn(Body(v))[i] = Upper(Body(v)[i])
  BY <1>6, <1>9, ToSfnIs
<1>12. ToSfn(Body(w)) = ToSfn(Body(v))
  <2>1. Body(w)[1] # "05" /\ Body(v)[1] # "05"
    <3>1. 1 \in 1 .. Len(Body(w)) /\ 1 \in 1 .. Len(w) /\ 1 \in 1 .. Len(Body(v)) /\ 1 \in 1 .. Len(v)
      <4>1. Len(Body(w)) \in Nat /\ Len(Ext(w)) \in Nat /\ Len(w) \in Nat /\ Len(w) >= Len(Body(w))
        BY <1>8
      <4>2. Len(Body(v)) \in Nat /\ Len(Ext(v)) \in Nat /\ Len(v) \in Nat /\ Len(v) >= Len(Body(v))
        BY <1>9
      <4>3. Len(Body(w)) > 0 /\ Len(Body(v)) > 0
        BY <1>5, <1>6
      <4> QED
        BY <4>1, <4>2, <4>3
    <3> QED
      BY <1>1, <1>8, <1>9, <3>1
  <2>2. 1 \in 1 .. Len(Body(w)) /\ 1 \in 1 .. Len(Body(v))
    BY <1>5, <1>6, <1>8, <1>9
  <2>3. ToSfn(Body(w))[1] # "05" /\ ToSfn(Body(v))[1] # "05"
    BY <1>10, <1>11, <2>1, <2>2, UpperKeeps
  <2>4. ToSfn(Body(w)) # <<>> /\ ToSfn(Body(v)) # <<>>
    BY <1>5, <1>6, <1>10, <1>11
  <2> QED
    BY <1>7, <1>10, <1>11, <2>3, <2>4, UndeadInjective
<1>13. Len(Body(w)) = Len(Body(v)) /\ \A i \in 1 .. Len(Body(w)) : Upper(Body(w)[i]) = Upper(Body(v)[i])
  BY <1>10, <1>11, <1>12
<1>14. Len(Ext(w)) = Len(Ext(v)) /\ \A i \in 1 .. Len(Ext(w)) : Upper(Ext(w)[i]) = Upper(Ext(v)[i])
  <2>1. /\ Len(ToSfn(Ext(w))) = Len(Ext(w))
        /\ \A i \in 1 .. Len(Ext(w)) : ToSfn(Ext(w))[i] = Upper(Ext(w)[i])
    BY <1>5, <1>8, ToSfnIs
  <2>2. /\ Len(ToSfn(Ext(v))) = Len(Ext(v))
        /\ \A i \in 1 .. Len(Ext(v)) : ToSfn(Ext(v))[i] = Upper(Ext(v)[i])
    BY <1>6, <1>9, ToSfnIs
  <2> QED
    BY <1>7, <2>1, <2>2
<1>15. Len(w) = Len(v) /\ (ExtDot(w) = 0 <=> ExtDot(v) = 0)
  BY <1>8, <1>9, <1>13, <1>14
<1>16. ASSUME NEW i \in 1 .. Len(w)
       PROVE  Upper(w[i]) = Upper(v[i])
  <2> DEFINE b == Len(Body(w))
             x == Len(Ext(w))
  <2>1. b \in Nat /\ x \in Nat /\ Len(w) = b + x + (IF ExtDot(w) = 0 THEN 0 ELSE 1) /\ (x = 0 <=> ExtDot(w) = 0)
        /\ Len(Body(v)) = b /\ Len(Ext(v)) = x
    BY <1>8, <1>13, <1>14
  <2>2. CASE i <= b
    <3>1. i \in 1 .. b
      BY <2>1, <2>2
    <3> QED
      BY <1>8, <1>9, <1>13, <3>1
  <2>3. CASE i = b + 1
    <3>1. ExtDot(w) # 0 /\ ExtDot(v) # 0
      BY <1>15, <2>1, <2>3
    <3> QED
      BY <1>8, <1>9, <2>1, <2>3, <3>1
  <2>4. CASE i > b + 1
    <3>1. ExtDot(w) # 0 /\ ExtDot(v) # 0
      BY <1>15, <2>1, <2>4
    <3> DEFINE j == i - b - 1
    <3>2. j \in 1 .. x /\ b + 1 + j = i
      BY <2>1, <2>4, <3>1
    <3> HIDE DEF j
    <3>3. Upper(Ext(w)[j]) = Upper(Ext(v)[j])
      BY <1>14, <3>2
    <3>4. Ext(w)[j] = w[i] /\ Ext(v)[j] = v[i]
      BY <1>8, <1>9, <2>1, <3>1, <3>2
    <3> QED
      BY <3>3, <3>4
  <2> HIDE DEF b
  <2>5. i <= b \/ i = b + 1 \/ i > b + 1
    BY <2>1
  <2> QED
    BY <2>2, <2>3, <2>4, <2>5
<1> QED
  BY <1>3, <1>8, <1>9, <1>15, <1>16, SameUpper

(***************************************************************************)
(* The entries of long names.                                              *)
(***************************************************************************)
\* The entries of a long name are as many as hold its characters, and no more.
LEMMA EntriesAre ==
  ASSUME NEW w \in Seq(Char), Len(w) > 0
  PROVE  /\ LfnEntries(w) \in Nat \ {0} /\ LfnEntries(w) <= Len(w)
         /\ (LfnEntries(w) - 1) * SEG < Len(w) /\ Len(w) <= LfnEntries(w) * SEG
         /\ LfnEntries(w) * SEG = (LfnEntries(w) - 1) * SEG + SEG
<1> DEFINE a == Len(w) + 2 * SEG - 1
           q == a \div SEG
<1>1. SEG \in Nat /\ SEG > 0 /\ Len(w) \in Nat /\ Len(w) > 0
  BY NameAssumption
<1>2. a \in Nat /\ a = Len(w) + SEG + SEG - 1
  BY <1>1
<1>3. LfnEntries(w) = q - 1
  BY DEF LfnEntries
<1>4. q \in Nat /\ q * SEG <= a /\ a < q * SEG + SEG
  <2> HIDE DEF a
  <2> QED
    BY <1>1, <1>2, Quotient
<1> DEFINE n == q - 1
<1> HIDE DEF a, q
<1>5. q * SEG \in Int /\ n * SEG = q * SEG - SEG
  BY <1>1, <1>4, ProductStep
<1>6. n \in Int /\ n = q - 1
  BY <1>4
<1> HIDE DEF n
<1>7. n * SEG \in Int /\ (n - 1) * SEG = n * SEG - SEG
  BY <1>1, <1>6, ProductStep
<1>8. (n - 1) * SEG < Len(w) /\ Len(w) <= n * SEG
  BY <1>1, <1>2, <1>4, <1>5, <1>7
<1>9. n > 0
  <2> SUFFICES ASSUME n <= 0
               PROVE  FALSE
    BY <1>6
  <2>1. n * SEG <= 0
    BY <1>1, <1>6
  <2> QED
    BY <1>1, <1>7, <1>8, <2>1
<1>10. n <= Len(w)
  <2>1. (n - 1) * SEG >= n - 1
    BY <1>1, <1>6, <1>9
  <2> QED
    BY <1>1, <1>6, <1>7, <1>8, <2>1
<1> QED
  BY <1>1, <1>3, <1>6, <1>7, <1>8, <1>9, <1>10 DEF n

\* An entry of a long name holds its segment of the name.
LEMMA SegmentIs ==
  ASSUME NEW w \in Seq(Char), Len(w) > 0, NEW o \in 1 .. LfnEntries(w), NEW s
  PROVE  LET e == FitLfn(w, o, s)
             from == (o - 1) * SEG IN
         /\ e.kind = "lfn" /\ e.ord = o /\ e.sum = s /\ (e.last <=> o = LfnEntries(w))
         /\ from \in Nat /\ from < Len(w) /\ e.seg \in Seq(Char)
         /\ o # LfnEntries(w) => from + SEG < Len(w)
         /\ Len(e.seg) = IF o = LfnEntries(w) THEN Len(w) - from ELSE SEG
         /\ \A i \in 1 .. Len(e.seg) : e.seg[i] = w[from + i]
<1> DEFINE N == LfnEntries(w)
           from == (o - 1) * SEG
           to == IF o * SEG < Len(w) THEN o * SEG ELSE Len(w)
           e == FitLfn(w, o, s)
<1>1. SEG \in Nat /\ SEG > 0 /\ Len(w) \in Nat /\ Len(w) > 0
  BY NameAssumption
<1>2. N \in Nat /\ N > 0 /\ (N - 1) * SEG < Len(w) /\ Len(w) <= N * SEG
      /\ N * SEG = (N - 1) * SEG + SEG
  BY EntriesAre
<1>3. e.kind = "lfn" /\ e.ord = o /\ e.sum = s /\ e.seg = SubSeq(w, from + 1, to)
      /\ (e.last <=> o * SEG >= Len(w))
  BY DEF FitLfn
<1> HIDE DEF e
<1>4. o \in Nat /\ o > 0 /\ o <= N
  BY <1>2
<1> HIDE DEF N
<1>5. from \in Nat /\ from <= (N - 1) * SEG /\ (N - 1) * SEG \in Nat /\ o * SEG = from + SEG
  <2>1. o - 1 \in Nat /\ N - 1 \in Nat /\ o - 1 <= N - 1 /\ o = (o - 1) + 1
    BY <1>2, <1>4
  <2>2. from \in Nat /\ from <= (N - 1) * SEG /\ (N - 1) * SEG \in Nat
    BY <1>1, <2>1, ProductMonotone
  <2>3. (o - 1) * SEG = o * SEG - SEG /\ o * SEG \in Int
    BY <1>1, <1>4, ProductStep
  <2> QED
    BY <1>1, <2>2, <2>3
<1>6. o # N => o * SEG <= (N - 1) * SEG
  <2>1. o # N => o \in Nat /\ N - 1 \in Nat /\ o <= N - 1
    BY <1>2, <1>4
  <2> QED
    BY <1>1, <2>1, ProductMonotone
<1>7. from < Len(w)
  BY <1>1, <1>2, <1>5
<1>8. o * SEG >= Len(w) <=> o = N
  BY <1>1, <1>2, <1>5, <1>6
<1>9. to = IF o = N THEN Len(w) ELSE from + SEG
  BY <1>1, <1>2, <1>5, <1>8
<1>10. o # N => from + SEG < Len(w)
  BY <1>1, <1>2, <1>5, <1>6
<1>11. to \in Nat /\ from < to /\ to <= Len(w)
  BY <1>1, <1>5, <1>7, <1>9, <1>10
<1> HIDE DEF from, to
<1>12. /\ e.seg \in Seq(Char) /\ Len(e.seg) = to - from
       /\ \A i \in 1 .. to - from : e.seg[i] = w[from + i]
  BY <1>1, <1>3, <1>5, <1>11
<1>13. to - from = IF o = N THEN Len(w) - from ELSE SEG
  BY <1>1, <1>5, <1>9
<1> QED
  BY <1>3, <1>5, <1>7, <1>8, <1>10, <1>12, <1>13 DEF e, from, N

\* The segments of a long name, put together, are the name.
LEMMA SegmentsJoin ==
  ASSUME NEW w \in Seq(Char), Len(w) > 0, NEW s
  PROVE  FlattenSeq([j \in 1 .. LfnEntries(w) |-> FitLfn(w, j, s).seg]) = w
<1> DEFINE N == LfnEntries(w)
           seqs == [j \in 1 .. N |-> FitLfn(w, j, s).seg]
           to(i) == IF i * SEG < Len(w) THEN i * SEG ELSE Len(w)
           H(f) == [i \in 1 .. Len(seqs) |-> IF i = 1 THEN seqs[i] ELSE f[i - 1] \o seqs[i]]
           K == CHOOSE f : f = H(f)
           v == [i \in 1 .. N |-> SubSeq(w, 1, to(i))]
<1>1. SEG \in Nat /\ SEG > 0 /\ Len(w) \in Nat /\ Len(w) > 0
  BY NameAssumption
<1>2. N \in Nat /\ N > 0
  BY EntriesAre
<1>3. Len(seqs) = N /\ Len(seqs) # 0
  <2> HIDE DEF N
  <2> QED
    BY <1>2
<1>4. FlattenSeq(seqs) = K[N]
  BY <1>3 DEF FlattenSeq
<1>5. ASSUME NEW i \in 1 .. N
      PROVE  /\ (i - 1) * SEG \in Nat /\ (i - 1) * SEG < Len(w)
             /\ to(i) \in Nat /\ to(i) <= Len(w) /\ (i - 1) * SEG < to(i)
             /\ seqs[i] = SubSeq(w, (i - 1) * SEG + 1, to(i))
             /\ i = N => to(i) = Len(w)
  <2>1. (i - 1) * SEG \in Nat /\ (i - 1) * SEG < Len(w) /\ (FitLfn(w, i, s).last <=> i = N)
    BY SegmentIs
  <2>2. i \in Nat /\ (i - 1) * SEG = i * SEG - SEG /\ i * SEG \in Int
    BY <1>1, <1>2, ProductStep
  <2>3. to(i) \in Nat /\ to(i) <= Len(w) /\ (i - 1) * SEG < to(i)
    BY <1>1, <2>1, <2>2
  <2>4. seqs[i] = SubSeq(w, (i - 1) * SEG + 1, to(i))
    BY DEF FitLfn
  <2>5. i = N => i * SEG >= Len(w)
    BY <2>1 DEF FitLfn
  <2>6. i = N => to(i) = Len(w)
    BY <1>1, <2>2, <2>5
  <2> QED
    BY <2>1, <2>3, <2>4, <2>6
<1> HIDE DEF N
<1>6. ASSUME NEW i \in 1 .. N, i # 1
      PROVE  v[i - 1] \o seqs[i] = v[i]
  <2>1. i - 1 \in 1 .. N
    BY <1>2, <1>6
  <2> DEFINE k == (i - 1) * SEG
             n == to(i)
  <2>2. to(i - 1) = k
    BY <1>5
  <2>3. v[i - 1] = SubSeq(w, 1, k) /\ v[i] = SubSeq(w, 1, n) /\ seqs[i] = SubSeq(w, k + 1, n)
    BY <1>5, <2>1, <2>2
  <2>4. k \in Nat /\ n \in Nat /\ k < n /\ n <= Len(w)
    BY <1>5
  <2> HIDE DEF k, n, v, seqs
  <2>5. 1 \in 1 .. Len(w) + 1 /\ k \in 1 - 1 .. Len(w) /\ n \in k .. Len(w)
    BY <1>1, <2>4
  <2>6. SubSeq(w, 1, k) \o SubSeq(w, k + 1, n) = SubSeq(w, 1, n)
    BY <2>5, ConcatAdjacentSubSeq
  <2> QED
    BY <2>3, <2>6
<1>7. v[1] = seqs[1]
  <2>1. 1 \in 1 .. N /\ (1 - 1) * SEG = 0
    BY <1>1, <1>2
  <2>2. seqs[1] = SubSeq(w, (1 - 1) * SEG + 1, to(1))
    BY <1>5, <2>1
  <2>3. (1 - 1) * SEG + 1 = 1
    BY <2>1
  <2>4. v[1] = SubSeq(w, 1, to(1))
    BY <2>1
  <2> HIDE DEF seqs, v
  <2>5. seqs[1] = SubSeq(w, 1, to(1))
    BY <2>2, <2>3
  <2> QED
    BY <2>4, <2>5
<1> HIDE DEF seqs
<1>8. v = H(v)
  <2>1. \A i \in 1 .. N : v[i] = IF i = 1 THEN seqs[i] ELSE v[i - 1] \o seqs[i]
    BY <1>6, <1>7
  <2>2. v = [i \in 1 .. N |-> v[i]]
    OBVIOUS
  <2>3. H(v) = [i \in 1 .. N |-> IF i = 1 THEN seqs[i] ELSE v[i - 1] \o seqs[i]]
    BY <1>3
  <2> HIDE DEF v, H
  <2> QED
    BY <2>1, <2>2, <2>3
<1>9. K = H(K)
  <2> HIDE DEF H, v
  <2> QED
    BY <1>8
<1> HIDE DEF K, v
<1>10. \A i \in 1 .. N : K[i] = IF i = 1 THEN seqs[i] ELSE K[i - 1] \o seqs[i]
  BY <1>3, <1>9
<1> HIDE DEF H
<1> DEFINE T == {i \in Nat : i + 1 <= N => K[i + 1] = v[i + 1]}
<1>11. 0 \in T
  BY <1>2, <1>7, <1>10
<1>12. ASSUME NEW i \in Nat, i \in T
       PROVE  i + 1 \in T
  <2> SUFFICES ASSUME (i + 1) + 1 <= N
               PROVE  K[(i + 1) + 1] = v[(i + 1) + 1]
    OBVIOUS
  <2>1. K[i + 1] = v[i + 1]
    BY <1>2, <1>12
  <2>2. (i + 1) + 1 \in 1 .. N /\ (i + 1) + 1 # 1 /\ ((i + 1) + 1) - 1 = i + 1
    BY <1>2
  <2> DEFINE j == (i + 1) + 1
  <2>3. j \in 1 .. N /\ j # 1 /\ j - 1 = i + 1
    BY <2>2
  <2> HIDE DEF j
  <2>4. K[j] = K[j - 1] \o seqs[j] /\ v[j - 1] \o seqs[j] = v[j]
    BY <1>6, <1>10, <2>3
  <2>5. K[j] = v[j]
    BY <2>1, <2>3, <2>4
  <2> QED
    BY <2>5 DEF j
<1> HIDE DEF T
<1>13. N - 1 \in Nat /\ N - 1 \in T /\ (N - 1) + 1 = N
  BY <1>2, <1>11, <1>12, SetInduction
<1>14. K[N] = v[N]
  <2>1. (N - 1) + 1 <= N => K[(N - 1) + 1] = v[(N - 1) + 1]
    BY <1>13 DEF T
  <2> QED
    BY <1>2, <1>13, <2>1
<1>15. v[N] = SubSeq(w, 1, Len(w))
  BY <1>2, <1>5 DEF v
<1>16. SubSeq(w, 1, Len(w)) = w
  BY <1>1
<1> QED
  BY <1>4, <1>14, <1>15, <1>16 DEF seqs, N

\* What it says of a name that one of its entries matches another name.
LEMMA MatchIs ==
  ASSUME NEW w \in Seq(Char), Len(w) > 0, NEW v \in Seq(Char), NEW s,
         NEW o \in 1 .. LfnEntries(w), (o - 1) * SEG <= Len(v),
         TRUE \in CmpLfn(v, FitLfn(w, o, s))
  PROVE  LET from == (o - 1) * SEG
             e == FitLfn(w, o, s) IN
         /\ from \in Nat /\ Len(e.seg) \in Nat
         /\ Len(e.seg) = IF o = LfnEntries(w) \/ Len(v) - from < SEG THEN Len(v) - from ELSE SEG
         /\ \A i \in 1 .. Len(e.seg) : Upper(w[from + i]) = Upper(v[from + i])
<1> DEFINE from == (o - 1) * SEG
           e == FitLfn(w, o, s)
           rest == SubSeq(v, from + 1, Len(v))
           m == IF e.last THEN rest ELSE Take(rest, SEG)
<1>1. SEG \in Nat /\ SEG > 0 /\ Len(w) \in Nat /\ Len(v) \in Nat
  BY NameAssumption
<1>2. /\ e.ord = o /\ (e.last <=> o = LfnEntries(w)) /\ from \in Nat /\ e.seg \in Seq(Char)
      /\ \A i \in 1 .. Len(e.seg) : e.seg[i] = w[from + i]
  BY SegmentIs
<1>3. from <= Len(v)
  OBVIOUS
<1>4. CmpLfn(v, e) = {UpperAll(e.seg) = UpperAll(m)}
  <2>1. CmpLfn(v, e) = IF Marks(e) /\ MarkAt(e) >= MaxLfn THEN {FALSE}
                       ELSE IF from > Len(v) THEN BOOLEAN ELSE {UpperAll(e.seg) = UpperAll(m)}
    BY <1>2 DEF CmpLfn
  <2>2. TRUE \in CmpLfn(v, e)
    OBVIOUS
  <2> HIDE DEF e, m, from
  <2>3. ~(from > Len(v))
    BY <1>1, <1>2, <1>3
  <2>4. ~(Marks(e) /\ MarkAt(e) >= MaxLfn)
    BY <2>1, <2>2
  <2> QED
    BY <2>1, <2>3, <2>4
<1>5. TRUE \in CmpLfn(v, e)
  OBVIOUS
<1> HIDE DEF e, from
<1>6. /\ rest \in Seq(Char) /\ Len(rest) = Len(v) - from
      /\ \A i \in 1 .. Len(v) - from : rest[i] = v[from + i]
  BY <1>1, <1>2, <1>3
<1> HIDE DEF rest
<1>7. /\ m \in Seq(Char) /\ Len(m) = IF e.last \/ Len(v) - from < SEG THEN Len(v) - from ELSE SEG
      /\ \A i \in 1 .. Len(m) : m[i] = rest[i]
  <2>1. CASE e.last
    BY <1>6, <2>1
  <2>2. CASE ~e.last
    BY <1>1, <1>6, <2>2, TakeIs
  <2> QED
    BY <2>1, <2>2
<1> HIDE DEF m
<1>8. UpperAll(e.seg) = UpperAll(m)
  BY <1>4, <1>5
<1>9. Len(e.seg) = Len(m) /\ \A i \in 1 .. Len(e.seg) : Upper(e.seg[i]) = Upper(m[i])
  BY <1>2, <1>7, <1>8, SameUpper
<1>10. Len(m) \in Nat /\ Len(m) <= Len(v) - from
  BY <1>1, <1>2, <1>3, <1>7
<1>11. ASSUME NEW i \in 1 .. Len(e.seg)
       PROVE  Upper(w[from + i]) = Upper(v[from + i])
  <2>1. i \in 1 .. Len(m) /\ i \in 1 .. Len(v) - from
    BY <1>1, <1>2, <1>9, <1>10
  <2> QED
    BY <1>2, <1>6, <1>7, <1>9, <2>1
<1>12. Len(e.seg) \in Nat /\ Len(e.seg) = IF o = LfnEntries(w) \/ Len(v) - from < SEG THEN Len(v) - from ELSE SEG
  BY <1>2, <1>7, <1>9, <1>10
<1> QED
  BY <1>2, <1>11, <1>12 DEF e, from

\* A name all of whose entries match a name is that name.
LEMMA AllMatch ==
  ASSUME NEW w \in Seq(Char), Len(w) > 0, NEW v \in Seq(Char), Len(v) > 0, NEW s,
         \A o \in 1 .. LfnEntries(w) : TRUE \in CmpLfn(v, FitLfn(w, o, s))
  PROVE  UpperAll(w) = UpperAll(v)
<1> DEFINE N == LfnEntries(w)
           M == LfnEntries(v)
           lenof(o) == Len(FitLfn(w, o, s).seg)
<1>1. SEG \in Nat /\ SEG > 0 /\ Len(w) \in Nat /\ Len(v) \in Nat
  BY NameAssumption
<1>2. N \in Nat /\ N > 0 /\ (N - 1) * SEG < Len(w) /\ Len(w) <= N * SEG /\ N * SEG = (N - 1) * SEG + SEG
  BY EntriesAre
<1>3. M \in Nat /\ M > 0 /\ (M - 1) * SEG < Len(v) /\ Len(v) <= M * SEG /\ M * SEG = (M - 1) * SEG + SEG
  BY EntriesAre
<1>4. ASSUME NEW o \in 1 .. N
      PROVE  /\ (o - 1) * SEG \in Nat
             /\ lenof(o) = IF o = N THEN Len(w) - (o - 1) * SEG ELSE SEG
  BY SegmentIs
<1>5. ASSUME NEW o \in 1 .. N, (o - 1) * SEG <= Len(v)
      PROVE  /\ lenof(o) = IF o = N \/ Len(v) - (o - 1) * SEG < SEG THEN Len(v) - (o - 1) * SEG ELSE SEG
             /\ \A i \in 1 .. lenof(o) : Upper(w[(o - 1) * SEG + i]) = Upper(v[(o - 1) * SEG + i])
  BY <1>5, MatchIs
<1> HIDE DEF N, M, lenof
<1>6. (N - 1) * SEG <= Len(v)
  <2> SUFFICES ASSUME Len(v) < (N - 1) * SEG
               PROVE  FALSE
    BY <1>1, <1>2
  <2>1. M < N
    <3> SUFFICES ASSUME N <= M
                 PROVE  FALSE
      BY <1>2, <1>3
    <3>1. N - 1 \in Nat /\ M - 1 \in Nat /\ N - 1 <= M - 1
      BY <1>2, <1>3
    <3>2. (N - 1) * SEG <= (M - 1) * SEG /\ (N - 1) * SEG \in Nat /\ (M - 1) * SEG \in Nat
      BY <1>1, <3>1, ProductMonotone
    <3> QED
      BY <1>1, <1>3, <3>2
  <2>2. M \in 1 .. N /\ M # N /\ M + 1 \in 1 .. N /\ (M + 1) - 1 = M
    BY <1>2, <1>3, <2>1
  <2>3. (M - 1) * SEG \in Nat /\ M * SEG \in Nat
    <3>1. M - 1 \in Nat
      BY <1>3
    <3> QED
      BY <1>1, <1>3, <3>1, ProductMonotone
  <2>4. lenof(M) = SEG
    BY <1>4, <2>2
  <2>5. (M - 1) * SEG <= Len(v)
    BY <1>1, <1>3, <2>3
  <2>6. lenof(M) = IF M = N \/ Len(v) - (M - 1) * SEG < SEG THEN Len(v) - (M - 1) * SEG ELSE SEG
    BY <1>5, <2>2, <2>5
  <2>7. Len(v) = M * SEG
    BY <1>1, <1>3, <2>2, <2>3, <2>4, <2>6
  <2>8. M + 1 # N
    BY <1>1, <1>2, <1>3, <2>2, <2>3, <2>7
  <2> DEFINE o == M + 1
  <2>9. o \in 1 .. N /\ o # N /\ o - 1 = M
    BY <2>2, <2>8
  <2> HIDE DEF o
  <2>10. lenof(o) = SEG
    BY <1>4, <2>9
  <2>11. (o - 1) * SEG = Len(v)
    BY <2>7, <2>9
  <2>12. lenof(o) = IF o = N \/ Len(v) - (o - 1) * SEG < SEG THEN Len(v) - (o - 1) * SEG ELSE SEG
    BY <1>1, <1>5, <2>9, <2>11
  <2>13. Len(v) - (o - 1) * SEG = 0
    BY <1>1, <2>11
  <2>14. lenof(o) = 0
    BY <1>1, <2>12, <2>13
  <2> QED
    BY <1>1, <2>10, <2>14
<1>7. Len(w) = Len(v)
  <2>1. N \in 1 .. N
    BY <1>2
  <2>2. lenof(N) = Len(w) - (N - 1) * SEG /\ lenof(N) = Len(v) - (N - 1) * SEG /\ (N - 1) * SEG \in Nat
    BY <1>4, <1>5, <1>6, <2>1
  <2> QED
    BY <1>1, <2>2
<1>8. ASSUME NEW i \in 1 .. Len(w)
      PROVE  Upper(w[i]) = Upper(v[i])
  <2> DEFINE q == (i - 1) \div SEG
             o == q + 1
  <2>1. i - 1 \in Nat
    OBVIOUS
  <2>2. q \in Nat /\ q * SEG <= i - 1 /\ i - 1 < q * SEG + SEG
    BY <1>1, <2>1, Quotient
  <2> HIDE DEF q
  <2>3. q < N
    <3> SUFFICES ASSUME N <= q
                 PROVE  FALSE
      BY <1>2, <2>2
    <3>1. N * SEG <= q * SEG /\ N * SEG \in Nat /\ q * SEG \in Nat
      BY <1>1, <1>2, <2>2, ProductMonotone
    <3> QED
      BY <1>1, <1>2, <2>2, <3>1
  <2>4. o \in 1 .. N /\ o - 1 = q
    BY <1>2, <2>2, <2>3
  <2> HIDE DEF o
  <2>5. (o - 1) * SEG = q * SEG /\ (o - 1) * SEG \in Nat
    BY <1>4, <2>4
  <2>6. (o - 1) * SEG <= Len(v)
    BY <1>1, <1>7, <2>2, <2>5
  <2> DEFINE j == i - (o - 1) * SEG
  <2>7. j \in 1 .. lenof(o) /\ (o - 1) * SEG + j = i
    <3>1. lenof(o) = IF o = N THEN Len(w) - (o - 1) * SEG ELSE SEG
      BY <1>4, <2>4
    <3> QED
      BY <1>1, <2>2, <2>5, <3>1
  <2> HIDE DEF j
  <2>8. \A k \in 1 .. lenof(o) : Upper(w[(o - 1) * SEG + k]) = Upper(v[(o - 1) * SEG + k])
    BY <1>5, <2>4, <2>6
  <2> QED
    BY <2>7, <2>8
<1> QED
  BY <1>7, <1>8, SameUpper

\* The entries of a name match a name that differs from it in capitals only, unless it
\* is at the limit.
LEMMA SameMatches ==
  ASSUME NEW w \in Seq(Char), Len(w) > 0, Len(w) <= MaxLfn, ~AtLimit(w), NEW v \in Seq(Char), UpperAll(w) = UpperAll(v), NEW s,
         NEW o \in 1 .. LfnEntries(w)
  PROVE  CmpLfn(v, FitLfn(w, o, s)) = {TRUE}
<1> DEFINE from == (o - 1) * SEG
           e == FitLfn(w, o, s)
           rest == SubSeq(v, from + 1, Len(v))
           m == IF e.last THEN rest ELSE Take(rest, SEG)
<1>1. SEG \in Nat /\ SEG > 0 /\ Len(w) \in Nat /\ Len(v) \in Nat
  BY NameAssumption
<1>2. Len(w) = Len(v) /\ \A i \in 1 .. Len(w) : Upper(w[i]) = Upper(v[i])
  BY SameUpper
<1>3. /\ e.ord = o /\ (e.last <=> o = LfnEntries(w)) /\ from \in Nat /\ from < Len(w) /\ e.seg \in Seq(Char)
      /\ (o # LfnEntries(w) => from + SEG < Len(w))
      /\ Len(e.seg) = IF o = LfnEntries(w) THEN Len(w) - from ELSE SEG
      /\ \A i \in 1 .. Len(e.seg) : e.seg[i] = w[from + i]
  BY SegmentIs
<1>4. CmpLfn(v, e) = {UpperAll(e.seg) = UpperAll(m)}
  <2>1. CmpLfn(v, e) = IF Marks(e) /\ MarkAt(e) >= MaxLfn THEN {FALSE}
                       ELSE IF from > Len(v) THEN BOOLEAN ELSE {UpperAll(e.seg) = UpperAll(m)}
    BY <1>3 DEF CmpLfn
  <2>2. ~(Marks(e) /\ MarkAt(e) >= MaxLfn)
    <3> SUFFICES ASSUME Marks(e), MarkAt(e) >= MaxLfn
                 PROVE  FALSE
      OBVIOUS
    <3>1. Len(e.seg) < SEG /\ MarkAt(e) = from + Len(e.seg)
      BY <1>3 DEF Marks, MarkAt
    <3>2. o - 1 \in Nat /\ MaxLfn \in Nat /\ (o - 1) * SEG = from
      BY NameAssumption
    <3> HIDE DEF e, m, from
    <3>3. o = LfnEntries(w)
      <4> SUFFICES ASSUME o # LfnEntries(w)
                   PROVE  FALSE
        OBVIOUS
      <4>1. Len(e.seg) = SEG
        BY <1>3
      <4> QED
        BY <1>1, <3>1, <4>1
    <3>4. Len(e.seg) = Len(w) - from
      BY <1>3, <3>3
    <3>5. Len(w) = MaxLfn /\ from < MaxLfn /\ MaxLfn < from + SEG
      BY <1>1, <1>3, <3>1, <3>2, <3>4
    <3>6. MaxLfn \div SEG = o - 1
      <4> DEFINE q == o - 1
      <4>1. q \in Nat /\ q * SEG <= MaxLfn
        BY <1>1, <1>3, <3>2, <3>5
      <4>2. MaxLfn < q * SEG + SEG
        BY <3>2, <3>5
      <4> HIDE DEF q
      <4>3. MaxLfn \div SEG = q
        BY <3>2, <4>1, <4>2, NameAssumption, QuotientUnique
      <4> QED
        BY <4>3 DEF q
    <3>7. MaxLfn % SEG # 0
      <4>1. MaxLfn % SEG = 0 => MaxLfn = (MaxLfn \div SEG) * SEG
        BY <1>1, <3>2, Remainder
      <4>2. MaxLfn % SEG = 0 => MaxLfn = from
        BY <3>2, <3>6, <4>1
      <4> QED
        BY <1>1, <1>3, <3>2, <3>5, <4>2
    <3> QED
      BY <3>5, <3>7 DEF AtLimit
  <2> HIDE DEF e, m, from
  <2>3. ~(from > Len(v))
    BY <1>1, <1>2, <1>3
  <2> QED
    BY <2>1, <2>2, <2>3
<1> HIDE DEF e, from
<1>5. /\ rest \in Seq(Char) /\ Len(rest) = Len(v) - from
      /\ \A i \in 1 .. Len(v) - from : rest[i] = v[from + i]
  BY <1>1, <1>2, <1>3
<1> HIDE DEF rest
<1>6. /\ m \in Seq(Char) /\ Len(m) = Len(e.seg)
      /\ \A i \in 1 .. Len(m) : m[i] = rest[i]
  <2>1. CASE e.last
    BY <1>2, <1>3, <1>5, <2>1
  <2>2. CASE ~e.last
    <3>1. Len(rest) >= SEG
      BY <1>1, <1>2, <1>3, <1>5, <2>2
    <3>2. m = Take(rest, SEG)
      BY <2>2
    <3> HIDE DEF m
    <3> QED
      BY <1>1, <1>3, <1>5, <2>2, <3>1, <3>2, TakeIs
  <2> QED
    BY <2>1, <2>2
<1> HIDE DEF m
<1>7. ASSUME NEW i \in 1 .. Len(e.seg)
      PROVE  Upper(e.seg[i]) = Upper(m[i])
  <2>1. i \in 1 .. Len(v) - from /\ from + i \in 1 .. Len(w)
    BY <1>1, <1>2, <1>3
  <2> QED
    BY <1>2, <1>3, <1>5, <1>6, <2>1
<1>8. UpperAll(e.seg) = UpperAll(m)
  BY <1>3, <1>6, <1>7, SameUpper
<1> QED
  BY <1>4, <1>8 DEF e

(***************************************************************************)
(* Chains.                                                                 *)
(***************************************************************************)
\* The entries k to m are the first of n that are numbered down.
Linked(t, k, m, n, s) ==
  /\ n \in Nat /\ n > 0 /\ n <= 255 /\ k \in Nat /\ k > 0 /\ k <= m /\ m - k < n
  /\ \A j \in k .. m : /\ n - (j - k) \in 1 .. n
                       /\ t[j].kind = "lfn" /\ t[j].ord = n - (j - k) /\ t[j].sum = s
                       /\ (t[j].last <=> j = k)

\* The entries of a chain are numbered down to it, and the first is marked.
LEMMA ChainIs ==
  ASSUME NEW t, NEW m \in Int, NEW k, NEW w \in Stored, NEW s, Chain(t, k, m, w, s)
  PROVE  Linked(t, k, m, LfnEntries(w), s)
<1> DEFINE N == LfnEntries(w)
<1>1. w \in Seq(Char) /\ Len(w) > 0 /\ Len(w) <= 255 /\ Len(w) \in Nat
  BY StoredIs
<1>2. N \in Nat /\ N > 0 /\ N <= 255
  BY <1>1, EntriesAre
<1>3. k \in 1 .. m /\ m - k < N /\ \A j \in k .. m : t[j] = FitLfn(w, N - (j - k), s)
  BY DEF Chain
<1>4. ASSUME NEW o \in 1 .. N
      PROVE  /\ FitLfn(w, o, s).kind = "lfn" /\ FitLfn(w, o, s).ord = o /\ FitLfn(w, o, s).sum = s
             /\ (FitLfn(w, o, s).last <=> o = N)
  BY <1>1, SegmentIs
<1> HIDE DEF N
<1>5. k \in Nat /\ k > 0 /\ k <= m
  BY <1>3
<1>6. ASSUME NEW j \in k .. m
      PROVE  /\ t[j] = FitLfn(w, N - (j - k), s) /\ N - (j - k) \in 1 .. N
             /\ t[j].kind = "lfn" /\ t[j].ord = N - (j - k) /\ t[j].sum = s
             /\ (t[j].last <=> j = k)
  <2> DEFINE o == N - (j - k)
  <2>1. o \in 1 .. N /\ (o = N <=> j = k)
    BY <1>2, <1>3, <1>5
  <2>2. t[j] = FitLfn(w, o, s)
    BY <1>3
  <2> HIDE DEF o
  <2>3. /\ FitLfn(w, o, s).kind = "lfn" /\ FitLfn(w, o, s).ord = o /\ FitLfn(w, o, s).sum = s
        /\ (FitLfn(w, o, s).last <=> o = N)
    BY <1>4, <2>1
  <2>4. /\ t[j] = FitLfn(w, o, s) /\ o \in 1 .. N
        /\ t[j].kind = "lfn" /\ t[j].ord = o /\ t[j].sum = s
        /\ (t[j].last <=> j = k)
    BY <2>1, <2>2, <2>3
  <2> QED
    BY <2>4 DEF o
<1> QED
  BY <1>2, <1>3, <1>5, <1>6 DEF N, Linked

\* A chain begins at the nearest entry that is marked as the last of its name.
LEMMA ChainStart ==
  ASSUME NEW t, NEW m \in Int, NEW k, NEW w \in Stored, NEW s, Chain(t, k, m, w, s),
         NEW l \in 1 .. m, t[l].last, \A j \in l + 1 .. m : ~t[j].last
  PROVE  l = k
<1>0. Linked(t, k, m, LfnEntries(w), s)
  BY ChainIs
<1>1. k \in Nat /\ k <= m /\ \A j \in k .. m : t[j].last <=> j = k
  BY <1>0 DEF Linked
<1>2. ~(l < k)
  <2> SUFFICES ASSUME l < k
               PROVE  FALSE
    OBVIOUS
  <2>1. k \in l + 1 .. m /\ k \in k .. m
    BY <1>1
  <2> QED
    BY <1>1, <2>1
<1>3. ~(k < l)
  <2> SUFFICES ASSUME k < l
               PROVE  FALSE
    OBVIOUS
  <2>1. l \in k .. m /\ l # k
    BY <1>1
  <2> QED
    BY <1>1, <2>1
<1> QED
  BY <1>1, <1>2, <1>3

\* Without its lowest entry a chain is still one.
LEMMA ChainShorter ==
  ASSUME NEW t, NEW m \in Int, NEW k, NEW w, NEW s, Chain(t, k, m, w, s), k # m, LfnEntries(w) \in Nat
  PROVE  Chain(t, k, m - 1, w, s)
<1> DEFINE N == LfnEntries(w)
<1>1. k \in 1 .. m /\ m - k < N /\ \A j \in k .. m : t[j] = FitLfn(w, N - (j - k), s)
  BY DEF Chain
<1>2. N \in Nat
  OBVIOUS
<1> HIDE DEF N
<1>3. k \in 1 .. m - 1 /\ (m - 1) - k < N /\ \A j \in k .. m - 1 : j \in k .. m
  BY <1>1, <1>2
<1>4. \A j \in k .. m - 1 : t[j] = FitLfn(w, N - (j - k), s)
  BY <1>1, <1>3
<1> QED
  BY <1>3, <1>4 DEF Chain, N

\* A chain depends on its entries only.
LEMMA ChainKept ==
  ASSUME NEW t, NEW u, NEW k, NEW m, NEW w, NEW s, Chain(t, k, m, w, s),
         \A j \in k .. m : u[j] = t[j]
  PROVE  Chain(u, k, m, w, s)
BY DEF Chain

\* The entries down to m are those of the whole name.
Entire(t, m, w, s) ==
  \A o \in 1 .. LfnEntries(w) : m + 1 - o \in 1 .. m /\ t[m + 1 - o] = FitLfn(w, o, s)

\* A chain down to the first entry of a name is as long as the name has entries.
LEMMA ChainWhole ==
  ASSUME NEW t, NEW m \in Int, NEW k, NEW w \in Stored, NEW s, Chain(t, k, m, w, s), t[m].ord = 1
  PROVE  /\ m - k + 1 = LfnEntries(w)
         /\ \A o \in 1 .. LfnEntries(w) : m + 1 - o \in k .. m
         /\ Entire(t, m, w, s)
<1> DEFINE N == LfnEntries(w)
<1>1. /\ N \in Nat /\ N > 0 /\ k \in Nat /\ k > 0 /\ k <= m /\ m - k < N
      /\ \A j \in k .. m : t[j] = FitLfn(w, N - (j - k), s) /\ t[j].ord = N - (j - k)
  <2>1. Linked(t, k, m, N, s)
    BY ChainIs
  <2>2. \A j \in k .. m : t[j] = FitLfn(w, N - (j - k), s)
    BY DEF Chain
  <2> HIDE DEF N
  <2> QED
    BY <2>1, <2>2 DEF Linked
<1> HIDE DEF N
<1>2. m \in k .. m
  BY <1>1
<1>3. N - (m - k) = 1
  BY <1>1, <1>2
<1>4. ASSUME NEW o \in 1 .. N
      PROVE  m + 1 - o \in k .. m /\ t[m + 1 - o] = FitLfn(w, o, s)
  <2> DEFINE j == m + 1 - o
  <2>1. j \in k .. m /\ N - (j - k) = o
    BY <1>1, <1>3
  <2> HIDE DEF j
  <2>2. t[j] = FitLfn(w, N - (j - k), s)
    BY <1>1, <2>1
  <2> QED
    BY <2>1, <2>2 DEF j
<1>5. m - k + 1 = N
  BY <1>1, <1>3
<1>6. k .. m \subseteq 1 .. m
  BY <1>1
<1> QED
  BY <1>4, <1>5, <1>6 DEF N, Entire

\* A chain that is whole spells its name.
LEMMA ChainName ==
  ASSUME NEW t, NEW i \in Int, NEW k, NEW w \in Stored, NEW s, Chain(t, k, i - 1, w, s), t[i - 1].ord = 1
  PROVE  FlattenSeq([j \in 1 .. i - k |-> t[i - j].seg]) = w
<1> DEFINE N == LfnEntries(w)
<1>1. i - 1 \in Int /\ (i - 1) + 1 = i
  OBVIOUS
<1>2. /\ (i - 1) - k + 1 = N
      /\ \A o \in 1 .. N : t[(i - 1) + 1 - o] = FitLfn(w, o, s)
  <2> DEFINE m == i - 1
  <2>1. m \in Int /\ Chain(t, k, m, w, s) /\ t[m].ord = 1
    OBVIOUS
  <2> HIDE DEF m
  <2>2. m - k + 1 = LfnEntries(w) /\ Entire(t, m, w, s)
    BY <2>1, ChainWhole
  <2> QED
    BY <2>2 DEF m, Entire
<1>3. w \in Seq(Char) /\ Len(w) > 0
  BY StoredIs
<1>4. FlattenSeq([j \in 1 .. N |-> FitLfn(w, j, s).seg]) = w
  BY <1>3, SegmentsJoin
<1>5. k \in Nat
  BY DEF Chain
<1> HIDE DEF N
<1>6. i - k = N
  BY <1>2, <1>5
<1>7. \A o \in 1 .. N : t[i - o] = FitLfn(w, o, s)
  <2> TAKE o \in 1 .. N
  <2>1. (i - 1) + 1 - o = i - o
    OBVIOUS
  <2> QED
    BY <1>2, <2>1
<1>8. [j \in 1 .. i - k |-> t[i - j].seg] = [j \in 1 .. N |-> FitLfn(w, j, s).seg]
  BY <1>6, <1>7
<1> QED
  BY <1>4, <1>8 DEF N

\* A file's long name is read back.
LEMMA OwnName ==
  ASSUME NEW t, NEW i \in Int, NEW w \in Stored,
         Chain(t, i - LfnEntries(w), i - 1, w, SumSfn(t[i].fn))
  PROVE  LongName(t, i) = w
<1> DEFINE N == LfnEntries(w)
           l == i - N
           s == SumSfn(t[i].fn)
           from == {k \in 1 .. i - 1 :
                      /\ t[k].kind = "lfn" /\ t[k].last /\ t[k].ord = i - k
                      /\ \A j \in k .. i - 1 : t[j].kind = "lfn" /\ t[j].ord = i - j
                                                 /\ t[j].sum = SumSfn(t[i].fn)
                      /\ \A j \in k + 1 .. i - 1 : ~t[j].last}
<1>1. Chain(t, l, i - 1, w, s)
  OBVIOUS
<1>2. /\ N \in Nat /\ N > 0 /\ l \in Nat /\ l > 0 /\ l <= i - 1
      /\ \A j \in l .. i - 1 : /\ t[j].kind = "lfn" /\ t[j].ord = N - (j - l) /\ t[j].sum = s
                               /\ (t[j].last <=> j = l)
  <2>1. i - 1 \in Int
    OBVIOUS
  <2> HIDE DEF l, s
  <2>2. Linked(t, l, i - 1, N, s)
    BY <1>1, <2>1, ChainIs
  <2> HIDE DEF N
  <2> QED
    BY <2>2 DEF Linked
<1>3. l = i - N
  OBVIOUS
<1> HIDE DEF N, l
<1>4. l \in from
  <2>1. \A j \in l .. i - 1 : N - (j - l) = i - j
    BY <1>2, <1>3
  <2>2. l \in 1 .. i - 1 /\ l \in l .. i - 1
    BY <1>2
  <2>3. \A j \in l + 1 .. i - 1 : j \in l .. i - 1 /\ j # l
    BY <1>2
  <2> QED
    BY <1>2, <2>1, <2>2, <2>3
<1>5. \A k \in from : k = l
  <2> TAKE k \in from
  <2>1. k \in 1 .. i - 1 /\ t[k].last /\ \A j \in k + 1 .. i - 1 : ~t[j].last
    OBVIOUS
  <2>2. i - 1 \in Int
    OBVIOUS
  <2> HIDE DEF from, s
  <2> QED
    BY <1>1, <2>1, <2>2, ChainStart
<1>6. t[i - 1].ord = 1
  <2>1. i - 1 \in l .. i - 1
    BY <1>2
  <2>2. N - ((i - 1) - l) = 1
    BY <1>2, <1>3
  <2> QED
    BY <1>2, <2>1, <2>2
<1>7. FlattenSeq([j \in 1 .. i - l |-> t[i - j].seg]) = w
  <2> HIDE DEF s
  <2> QED
    BY <1>1, <1>6, ChainName
<1>8. LongName(t, i) = IF from = {} THEN <<>>
                       ELSE LET k == CHOOSE k \in from : TRUE
                            IN FlattenSeq([j \in 1 .. i - k |-> t[i - j].seg])
  BY DEF LongName
<1> HIDE DEF from
<1>9. (CHOOSE k \in from : TRUE) = l
  BY <1>4, <1>5
<1> QED
  BY <1>4, <1>7, <1>8, <1>9

\* A long name that is read is one that was written with a short name of the sum.
LEMMA ReadName ==
  ASSUME NEW t, Chained(t), t = [j \in 1 .. Len(t) |-> t[j]], Len(t) \in Nat, NEW i \in DOMAIN t,
         LongName(t, i) # <<>>
  PROVE  \E w \in Stored : \E f \in ShortNames(w) :
           IsLong(w) /\ SumSfn(f) = SumSfn(t[i].fn) /\ LongName(t, i) = w
<1> DEFINE from == {k \in 1 .. i - 1 :
                      /\ t[k].kind = "lfn" /\ t[k].last /\ t[k].ord = i - k
                      /\ \A j \in k .. i - 1 : t[j].kind = "lfn" /\ t[j].ord = i - j
                                                 /\ t[j].sum = SumSfn(t[i].fn)
                      /\ \A j \in k + 1 .. i - 1 : ~t[j].last}
           k == CHOOSE k \in from : TRUE
<1>1. LongName(t, i) = IF from = {} THEN <<>> ELSE FlattenSeq([j \in 1 .. i - k |-> t[i - j].seg])
  BY DEF LongName
<1>2. k \in from
  <2> HIDE DEF from
  <2> QED
    BY <1>1
<1>3. DOMAIN t = 1 .. Len(t)
  <2> DEFINE L == Len(t)
  <2>1. t = [j \in 1 .. L |-> t[j]]
    OBVIOUS
  <2> HIDE DEF L
  <2>2. DOMAIN t = 1 .. L
    BY <2>1
  <2> QED
    BY <2>2 DEF L
<1>4. i \in Int /\ i - 1 \in Int
  BY <1>3
<1> HIDE DEF k
<1>5. /\ k \in 1 .. i - 1 /\ t[k].kind = "lfn" /\ t[k].last
      /\ \A j \in k .. i - 1 : t[j].kind = "lfn" /\ t[j].ord = i - j /\ t[j].sum = SumSfn(t[i].fn)
      /\ \A j \in k + 1 .. i - 1 : ~t[j].last
  BY <1>2
<1> HIDE DEF from
<1>6. i - 1 \in k .. i - 1 /\ i - 1 \in DOMAIN t
  BY <1>3, <1>4, <1>5
<1>7. t[i - 1].kind = "lfn" /\ t[i - 1].ord = 1 /\ t[i - 1].sum = SumSfn(t[i].fn)
  <2>1. i - (i - 1) = 1
    BY <1>4
  <2> QED
    BY <1>5, <1>6, <2>1
<1>81. PICK l \in 1 .. i - 1, w \in Stored :
        \E f \in ShortNames(w) : IsLong(w) /\ Chain(t, l, i - 1, w, SumSfn(f))
  BY <1>6, <1>7 DEF Chained
<1>8. PICK f \in ShortNames(w) : IsLong(w) /\ Chain(t, l, i - 1, w, SumSfn(f))
  BY <1>81
<1>9. k = l
  BY <1>4, <1>5, <1>8, ChainStart
<1>10. FlattenSeq([j \in 1 .. i - l |-> t[i - j].seg]) = w
  BY <1>4, <1>7, <1>8, ChainName
<1>11. LongName(t, i) = w
  BY <1>1, <1>2, <1>9, <1>10
<1>12. SumSfn(f) = SumSfn(t[i].fn)
  <2>1. t[i - 1].sum = SumSfn(f)
    <3>1. \A j \in l .. i - 1 : t[j].sum = SumSfn(f)
      <4>1. Linked(t, l, i - 1, LfnEntries(w), SumSfn(f))
        BY <1>4, <1>8, ChainIs
      <4> QED
        BY <4>1 DEF Linked
    <3>2. i - 1 \in l .. i - 1
      BY <1>6, <1>9
    <3> QED
      BY <3>1, <3>2
  <2> QED
    BY <1>7, <2>1
<1> QED
  BY <1>8, <1>11, <1>12

(***************************************************************************)
(* Tables.                                                                 *)
(***************************************************************************)
\* A table begins at 1 and has entries.
LEMMA TableDomain ==
  ASSUME NEW t, IsTable(t)
  PROVE  DOMAIN t = 1 .. Len(t) /\ Len(t) \in Nat /\ Len(t) > 0 /\ Len(t) <= MaxTable
<1> DEFINE L == Len(t)
<1>1. t = [i \in 1 .. L |-> t[i]] /\ L \in 1 .. MaxTable
  BY DEF IsTable
<1>2. MaxTable \in Nat
  BY DirectoryAssumption
<1> HIDE DEF L
<1>3. DOMAIN t = 1 .. L
  BY <1>1
<1>4. L \in Nat /\ L > 0 /\ L <= MaxTable
  BY <1>1, <1>2
<1> QED
  BY <1>3, <1>4 DEF L

\* A table is right when it is at every entry.
LEMMA HeldIs ==
  ASSUME NEW t
  PROVE  Held(t) <=> \A m \in DOMAIN t : HeldAt(t, m)
<1>1. ASSUME Held(t), NEW m \in DOMAIN t
      PROVE  HeldAt(t, m)
  BY <1>1 DEF Held, HeldAt, Sorts, Chained, Whole
<1>2. ASSUME \A m \in DOMAIN t : HeldAt(t, m)
      PROVE  Held(t)
  <2>1. Sorts(t)
    BY <1>2 DEF Sorts, HeldAt
  <2>2. Chained(t)
    BY <1>2 DEF Chained, HeldAt
  <2>3. Whole(t)
    BY <1>2 DEF Whole, HeldAt
  <2> QED
    BY <2>1, <2>2, <2>3 DEF Held
<1> QED
  BY <1>1, <1>2

\* What kinds of entries there are, and what they are.
LEMMA KindsAre ==
  ASSUME NEW t, NEW m, HeldAt(t, m)
  PROVE  /\ t[m].kind \in {"end", "deleted", "volume", "stale", "lfn", "sfn"}
         /\ (t[m].kind = "end" <=> t[m] = End) /\ (t[m].kind = "deleted" <=> t[m] = Deleted)
         /\ (t[m].kind = "volume" <=> t[m] = Volume) /\ (t[m].kind = "stale" <=> t[m] = Stale)
         /\ t[m].kind = "sfn" => IsSfn(t[m])
<1>1. CASE t[m] \in {End, Deleted, Volume, Stale}
  BY <1>1 DEF End, Deleted, Volume, Stale
<1>2. CASE t[m].kind = "lfn"
  BY <1>2 DEF End, Deleted, Volume, Stale
<1>3. CASE IsSfn(t[m])
  <2>1. PICK w \in Stored : \E f \in ShortNames(w) : t[m] = Sfn(f, w)
    BY <1>3 DEF IsSfn
  <2>2. PICK f \in ShortNames(w) : t[m] = Sfn(f, w)
    BY <2>1
  <2>3. t[m].kind = "sfn"
    BY <2>2 DEF Sfn
  <2> QED
    BY <1>3, <2>3 DEF End, Deleted, Volume, Stale
<1> QED
  BY <1>1, <1>2, <1>3 DEF HeldAt

\* A file's short name is one that its name can have.
LEMMA SfnIs ==
  ASSUME NEW e, IsSfn(e)
  PROVE  /\ e.kind = "sfn" /\ e.who \in Stored /\ e.fn \in ShortNames(e.who) /\ e.fn[1][1] # "E5"
         /\ ~Dead(e)
         /\ ~CreateName(e.who).loss => e.fn = CreateName(e.who).fn
         /\ CreateName(e.who).loss => IsLong(e.who)
<1>1. PICK w \in Stored : \E f \in ShortNames(w) : e = Sfn(f, w)
  BY DEF IsSfn
<1>2. PICK f \in ShortNames(w) : e = Sfn(f, w)
  BY <1>1
<1>3. e.kind = "sfn" /\ e.fn = f /\ e.who = w
  BY <1>2 DEF Sfn
<1>4. f[1][1] # "E5"
  BY ShortAlive
<1>5. ~Dead(e)
  BY <1>3, <1>4 DEF Dead
<1>6. ~CreateName(w).loss => f = CreateName(w).fn
  BY DEF ShortNames
<1>7. CreateName(w).loss => IsLong(w)
  <2>1. Proper(Stripped(w))
    BY StoredIs
  <2> QED
    BY <2>1, CreateIs DEF IsLong
<1> QED
  BY <1>3, <1>4, <1>5, <1>6, <1>7

\* An entry that stays, with the entries of long names before it.
LEMMA StillHeld ==
  ASSUME NEW t, NEW u, NEW m \in Nat, HeldAt(t, m), u[m] = t[m],
         \A k \in 1 .. m : (\A j \in k .. m - 1 : t[j].kind = "lfn") => \A j \in k .. m - 1 : u[j] = t[j]
  PROVE  HeldAt(u, m)
<1>1. ASSUME NEW k, NEW l \in {m - 1, m}, NEW w \in Stored, NEW s, Chain(t, k, l, w, s)
      PROVE  Chain(u, k, l, w, s)
  <2>1. l \in Int
    OBVIOUS
  <2>2. Linked(t, k, l, LfnEntries(w), s)
    BY <1>1, <2>1, ChainIs
  <2>3. k \in Nat /\ k > 0 /\ k <= l /\ \A j \in k .. l : t[j].kind = "lfn"
    BY <2>2 DEF Linked
  <2>4. k \in 1 .. m /\ \A j \in k .. m - 1 : j \in k .. l
    BY <2>3
  <2>5. \A j \in k .. m - 1 : u[j] = t[j]
    BY <2>3, <2>4
  <2>6. \A j \in k .. l : j = m \/ j \in k .. m - 1
    BY <2>3
  <2>7. \A j \in k .. l : u[j] = t[j]
    BY <2>5, <2>6
  <2> QED
    BY <1>1, <2>7, ChainKept
<1>2. ASSUME t[m].kind = "lfn"
      PROVE  \E k \in 1 .. m : \E w \in Stored : \E f \in ShortNames(w) :
               IsLong(w) /\ Chain(u, k, m, w, SumSfn(f))
  <2>1. PICK k \in 1 .. m : \E w \in Stored : \E f \in ShortNames(w) :
               IsLong(w) /\ Chain(t, k, m, w, SumSfn(f))
    BY <1>2 DEF HeldAt
  <2>2. PICK w \in Stored : \E f \in ShortNames(w) : IsLong(w) /\ Chain(t, k, m, w, SumSfn(f))
    BY <2>1
  <2>3. PICK f \in ShortNames(w) : IsLong(w) /\ Chain(t, k, m, w, SumSfn(f))
    BY <2>2
  <2>4. Chain(u, k, m, w, SumSfn(f))
    BY <1>1, <2>3
  <2> QED
    BY <2>3, <2>4
<1>3. ASSUME t[m].kind = "sfn", IsLong(t[m].who)
      PROVE  Chain(u, m - LfnEntries(t[m].who), m - 1, t[m].who, SumSfn(t[m].fn))
  <2>1. t[m].who \in Stored
    BY <1>3, KindsAre, SfnIs
  <2>2. Chain(t, m - LfnEntries(t[m].who), m - 1, t[m].who, SumSfn(t[m].fn))
    BY <1>3 DEF HeldAt
  <2> QED
    BY <1>1, <2>1, <2>2
<1> QED
  BY <1>2, <1>3 DEF HeldAt

\* An entry that is free, of the volume or not written promises nothing.
LEMMA NewHeld ==
  ASSUME NEW t, NEW m, t[m] \in {End, Deleted, Volume, Stale}
  PROVE  HeldAt(t, m)
BY DEF HeldAt, End, Deleted, Volume, Stale

\* Taking files away leaves the others apart.
LEMMA DistinctPart ==
  ASSUME NEW t, NEW u, Distinct(t),
         \A i \in DOMAIN u : u[i].kind = "sfn" => i \in DOMAIN t /\ u[i] = t[i]
  PROVE  Distinct(u)
BY DEF Distinct

(***************************************************************************)
(* The window.                                                             *)
(***************************************************************************)
\* FatFs sees a table as long as the one on the card.
LEMMA ViewIs ==
  ASSUME IsTable(table)
  PROVE  /\ IsTable(View) /\ Len(View) = Len(table) /\ DOMAIN View = 1 .. Len(table)
         /\ \A i \in 1 .. Len(table) : View[i] = IF SectorOf(i) = win.sect THEN win.view[i] ELSE table[i]
<1> DEFINE L == Len(table)
<1>1. DOMAIN table = 1 .. L /\ L \in Nat /\ L > 0
  BY TableDomain
<1>2. L \in 1 .. MaxTable /\ L % PerCluster = 0
  BY DEF IsTable
<1> HIDE DEF L
<1>3. View = [i \in 1 .. L |-> IF SectorOf(i) = win.sect THEN win.view[i] ELSE table[i]]
  BY <1>1 DEF View
<1>4. DOMAIN View = 1 .. L /\ Len(View) = L
      /\ \A i \in 1 .. L : View[i] = IF SectorOf(i) = win.sect THEN win.view[i] ELSE table[i]
  BY <1>1, <1>3
<1>5. View = [i \in 1 .. L |-> View[i]]
  BY <1>3
<1>6. IsTable(View)
  BY <1>2, <1>4, <1>5 DEF IsTable
<1> QED
  BY <1>4, <1>6 DEF L

\* Sectors are in the order of their entries, and begin at a multiple of them.
LEMMA SectorIs ==
  ASSUME NEW i \in Nat, i > 0
  PROVE  /\ SectorOf(i) \in Nat /\ SectorOf(i) > 0
         /\ \A j \in Nat : i <= j => SectorOf(i) <= SectorOf(j)
         /\ (i - 1) % PerSector = 0 => \A j \in Nat : j > 0 =>
              (SectorOf(j) = SectorOf(i) <=> i <= j /\ j < i + PerSector)
<1> DEFINE P == PerSector
           q == (i - 1) \div P
<1>1. P \in Nat /\ P > 0 /\ i - 1 \in Nat
  BY DirectoryAssumption
<1>2. SectorOf(i) = q + 1
  BY DEF SectorOf
<1>3. q \in Nat /\ q * P <= i - 1 /\ i - 1 < q * P + P
  BY <1>1, Quotient
<1>4. ASSUME NEW j \in Nat, i <= j
      PROVE  SectorOf(i) <= SectorOf(j)
  <2> DEFINE r == (j - 1) \div P
  <2>1. j - 1 \in Nat
    BY <1>1, <1>4
  <2>2. r \in Nat /\ r * P <= j - 1 /\ j - 1 < r * P + P /\ (r + 1) * P = r * P + P
    BY <1>1, <2>1, Quotient
  <2>3. SectorOf(j) = r + 1
    BY DEF SectorOf
  <2> HIDE DEF q, r
  <2>4. ~(r + 1 <= q)
    <3> SUFFICES ASSUME r + 1 <= q
                 PROVE  FALSE
      OBVIOUS
    <3>1. (r + 1) * P <= q * P /\ q * P \in Nat /\ r * P \in Nat
      BY <1>1, <1>3, <2>2, ProductMonotone
    <3> HIDE DEF P
    <3> QED
      BY <1>1, <1>3, <1>4, <2>1, <2>2, <3>1
  <2> QED
    BY <1>2, <1>3, <2>2, <2>3, <2>4
<1>5. ASSUME (i - 1) % P = 0, NEW j \in Nat, j > 0
      PROVE  SectorOf(j) = SectorOf(i) <=> i <= j /\ j < i + P
  <2> DEFINE r == (j - 1) \div P
  <2>1. q * P = i - 1
    BY <1>1, <1>5
  <2>2. j - 1 \in Nat
    BY <1>5
  <2>3. r \in Nat /\ r * P <= j - 1 /\ j - 1 < r * P + P
    BY <1>1, <2>2, Quotient
  <2>4. SectorOf(j) = r + 1
    BY DEF SectorOf
  <2>5. q * P <= j - 1 /\ j - 1 < q * P + P => r = q
    BY <1>1, <1>3, <2>2, QuotientUnique
  <2> HIDE DEF q, r, P
  <2>6. r = q => i <= j /\ j < i + P
    BY <1>1, <2>1, <2>2, <2>3
  <2>7. i <= j /\ j < i + P => r = q
    BY <1>1, <2>1, <2>2, <2>5
  <2> QED
    BY <1>2, <1>3, <2>3, <2>4, <2>6, <2>7
<1> QED
  BY <1>2, <1>3, <1>4, <1>5

(***************************************************************************)
(* The invariant, step by step.                                            *)
(***************************************************************************)
\* The call looks at the entry it is at.
LEMMA SeenIs ==
  ASSUME TypeInv, Working, InWindow
  PROVE  win.view[op.pos] = View[op.pos] /\ op.pos \in 1 .. Len(table) /\ op.pos \in Nat
<1>1. IsTable(table) /\ op.pos \in 0 .. Len(table) /\ op.pos > 0
  BY DEF TypeInv
<1>2. Len(table) \in Nat
  BY <1>1, TableDomain
<1>3. op.pos \in 1 .. Len(table) /\ op.pos \in Nat
  BY <1>1, <1>2
<1>4. View[op.pos] = IF SectorOf(op.pos) = win.sect THEN win.view[op.pos] ELSE table[op.pos]
  BY <1>1, <1>3, ViewIs
<1> QED
  BY <1>3, <1>4 DEF InWindow

\* What was not written with zeros, as the window shows it, is not on the card.
LEMMA StaleIs ==
  ASSUME TypeInv, HeldInv, WindowInv
  PROVE  \A i \in 1 .. Len(table) : View[i].kind = "stale" => table[i].kind = "stale"
<1> TAKE i \in 1 .. Len(table)
<1>1. DOMAIN table = 1 .. Len(table) /\ DOMAIN View = 1 .. Len(table)
  BY TableDomain, ViewIs DEF TypeInv
<1>2. HeldAt(table, i) /\ HeldAt(View, i)
  BY <1>1, HeldIs DEF HeldInv
<1>3. (table[i].kind = "stale" <=> table[i] = Stale) /\ (View[i].kind = "stale" <=> View[i] = Stale)
  BY <1>2, KindsAre
<1> QED
  BY <1>1, <1>3 DEF WindowInv

\* Steps of the call alone.
LEMMA OpOnly ==
  ASSUME IInv, UNCHANGED <<table, win, edits, torn>>, op.at # "zero", op'.at # "zero",
         op' \in OpType, op'.pos \in 0 .. Len(table), opens' \in 0 .. MaxOpens,
         op'.at \in {"find", "alloc", "put"} => op'.pos > 0
  PROVE  /\ TypeInv' /\ HeldInv' /\ WindowInv' /\ ApartInv' /\ TornInv' /\ ZeroInv'
         /\ View' = View /\ (Zeroed' <=> Zeroed)
<1>1. /\ TypeInv /\ HeldInv /\ WindowInv /\ ApartInv /\ TornInv
  BY DEF IInv
<1>2. View' = View
  BY DEF View
<1>3. Zeroed' <=> Zeroed
  BY DEF Zeroed
<1>4. TypeInv'
  <2>1. IsTable(table)'
    BY <1>1 DEF TypeInv, IsTable
  <2>2. Working' => op'.pos > 0
    BY DEF Working
  <2>3. /\ win = [sect |-> win.sect, dirty |-> win.dirty, view |-> win.view]
        /\ win.view = [i \in 1 .. Len(table) |-> win.view[i]]
        /\ win.dirty \in BOOLEAN /\ win.sect \in 0 .. SectorOf(Len(table))
        /\ edits \in 0 .. MaxEdits /\ torn \in BOOLEAN
    BY <1>1 DEF TypeInv
  <2>4. (win.sect \in 0 .. SectorOf(Len(table)))'
    BY <2>3 DEF SectorOf
  <2> QED
    BY <2>1, <2>2, <2>3, <2>4 DEF TypeInv, OpType, Sums
<1>5. HeldInv'
  BY <1>1, <1>2 DEF HeldInv, Held, Sorts, Chained, Whole, IsSfn, Chain
<1>6. WindowInv'
  BY <1>1, <1>2 DEF WindowInv
<1>7. ApartInv'
  BY <1>1, <1>2, <1>3 DEF ApartInv, Distinct, Marked
<1>8. TornInv'
  BY <1>1, <1>3 DEF TornInv
<1>9. ZeroInv'
  BY DEF ZeroInv
<1> QED
  BY <1>2, <1>3, <1>4, <1>5, <1>6, <1>7, <1>8, <1>9

\* The types, in the form the steps use them.
LEMMA TypesAre ==
  ASSUME IInv
  PROVE  /\ op \in OpType /\ op = [call |-> op.call, name |-> op.name, at |-> op.at, pos |-> op.pos,
                                   ord |-> op.ord, sum |-> op.sum, num |-> op.num, n |-> op.n, res |-> op.res]
         /\ IsTable(table) /\ Len(table) \in Nat /\ Len(table) > 0 /\ DOMAIN table = 1 .. Len(table)
         /\ DOMAIN View = 1 .. Len(table) /\ op.pos \in Nat /\ op.pos <= Len(table)
         /\ opens \in 0 .. MaxOpens /\ edits \in 0 .. MaxEdits /\ NumMax \in Nat /\ NumMax > 0
         /\ op.num \in Nat /\ op.num <= NumMax /\ 255 \in Sums
<1>1. TypeInv
  BY DEF IInv
<1>2. op \in OpType /\ IsTable(table) /\ op.pos \in 0 .. Len(table)
      /\ opens \in 0 .. MaxOpens /\ edits \in 0 .. MaxEdits
  BY <1>1 DEF TypeInv
<1>3. Len(table) \in Nat /\ Len(table) > 0 /\ DOMAIN table = 1 .. Len(table) /\ DOMAIN View = 1 .. Len(table)
  BY <1>2, TableDomain, ViewIs
<1>4. op.pos \in Nat /\ op.pos <= Len(table)
  BY <1>2, <1>3
<1>5. NumMax \in Nat /\ NumMax > 0
  BY NameAssumption
<1>6. op.num \in 0 .. NumMax
  BY <1>2 DEF OpType
<1>7. op.num \in Nat /\ op.num <= NumMax
  BY <1>5, <1>6
<1>8. op = [call |-> op.call, name |-> op.name, at |-> op.at, pos |-> op.pos,
            ord |-> op.ord, sum |-> op.sum, num |-> op.num, n |-> op.n, res |-> op.res]
  BY <1>2 DEF OpType
<1>9. 255 \in Sums
  BY DEF Sums
<1> QED
  BY <1>2, <1>3, <1>4, <1>5, <1>7, <1>8, <1>9

(***************************************************************************)
(* dir_find().                                                             *)
(***************************************************************************)
\* The entries 1 to m are not those of the file that is looked for.
Passed(m) ==
  /\ \A j \in 1 .. m : View[j].kind = "sfn" /\ ~loss => View[j].fn # fn
  /\ op.num = 0 => \A j \in 1 .. m : View[j].kind = "sfn" =>
        ~SameName(View[j].who, op.name) \/ AtLimit(cn.lfn)

\* What is expected of the entry behind op.pos.
Expects(o, s) ==
  /\ op.num > 0 => o = 255
  /\ op.num = 0 /\ o # 255 => View[op.pos] = Stale \/ \E k \in 1 .. op.pos :
        Matches(View, k, op.pos, cn.lfn) /\ o = View[op.pos].ord - 1 /\ s = View[k].sum
  /\ op.num = 0 => \A k \in 1 .. op.pos, w \in Stored, r \in Sums :
        SameName(w, op.name) /\ ~AtLimit(cn.lfn) /\ Chain(View, k, op.pos, w, r) => o = View[op.pos].ord - 1 /\ s = r

\* dir_find() goes on behind an entry that is not the file that is looked for.
LEMMA FollowStep ==
  ASSUME IInv, op.at = "find", UNCHANGED <<table, win, opens, edits, torn>>,
         NEW o \in Nat, NEW s \in Sums,
         op' = [op EXCEPT !.pos = op.pos + 1, !.ord = o, !.sum = s],
         op.pos \in 1 .. Len(table) - 1, View[op.pos] # End, Passed(op.pos),
         Expects(o, s)
  PROVE  IInv'
<1>1. /\ op \in OpType /\ op.pos \in Nat /\ op.pos <= Len(table) - 1 /\ Len(table) \in Nat
      /\ opens \in 0 .. MaxOpens
  BY TypesAre
<1>2. /\ op'.at = "find" /\ op'.pos = op.pos + 1 /\ op'.ord = o /\ op'.sum = s
      /\ op'.name = op.name /\ op'.call = op.call /\ op'.num = op.num
  BY <1>1 DEF OpType
<1>3. op' \in OpType /\ op'.pos \in 0 .. Len(table) /\ op'.pos > 0
  <2>1. op' = [call |-> op.call, name |-> op.name, at |-> op.at, pos |-> op.pos + 1,
               ord |-> o, sum |-> s, num |-> op.num, n |-> op.n, res |-> op.res]
    BY <1>1 DEF OpType
  <2>2. op.pos + 1 \in Nat /\ op.pos + 1 \in 0 .. Len(table) /\ op.pos + 1 > 0
    BY <1>1
  <2> QED
    BY <1>1, <1>2, <2>1, <2>2 DEF OpType
<1>4. /\ TypeInv' /\ HeldInv' /\ WindowInv' /\ ApartInv' /\ TornInv' /\ ZeroInv'
      /\ View' = View /\ (Zeroed' <=> Zeroed)
  BY <1>1, <1>2, <1>3, OpOnly
<1>5. cn' = cn /\ fn' = fn /\ (loss' <=> loss)
  BY <1>2 DEF cn, fn, loss
<1>6. NameInv'
  <2>1. NameInv
    BY DEF IInv
  <2> QED
    BY <1>2, <1>5, <2>1 DEF NameInv, Expects
<1>7. FindInv'
  <2>1. FindInv
    BY DEF IInv
  <2>2. \A j \in 1 .. op'.pos - 1 : j = op.pos \/ j \in 1 .. op.pos - 1
    BY <1>1, <1>2
  <2>3. \A j \in 1 .. op'.pos - 1 : View[j] # End
    BY <2>1, <2>2 DEF FindInv
  <2>4. op'.pos - 1 = op.pos
    BY <1>1, <1>2
  <2>5. /\ \A j \in 1 .. op'.pos - 1 : View[j].kind = "sfn" /\ ~loss => View[j].fn # fn
        /\ op.num = 0 => \A j \in 1 .. op'.pos - 1 : View[j].kind = "sfn" =>
              ~SameName(View[j].who, op.name) \/ AtLimit(cn.lfn)
    BY <2>4 DEF Passed
  <2>6. op'.pos > 1
    BY <1>1, <1>2
  <2> QED
    BY <1>2, <1>4, <1>5, <2>3, <2>4, <2>5, <2>6 DEF FindInv, Expects, Behind
<1>8. NewInv' /\ AllocInv' /\ PutInv' /\ RetInv'
  BY <1>2 DEF NewInv, AllocInv, PutInv, RetInv
<1> QED
  BY <1>4, <1>6, <1>7, <1>8 DEF IInv

\* Nothing in use is behind the end, unless a cluster was not written.
LEMMA NotFoundStep ==
  ASSUME IInv, op.at = "find", UNCHANGED <<table, win, opens, edits, torn>>, NotFound,
         NEW m \in 0 .. Len(table), Passed(m), m = Len(table) \/ View[m + 1] \in {End, Stale}
  PROVE  IInv'
<1>1. /\ op \in OpType /\ op.pos \in Nat /\ Len(table) \in Nat /\ Len(table) > 0 /\ opens \in 0 .. MaxOpens
      /\ NumMax \in Nat /\ NumMax > 0 /\ 255 \in Sums /\ op.pos <= Len(table) /\ DOMAIN View = 1 .. Len(table)
  BY TypesAre
<1>2. NameInv /\ ApartInv /\ HeldInv /\ TornInv /\ TypeInv /\ WindowInv
  BY DEF IInv
<1>3. op.name \in Names /\ ~InvalidName(op.name) /\ op.call \in {"open", "create"}
  BY <1>1, <1>2 DEF NameInv, OpType
<1>4. CASE op.call = "open"
  <2>1. op' = [op EXCEPT !.at = "ret", !.res = "FR_NO_FILE"]
    BY <1>4 DEF NotFound, Return
  <2>2. /\ op'.at = "ret" /\ op'.res = "FR_NO_FILE" /\ op'.pos = op.pos /\ op'.num = op.num
        /\ op'.name = op.name /\ op'.call = "open"
    BY <1>1, <1>4, <2>1 DEF OpType
  <2>3. op' \in OpType
    BY <1>1, <2>1 DEF OpType
  <2>4. /\ TypeInv' /\ HeldInv' /\ WindowInv' /\ ApartInv' /\ TornInv' /\ ZeroInv'
        /\ View' = View /\ (Zeroed' <=> Zeroed)
    BY <1>1, <2>2, <2>3, OpOnly
  <2>5. op.num = 0
    BY <1>1, <1>2, <1>4 DEF NameInv, OpType
  <2>6. NameInv'
    BY <1>2, <1>3, <2>2, <2>5 DEF NameInv
  <2>7. ~AtLimit(cn.lfn) =>
          ~ \E i \in DOMAIN View : /\ View[i].kind = "sfn" /\ SameName(View[i].who, op.name)
                                   /\ \A j \in 1 .. i : View[j] # End /\ View[j] # Stale
    <3> SUFFICES ASSUME ~AtLimit(cn.lfn),
                        NEW i \in 1 .. Len(table), View[i].kind = "sfn", SameName(View[i].who, op.name),
                        \A j \in 1 .. i : View[j] # End /\ View[j] # Stale
                 PROVE  FALSE
      BY <1>1
    <3>1. i \notin 1 .. m
      BY <2>5 DEF Passed
    <3>2. m + 1 \in 1 .. i /\ m # Len(table)
      BY <1>1, <3>1
    <3>3. View[m + 1] \in {End, Stale}
      BY <3>2
    <3> QED
      BY <3>2, <3>3
  <2>8. MissingIsAbsent'
    <3>1. cn.lfn = Stripped(op.name)
      BY <1>3, NameIs, CreateIs DEF cn
    <3> QED
      BY <2>2, <2>4, <2>7, <3>1 DEF MissingIsAbsent
  <2>9. RetInv'
    BY <2>2, <2>8 DEF RetInv
  <2>10. FindInv' /\ NewInv' /\ AllocInv' /\ PutInv'
    BY <2>2 DEF FindInv, NewInv, AllocInv, PutInv
  <2> QED
    BY <2>4, <2>6, <2>9, <2>10 DEF IInv
<1>5. CASE op.call = "create" /\ loss
  <2>1. op' = [Rewind("find") EXCEPT !.num = 1]
    BY <1>5 DEF NotFound
  <2>2. /\ op'.at = "find" /\ op'.pos = 1 /\ op'.num = 1 /\ op'.ord = 255
        /\ op'.name = op.name /\ op'.call = op.call
    BY <1>1, <2>1 DEF OpType, Rewind
  <2>3. op' \in OpType
    <3>1. op' = [call |-> op.call, name |-> op.name, at |-> "find", pos |-> 1,
                 ord |-> 255, sum |-> 255, num |-> 1, n |-> 0, res |-> op.res]
      BY <1>1, <2>1 DEF OpType, Rewind
    <3>2. 1 \in 0 .. NumMax
      BY <1>1
    <3> QED
      BY <1>1, <3>1, <3>2 DEF OpType
  <2>4. /\ TypeInv' /\ HeldInv' /\ WindowInv' /\ ApartInv' /\ TornInv' /\ ZeroInv'
        /\ View' = View /\ (Zeroed' <=> Zeroed)
    BY <1>1, <2>2, <2>3, OpOnly
  <2>5. cn.loss /\ cn' = cn
    BY <1>5, <2>2 DEF loss, cn
  <2>6. NameInv'
    BY <1>3, <1>5, <2>2, <2>5 DEF NameInv
  <2>7. FindInv'
    BY <2>2 DEF FindInv
  <2>8. NewInv' /\ AllocInv' /\ PutInv' /\ RetInv'
    BY <2>2 DEF NewInv, AllocInv, PutInv, RetInv
  <2> QED
    BY <2>4, <2>6, <2>7, <2>8 DEF IInv
<1>6. CASE op.call = "create" /\ ~loss
  <2>1. op' = Rewind("alloc")
    BY <1>6 DEF NotFound
  <2>2. /\ op'.at = "alloc" /\ op'.pos = 1 /\ op'.num = op.num /\ op'.n = 0
        /\ op'.name = op.name /\ op'.call = op.call
    BY <1>1, <2>1 DEF OpType, Rewind
  <2>3. op' \in OpType
    <3>1. op' = [call |-> op.call, name |-> op.name, at |-> "alloc", pos |-> 1,
                 ord |-> 255, sum |-> 255, num |-> op.num, n |-> 0, res |-> op.res]
      BY <1>1, <2>1 DEF OpType, Rewind
    <3> QED
      BY <1>1, <3>1 DEF OpType
  <2>4. /\ TypeInv' /\ HeldInv' /\ WindowInv' /\ ApartInv' /\ TornInv' /\ ZeroInv'
        /\ View' = View /\ (Zeroed' <=> Zeroed)
    BY <1>1, <2>2, <2>3, OpOnly
  <2>5. cn' = cn /\ fn' = fn /\ (op.num = 0 => ~cn.loss)
    BY <1>6, <2>2 DEF loss, cn, fn
  <2>6. NameInv'
    BY <1>2, <1>3, <1>6, <2>2, <2>5 DEF NameInv
  <2>7. NewInv'
    <3>1. ASSUME ~torn, NEW j \in 1 .. Len(table), View[j].kind = "sfn"
          PROVE  View[j].fn # fn
      <4>1. j \in 1 .. m
        <5> SUFFICES ASSUME j \notin 1 .. m
                     PROVE  FALSE
          OBVIOUS
        <5>1. m + 1 <= j /\ m # Len(table) /\ m + 1 \in 1 .. Len(table)
          BY <1>1
        <5>2. View[m + 1] = End
          <6> SUFFICES ASSUME View[m + 1] = Stale
                       PROVE  FALSE
            BY <5>1
          <6>1. table[m + 1].kind = "stale"
            BY <1>2, <5>1, StaleIs DEF Stale
          <6>2. Zeroed
            BY <1>2, <3>1 DEF TornInv
          <6> QED
            BY <1>1, <5>1, <6>1, <6>2, TypesAre DEF Zeroed
        <5>3. View[j] \in {End, Stale}
          <6>1. Marked(View)
            BY <1>2, <3>1 DEF ApartInv
          <6> QED
            BY <1>1, <5>1, <5>2, <6>1 DEF Marked
        <5> QED
          BY <3>1, <5>3 DEF End, Stale
      <4> QED
        BY <1>6, <3>1, <4>1 DEF Passed
    <3> QED
      BY <1>1, <2>4, <2>5, <3>1 DEF NewInv
  <2>8. AllocInv'
    <3>1. Entries' > 0
      <4>1. LfnEntries(cn.lfn) \in Nat
        <5>1. Proper(Stripped(op.name)) /\ Stripped(op.name) \in Seq(Char)
          BY <1>3, NameIs DEF Proper
        <5>2. cn.lfn = Stripped(op.name)
          BY <5>1, CreateIs DEF cn
        <5>3. Len(Stripped(op.name)) > 0
          BY <5>1 DEF Proper
        <5> QED
          BY <5>1, <5>2, <5>3, EntriesAre
      <4> QED
        BY <2>5, <4>1 DEF Entries, LfnEntries
    <3>2. Run(View, 1, 0)
      BY DEF Run
    <3> QED
      BY <2>2, <2>4, <3>1, <3>2 DEF AllocInv, Run, Free, Vacant
  <2>9. FindInv' /\ PutInv' /\ RetInv'
    BY <2>2 DEF FindInv, PutInv, RetInv
  <2> QED
    BY <2>4, <2>6, <2>7, <2>8, <2>9 DEF IInv
<1> QED
  BY <1>3, <1>4, <1>5, <1>6

\* It goes on, or ends at the last entry.
LEMMA FollowEither ==
  ASSUME IInv, op.at = "find", UNCHANGED <<table, win, opens, edits, torn>>,
         NEW o \in Nat, NEW s \in Sums, Follow(o, s),
         op.pos \in 1 .. Len(table), View[op.pos] # End, Passed(op.pos),
         Expects(o, s)
  PROVE  IInv'
<1>1. Len(table) \in Nat /\ op.pos \in Nat
  BY TypesAre
<1>2. CASE op.pos = Len(table)
  <2>1. NotFound
    BY <1>2 DEF Follow
  <2>2. op.pos \in 0 .. Len(table)
    BY <1>1
  <2> QED
    BY <1>2, <2>1, <2>2, NotFoundStep
<1>3. CASE op.pos # Len(table)
  <2>1. op' = [op EXCEPT !.pos = op.pos + 1, !.ord = o, !.sum = s]
    BY <1>3 DEF Follow
  <2>2. op.pos \in 1 .. Len(table) - 1
    BY <1>1, <1>3
  <2> QED
    BY <2>1, <2>2, FollowStep
<1> QED
  BY <1>2, <1>3

\* What FatFs takes for the file it looks for.
Taken == \/ ~cn.loss /\ View[op.pos].fn = cn.fn
         \/ Behind(View, op.pos)
         \/ \E k \in 1 .. op.pos - 1 : /\ Matches(View, k, op.pos - 1, cn.lfn)
                                       /\ View[op.pos - 1].ord = 1
                                       /\ View[k].sum = SumSfn(View[op.pos].fn)

\* dir_find() ends, or the next number is tried.
LEMMA FoundStep ==
  ASSUME IInv, op.at = "find", UNCHANGED <<table, win, opens, edits, torn>>, Found,
         op.pos > 0, op.num = 0 => View[op.pos] = Stale \/ (View[op.pos].kind = "sfn" /\ Taken)
  PROVE  IInv'
<1>1. /\ op \in OpType /\ op.pos \in Nat /\ Len(table) \in Nat /\ Len(table) > 0 /\ opens \in 0 .. MaxOpens
      /\ NumMax \in Nat /\ NumMax > 0 /\ 255 \in Sums /\ op.pos <= Len(table)
      /\ op.num \in Nat /\ op.num <= NumMax
  BY TypesAre
<1>2. NameInv
  BY DEF IInv
<1>3. CASE op.num = 0 \/ op.num = NumMax
  <2> DEFINE res == IF op.num = 0 THEN "FR_OK" ELSE "FR_DENIED"
  <2>1. op' = [op EXCEPT !.at = "ret", !.res = res]
    BY <1>3 DEF Found, Return
  <2>2. /\ op'.at = "ret" /\ op'.res = res /\ op'.pos = op.pos /\ op'.num = op.num
        /\ op'.name = op.name /\ op'.call = op.call
    BY <1>1, <2>1 DEF OpType
  <2>3. op' \in OpType
    <3>1. op' = [call |-> op.call, name |-> op.name, at |-> "ret", pos |-> op.pos,
                 ord |-> op.ord, sum |-> op.sum, num |-> op.num, n |-> op.n, res |-> res]
      BY <1>1, <2>1 DEF OpType
    <3> QED
      BY <1>1, <3>1 DEF OpType
  <2>4. /\ TypeInv' /\ HeldInv' /\ WindowInv' /\ ApartInv' /\ TornInv' /\ ZeroInv'
        /\ View' = View /\ (Zeroed' <=> Zeroed)
    BY <1>1, <2>2, <2>3, OpOnly
  <2>5. cn' = cn
    BY <2>2 DEF cn
  <2>6. NameInv'
    BY <1>2, <2>2, <2>5 DEF NameInv
  <2>7. RetInv'
    <3>1. CASE op.num = 0
      BY <1>2, <2>2, <2>4, <2>5, <3>1 DEF RetInv, Taken, NameInv
    <3>2. CASE op.num # 0
      BY <2>2, <3>2 DEF RetInv
    <3> QED
      BY <3>1, <3>2
  <2>8. FindInv' /\ NewInv' /\ AllocInv' /\ PutInv'
    BY <2>2 DEF FindInv, NewInv, AllocInv, PutInv
  <2> QED
    BY <2>4, <2>6, <2>7, <2>8 DEF IInv
<1>4. CASE op.num # 0 /\ op.num # NumMax
  <2>1. op' = [Rewind("find") EXCEPT !.num = op.num + 1]
    BY <1>4 DEF Found
  <2>2. /\ op'.at = "find" /\ op'.pos = 1 /\ op'.num = op.num + 1 /\ op'.ord = 255
        /\ op'.name = op.name /\ op'.call = op.call
    BY <1>1, <2>1 DEF OpType, Rewind
  <2>3. op' \in OpType
    <3>1. op' = [call |-> op.call, name |-> op.name, at |-> "find", pos |-> 1,
                 ord |-> 255, sum |-> 255, num |-> op.num + 1, n |-> 0, res |-> op.res]
      BY <1>1, <2>1 DEF OpType, Rewind
    <3>2. op.num + 1 \in 0 .. NumMax
      BY <1>1, <1>4
    <3> QED
      BY <1>1, <3>1, <3>2 DEF OpType
  <2>4. /\ TypeInv' /\ HeldInv' /\ WindowInv' /\ ApartInv' /\ TornInv' /\ ZeroInv'
        /\ View' = View /\ (Zeroed' <=> Zeroed)
    BY <1>1, <2>2, <2>3, OpOnly
  <2>5. cn' = cn /\ op.num > 0
    BY <1>1, <1>4, <2>2 DEF cn
  <2>6. NameInv'
    BY <1>1, <1>2, <2>2, <2>5 DEF NameInv
  <2>7. FindInv'
    BY <1>1, <2>2 DEF FindInv
  <2>8. NewInv' /\ AllocInv' /\ PutInv' /\ RetInv'
    BY <2>2 DEF NewInv, AllocInv, PutInv, RetInv
  <2> QED
    BY <2>4, <2>6, <2>7, <2>8 DEF IInv
<1> QED
  BY <1>3, <1>4

\* A name and its stripped form are one for create_name().
LEMMA CreateStripped ==
  ASSUME NEW name, Proper(Stripped(name))
  PROVE  CreateName(Stripped(name)) = CreateName(name) /\ Stripped(Stripped(name)) = Stripped(name)
<1>1. Stripped(Stripped(name)) = Stripped(name)
  BY StrippedTwice DEF Proper
<1> QED
  BY <1>1 DEF CreateName

\* The name that is asked for.
LEMMA AskedIs ==
  ASSUME NameInv, op.at \notin {"out", "ret"}
  PROVE  /\ op.name \in Names /\ ~InvalidName(op.name) /\ Proper(Stripped(op.name))
         /\ cn.lfn = Stripped(op.name) /\ cn.lfn \in Stored /\ cn.lfn \in Seq(Char) /\ Len(cn.lfn) > 0
         /\ CreateName(cn.lfn) = cn /\ IsLong(cn.lfn) = cn.long
         /\ LfnEntries(cn.lfn) \in Nat /\ LfnEntries(cn.lfn) > 0
<1>1. op.name \in Names /\ ~InvalidName(op.name)
  BY DEF NameInv
<1>2. Proper(Stripped(op.name)) /\ Stripped(op.name) \in Stored
  BY <1>1, NameIs
<1>3. cn.lfn = Stripped(op.name)
  BY <1>2, CreateIs DEF cn
<1>4. CreateName(cn.lfn) = cn
  BY <1>2, <1>3, CreateStripped DEF cn
<1>5. cn.lfn \in Seq(Char) /\ Len(cn.lfn) > 0
  BY <1>2, <1>3 DEF Proper
<1> QED
  BY <1>1, <1>2, <1>3, <1>4, <1>5, EntriesAre DEF IsLong

\* Which files are the one that is asked for.
LEMMA SameAsAsked ==
  ASSUME NameInv, op.at \notin {"out", "ret"}, NEW w \in Stored
  PROVE  /\ SameName(w, op.name) <=> UpperAll(w) = UpperAll(cn.lfn)
         /\ SameName(w, op.name) => /\ CreateName(w).fn = cn.fn /\ CreateName(w).loss = cn.loss
<1>1. Stripped(w) = w /\ Proper(Stripped(w))
  BY StoredIs
<1>2. Proper(Stripped(op.name)) /\ cn.lfn = Stripped(op.name)
  BY AskedIs
<1>3. SameName(w, op.name) <=> UpperAll(w) = UpperAll(cn.lfn)
  BY <1>1, <1>2 DEF SameName
<1>4. SameName(w, op.name) => /\ CreateName(w).fn = cn.fn /\ CreateName(w).loss = cn.loss
  BY <1>1, <1>2, CreateSame DEF cn
<1> QED
  BY <1>3, <1>4

\* An entry of a long name belongs to a chain.
LEMMA LfnIs ==
  ASSUME NEW t, NEW m \in Int, HeldAt(t, m), t[m].kind = "lfn"
  PROVE  /\ t[m].ord \in Nat /\ t[m].ord > 0 /\ t[m].ord <= 255 /\ t[m].sum \in Sums
         /\ ~t[m].last => t[m].ord < 255 /\ t[m - 1].kind = "lfn"
<1>1. PICK k \in 1 .. m : \E w \in Stored : \E f \in ShortNames(w) :
             IsLong(w) /\ Chain(t, k, m, w, SumSfn(f))
  BY DEF HeldAt
<1>2. PICK w \in Stored : \E f \in ShortNames(w) : IsLong(w) /\ Chain(t, k, m, w, SumSfn(f))
  BY <1>1
<1>3. PICK f \in ShortNames(w) : IsLong(w) /\ Chain(t, k, m, w, SumSfn(f))
  BY <1>2
<1> DEFINE N == LfnEntries(w)
           s == SumSfn(f)
<1>4. Linked(t, k, m, N, s)
  BY <1>3, ChainIs
<1>5. s \in Sums
  BY DEF Sums
<1> HIDE DEF N, s
<1>6. /\ N \in Nat /\ N <= 255 /\ k \in Nat /\ k <= m /\ m \in k .. m
      /\ N - (m - k) \in 1 .. N /\ t[m].ord = N - (m - k) /\ t[m].sum = s /\ (t[m].last <=> m = k)
      /\ m # k => t[m - 1].kind = "lfn"
  BY <1>4 DEF Linked
<1> QED
  BY <1>5, <1>6

\* After an entry of a long name the search knows what it should.
LEMMA LfnExpects ==
  ASSUME IInv, op.at = "find", op.num = 0, op.pos > 0, View[op.pos].kind = "lfn",
         NEW same \in CmpLfn(cn.lfn, View[op.pos]),
         NEW o, NEW s, NEW o0,
         o0 = IF View[op.pos].last THEN View[op.pos].ord ELSE op.ord,
         s = IF View[op.pos].last THEN View[op.pos].sum ELSE op.sum,
         o = IF View[op.pos].ord = o0 /\ s = View[op.pos].sum /\ same THEN o0 - 1 ELSE 255
  PROVE  o \in Nat /\ s \in Sums /\ Expects(o, s)
<1> DEFINE p == op.pos
           e == View[p]
<1>1. op \in OpType /\ p \in Nat /\ p <= Len(table) /\ DOMAIN View = 1 .. Len(table)
  BY TypesAre
<1>2. NameInv /\ HeldInv /\ FindInv
  BY DEF IInv
<1>3. \A j \in 1 .. Len(table) : HeldAt(View, j)
  BY <1>1, <1>2, HeldIs DEF HeldInv
<1>4. p \in 1 .. Len(table) /\ p \in Int
  BY <1>1
<1>5. /\ e.ord \in Nat /\ e.ord > 0 /\ e.ord <= 255 /\ e.sum \in Sums
      /\ ~e.last => e.ord < 255 /\ View[p - 1].kind = "lfn"
  BY <1>3, <1>4, LfnIs
<1>6. op.ord \in Nat /\ op.sum \in Sums
  BY <1>1 DEF OpType
<1>7. o \in Nat /\ s \in Sums
  <2> HIDE DEF e, p
  <2>1. /\ o0 = IF e.last THEN e.ord ELSE op.ord
        /\ s = IF e.last THEN e.sum ELSE op.sum
        /\ o = IF e.ord = o0 /\ s = e.sum /\ same THEN o0 - 1 ELSE 255
    BY DEF e, p
  <2> QED
    BY <1>5, <1>6, <2>1
<1>8. ASSUME o # 255
      PROVE  \E k \in 1 .. p : Matches(View, k, p, cn.lfn) /\ o = e.ord - 1 /\ s = View[k].sum
  <2>1. e.ord = o0 /\ s = e.sum /\ same /\ o = e.ord - 1
    BY <1>8
  <2>2. TRUE \in CmpLfn(cn.lfn, e)
    <3>1. same = TRUE
      BY <2>1 DEF CmpLfn
    <3> QED
      BY <3>1
  <2>3. CASE e.last
    <3>1. \A j \in p .. p : j = p
      BY <1>1
    <3>2. e.ord = e.ord - (p - p)
      BY <1>1, <1>5
    <3>3. p \in 1 .. p /\ p + 1 .. p = {}
      BY <1>1, <1>4
    <3>4. Matches(View, p, p, cn.lfn)
      BY <2>2, <2>3, <3>1, <3>2, <3>3 DEF Matches, Nearest
    <3> QED
      BY <2>1, <3>3, <3>4
  <2>4. CASE ~e.last
    <3>1. o0 = op.ord /\ s = op.sum /\ op.ord # 255
      BY <1>5, <2>1, <2>4
    <3>2. PICK k \in 1 .. p - 1 :
            Matches(View, k, p - 1, cn.lfn) /\ op.ord = View[p - 1].ord - 1 /\ op.sum = View[k].sum
      <4>1. ~Behind(View, p)
        BY <1>5, <2>4 DEF Behind, Stale
      <4> QED
        BY <1>2, <3>1, <4>1 DEF FindInv
    <3>3. /\ k \in 1 .. p - 1 /\ View[k].kind = "lfn" /\ View[k].last
          /\ \A j \in k .. p - 1 : /\ View[j].kind = "lfn" /\ TRUE \in CmpLfn(cn.lfn, View[j])
                                   /\ View[j].ord = View[k].ord - (j - k) /\ View[j].sum = View[k].sum
          /\ \A j \in k + 1 .. p - 1 : ~View[j].last
      <4>1. Matches(View, k, p - 1, cn.lfn)
        BY <3>2
      <4> HIDE DEF p, e
      <4>2. /\ k \in 1 .. p - 1 /\ View[k].kind = "lfn" /\ View[k].last
            /\ \A j \in k .. p - 1 : /\ View[j].kind = "lfn" /\ TRUE \in CmpLfn(cn.lfn, View[j])
                                     /\ View[j].ord = View[k].ord - (j - k) /\ View[j].sum = View[k].sum
            /\ Nearest(View, k, p - 1)
        BY <4>1 DEF Matches
      <4>3. \A j \in k + 1 .. p - 1 : ~View[j].last
        BY <4>2 DEF Nearest
      <4> QED
        BY <4>2, <4>3
    <3>4. k \in 1 .. Len(table) /\ k \in Int
      BY <1>1, <1>4
    <3>5. View[k].ord \in Nat
      BY <1>3, <3>3, <3>4, LfnIs
    <3>6. p - 1 \in k .. p - 1
      BY <1>1
    <3>7. e.ord = View[k].ord - (p - k) /\ e.sum = View[k].sum
      <4>1. View[p - 1].ord = View[k].ord - ((p - 1) - k)
        BY <3>3, <3>6
      <4>2. e.ord = View[p - 1].ord - 1
        BY <2>1, <3>1, <3>2
      <4>3. e.sum = View[k].sum
        BY <2>1, <3>1, <3>2
      <4>4. k \in Int /\ p \in Int
        BY <1>1
      <4> HIDE DEF p, e
      <4> QED
        BY <3>5, <4>1, <4>2, <4>3, <4>4
    <3>8. /\ \A j \in k .. p : j = p \/ j \in k .. p - 1
          /\ \A j \in k + 1 .. p : j = p \/ j \in k + 1 .. p - 1
          /\ k \in 1 .. p
      BY <1>1
    <3>9. Matches(View, k, p, cn.lfn)
      BY <2>2, <2>4, <3>3, <3>7, <3>8 DEF Matches, Nearest
    <3> QED
      BY <2>1, <3>1, <3>2, <3>8, <3>9
  <2> QED
    BY <2>3, <2>4
<1>9. ASSUME NEW k \in 1 .. p, NEW w \in Stored, NEW r \in Sums, SameName(w, op.name), ~AtLimit(cn.lfn),
             Chain(View, k, p, w, r)
      PROVE  o = e.ord - 1 /\ s = r
  <2> DEFINE N == LfnEntries(w)
  <2>1. UpperAll(w) = UpperAll(cn.lfn) /\ cn.lfn \in Seq(Char)
    BY <1>2, <1>9, AskedIs, SameAsAsked
  <2>2. w \in Seq(Char) /\ Len(w) > 0 /\ Len(w) <= MaxLfn /\ ~AtLimit(w)
    <3>1. w \in Seq(Char) /\ Len(w) > 0 /\ Len(w) <= MaxLfn
      BY StoredIs
    <3>2. Len(w) = Len(cn.lfn)
      BY <2>1, <3>1, SameUpper
    <3> QED
      BY <1>9, <3>1, <3>2 DEF AtLimit
  <2>3. Linked(View, k, p, N, r)
    BY <1>4, <1>9, ChainIs
  <2>4. \A j \in k .. p : View[j] = FitLfn(w, N - (j - k), r)
    BY <1>9 DEF Chain
  <2>5. CmpLfn(cn.lfn, e) = {TRUE}
    <3>1. p \in k .. p
      BY <1>1
    <3>2. N - (p - k) \in 1 .. N /\ e = FitLfn(w, N - (p - k), r)
      BY <2>3, <2>4, <3>1 DEF Linked
    <3> DEFINE q == N - (p - k)
    <3>3. q \in 1 .. LfnEntries(w) /\ e = FitLfn(w, q, r)
      BY <3>2
    <3> HIDE DEF q, e
    <3>4. CmpLfn(cn.lfn, FitLfn(w, q, r)) = {TRUE}
      BY <2>1, <2>2, <3>3, SameMatches
    <3> QED
      BY <3>3, <3>4
  <2> HIDE DEF N
  <2>6. same = TRUE
    BY <2>5
  <2>7. /\ N \in Nat /\ k \in Nat /\ k <= p
        /\ \A j \in k .. p : View[j].ord = N - (j - k) /\ View[j].sum = r /\ (View[j].last <=> j = k)
    BY <2>3 DEF Linked
  <2>8. e.ord = N - (p - k) /\ e.sum = r /\ (e.last <=> p = k)
    BY <1>1, <2>7
  <2>9. CASE p = k
    BY <1>5, <2>6, <2>8, <2>9
  <2>10. CASE p # k
    <3>1. Chain(View, k, p - 1, w, r)
      BY <1>4, <1>9, <2>7, <2>10, ChainShorter DEF N
    <3>2. k \in 1 .. p - 1 /\ p - 1 \in k .. p
      BY <1>1, <2>7, <2>10
    <3>3. op.ord = View[p - 1].ord - 1 /\ op.sum = r
      BY <1>2, <1>9, <3>1, <3>2 DEF FindInv
    <3>4. View[p - 1].ord = N - ((p - 1) - k)
      BY <2>7, <3>2
    <3>5. op.ord = e.ord
      BY <1>1, <2>7, <2>8, <3>3, <3>4
    <3>6. o0 = op.ord /\ s = op.sum
      BY <2>8, <2>10
    <3> QED
      BY <2>6, <2>8, <3>3, <3>5, <3>6
  <2> QED
    BY <2>9, <2>10
<1>10. Expects(o, s)
  BY <1>8, <1>9 DEF Expects
<1> QED
  BY <1>7, <1>10

\* A file that the search stops at is the one, by name or by its chain.
LEMMA SfnTaken ==
  ASSUME IInv, op.at = "find", op.num = 0, op.pos > 0,
         \/ op.ord = 0 /\ op.sum = SumSfn(View[op.pos].fn)
         \/ ~loss /\ View[op.pos].fn = fn
  PROVE  Taken
<1> DEFINE p == op.pos
<1>1. p \in Nat /\ p <= Len(table) /\ DOMAIN View = 1 .. Len(table) /\ Len(table) \in Nat
  BY TypesAre
<1>2. NameInv /\ HeldInv /\ FindInv
  BY DEF IInv
<1>3. CASE ~loss /\ View[p].fn = fn
  BY <1>3 DEF Taken, loss, fn
<1>4. CASE Behind(View, p)
  BY <1>4 DEF Taken
<1>5. CASE op.ord = 0 /\ op.sum = SumSfn(View[p].fn) /\ ~Behind(View, p)
  <2>1. PICK k \in 1 .. p - 1 :
          Matches(View, k, p - 1, cn.lfn) /\ op.ord = View[p - 1].ord - 1 /\ op.sum = View[k].sum
    BY <1>2, <1>5 DEF FindInv
  <2>2. View[p - 1].kind = "lfn"
    <3>1. p - 1 \in k .. p - 1
      BY <1>1
    <3>2. Matches(View, k, p - 1, cn.lfn)
      BY <2>1
    <3> HIDE DEF p
    <3> QED
      BY <3>1, <3>2 DEF Matches
  <2>3. p - 1 \in 1 .. Len(table) /\ p - 1 \in Int
    BY <1>1
  <2>4. HeldAt(View, p - 1)
    BY <1>1, <1>2, <2>3, HeldIs DEF HeldInv
  <2>5. View[p - 1].ord \in Nat
    <3> HIDE DEF p
    <3> QED
      BY <2>2, <2>3, <2>4, LfnIs
  <2>6. View[p - 1].ord = 1
    BY <1>5, <2>1, <2>5
  <2> QED
    BY <1>5, <2>1, <2>6 DEF Taken
<1> QED
  BY <1>3, <1>4, <1>5

\* A file that is not taken is not the one, for its long name would have led to it.
LEMMA SfnPassed ==
  ASSUME IInv, op.at = "find", op.pos > 0, View[op.pos].kind = "sfn",
         ~(op.ord = 0 /\ op.sum = SumSfn(View[op.pos].fn)),
         ~(~loss /\ View[op.pos].fn = fn)
  PROVE  Passed(op.pos)
<1> DEFINE p == op.pos
           e == View[p]
<1>1. p \in Nat /\ p <= Len(table) /\ DOMAIN View = 1 .. Len(table) /\ Len(table) \in Nat
  BY TypesAre
<1>2. NameInv /\ HeldInv /\ FindInv
  BY DEF IInv
<1>3. p \in 1 .. Len(table) /\ \A j \in 1 .. p : j = p \/ j \in 1 .. p - 1
  BY <1>1
<1>4. HeldAt(View, p)
  BY <1>1, <1>2, <1>3, HeldIs DEF HeldInv
<1>5. /\ e.who \in Stored /\ e.fn \in ShortNames(e.who)
      /\ ~CreateName(e.who).loss => e.fn = CreateName(e.who).fn
      /\ CreateName(e.who).loss => IsLong(e.who)
  <2> HIDE DEF p
  <2> QED
    BY <1>4, KindsAre, SfnIs DEF p
<1>6. ASSUME op.num = 0, SameName(e.who, op.name), ~AtLimit(cn.lfn)
      PROVE  FALSE
  <2>1. CreateName(e.who).fn = cn.fn /\ CreateName(e.who).loss = cn.loss
    BY <1>2, <1>5, <1>6, SameAsAsked
  <2>2. CASE ~cn.loss
    BY <1>5, <1>6, <2>1, <2>2 DEF loss, fn
  <2>3. CASE cn.loss
    <3> DEFINE w == e.who
               N == LfnEntries(w)
               s == SumSfn(e.fn)
    <3>1. IsLong(w) /\ w \in Stored
      BY <1>5, <2>1, <2>3
    <3>2. Chain(View, p - N, p - 1, w, s)
      BY <1>4, <3>1 DEF HeldAt
    <3>3. s \in Sums
      BY <1>5 DEF Sums
    <3>4. p - 1 \in Int /\ p \in Int
      BY <1>1
    <3>5. SameName(w, op.name) /\ ~(op.ord = 0 /\ op.sum = s)
      BY <1>6
    <3> HIDE DEF w, s, p
    <3>6. Linked(View, p - N, p - 1, N, s)
      BY <3>1, <3>2, <3>4, ChainIs
    <3> HIDE DEF N
    <3>7. N \in Nat /\ N > 0 /\ p - N \in 1 .. p - 1 /\ p - 1 \in p - N .. p - 1
      BY <3>4, <3>6 DEF Linked
    <3>8. View[p - 1].ord = N - ((p - 1) - (p - N))
      BY <3>6, <3>7 DEF Linked
    <3>9. View[p - 1].ord = 1
      BY <3>4, <3>7, <3>8
    <3>10. op.ord = View[p - 1].ord - 1 /\ op.sum = s
      BY <1>2, <1>6, <3>1, <3>2, <3>3, <3>5, <3>7 DEF FindInv, p
    <3> QED
      BY <3>5, <3>9, <3>10
  <2> QED
    BY <2>2, <2>3
<1>7. ASSUME NEW j \in 1 .. p, View[j].kind = "sfn"
      PROVE  (~loss => View[j].fn # fn) /\ (op.num = 0 => ~SameName(View[j].who, op.name) \/ AtLimit(cn.lfn))
  <2>1. CASE j = p
    BY <1>6, <2>1
  <2>2. CASE j \in 1 .. p - 1
    BY <1>2, <1>7, <2>2 DEF FindInv
  <2> QED
    BY <1>3, <2>1, <2>2
<1> QED
  BY <1>7 DEF Passed

\* dir_find() keeps the invariant.
LEMMA FindStep ==
  ASSUME IInv, Find
  PROVE  IInv'
<1> DEFINE p == op.pos
           e == View[p]
<1>1. op.at = "find" /\ InWindow /\ UNCHANGED <<table, win, opens, edits, torn>>
  BY DEF Find
<1>2. TypeInv /\ NameInv /\ HeldInv /\ FindInv
  BY DEF IInv
<1>3. p \in Nat /\ DOMAIN View = 1 .. Len(table) /\ Len(table) \in Nat /\ op \in OpType /\ 255 \in Sums
  BY TypesAre
<1>4. win.view[p] = e /\ p \in 1 .. Len(table) /\ p > 0
  BY <1>1, <1>2, <1>3, SeenIs DEF Working
<1>5. HeldAt(View, p)
  BY <1>2, <1>3, <1>4, HeldIs DEF HeldInv
<1>6. /\ e.kind \in {"end", "deleted", "volume", "stale", "lfn", "sfn"}
      /\ (e.kind = "end" <=> e = End) /\ (e.kind = "stale" <=> e = Stale)
      /\ e.kind = "sfn" => ~Dead(e)
  BY <1>5, KindsAre, SfnIs
<1>7. /\ e.kind = "end" => NotFound
      /\ e.kind = "stale" => FindStale
      /\ e.kind \in {"deleted", "volume"} => Follow(255, op.sum)
      /\ e.kind = "lfn" => IF op.num = 0 THEN FindLfn(e) ELSE Follow(op.ord, op.sum)
      /\ e.kind = "sfn" => FindSfn(e)
  <2>1. (CASE e.kind = "end" -> NotFound
           [] e.kind = "stale" -> FindStale
           [] Dead(e) -> Follow(255, op.sum)
           [] e.kind = "lfn" -> IF op.num = 0 THEN FindLfn(e) ELSE Follow(op.ord, op.sum)
           [] e.kind = "sfn" /\ ~Dead(e) -> FindSfn(e))
    BY <1>4 DEF Find
  <2>2. Dead(e) <=> e.kind \in {"deleted", "volume"} \/ (e.kind = "sfn" /\ e.fn[1][1] = "E5")
    BY DEF Dead
  <2> HIDE DEF e
  <2> QED
    BY <1>6, <2>1, <2>2
<1>8. Passed(p - 1) /\ p - 1 \in 0 .. Len(table)
  BY <1>1, <1>2, <1>3, <1>4 DEF Passed, FindInv
<1>9. CASE e.kind = "end"
  <2>1. View[(p - 1) + 1] = End
    BY <1>3, <1>6, <1>9
  <2> QED
    BY <1>1, <1>7, <1>8, <1>9, <2>1, NotFoundStep
<1>10. \A j \in 1 .. p : j = p \/ j \in 1 .. p - 1
  BY <1>3
<1>11. ASSUME e.kind # "sfn"
       PROVE  Passed(p)
  BY <1>8, <1>10, <1>11 DEF Passed
<1>12. ASSUME e.kind # "lfn"
       PROVE  \A k \in 1 .. p : \A w \in Stored : \A r \in Sums : ~Chain(View, k, p, w, r)
  <2> SUFFICES ASSUME NEW k \in 1 .. p, NEW w \in Stored, NEW r \in Sums, Chain(View, k, p, w, r)
               PROVE  FALSE
    OBVIOUS
  <2>1. Linked(View, k, p, LfnEntries(w), r)
    BY <1>3, ChainIs
  <2>2. p \in k .. p
    BY <1>3
  <2> HIDE DEF p
  <2>3. View[p].kind = "lfn"
    BY <2>1, <2>2 DEF Linked
  <2> QED
    BY <1>12, <2>3
<1>13. e.kind # "lfn" => Expects(255, op.sum)
  BY <1>12 DEF Expects
<1>14. op.sum \in Sums /\ 255 \in Nat /\ op.ord \in Nat
  BY <1>3 DEF OpType
<1>15. CASE e.kind \in {"deleted", "volume"}
  BY <1>1, <1>4, <1>6, <1>7, <1>11, <1>13, <1>14, <1>15, FollowEither
<1>16. CASE e.kind = "lfn" /\ op.num # 0
  <2>1. op.ord = 255 /\ op.num > 0
    BY <1>1, <1>2, <1>16, TypesAre DEF NameInv
  <2>2. Expects(op.ord, op.sum)
    BY <1>16, <2>1 DEF Expects
  <2>3. Follow(op.ord, op.sum)
    BY <1>7, <1>16
  <2> QED
    BY <1>1, <1>4, <1>6, <1>11, <1>14, <1>16, <2>2, <2>3, FollowEither
<1>17. CASE e.kind = "lfn" /\ op.num = 0
  <2>1. FindLfn(e)
    BY <1>7, <1>17
  <2> DEFINE o0 == IF e.last THEN e.ord ELSE op.ord
             s == IF e.last THEN e.sum ELSE op.sum
  <2>2. PICK same \in CmpLfn(cn.lfn, e) :
          Follow(IF e.ord = o0 /\ s = e.sum /\ same THEN o0 - 1 ELSE 255, s)
    BY <2>1 DEF FindLfn
  <2> DEFINE o == IF e.ord = o0 /\ s = e.sum /\ same THEN o0 - 1 ELSE 255
  <2>3. Follow(o, s)
    BY <2>2
  <2>4. o \in Nat /\ s \in Sums /\ Expects(o, s)
    BY <1>1, <1>4, <1>17, LfnExpects
  <2> HIDE DEF o, s
  <2> QED
    BY <1>1, <1>4, <1>6, <1>11, <1>17, <2>3, <2>4, FollowEither
<1>18. CASE e.kind = "sfn"
  <2>1. FindSfn(e)
    BY <1>7, <1>18
  <2>2. CASE (op.ord = 0 /\ op.sum = SumSfn(e.fn)) \/ (~loss /\ e.fn = fn)
    <3>1. Found
      BY <2>1, <2>2 DEF FindSfn
    <3>2. op.num = 0 => Taken
      BY <1>1, <1>4, <2>2, SfnTaken
    <3> QED
      BY <1>1, <1>4, <1>18, <3>1, <3>2, FoundStep
  <2>3. CASE ~((op.ord = 0 /\ op.sum = SumSfn(e.fn)) \/ (~loss /\ e.fn = fn))
    <3>1. Follow(255, op.sum)
      BY <2>1, <2>3 DEF FindSfn
    <3>2. Passed(p)
      BY <1>1, <1>4, <1>18, <2>3, SfnPassed
    <3> QED
      BY <1>1, <1>4, <1>6, <1>13, <1>14, <1>18, <3>1, <3>2, FollowEither
  <2> QED
    BY <2>2, <2>3
<1>19. CASE e.kind = "stale"
  <2>1. e = Stale /\ e # End /\ Passed(p)
    BY <1>6, <1>11, <1>19
  <2>2. CASE NotFound
    <3>1. View[(p - 1) + 1] = Stale
      BY <1>3, <2>1
    <3> QED
      BY <1>1, <1>8, <2>2, <3>1, NotFoundStep
  <2>3. CASE Found
    BY <1>1, <1>4, <2>1, <2>3, FoundStep
  <2>4. CASE Follow(255, op.sum)
    BY <1>1, <1>4, <1>13, <1>14, <1>19, <2>1, <2>4, FollowEither
  <2>5. ASSUME op.num = 0, NEW ord \in 0 .. MaxEntries, NEW sum \in Sums, Follow(ord, sum)
        PROVE  IInv'
    <3>1. ord \in Nat
      <4>1. MaxEntries \in Nat
        BY NameAssumption, Quotient DEF MaxEntries
      <4> QED
        BY <4>1
    <3>2. Expects(ord, sum)
      BY <1>12, <1>19, <2>1, <2>5 DEF Expects
    <3> QED
      BY <1>1, <1>4, <2>1, <2>5, <3>1, <3>2, FollowEither
  <2> QED
    BY <1>7, <1>19, <2>2, <2>3, <2>4, <2>5 DEF FindStale
<1> QED
  BY <1>6, <1>9, <1>15, <1>16, <1>17, <1>18, <1>19

(***************************************************************************)
(* The window is written back and moved.                                   *)
(***************************************************************************)
\* Writing the window back or moving it shows no other table.
LEMMA SameView ==
  ASSUME IInv, op.at # "zero", UNCHANGED <<op, opens, edits, torn>>, View' = View, table' = View,
         NEW q \in 0 .. SectorOf(Len(table)), NEW v, v = [i \in 1 .. Len(table) |-> v[i]],
         win' = [sect |-> q, dirty |-> FALSE, view |-> v]
  PROVE  IInv'
<1>1. /\ TypeInv /\ HeldInv /\ WindowInv /\ ApartInv /\ TornInv /\ NameInv /\ FindInv /\ NewInv
      /\ AllocInv /\ PutInv /\ RetInv
  BY DEF IInv
<1>2. IsTable(View) /\ Len(View) = Len(table) /\ DOMAIN View = 1 .. Len(table) /\ DOMAIN table = 1 .. Len(table)
  BY <1>1, ViewIs, TypesAre DEF TypeInv
<1>3. Len(table)' = Len(table)
  BY <1>2
<1>4. win'.sect = q /\ win'.dirty = FALSE /\ win'.view = v
  OBVIOUS
<1>5. Zeroed => Zeroed'
  <2>1. \A i \in 1 .. Len(table) : View[i].kind = "stale" => table[i].kind = "stale"
    BY <1>1, StaleIs
  <2>2. Zeroed <=> \A i \in 1 .. Len(table) : table[i].kind # "stale"
    BY <1>2 DEF Zeroed
  <2>3. Zeroed' <=> \A i \in 1 .. Len(table) : View[i].kind # "stale"
    BY <1>2 DEF Zeroed
  <2> QED
    BY <2>1, <2>2, <2>3
<1>6. TypeInv'
  <2>1. IsTable(table)'
    BY <1>2 DEF IsTable
  <2>2. /\ op \in OpType /\ op.pos \in 0 .. Len(table) /\ (Working => op.pos > 0)
        /\ opens \in 0 .. MaxOpens /\ edits \in 0 .. MaxEdits /\ torn \in BOOLEAN
    BY <1>1 DEF TypeInv
  <2>3. (win.sect \in 0 .. SectorOf(Len(table)))'
    BY <1>3, <1>4 DEF SectorOf
  <2>4. (Working => op.pos > 0)'
    BY <2>2 DEF Working
  <2>5. (win.view = [i \in 1 .. Len(table) |-> win.view[i]])'
    BY <1>3, <1>4
  <2>6. (win = [sect |-> win.sect, dirty |-> win.dirty, view |-> win.view])'
    BY <1>4
  <2>7. (op \in OpType)'
    BY <2>2 DEF OpType, Sums
  <2> QED
    BY <1>3, <1>4, <2>1, <2>2, <2>3, <2>4, <2>5, <2>6, <2>7 DEF TypeInv
<1>7. HeldInv'
  BY <1>1 DEF HeldInv, Held, Sorts, Chained, Whole, IsSfn, Chain
<1>8. WindowInv'
  BY <1>4 DEF WindowInv
<1>9. ApartInv' /\ TornInv'
  BY <1>1, <1>5 DEF ApartInv, TornInv, Distinct, Marked
<1>10. ZeroInv' /\ NameInv'
  BY <1>1 DEF ZeroInv, NameInv, cn
<1>11. cn' = cn /\ fn' = fn /\ (loss' <=> loss) /\ Entries' = Entries
  BY DEF cn, fn, loss, Entries
<1>12. FindInv'
  BY <1>1, <1>11 DEF FindInv
<1>13. NewInv' /\ AllocInv'
  BY <1>1, <1>3, <1>11 DEF NewInv, AllocInv
<1>14. PutInv'
  BY <1>1, <1>3, <1>11 DEF PutInv
<1>15. RetInv'
  BY <1>1, <1>11 DEF RetInv, MissingIsAbsent
<1> QED
  BY <1>6, <1>7, <1>8, <1>9, <1>10, <1>12, <1>13, <1>14, <1>15 DEF IInv

\* Writing the window back keeps the invariant.
LEMMA FlushStep ==
  ASSUME IInv, op.at # "zero", UNCHANGED <<op, opens, edits, torn>>, Flush
  PROVE  IInv'
<1> DEFINE q == win.sect
           v == win.view
<1>1. /\ IsTable(table) /\ v = [i \in 1 .. Len(table) |-> v[i]] /\ q \in 0 .. SectorOf(Len(table))
      /\ win = [sect |-> q, dirty |-> win.dirty, view |-> v]
  BY DEF IInv, TypeInv
<1>2. table' = View /\ win' = [sect |-> q, dirty |-> FALSE, view |-> v]
  BY <1>1 DEF Flush
<1>3. /\ DOMAIN View = 1 .. Len(table)
      /\ \A i \in 1 .. Len(table) : View[i] = IF SectorOf(i) = q THEN v[i] ELSE table[i]
  BY <1>1, ViewIs
<1>4. View' = [i \in DOMAIN View |-> IF SectorOf(i) = q THEN v[i] ELSE View[i]]
  <2>1. View' = [i \in DOMAIN table' |-> IF SectorOf(i) = win'.sect THEN win'.view[i] ELSE table'[i]]
    BY DEF View, SectorOf
  <2>2. win'.sect = q /\ win'.view = v
    BY <1>2
  <2> HIDE DEF q, v
  <2> QED
    BY <1>2, <2>1, <2>2
<1>5. View' = View
  <2>1. \A i \in DOMAIN View : (IF SectorOf(i) = q THEN v[i] ELSE View[i]) = View[i]
    BY <1>3
  <2>2. View = [i \in DOMAIN View |-> View[i]]
    BY DEF View
  <2> HIDE DEF q, v
  <2> QED
    BY <1>4, <2>1, <2>2
<1> HIDE DEF q, v
<1> QED
  BY <1>1, <1>2, <1>5, SameView

\* move_window() keeps the invariant.
LEMMA MoveWindowStep ==
  ASSUME IInv, MoveWindow
  PROVE  IInv'
<1>1. Working /\ UNCHANGED <<op, opens, edits, torn>> /\ op.at # "zero"
  BY DEF MoveWindow, Working
<1>2. CASE win.dirty
  <2>1. Flush
    BY <1>2 DEF MoveWindow
  <2> QED
    BY <1>1, <2>1, FlushStep
<1>3. CASE ~win.dirty
  <2> DEFINE q == SectorOf(op.pos)
  <2>1. win' = [sect |-> q, dirty |-> FALSE, view |-> table] /\ table' = table
    BY <1>3 DEF MoveWindow
  <2>2. View = table
    BY <1>3 DEF IInv, WindowInv
  <2>3. /\ IsTable(table) /\ op.pos \in Nat /\ op.pos > 0 /\ op.pos <= Len(table)
        /\ Len(table) \in Nat /\ Len(table) > 0 /\ DOMAIN table = 1 .. Len(table)
    BY <1>1, TypesAre DEF IInv, TypeInv
  <2>4. q \in 0 .. SectorOf(Len(table))
    <3>1. q \in Nat /\ q <= SectorOf(Len(table)) /\ SectorOf(Len(table)) \in Nat
      BY <2>3, SectorIs
    <3> HIDE DEF q
    <3> QED
      BY <3>1
  <2>5. table = [i \in 1 .. Len(table) |-> table[i]]
    BY <2>3 DEF IsTable
  <2>6. View' = View
    <3>1. View' = [i \in DOMAIN table |-> IF SectorOf(i) = q THEN table[i] ELSE table[i]]
      <4>1. View' = [i \in DOMAIN table' |-> IF SectorOf(i) = win'.sect THEN win'.view[i] ELSE table'[i]]
        BY DEF View, SectorOf
      <4>2. win'.sect = q /\ win'.view = table
        BY <2>1
      <4> HIDE DEF q
      <4> QED
        BY <2>1, <4>1, <4>2
    <3>2. View' = [i \in DOMAIN table |-> table[i]]
      BY <3>1
    <3> QED
      BY <2>2, <2>3, <2>5, <3>2
  <2> HIDE DEF q
  <2> QED
    BY <1>1, <2>1, <2>2, <2>4, <2>5, <2>6, SameView
<1> QED
  BY <1>2, <1>3

\* f_sync() keeps the invariant.
LEMMA SyncStep ==
  ASSUME IInv, Sync
  PROVE  IInv'
<1>1. op.at # "zero" /\ UNCHANGED <<op, opens, edits, torn>> /\ Flush
  BY DEF Sync
<1> QED
  BY <1>1, FlushStep

(***************************************************************************)
(* dir_alloc().                                                            *)
(***************************************************************************)
\* A run of free entries goes on, or ends at an entry that is not free.
LEMMA RunOn ==
  ASSUME NEW t, NEW i \in Nat, i > 0, NEW m \in Nat, Run(t, i, m),
         NEW free \in BOOLEAN, free => Vacant(t[i]), ~free => ~Free(t[i]),
         NEW n, n = IF free THEN m + 1 ELSE 0
  PROVE  n \in Nat /\ n <= i /\ Run(t, i + 1, n)
<1>1. m < i /\ (\A j \in i - m .. i - 1 : Vacant(t[j])) /\ (i - m = 1 \/ ~Free(t[i - m - 1]))
  BY DEF Run
<1>2. CASE free
  <2>1. n = m + 1
    BY <1>2
  <2>2. (i + 1) - n = i - m /\ (i + 1) - 1 = i /\ (i + 1) - n - 1 = i - m - 1 /\ n < i + 1
    BY <1>1, <2>1
  <2>3. \A j \in i - m .. i : j = i \/ j \in i - m .. i - 1
    OBVIOUS
  <2>4. \A j \in (i + 1) - n .. (i + 1) - 1 : Vacant(t[j])
    BY <1>1, <1>2, <2>2, <2>3
  <2>5. (i + 1) - n = 1 \/ ~Free(t[(i + 1) - n - 1])
    BY <1>1, <2>2
  <2> QED
    BY <2>1, <2>2, <2>4, <2>5 DEF Run
<1>3. CASE ~free
  <2>1. n = 0 /\ (i + 1) - 0 = i + 1 /\ (i + 1) - 0 - 1 = i /\ (i + 1) - 1 = i
    BY <1>3
  <2>2. \A j \in i + 1 .. i : Vacant(t[j])
    OBVIOUS
  <2>3. \A j \in (i + 1) - n .. (i + 1) - 1 : Vacant(t[j])
    BY <2>1, <2>2
  <2>4. ~Free(t[(i + 1) - n - 1])
    BY <1>3, <2>1
  <2> QED
    BY <2>1, <2>3, <2>4 DEF Run
<1> QED
  BY <1>2, <1>3

\* A file takes an entry, and one for each segment of a long name.
LEMMA EntriesPositive ==
  ASSUME NameInv, op.at \notin {"out", "ret"}
  PROVE  /\ Entries \in Nat /\ Entries > 0
         /\ Entries = IF cn.long THEN LfnEntries(cn.lfn) + 1 ELSE 1
<1>1. LfnEntries(cn.lfn) \in Nat
  BY AskedIs
<1> QED
  BY <1>1 DEF Entries

\* dir_alloc() keeps the invariant.
LEMMA AllocStep ==
  ASSUME IInv, Alloc
  PROVE  IInv'
<1> DEFINE p == op.pos
           e == View[p]
<1>1. op.at = "alloc" /\ InWindow /\ UNCHANGED <<table, win, opens, edits, torn>>
  BY DEF Alloc
<1>2. TypeInv /\ NameInv /\ AllocInv /\ NewInv
  BY DEF IInv
<1>3. /\ op \in OpType /\ p \in Nat /\ p <= Len(table) /\ Len(table) \in Nat /\ Len(table) > 0
      /\ opens \in 0 .. MaxOpens /\ DOMAIN View = 1 .. Len(table)
  BY TypesAre
<1>4. win.view[p] = View[p] /\ p > 0
  BY <1>1, <1>2, <1>3, SeenIs DEF Working
<1>5. Entries \in Nat /\ Entries > 0
  BY <1>1, <1>2, EntriesPositive
<1>6. op.n \in Nat /\ op.n < Entries /\ Run(View, p, op.n)
  BY <1>1, <1>2, <1>3 DEF AllocInv, OpType
<1>7. HeldAt(View, p)
  BY <1>3, <1>4, HeldIs DEF IInv, HeldInv
<1>8. PICK free \in BOOLEAN :
        /\ free => Vacant(View[p])
        /\ ~free => ~Free(View[p])
        /\ LET n == IF free THEN op.n + 1 ELSE 0 IN
           IF n = Entries
             THEN op' = [op EXCEPT !.at = "put", !.pos = op.pos - n + 1, !.n = n]
           ELSE IF op.pos < Len(table) THEN op' = [op EXCEPT !.pos = op.pos + 1, !.n = n]
           ELSE IF Len(table) + PerCluster > MaxTable THEN Return("FR_DENIED")
           ELSE op' = [op EXCEPT !.at = "link", !.n = n]
  <2>1. PICK free \in IF e.kind = "stale" THEN BOOLEAN ELSE {Free(e)} :
          LET n == IF free THEN op.n + 1 ELSE 0 IN
          IF n = Entries
            THEN op' = [op EXCEPT !.at = "put", !.pos = op.pos - n + 1, !.n = n]
          ELSE IF op.pos < Len(table) THEN op' = [op EXCEPT !.pos = op.pos + 1, !.n = n]
          ELSE IF Len(table) + PerCluster > MaxTable THEN Return("FR_DENIED")
          ELSE op' = [op EXCEPT !.at = "link", !.n = n]
    BY <1>4 DEF Alloc
  <2>2. e.kind = "stale" => e = Stale /\ ~Free(e)
    BY <1>7, KindsAre DEF Free
  <2>3. free \in BOOLEAN /\ (free => Vacant(e)) /\ (~free => ~Free(e))
    <3>1. CASE e.kind = "stale"
      BY <2>1, <2>2, <3>1 DEF Vacant
    <3>2. CASE e.kind # "stale"
      <4>1. free = Free(e) /\ Free(e) \in BOOLEAN
        BY <2>1, <3>2 DEF Free
      <4> QED
        BY <4>1 DEF Vacant
    <3> QED
      BY <3>1, <3>2
  <2> QED
    BY <2>1, <2>3
<1> DEFINE n == IF free THEN op.n + 1 ELSE 0
<1>13. n \in Nat /\ n <= p /\ Run(View, p + 1, n) /\ n <= Entries
  <2>1. n = IF free THEN op.n + 1 ELSE 0
    OBVIOUS
  <2>2. n <= Entries
    BY <1>5, <1>6
  <2> HIDE DEF n
  <2> QED
    BY <1>3, <1>4, <1>6, <1>8, <2>1, <2>2, RunOn
<1>14. \/ n = Entries /\ op' = [op EXCEPT !.at = "put", !.pos = p - n + 1, !.n = n]
       \/ n # Entries /\ p < Len(table) /\ op' = [op EXCEPT !.pos = p + 1, !.n = n]
       \/ n # Entries /\ op' = [op EXCEPT !.at = "ret", !.res = "FR_DENIED"]
       \/ /\ n # Entries /\ p = Len(table) /\ Len(table) + PerCluster <= MaxTable
          /\ op' = [op EXCEPT !.at = "link", !.n = n]
  <2>1. PerCluster \in Nat /\ MaxTable \in Nat
    BY DirectoryAssumption
  <2>2. IF n = Entries
          THEN op' = [op EXCEPT !.at = "put", !.pos = op.pos - n + 1, !.n = n]
        ELSE IF op.pos < Len(table) THEN op' = [op EXCEPT !.pos = op.pos + 1, !.n = n]
        ELSE IF Len(table) + PerCluster > MaxTable THEN Return("FR_DENIED")
        ELSE op' = [op EXCEPT !.at = "link", !.n = n]
    BY <1>8
  <2> HIDE DEF n
  <2> QED
    BY <1>3, <2>1, <2>2 DEF Return
<1> HIDE DEF n
<1>9. CASE n = Entries /\ op' = [op EXCEPT !.at = "put", !.pos = p - n + 1, !.n = n]
  <2>1. /\ op'.at = "put" /\ op'.pos = p - n + 1 /\ op'.n = n /\ op'.num = op.num
        /\ op'.name = op.name /\ op'.call = op.call
    BY <1>3, <1>9 DEF OpType
  <2>2. p - n + 1 \in Nat /\ p - n + 1 > 0 /\ p - n + 1 <= Len(table) /\ (p - n + 1) + n - 1 = p
    BY <1>3, <1>5, <1>13, <1>9
  <2>3. op' \in OpType
    <3>1. op' = [call |-> op.call, name |-> op.name, at |-> "put", pos |-> p - n + 1,
                 ord |-> op.ord, sum |-> op.sum, num |-> op.num, n |-> n, res |-> op.res]
      BY <1>3, <1>9 DEF OpType
    <3> QED
      BY <1>3, <1>13, <2>2, <3>1 DEF OpType
  <2>4. op'.pos \in 0 .. Len(table)
    BY <1>3, <2>1, <2>2
  <2>5. /\ TypeInv' /\ HeldInv' /\ WindowInv' /\ ApartInv' /\ TornInv' /\ ZeroInv'
        /\ View' = View /\ (Zeroed' <=> Zeroed)
    BY <1>1, <1>3, <2>1, <2>2, <2>3, <2>4, OpOnly
  <2>6. cn' = cn /\ fn' = fn /\ Entries' = Entries
    BY <2>1 DEF cn, fn, Entries
  <2>7. NameInv'
    BY <1>1, <1>2, <2>1, <2>6 DEF NameInv
  <2>8. NewInv'
    BY <1>1, <1>2, <2>1, <2>5, <2>6 DEF NewInv
  <2>9. PutInv'
    <3> DEFINE q == p - n + 1
    <3>1. (p + 1) - n = q /\ (p + 1) - 1 = p /\ (p + 1) - n - 1 = q - 1
      BY <1>3, <1>13
    <3>2. (\A j \in q .. p : Vacant(View[j])) /\ (q = 1 \/ ~Free(View[q - 1]))
      BY <1>13, <3>1 DEF Run
    <3>3. op'.pos = q /\ op'.pos + op'.n - 1 = p /\ op'.n = n /\ n \in 1 .. Entries /\ ~(n < Entries)
      BY <1>5, <1>13, <1>9, <2>1, <2>2
    <3>4. Len(table)' = Len(table)
      BY <1>1
    <3> HIDE DEF q
    <3> QED
      BY <1>1, <1>3, <2>5, <2>6, <3>2, <3>3, <3>4 DEF PutInv, Free, Vacant
  <2>10. FindInv' /\ AllocInv' /\ RetInv'
    BY <2>1 DEF FindInv, AllocInv, RetInv
  <2> QED
    BY <2>5, <2>7, <2>8, <2>9, <2>10 DEF IInv
<1>10. CASE n # Entries /\ p < Len(table) /\ op' = [op EXCEPT !.pos = p + 1, !.n = n]
  <2>1. /\ op'.at = "alloc" /\ op'.pos = p + 1 /\ op'.n = n /\ op'.num = op.num
        /\ op'.name = op.name /\ op'.call = op.call
    BY <1>1, <1>3, <1>10 DEF OpType
  <2>2. op' \in OpType /\ op'.pos \in 0 .. Len(table) /\ op'.pos > 0
    <3>1. op' = [call |-> op.call, name |-> op.name, at |-> op.at, pos |-> p + 1,
                 ord |-> op.ord, sum |-> op.sum, num |-> op.num, n |-> n, res |-> op.res]
      BY <1>3, <1>10 DEF OpType
    <3>2. p + 1 \in Nat /\ p + 1 \in 0 .. Len(table)
      BY <1>3, <1>10
    <3> QED
      BY <1>3, <1>13, <2>1, <3>1, <3>2 DEF OpType
  <2>5. /\ TypeInv' /\ HeldInv' /\ WindowInv' /\ ApartInv' /\ TornInv' /\ ZeroInv'
        /\ View' = View /\ (Zeroed' <=> Zeroed)
    BY <1>1, <1>3, <2>1, <2>2, OpOnly
  <2>6. cn' = cn /\ fn' = fn /\ Entries' = Entries
    BY <2>1 DEF cn, fn, Entries
  <2>7. NameInv'
    BY <1>1, <1>2, <2>1, <2>6 DEF NameInv
  <2>8. NewInv'
    BY <1>1, <1>2, <2>1, <2>5, <2>6 DEF NewInv
  <2>9. AllocInv'
    <3>1. n < Entries
      BY <1>5, <1>13, <1>10
    <3> QED
      BY <1>13, <2>1, <2>5, <2>6, <3>1 DEF AllocInv, Run, Free, Vacant
  <2>10. FindInv' /\ PutInv' /\ RetInv'
    BY <2>1 DEF FindInv, PutInv, RetInv
  <2> QED
    BY <2>5, <2>7, <2>8, <2>9, <2>10 DEF IInv
<1>11. CASE n # Entries /\ op' = [op EXCEPT !.at = "ret", !.res = "FR_DENIED"]
  <2>1. /\ op'.at = "ret" /\ op'.res = "FR_DENIED" /\ op'.pos = p /\ op'.num = op.num
        /\ op'.name = op.name /\ op'.call = op.call
    BY <1>3, <1>11 DEF OpType
  <2>2. op' \in OpType /\ op'.pos \in 0 .. Len(table)
    <3>1. op' = [call |-> op.call, name |-> op.name, at |-> "ret", pos |-> p,
                 ord |-> op.ord, sum |-> op.sum, num |-> op.num, n |-> op.n, res |-> "FR_DENIED"]
      BY <1>3, <1>11 DEF OpType
    <3> QED
      BY <1>3, <2>1, <3>1 DEF OpType
  <2>5. /\ TypeInv' /\ HeldInv' /\ WindowInv' /\ ApartInv' /\ TornInv' /\ ZeroInv'
        /\ View' = View /\ (Zeroed' <=> Zeroed)
    BY <1>1, <1>3, <2>1, <2>2, OpOnly
  <2>6. cn' = cn
    BY <2>1 DEF cn
  <2>7. NameInv'
    BY <1>1, <1>2, <2>1, <2>6 DEF NameInv
  <2>10. FindInv' /\ NewInv' /\ AllocInv' /\ PutInv' /\ RetInv'
    BY <2>1 DEF FindInv, NewInv, AllocInv, PutInv, RetInv
  <2> QED
    BY <2>5, <2>7, <2>10 DEF IInv
<1>12. CASE /\ n # Entries /\ p = Len(table) /\ Len(table) + PerCluster <= MaxTable
            /\ op' = [op EXCEPT !.at = "link", !.n = n]
  <2>1. /\ op'.at = "link" /\ op'.pos = p /\ op'.n = n /\ op'.num = op.num
        /\ op'.name = op.name /\ op'.call = op.call
    BY <1>3, <1>12 DEF OpType
  <2>2. op' \in OpType /\ op'.pos \in 0 .. Len(table)
    <3>1. op' = [call |-> op.call, name |-> op.name, at |-> "link", pos |-> p,
                 ord |-> op.ord, sum |-> op.sum, num |-> op.num, n |-> n, res |-> op.res]
      BY <1>3, <1>12 DEF OpType
    <3> QED
      BY <1>3, <1>13, <2>1, <3>1 DEF OpType
  <2>5. /\ TypeInv' /\ HeldInv' /\ WindowInv' /\ ApartInv' /\ TornInv' /\ ZeroInv'
        /\ View' = View /\ (Zeroed' <=> Zeroed)
    BY <1>1, <1>3, <2>1, <2>2, OpOnly
  <2>6. cn' = cn /\ fn' = fn /\ Entries' = Entries
    BY <2>1 DEF cn, fn, Entries
  <2>7. NameInv'
    BY <1>1, <1>2, <2>1, <2>6 DEF NameInv
  <2>8. NewInv'
    BY <1>1, <1>2, <2>1, <2>5, <2>6 DEF NewInv
  <2>9. AllocInv'
    <3>1. n < Entries
      BY <1>5, <1>13, <1>12
    <3>2. Len(table)' = Len(table)
      BY <1>1
    <3> QED
      BY <1>13, <1>12, <2>1, <2>5, <2>6, <3>1, <3>2 DEF AllocInv, Run, Free, Vacant
  <2>10. FindInv' /\ PutInv' /\ RetInv'
    BY <2>1 DEF FindInv, PutInv, RetInv
  <2> QED
    BY <2>5, <2>7, <2>8, <2>9, <2>10 DEF IInv
<1> QED
  BY <1>14, <1>9, <1>10, <1>11, <1>12

(***************************************************************************)
(* The caller, and what happens to the card.                               *)
(***************************************************************************)
\* Without a window the table is seen as it is on the card.
LEMMA FromTable ==
  ASSUME IsTable(table'), win' = NoWindow(table'), op' \in OpType, op'.pos \in 0 .. Len(table'),
         op'.at \in {"find", "alloc", "put"} => op'.pos > 0,
         opens' \in 0 .. MaxOpens, edits' \in 0 .. MaxEdits, torn' \in BOOLEAN,
         \A m \in DOMAIN table' : HeldAt(table', m), ~torn' => Distinct(table') /\ Marked(table')
  PROVE  TypeInv' /\ HeldInv' /\ WindowInv' /\ ApartInv' /\ View' = table'
<1>1. /\ DOMAIN table' = 1 .. Len(table') /\ Len(table') \in Nat /\ Len(table') > 0
      /\ table' = [i \in 1 .. Len(table') |-> table'[i]]
  BY TableDomain DEF IsTable
<1>2. win' = [sect |-> 0, dirty |-> FALSE, view |-> table']
  BY DEF NoWindow
<1>3. View' = table'
  <2>1. View' = [i \in DOMAIN table' |-> IF SectorOf(i) = win'.sect THEN win'.view[i] ELSE table'[i]]
    BY DEF View, SectorOf
  <2>2. win'.sect = 0 /\ win'.view = table'
    BY <1>2
  <2>3. View' = [i \in DOMAIN table' |-> table'[i]]
    BY <2>1, <2>2
  <2> QED
    BY <1>1, <2>3
<1>4. TypeInv'
  <2>1. 0 \in 0 .. SectorOf(Len(table'))
    <3>1. SectorOf(Len(table')) \in Nat
      BY <1>1, SectorIs
    <3> QED
      BY <3>1
  <2>2. (win.sect \in 0 .. SectorOf(Len(table)))'
    BY <1>2, <2>1 DEF SectorOf
  <2>3. (Working => op.pos > 0)'
    BY DEF Working
  <2>4. (win = [sect |-> win.sect, dirty |-> win.dirty, view |-> win.view])'
    BY <1>2
  <2>5. (win.view = [i \in 1 .. Len(table) |-> win.view[i]])'
    BY <1>1, <1>2
  <2>6. (op \in OpType)'
    BY DEF OpType, Sums
  <2>7. IsTable(table)'
    BY DEF IsTable
  <2>8. (win.dirty \in BOOLEAN)'
    BY <1>2
  <2> QED
    BY <2>2, <2>3, <2>4, <2>5, <2>6, <2>7, <2>8 DEF TypeInv
<1>5. HeldInv'
  <2>1. Held(table')
    BY HeldIs
  <2> QED
    BY <1>3, <2>1 DEF HeldInv, Held, Sorts, Chained, Whole, IsSfn, Chain
<1>6. WindowInv'
  BY <1>3 DEF WindowInv
<1>7. ApartInv'
  BY <1>3 DEF ApartInv, Distinct, Marked
<1> QED
  BY <1>3, <1>4, <1>5, <1>6, <1>7

\* No call in progress is one of the calls there are.
LEMMA IdleIs ==
  /\ Idle.at = "out" /\ Idle.pos = 0 /\ Idle.num = 0 /\ Idle \in OpType
<1>1. Idle = [call |-> "none", name |-> NoName, at |-> "out", pos |-> 0, ord |-> 255,
              sum |-> 255, num |-> 0, n |-> 0, res |-> "FR_OK"]
  BY DEF Idle
<1>2. 255 \in Sums /\ NumMax \in Nat
  BY NameAssumption DEF Sums
<1>3. 0 \in 0 .. NumMax
  BY <1>2
<1> QED
  BY <1>1, <1>2, <1>3 DEF OpType

\* Without a call nothing is promised of it.
LEMMA IdleInv ==
  ASSUME op'.at = "out", op'.num = 0
  PROVE  ZeroInv' /\ NameInv' /\ FindInv' /\ NewInv' /\ AllocInv' /\ PutInv' /\ RetInv'
<1>1. ZeroInv' /\ FindInv' /\ NewInv' /\ AllocInv' /\ PutInv' /\ RetInv'
  BY DEF ZeroInv, FindInv, NewInv, AllocInv, PutInv, RetInv
<1>2. NameInv'
  BY DEF NameInv
<1> QED
  BY <1>1, <1>2

\* f_open() keeps the invariant as it begins,
LEMMA OpenStep ==
  ASSUME IInv, NEW name \in Names, NEW call \in {"open", "create"}, Open(call, name)
  PROVE  IInv'
<1>1. op.at = "out" /\ opens < MaxOpens /\ opens' = opens + 1 /\ UNCHANGED <<table, win, edits, torn>>
  BY DEF Open
<1>2. opens \in 0 .. MaxOpens /\ Len(table) \in Nat /\ Len(table) > 0
  BY TypesAre
<1>3. opens' \in 0 .. MaxOpens
  BY <1>1, <1>2, DirectoryAssumption
<1>4. Idle \in OpType /\ Idle = [call |-> "none", name |-> NoName, at |-> "out", pos |-> 0, ord |-> 255,
                                sum |-> 255, num |-> 0, n |-> 0, res |-> "FR_OK"]
  BY IdleIs DEF Idle
<1>5. CASE InvalidName(name)
  <2>1. op' = [call |-> call, name |-> name, at |-> "ret", pos |-> 0, ord |-> 255,
               sum |-> 255, num |-> 0, n |-> 0, res |-> "FR_INVALID_NAME"]
    <3>1. op' = [Idle EXCEPT !.call = call, !.name = name, !.at = "ret", !.res = "FR_INVALID_NAME"]
      BY <1>5 DEF Open
    <3> QED
      BY <3>1 DEF Idle
  <2>2. op' \in OpType
    BY <1>4, <2>1 DEF OpType
  <2>3. op'.at = "ret" /\ op'.pos = 0 /\ op'.num = 0 /\ op'.name = name /\ op'.res = "FR_INVALID_NAME"
    BY <2>1
  <2>4. op'.pos \in 0 .. Len(table)
    BY <1>2, <2>3
  <2>5. /\ TypeInv' /\ HeldInv' /\ WindowInv' /\ ApartInv' /\ TornInv' /\ ZeroInv'
        /\ View' = View /\ (Zeroed' <=> Zeroed)
    BY <1>1, <1>3, <2>2, <2>3, <2>4, OpOnly
  <2>6. NameInv'
    BY <2>3 DEF NameInv
  <2>7. FindInv' /\ NewInv' /\ AllocInv' /\ PutInv' /\ RetInv'
    BY <2>3 DEF FindInv, NewInv, AllocInv, PutInv, RetInv
  <2> QED
    BY <2>5, <2>6, <2>7 DEF IInv
<1>6. CASE ~InvalidName(name)
  <2>1. op' = [call |-> call, name |-> name, at |-> "find", pos |-> 1, ord |-> 255,
               sum |-> 255, num |-> 0, n |-> 0, res |-> "FR_OK"]
    <3>1. op' = [Idle EXCEPT !.call = call, !.name = name, !.at = "find", !.pos = 1]
      BY <1>6 DEF Open
    <3> QED
      BY <3>1 DEF Idle
  <2>2. op' \in OpType
    BY <1>4, <2>1 DEF OpType
  <2>3. op'.at = "find" /\ op'.pos = 1 /\ op'.num = 0 /\ op'.name = name /\ op'.ord = 255 /\ op'.call = call
    BY <2>1
  <2>4. op'.pos \in 0 .. Len(table)
    BY <1>2, <2>3
  <2>5. /\ TypeInv' /\ HeldInv' /\ WindowInv' /\ ApartInv' /\ TornInv' /\ ZeroInv'
        /\ View' = View /\ (Zeroed' <=> Zeroed)
    BY <1>1, <1>3, <2>2, <2>3, <2>4, OpOnly
  <2>6. NameInv'
    BY <1>6, <2>3 DEF NameInv
  <2>7. NewInv' /\ AllocInv' /\ PutInv' /\ RetInv'
    BY <2>3 DEF NewInv, AllocInv, PutInv, RetInv
  <2>8. FindInv'
    BY <2>3 DEF FindInv
  <2> QED
    BY <2>5, <2>6, <2>7, <2>8 DEF IInv
<1> QED
  BY <1>5, <1>6

\* and as it returns.
LEMMA CallReturnsStep ==
  ASSUME IInv, CallReturns
  PROVE  IInv'
<1>1. op.at = "ret" /\ op' = Idle /\ UNCHANGED <<table, win, opens, edits, torn>>
  BY DEF CallReturns
<1>2. opens \in 0 .. MaxOpens /\ Len(table) \in Nat
  BY TypesAre
<1>3. op' \in OpType /\ op'.at = "out" /\ op'.num = 0 /\ op'.pos = 0 /\ op'.pos \in 0 .. Len(table)
  BY <1>1, <1>2, IdleIs
<1>4. /\ TypeInv' /\ HeldInv' /\ WindowInv' /\ ApartInv' /\ TornInv'
  BY <1>1, <1>2, <1>3, OpOnly
<1> QED
  BY <1>3, <1>4, IdleInv DEF IInv

\* A loss of power keeps the invariant: what the window held is gone.
LEMMA PowerLossStep ==
  ASSUME IInv, PowerLoss
  PROVE  IInv'
<1>0. edits < MaxEdits /\ edits' = edits + 1
  BY DEF PowerLoss
<1>1. /\ op' = Idle /\ table' = table /\ opens' = opens /\ win' = NoWindow(table')
      /\ torn' = (torn \/ \E i \in DOMAIN table : table[i] = Stale)
  BY DEF PowerLoss
<1>2. /\ opens \in 0 .. MaxOpens /\ edits \in 0 .. MaxEdits /\ IsTable(table)
      /\ Len(table) \in Nat /\ DOMAIN table = 1 .. Len(table)
  BY TypesAre
<1>3. op' \in OpType /\ op'.at = "out" /\ op'.num = 0 /\ op'.pos = 0 /\ op'.pos \in 0 .. Len(table)
  BY <1>1, <1>2, IdleIs
<1>4. edits' \in 0 .. MaxEdits /\ edits' # 0
  BY <1>0, <1>2, DirectoryAssumption
<1>5. \A m \in DOMAIN table : HeldAt(table, m)
  BY HeldIs DEF IInv, HeldInv
<1>6. torn' \in BOOLEAN /\ (~torn' => ~torn)
  <2>1. torn \in BOOLEAN
    BY DEF IInv, TypeInv
  <2> QED
    BY <1>1, <2>1
<1>7. ~torn' => Distinct(table) /\ Marked(table)
  BY <1>6 DEF IInv, ApartInv
<1>8. TypeInv' /\ HeldInv' /\ WindowInv' /\ ApartInv'
  BY <1>1, <1>2, <1>3, <1>4, <1>5, <1>6, <1>7, FromTable
<1>10. TornInv'
  <2> SUFFICES ASSUME ~torn', NEW i \in DOMAIN table, table[i].kind = "stale"
               PROVE  FALSE
    BY <1>1 DEF TornInv, Zeroed
  <2>1. table[i] = Stale
    BY <1>5, KindsAre
  <2> QED
    BY <1>1, <2>1
<1> QED
  BY <1>3, <1>8, <1>10, IdleInv DEF IInv

\* A PC that deletes a file keeps the invariant.
LEMMA PcDeletesStep ==
  ASSUME IInv, PcDeletes
  PROVE  IInv'
<1>1. op.at = "out" /\ edits < MaxEdits /\ edits' = edits + 1 /\ op' = op /\ opens' = opens
      /\ torn' = torn
  BY DEF PcDeletes
<1>2. /\ opens \in 0 .. MaxOpens /\ edits \in 0 .. MaxEdits /\ IsTable(table)
      /\ Len(table) \in Nat /\ DOMAIN table = 1 .. Len(table) /\ op \in OpType /\ op.pos \in Nat /\ op.pos <= Len(table)
      /\ op.num \in Nat
  BY TypesAre
<1>3. PICK i \in 1 .. Len(table), from \in 1 .. Len(table) :
       /\ table[i].kind = "sfn" /\ from <= i
       /\ \A j \in from .. i - 1 : table[j].kind = "lfn"
       /\ table' = [j \in DOMAIN table |-> IF j \in from .. i THEN Deleted ELSE table[j]]
       /\ win' = NoWindow(table')
  BY <1>2 DEF PcDeletes
<1>4. DOMAIN table' = 1 .. Len(table) /\ Len(table') = Len(table) /\ IsTable(table')
  <2> DEFINE L == Len(table)
  <2>1. table' = [j \in 1 .. L |-> IF j \in from .. i THEN Deleted ELSE table[j]]
    BY <1>2, <1>3
  <2>2. L \in 1 .. MaxTable /\ L % PerCluster = 0 /\ L \in Nat
    BY <1>2 DEF IsTable
  <2> HIDE DEF L
  <2>3. DOMAIN table' = 1 .. L /\ Len(table') = L
    BY <2>1, <2>2
  <2>4. table' = [j \in 1 .. Len(table') |-> table'[j]]
    BY <2>1, <2>3
  <2> QED
    BY <2>2, <2>3, <2>4 DEF IsTable, L
<1>5. \A j \in 1 .. Len(table) : table'[j] = IF j \in from .. i THEN Deleted ELSE table[j]
  BY <1>2, <1>3
<1>6. \A j \in from .. i : table[j].kind \in {"lfn", "sfn"}
  <2> TAKE j \in from .. i
  <2>1. j = i \/ j \in from .. i - 1
    OBVIOUS
  <2> QED
    BY <1>3, <2>1
<1>7. \A m \in DOMAIN table : HeldAt(table, m)
  BY HeldIs DEF IInv, HeldInv
<1>8. ASSUME NEW m \in 1 .. Len(table)
      PROVE  HeldAt(table', m)
  <2>1. CASE m \in from .. i
    <3>1. table'[m] = Deleted
      BY <1>5, <2>1
    <3> QED
      BY <3>1, NewHeld
  <2>2. CASE m \notin from .. i
    <3>1. table'[m] = table[m] /\ HeldAt(table, m) /\ m \in Nat
      BY <1>2, <1>5, <1>7, <2>2
    <3>2. ASSUME NEW k \in 1 .. m, \A j \in k .. m - 1 : table[j].kind = "lfn", NEW j \in k .. m - 1
          PROVE  table'[j] = table[j]
      <4>1. j \in 1 .. Len(table)
        BY <3>1
      <4>2. j \notin from .. i
        <5> SUFFICES ASSUME j \in from .. i
                     PROVE  FALSE
          OBVIOUS
        <5>1. i \in k .. m - 1
          BY <1>3, <2>2, <3>1
        <5> QED
          BY <1>3, <3>2, <5>1
      <4> QED
        BY <1>5, <4>1, <4>2
    <3> QED
      BY <3>1, <3>2, StillHeld
  <2> QED
    BY <2>1, <2>2
<1>9. TornInv'
  <2> SUFFICES ASSUME ~torn, NEW j \in 1 .. Len(table), table'[j].kind = "stale"
               PROVE  FALSE
    BY <1>1, <1>4 DEF TornInv, Zeroed
  <2>1. table'[j] = table[j]
    BY <1>5 DEF Deleted
  <2> QED
    BY <1>1, <1>2, <2>1 DEF IInv, TornInv, Zeroed
<1>10. ~torn' => Distinct(table') /\ Marked(table')
  <2> SUFFICES ASSUME ~torn
               PROVE  Distinct(table') /\ Marked(table')
    BY <1>1
  <2>1. Distinct(table) /\ Marked(table)
    BY DEF IInv, ApartInv
  <2>2. \A j \in DOMAIN table' : table'[j].kind = "sfn" => j \in DOMAIN table /\ table'[j] = table[j]
    BY <1>2, <1>4, <1>5 DEF Deleted
  <2>3. Distinct(table')
    BY <2>1, <2>2, DistinctPart
  <2>4. ASSUME NEW k \in 1 .. Len(table), NEW j \in 1 .. Len(table), table'[k] = End, k < j
        PROVE  table'[j] \in {End, Stale}
    <3>1. table[k] = End
      BY <1>5, <2>4 DEF End, Deleted
    <3>2. table[j] \in {End, Stale}
      BY <1>2, <2>1, <2>4, <3>1 DEF Marked
    <3>3. j \notin from .. i
      BY <1>6, <3>2 DEF End, Stale
    <3> QED
      BY <1>5, <3>2, <3>3
  <2> QED
    BY <1>4, <2>3, <2>4 DEF Marked
<1>11. edits' \in 0 .. MaxEdits /\ edits' # 0
  BY <1>1, <1>2, DirectoryAssumption
<1>12. op'.at = "out" /\ op' \in OpType /\ op'.pos \in 0 .. Len(table')
  BY <1>1, <1>2, <1>4
<1>13. TypeInv' /\ HeldInv' /\ WindowInv' /\ ApartInv'
  <2>1. \A m \in DOMAIN table' : HeldAt(table', m)
    BY <1>4, <1>8
  <2>2. torn' \in BOOLEAN
    BY <1>1 DEF IInv, TypeInv
  <2> QED
    BY <1>1, <1>2, <1>3, <1>4, <1>10, <1>11, <1>12, <2>1, <2>2, FromTable
<1>15. NameInv'
  <2>1. NameInv
    BY DEF IInv
  <2> QED
    BY <1>1, <2>1 DEF NameInv, cn
<1>16. ZeroInv' /\ FindInv' /\ NewInv' /\ AllocInv' /\ PutInv' /\ RetInv'
  BY <1>12 DEF ZeroInv, FindInv, NewInv, AllocInv, PutInv, RetInv
<1> QED
  BY <1>9, <1>13, <1>15, <1>16 DEF IInv

\* So does a step of somebody else.
LEMMA StutterStep ==
  ASSUME IInv, UNCHANGED vars
  PROVE  IInv'
<1>1. View' = View /\ cn' = cn /\ fn' = fn /\ (loss' <=> loss) /\ Entries' = Entries /\ (Zeroed' <=> Zeroed)
  BY DEF vars, View, cn, fn, loss, Entries, Zeroed
<1>2. UNCHANGED <<table, win, op, opens, edits, torn>>
  BY DEF vars
<1>3. TypeInv'
  BY <1>2 DEF IInv, TypeInv, IsTable, SectorOf, Working, OpType, Sums
<1>4. HeldInv'
  BY <1>1, <1>2 DEF IInv, HeldInv, Held, Sorts, Chained, Whole, IsSfn, Chain
<1>5. WindowInv' /\ TornInv' /\ ZeroInv' /\ NameInv'
  BY <1>1, <1>2 DEF IInv, WindowInv, TornInv, ZeroInv, NameInv
<1>6. ApartInv'
  BY <1>1, <1>2 DEF IInv, ApartInv, Distinct, Marked
<1>7. FindInv'
  BY <1>1, <1>2 DEF IInv, FindInv
<1>8. NewInv' /\ AllocInv'
  BY <1>1, <1>2 DEF IInv, NewInv, AllocInv
<1>9. PutInv'
  BY <1>1, <1>2 DEF IInv, PutInv
<1>10. RetInv'
  BY <1>1, <1>2 DEF IInv, RetInv, MissingIsAbsent
<1> QED
  BY <1>3, <1>4, <1>5, <1>6, <1>7, <1>8, <1>9, <1>10 DEF IInv

\* The invariant holds of a card that comes from a PC.
LEMMA InitHolds ==
  ASSUME Init
  PROVE  IInv
<1>1. table \in Tables /\ win = NoWindow(table) /\ op = Idle /\ opens = 0 /\ edits = 0 /\ torn = FALSE
  BY DEF Init
<1>2. /\ table = [i \in 1 .. Len(table) |-> table[i]]
      /\ Len(table) \in 1 .. MaxTable /\ Len(table) % PerCluster = 0
      /\ \A i \in DOMAIN table :
           table[i] \in {End, Deleted, Volume} \/ table[i].kind = "lfn" \/ IsSfn(table[i])
      /\ Chained(table) /\ Whole(table) /\ Distinct(table) /\ Ended(table)
  BY <1>1, TablesAssumption
<1>3. IsTable(table)
  BY <1>2 DEF IsTable
<1>4. /\ DOMAIN table = 1 .. Len(table) /\ Len(table) \in Nat /\ Len(table) > 0
  BY <1>3, TableDomain
<1>5. win.sect = 0 /\ win.dirty = FALSE /\ win.view = table
      /\ win = [sect |-> win.sect, dirty |-> win.dirty, view |-> win.view]
  BY <1>1 DEF NoWindow
<1>6. View = table
  <2>1. View = [i \in DOMAIN table |-> table[i]]
    BY <1>5 DEF View
  <2> QED
    BY <1>2, <1>4, <2>1
<1>7. op \in OpType /\ op.at = "out" /\ op.num = 0 /\ op.pos = 0
  BY <1>1, IdleIs
<1>8. TypeInv
  <2>1. SectorOf(Len(table)) \in Nat
    BY <1>4, SectorIs
  <2>2. win.sect \in 0 .. SectorOf(Len(table))
    BY <1>5, <2>1
  <2>3. op.pos \in 0 .. Len(table) /\ opens \in 0 .. MaxOpens /\ edits \in 0 .. MaxEdits
    BY <1>1, <1>4, <1>7, DirectoryAssumption
  <2> QED
    BY <1>1, <1>2, <1>3, <1>5, <1>7, <2>2, <2>3 DEF TypeInv, Working
<1>9. HeldInv
  <2>1. Sorts(table)
    BY <1>2 DEF Sorts
  <2> QED
    BY <1>2, <1>6, <2>1 DEF HeldInv, Held
<1>10. WindowInv
  BY <1>6 DEF WindowInv
<1>11. Zeroed
  <2> SUFFICES ASSUME NEW i \in DOMAIN table, table[i].kind = "stale"
               PROVE  FALSE
    BY DEF Zeroed
  <2>1. CASE IsSfn(table[i])
    BY <2>1, SfnIs
  <2>2. CASE ~IsSfn(table[i])
    BY <1>2, <2>2 DEF End, Deleted, Volume
  <2> QED
    BY <2>1, <2>2
<1>12. ApartInv
  <2>1. Marked(table)
    BY <1>2 DEF Ended, Marked
  <2> QED
    BY <1>2, <1>6, <2>1 DEF ApartInv
<1>13. TornInv
  BY <1>1, <1>11 DEF TornInv
<1>14. ZeroInv /\ NameInv /\ FindInv /\ NewInv /\ AllocInv /\ PutInv /\ RetInv
  BY <1>7 DEF ZeroInv, NameInv, FindInv, NewInv, AllocInv, PutInv, RetInv
<1> QED
  BY <1>8, <1>9, <1>10, <1>12, <1>13, <1>14 DEF IInv

(***************************************************************************)
(* dir_next() stretches the table.                                         *)
(***************************************************************************)
\* A multiple and one more is a multiple.
LEMMA WholeMore ==
  ASSUME NEW a \in Nat, NEW c \in Nat, c > 0, a % c = 0
  PROVE  (a + c) % c = 0
<1>1. a = (a \div c) * c /\ a \div c \in Nat
  BY Remainder, Quotient
<1> DEFINE q == a \div c
<1>2. (q + 1) * c = q * c + c /\ q + 1 \in Nat
  BY <1>1, ProductStep
<1>3. a + c = (q + 1) * c /\ a + c \in Nat
  BY <1>1, <1>2
<1> HIDE DEF q
<1> QED
  BY <1>2, <1>3, Remainder

\* A multiple of clusters is one of sectors.
LEMMA WholeLess ==
  ASSUME NEW a \in Nat, NEW c \in Nat, NEW p \in Nat, c > 0, p > 0, a % c = 0, c % p = 0
  PROVE  a % p = 0
<1> DEFINE q == a \div c
           r == c \div p
<1>1. c = r * p /\ r \in Nat /\ q \in Nat /\ a = q * c
  BY Remainder, Quotient
<1> HIDE DEF q, r
<1>2. q * r \in Nat /\ q * (r * p) = (q * r) * p
  BY <1>1
<1>3. a = (q * r) * p
  BY <1>1, <1>2
<1> QED
  BY <1>2, <1>3, Remainder

\* A run of such entries depends on the entries before it only.
LEMMA RunKept ==
  ASSUME NEW t, NEW u, NEW i \in Nat, NEW n \in Nat, Run(t, i, n), \A j \in 1 .. i - 1 : u[j] = t[j]
  PROVE  Run(u, i, n)
<1>1. n < i /\ (\A j \in i - n .. i - 1 : Vacant(t[j])) /\ (i - n = 1 \/ ~Free(t[i - n - 1]))
  BY DEF Run
<1>2. \A j \in i - n .. i - 1 : j \in 1 .. i - 1
  BY <1>1
<1>3. i - n # 1 => i - n - 1 \in 1 .. i - 1
  BY <1>1
<1> QED
  BY <1>1, <1>2, <1>3 DEF Run

\* Linking a cluster to the directory keeps the invariant.
LEMMA StretchStep ==
  ASSUME IInv, Stretch
  PROVE  IInv'
<1> DEFINE L == Len(table)
           C == PerCluster
           longer == View \o [i \in 1 .. C |-> Stale]
<1>1. /\ op.at = "link" /\ op' = [op EXCEPT !.at = "zero", !.pos = op.pos + 1]
      /\ UNCHANGED <<opens, edits, torn>>
      /\ table' = longer /\ win' = NoWindow(table')
  <2>1. (IF win.dirty THEN View ELSE table) = View
    BY DEF IInv, WindowInv
  <2> QED
    BY <2>1 DEF Stretch
<1>2. TypeInv /\ HeldInv /\ WindowInv /\ ApartInv /\ TornInv /\ NameInv /\ NewInv /\ AllocInv
  BY DEF IInv
<1>3. /\ op \in OpType /\ op.pos \in Nat /\ L \in Nat /\ L > 0 /\ DOMAIN View = 1 .. L
      /\ opens \in 0 .. MaxOpens /\ edits \in 0 .. MaxEdits /\ IsTable(table) /\ DOMAIN table = 1 .. L
  BY TypesAre
<1>4. C \in Nat /\ C > 0 /\ C % PerSector = 0 /\ PerSector \in Nat /\ PerSector > 0 /\ MaxTable \in Nat
  BY DirectoryAssumption
<1>5. op.n < Entries /\ op.pos = L /\ Run(View, L + 1, op.n) /\ L + C <= MaxTable
  BY <1>1, <1>2 DEF AllocInv
<1>6. /\ DOMAIN table' = 1 .. L + C /\ Len(table') = L + C /\ IsTable(table')
      /\ \A i \in 1 .. L : table'[i] = View[i]
      /\ \A i \in 1 .. L + C : i > L => table'[i] = Stale
  <2>1. View \in Seq(Range(View)) /\ Len(View) = L
    <3>1. Len(View) = L /\ View = [i \in 1 .. L |-> View[i]]
      BY <1>3, ViewIs DEF IsTable
    <3>2. View \in [1 .. L -> Range(View)]
      BY <1>3, <3>1 DEF Range
    <3> QED
      BY <1>3, <3>1, <3>2
  <2>2. [i \in 1 .. C |-> Stale] \in Seq({Stale}) /\ Len([i \in 1 .. C |-> Stale]) = C
    BY <1>4
  <2>3. longer = [i \in 1 .. L + C |-> IF i <= L THEN View[i] ELSE Stale]
    <3> DEFINE s == [i \in 1 .. C |-> Stale]
               S == Range(View) \cup {Stale}
    <3>1. View \in Seq(S) /\ s \in Seq(S) /\ Len(s) = C /\ \A i \in 1 .. C : s[i] = Stale
      BY <1>3, <1>4, <2>1, <2>2
    <3> HIDE DEF s, S
    <3>2. View \o s = [i \in 1 .. L + C |-> IF i <= L THEN View[i] ELSE s[i - L]]
      <4> HIDE DEF L, C
      <4>1. /\ View \o s \in Seq(S) /\ Len(View \o s) = L + C
            /\ \A i \in 1 .. L + C : (View \o s)[i] = IF i <= L THEN View[i] ELSE s[i - L]
        BY <2>1, <3>1, ConcatProperties
      <4>2. L + C \in Nat
        BY <1>3, <1>4
      <4> DEFINE v == View \o s
      <4>3. v \in Seq(S) /\ Len(v) = L + C
        BY <4>1
      <4> HIDE DEF v
      <4>4. v = [i \in 1 .. L + C |-> v[i]]
        BY <4>2, <4>3
      <4> QED
        BY <4>1, <4>4 DEF v
    <3>3. \A i \in 1 .. L + C : i > L => i - L \in 1 .. C
      BY <1>3, <1>4
    <3>5. View \o s = [i \in 1 .. L + C |-> IF i <= L THEN View[i] ELSE Stale]
      BY <3>1, <3>2, <3>3, <1>3, <1>4
    <3> QED
      BY <3>5 DEF s
  <2> HIDE DEF longer
  <2>4. L % C = 0
    BY <1>3 DEF IsTable
  <2>5. (L + C) % C = 0 /\ L + C \in 1 .. MaxTable /\ L + C \in Nat
    <3>1. L + C \in 1 .. MaxTable /\ L + C \in Nat
      BY <1>3, <1>4, <1>5
    <3> HIDE DEF L, C
    <3> QED
      BY <1>3, <1>4, <2>4, <3>1, WholeMore
  <2> HIDE DEF L, C
  <2>6. DOMAIN longer = 1 .. L + C /\ Len(longer) = L + C
    BY <2>3, <2>5
  <2>7. longer = [i \in 1 .. L + C |-> longer[i]]
    BY <2>3, <2>6
  <2>8. IsTable(longer)
    BY <2>5, <2>6, <2>7 DEF IsTable, C
  <2>9. \A i \in 1 .. L + C : longer[i] = IF i <= L THEN View[i] ELSE Stale
    BY <2>3
  <2>10. \A i \in 1 .. L : i \in 1 .. L + C /\ i <= L
    BY <1>3, <1>4
  <2>11. \A i \in 1 .. L + C : i > L => ~(i <= L)
    BY <1>3, <1>4
  <2> QED
    BY <1>1, <2>6, <2>8, <2>9, <2>10, <2>11
<1> HIDE DEF longer
<1>7. /\ op' \in OpType /\ op'.at = "zero" /\ op'.pos = L + 1 /\ op'.pos \in 0 .. L + C
      /\ op'.n = op.n /\ op'.name = op.name /\ op'.num = op.num /\ op'.call = op.call
  <2>1. op' = [call |-> op.call, name |-> op.name, at |-> "zero", pos |-> L + 1,
               ord |-> op.ord, sum |-> op.sum, num |-> op.num, n |-> op.n, res |-> op.res]
    BY <1>1, <1>3, <1>5 DEF OpType
  <2>2. L + 1 \in Nat /\ L + 1 \in 0 .. L + C
    BY <1>3, <1>4
  <2> HIDE DEF L, C
  <2> QED
    BY <1>3, <2>1, <2>2 DEF OpType
<1> HIDE DEF L, C
<1>8. \A i \in 1 .. L + C : i \in 1 .. L \/ i > L
  BY <1>3, <1>4
<1>9. ASSUME NEW m \in 1 .. L + C
      PROVE  HeldAt(table', m)
  <2>1. CASE m > L
    <3>1. table'[m] = Stale
      BY <1>6, <2>1
    <3> QED
      BY <3>1, NewHeld
  <2>2. CASE m \in 1 .. L
    <3>1. HeldAt(View, m) /\ table'[m] = View[m] /\ m \in Nat
      BY <1>2, <1>3, <1>6, <2>2, HeldIs DEF HeldInv
    <3>2. \A k \in 1 .. m : \A j \in k .. m - 1 : j \in 1 .. L
      BY <1>3, <2>2
    <3>3. \A k \in 1 .. m : \A j \in k .. m - 1 : table'[j] = View[j]
      BY <1>6, <3>2
    <3> QED
      BY <3>1, <3>3, StillHeld
  <2> QED
    BY <1>8, <2>1, <2>2
<1>10. Zeroed => \A i \in 1 .. L : View[i].kind # "stale"
  <2>1. \A i \in 1 .. L : View[i].kind = "stale" => table[i].kind = "stale"
    BY <1>2, StaleIs DEF L
  <2> QED
    BY <1>1, <1>3, <2>1 DEF Zeroed
<1>11. TornInv'
  <2>1. Zeroed' <=> \A i \in 1 .. L + C : table'[i].kind = "stale" => i > (L + C) - C
    BY <1>6, <1>7 DEF Zeroed, C
  <2>2. (L + C) - C = L /\ \A i \in 1 .. L : i \in 1 .. L + C /\ ~(i > L)
    BY <1>3, <1>4
  <2>3. Zeroed => Zeroed'
    BY <1>6, <1>8, <1>10, <2>1, <2>2
  <2> QED
    BY <1>1, <1>2, <2>3 DEF TornInv
<1>12. ~torn' => Distinct(table') /\ Marked(table')
  <2> SUFFICES ASSUME ~torn
               PROVE  Distinct(table') /\ Marked(table')
    BY <1>1
  <2>1. Distinct(View) /\ Marked(View)
    BY <1>2 DEF ApartInv
  <2>2. \A j \in DOMAIN table' : table'[j].kind = "sfn" => j \in DOMAIN View /\ table'[j] = View[j]
    BY <1>3, <1>6, <1>8 DEF Stale
  <2>3. Distinct(table')
    BY <2>1, <2>2, DistinctPart
  <2>4. ASSUME NEW i \in 1 .. L + C, NEW j \in 1 .. L + C, table'[i] = End, i < j
        PROVE  table'[j] \in {End, Stale}
    <3>1. CASE j > L
      BY <1>6, <3>1
    <3>2. CASE j \in 1 .. L
      <4>1. i \in 1 .. L
        BY <1>3, <2>4, <3>2
      <4> QED
        BY <1>3, <1>6, <2>1, <2>4, <3>2, <4>1 DEF Marked
    <3> QED
      BY <1>8, <3>1, <3>2
  <2> QED
    BY <1>6, <2>3, <2>4 DEF Marked
<1>13. TypeInv' /\ HeldInv' /\ WindowInv' /\ ApartInv' /\ View' = table'
  <2>1. op'.pos \in 0 .. Len(table')
    BY <1>6, <1>7
  <2>2. \A m \in DOMAIN table' : HeldAt(table', m)
    BY <1>6, <1>9
  <2>3. torn' \in BOOLEAN
    BY <1>1, <1>2 DEF TypeInv
  <2> QED
    BY <1>1, <1>3, <1>6, <1>7, <1>12, <2>1, <2>2, <2>3, FromTable
<1>15. ZeroInv'
  <2>1. L % PerSector = 0 /\ (L + 1) - 1 = L
    <3>1. L % C = 0
      BY <1>3 DEF IsTable, C, L
    <3>2. L % PerSector = 0
      <4> DEFINE P == PerSector
      <4>1. P \in Nat /\ P > 0 /\ C % P = 0
        BY <1>4
      <4> HIDE DEF P
      <4>2. L % P = 0
        BY <1>3, <1>4, <3>1, <4>1, WholeLess
      <4> QED
        BY <4>2 DEF P
    <3> QED
      BY <1>3, <3>2
  <2>2. L + 1 > (L + C) - C /\ L + C > C /\ (L + C) - C = L
    BY <1>3, <1>4
  <2>3. win'.dirty = FALSE
    BY <1>1 DEF NoWindow
  <2>4. \A i \in 1 .. L + C : i > L => table'[i] = Stale /\ i >= L + 1
    BY <1>3, <1>6
  <2> QED
    BY <1>6, <1>7, <2>1, <2>2, <2>3, <2>4 DEF ZeroInv, C
<1>16. cn' = cn /\ fn' = fn /\ Entries' = Entries
  BY <1>7 DEF cn, fn, Entries
<1>17. NameInv'
  BY <1>1, <1>2, <1>7, <1>16 DEF NameInv
<1>18. NewInv'
  <2>1. ASSUME ~torn', NEW j \in DOMAIN table', table'[j].kind = "sfn"
        PROVE  table'[j].fn # fn
    <3>1. j \in 1 .. L /\ table'[j] = View[j]
      BY <1>6, <1>8, <2>1 DEF Stale
    <3> QED
      BY <1>1, <1>2, <1>3, <2>1, <3>1 DEF NewInv
  <2> QED
    BY <1>13, <1>16, <2>1 DEF NewInv
<1>19. AllocInv'
  <2>1. Run(table', L + 1, op.n)
    <3>1. (L + 1) - 1 = L /\ L + 1 \in Nat /\ op.n \in Nat
      BY <1>3 DEF OpType
    <3> QED
      BY <1>5, <1>6, <3>1, RunKept
  <2>2. (L + C) - C + 1 = L + 1
    BY <1>3, <1>4
  <2> QED
    BY <1>5, <1>6, <1>7, <1>13, <1>16, <2>1, <2>2 DEF AllocInv, Run, Free, Vacant, C
<1>20. FindInv' /\ PutInv' /\ RetInv'
  BY <1>7 DEF FindInv, PutInv, RetInv
<1> QED
  BY <1>11, <1>13, <1>15, <1>17, <1>18, <1>19, <1>20 DEF IInv

\* Writing a sector of it with zeros keeps the invariant.
LEMMA ZeroFillStep ==
  ASSUME IInv, ZeroFill
  PROVE  IInv'
<1> DEFINE L == Len(table)
           C == PerCluster
           P == PerSector
           p == op.pos
           sect == {i \in DOMAIN table : SectorOf(i) = SectorOf(op.pos)}
           filled == [i \in DOMAIN table |-> IF i \in sect THEN End ELSE table[i]]
<1>1. /\ op.at = "zero" /\ UNCHANGED <<opens, edits, torn>> /\ table' = filled /\ win' = NoWindow(table')
      /\ \/ p + P <= L /\ op' = [op EXCEPT !.pos = p + P]
         \/ ~(p + P <= L) /\ op' = [op EXCEPT !.at = "alloc", !.pos = L - C + 1]
  BY DEF ZeroFill
<1>2. TypeInv /\ HeldInv /\ WindowInv /\ ApartInv /\ TornInv /\ NameInv /\ NewInv /\ AllocInv /\ ZeroInv
  BY DEF IInv
<1>3. /\ op \in OpType /\ p \in Nat /\ p <= L /\ L \in Nat /\ L > 0 /\ DOMAIN View = 1 .. L
      /\ opens \in 0 .. MaxOpens /\ edits \in 0 .. MaxEdits /\ IsTable(table) /\ DOMAIN table = 1 .. L
  BY TypesAre
<1>4. C \in Nat /\ C > 0 /\ P \in Nat /\ P > 0
  BY DirectoryAssumption
<1>5. /\ View = table /\ (p - 1) % P = 0 /\ p > L - C /\ L > C
      /\ \A i \in 1 .. L : i > L - C => table[i] = End \/ (table[i] = Stale /\ i >= p)
      /\ op.n < Entries /\ Run(View, L - C + 1, op.n)
  BY <1>1, <1>2, <1>3 DEF ZeroInv, WindowInv, AllocInv
<1>6. p > 0
  <2> HIDE DEF L, C, p
  <2> QED
    BY <1>3, <1>4, <1>5
<1>7. \A i \in 1 .. L : i \in sect <=> p <= i /\ i < p + P
  <2>1. \A i \in Nat : i > 0 => (SectorOf(i) = SectorOf(p) <=> p <= i /\ i < p + P)
    BY <1>3, <1>5, <1>6, SectorIs
  <2>2. \A i \in 1 .. L : i \in Nat /\ i > 0
    BY <1>3
  <2> QED
    BY <1>3, <2>1, <2>2
<1> HIDE DEF sect
<1>8. /\ DOMAIN table' = 1 .. L /\ Len(table') = L /\ IsTable(table')
      /\ \A i \in 1 .. L : table'[i] = IF i \in sect THEN End ELSE table[i]
  <2>1. table' = [i \in 1 .. L |-> IF i \in sect THEN End ELSE table[i]]
    BY <1>1, <1>3
  <2>2. L \in 1 .. MaxTable /\ L % PerCluster = 0
    BY <1>3 DEF IsTable
  <2> HIDE DEF L
  <2>3. DOMAIN table' = 1 .. L /\ Len(table') = L
    BY <1>3, <2>1
  <2>4. table' = [j \in 1 .. Len(table') |-> table'[j]]
    BY <2>1, <2>3
  <2> QED
    BY <2>1, <2>2, <2>3, <2>4 DEF IsTable
<1> HIDE DEF filled, L, C, P, p
\* Only entries of the new cluster change.
<1>9. /\ \A i \in 1 .. L : i \in sect => i > L - C /\ table[i] \in {End, Stale} /\ table'[i] = End
      /\ \A i \in 1 .. L : i \notin sect => table'[i] = table[i]
  <2>1. \A i \in 1 .. L : i \in sect => i > L - C
    BY <1>3, <1>4, <1>5, <1>7
  <2> QED
    BY <1>5, <1>8, <2>1
<1>10. ASSUME NEW m \in 1 .. L
       PROVE  HeldAt(table', m)
  <2>1. CASE m \in sect
    <3>1. table'[m] = End
      BY <1>9, <2>1
    <3> QED
      BY <3>1, NewHeld
  <2>2. CASE m \notin sect
    <3>1. HeldAt(table, m) /\ table'[m] = table[m] /\ m \in Nat
      BY <1>2, <1>3, <1>9, <2>2, HeldIs DEF HeldInv
    <3>2. ASSUME NEW k \in 1 .. m, \A j \in k .. m - 1 : table[j].kind = "lfn", NEW j \in k .. m - 1
          PROVE  table'[j] = table[j]
      <4>1. j \in 1 .. L /\ table[j].kind = "lfn"
        BY <1>3, <3>2
      <4>2. table[j] \notin {End, Stale}
        BY <4>1 DEF End, Stale
      <4> QED
        BY <1>9, <4>1, <4>2
    <3> QED
      BY <3>1, <3>2, StillHeld
  <2> QED
    BY <2>1, <2>2
<1>11. Zeroed <=> \A i \in 1 .. L : table[i].kind = "stale" => i > L - C
  BY <1>1, <1>3 DEF Zeroed, L, C
<1>12. ASSUME NEW i \in 1 .. L, i > L - C, table[i].kind = "stale"
       PROVE  i >= p
  BY <1>5, <1>12 DEF End
<1>13. (\A i \in 1 .. L : table'[i].kind = "stale" => i > L - C) <=> Zeroed
  BY <1>9, <1>11 DEF End, Stale
<1>14. ASSUME ~(p + P <= L), NEW i \in 1 .. L, i > L - C
       PROVE  table'[i] = End
  <2>1. CASE i \in sect
    BY <1>9, <2>1
  <2>2. CASE i \notin sect
    <3>1. ~(p <= i /\ i < p + P)
      BY <1>7, <2>2
    <3>2. i < p
      BY <1>3, <1>4, <1>14, <3>1
    <3>3. ~(i >= p)
      BY <1>3, <3>2
    <3> QED
      BY <1>5, <1>9, <1>14, <2>2, <3>3
  <2> QED
    BY <2>1, <2>2
<1>15. /\ op' \in OpType /\ op'.at \in {"zero", "alloc"} /\ op'.pos \in 0 .. L /\ op'.pos > 0
       /\ op'.n = op.n /\ op'.name = op.name /\ op'.num = op.num /\ op'.call = op.call
       /\ op'.at = "zero" => p + P <= L /\ op'.pos = p + P
       /\ op'.at = "alloc" => ~(p + P <= L) /\ op'.pos = L - C + 1
  <2>1. CASE p + P <= L /\ op' = [op EXCEPT !.pos = p + P]
    <3>1. op' = [call |-> op.call, name |-> op.name, at |-> "zero", pos |-> p + P,
                 ord |-> op.ord, sum |-> op.sum, num |-> op.num, n |-> op.n, res |-> op.res]
      BY <1>1, <1>3, <2>1 DEF OpType
    <3>2. p + P \in Nat /\ p + P \in 0 .. L /\ p + P > 0
      BY <1>3, <1>4, <2>1
    <3> QED
      BY <1>3, <2>1, <3>1, <3>2 DEF OpType
  <2>2. CASE ~(p + P <= L) /\ op' = [op EXCEPT !.at = "alloc", !.pos = L - C + 1]
    <3>1. op' = [call |-> op.call, name |-> op.name, at |-> "alloc", pos |-> L - C + 1,
                 ord |-> op.ord, sum |-> op.sum, num |-> op.num, n |-> op.n, res |-> op.res]
      BY <1>1, <1>3, <2>2 DEF OpType
    <3>2. L - C + 1 \in Nat /\ L - C + 1 \in 0 .. L /\ L - C + 1 > 0
      BY <1>3, <1>4, <1>5
    <3> QED
      BY <1>3, <2>2, <3>1, <3>2 DEF OpType
  <2> QED
    BY <1>1, <2>1, <2>2
<1>16. Zeroed' <=> Zeroed
  <2>1. Zeroed' <=> \A i \in 1 .. L : table'[i].kind = "stale" => op'.at = "zero" /\ i > L - C
    BY <1>8 DEF Zeroed, C
  <2>2. CASE op'.at = "zero"
    BY <1>13, <2>1, <2>2
  <2>3. CASE op'.at = "alloc"
    <3>1. \A i \in 1 .. L : i > L - C => table'[i].kind # "stale"
      BY <1>14, <1>15, <2>3 DEF End
    <3> QED
      BY <1>13, <2>1, <2>3, <3>1
  <2> QED
    BY <1>15, <2>2, <2>3
<1>17. ~torn' => Distinct(table') /\ Marked(table')
  <2> SUFFICES ASSUME ~torn
               PROVE  Distinct(table') /\ Marked(table')
    BY <1>1
  <2>1. Distinct(table) /\ Marked(table)
    BY <1>2 DEF ApartInv
  <2>2. \A j \in DOMAIN table' : table'[j].kind = "sfn" => j \in DOMAIN table /\ table'[j] = table[j]
    BY <1>3, <1>8, <1>9 DEF End
  <2>3. Distinct(table')
    BY <2>1, <2>2, DistinctPart
  <2>4. ASSUME NEW i \in 1 .. L, NEW j \in 1 .. L, table'[i] = End, i < j
        PROVE  table'[j] \in {End, Stale}
    <3>1. table[j] \in {End, Stale}
      <4>1. CASE i \in sect
        <5>1. i > L - C
          BY <1>9, <4>1
        <5>2. j > L - C
          BY <1>3, <1>4, <2>4, <5>1
        <5> QED
          BY <1>5, <5>2
      <4>2. CASE i \notin sect
        <5>1. table[i] = End
          BY <1>9, <2>4, <4>2
        <5> QED
          BY <1>3, <2>1, <2>4, <5>1 DEF Marked
      <4> QED
        BY <4>1, <4>2
    <3> QED
      BY <1>9, <3>1
  <2> QED
    BY <1>8, <2>3, <2>4 DEF Marked
<1>18. TypeInv' /\ HeldInv' /\ WindowInv' /\ ApartInv' /\ View' = table'
  <2>1. op'.pos \in 0 .. Len(table')
    BY <1>8, <1>15
  <2>2. \A m \in DOMAIN table' : HeldAt(table', m)
    BY <1>8, <1>10
  <2>3. torn' \in BOOLEAN
    BY <1>1, <1>2 DEF TypeInv
  <2> QED
    BY <1>1, <1>3, <1>8, <1>15, <1>17, <2>1, <2>2, <2>3, FromTable
<1>19. TornInv'
  BY <1>1, <1>2, <1>16 DEF TornInv
<1>20. ZeroInv'
  <2> SUFFICES ASSUME op'.at = "zero"
               PROVE  ZeroInv'
    BY DEF ZeroInv
  <2>1. op'.pos = p + P /\ p + P <= L
    BY <1>15
  <2>2. ((p + P) - 1) % P = 0
    <3>1. p - 1 \in Nat /\ (p + P) - 1 = (p - 1) + P
      BY <1>3, <1>4, <1>6
    <3>2. ((p - 1) + P) % P = 0
      BY <1>4, <1>5, <3>1, WholeMore
    <3> QED
      BY <3>1, <3>2
  <2>3. p + P > L - C
    BY <1>3, <1>4, <1>5
  <2>4. ASSUME NEW i \in 1 .. L, i > L - C
        PROVE  table'[i] = End \/ (table'[i] = Stale /\ i >= p + P)
    <3>1. CASE i \in sect
      BY <1>9, <3>1
    <3>2. CASE i \notin sect
      <4>1. table'[i] = table[i] /\ ~(p <= i /\ i < p + P)
        BY <1>7, <1>9, <3>2
      <4>2. i >= p => i >= p + P
        BY <1>3, <1>4, <4>1
      <4> QED
        BY <1>5, <2>4, <4>1, <4>2
    <3> QED
      BY <3>1, <3>2
  <2>5. win'.dirty = FALSE
    BY <1>1 DEF NoWindow
  <2>6. (op'.pos - 1) % PerSector = 0
    BY <2>1, <2>2 DEF P
  <2> QED
    BY <1>5, <1>8, <2>1, <2>3, <2>4, <2>5, <2>6 DEF ZeroInv, C
<1>21. cn' = cn /\ fn' = fn /\ Entries' = Entries
  BY <1>15 DEF cn, fn, Entries
<1>22. NameInv'
  BY <1>1, <1>2, <1>15, <1>21 DEF NameInv
<1>23. NewInv'
  <2>1. ASSUME ~torn', NEW j \in DOMAIN table', table'[j].kind = "sfn"
        PROVE  table'[j].fn # fn
    <3>1. j \in 1 .. L /\ table'[j] = View[j]
      BY <1>5, <1>8, <1>9, <2>1 DEF End
    <3> QED
      BY <1>1, <1>2, <1>3, <2>1, <3>1 DEF NewInv
  <2> QED
    BY <1>18, <1>21, <2>1 DEF NewInv
<1>24. AllocInv'
  <2>1. Run(table', L - C + 1, op.n)
    <3>1. (L - C + 1) - 1 = L - C /\ L - C + 1 \in Nat /\ op.n \in Nat /\ \A j \in 1 .. L - C : j \in 1 .. L /\ ~(j > L - C)
      BY <1>3, <1>4, <1>5 DEF OpType
    <3>2. \A j \in 1 .. L - C : table'[j] = View[j]
      BY <1>5, <1>9, <3>1
    <3> QED
      BY <1>5, <3>1, <3>2, RunKept
  <2> QED
    BY <1>5, <1>8, <1>15, <1>18, <1>21, <2>1 DEF AllocInv, Run, Free, Vacant, C
<1>25. FindInv' /\ PutInv' /\ RetInv'
  BY <1>15 DEF FindInv, PutInv, RetInv
<1> QED
  BY <1>18, <1>19, <1>20, <1>22, <1>23, <1>24, <1>25 DEF IInv

(***************************************************************************)
(* dir_register().                                                         *)
(***************************************************************************)
\* The short name that is written is one of those the name can have.
LEMMA FnIs ==
  ASSUME NameInv, op.at = "put", op.num \in 0 .. NumMax
  PROVE  fn \in ShortNames(cn.lfn)
<1>1. CreateName(cn.lfn) = cn
  BY AskedIs
<1>2. NumMax \in Nat
  BY NameAssumption
<1>3. CASE op.num = 0
  <2>1. ~cn.loss /\ fn = cn.fn
    BY <1>3 DEF NameInv, fn
  <2> QED
    BY <1>1, <2>1 DEF ShortNames
<1>4. CASE op.num # 0
  <2>1. op.num > 0 /\ op.num \in 1 .. NumMax
    BY <1>2, <1>4
  <2>2. cn.loss /\ fn = GenNumname(cn.fn, op.num)
    BY <1>4, <2>1 DEF NameInv, fn
  <2> QED
    BY <1>1, <2>1, <2>2 DEF ShortNames
<1> QED
  BY <1>3, <1>4

\* A long name is extended by its next entry.
LEMMA ChainLonger ==
  ASSUME NEW t, NEW u, NEW p \in Nat, p > 0, NEW w, NEW s, NEW n \in Nat, NEW E \in Nat,
         E = LfnEntries(w) + 1, LfnEntries(w) \in Nat, n > 1, n <= E,
         n < E => Chain(t, p - (E - n), p - 1, w, s),
         u[p] = FitLfn(w, n - 1, s), \A j \in 1 .. p - 1 : u[j] = t[j]
  PROVE  Chain(u, p - (E - n), p, w, s)
<1> DEFINE N == LfnEntries(w)
           k == p - (E - n)
<1>1. N \in Nat /\ E = N + 1
  OBVIOUS
<1>2. ASSUME n < E
      PROVE  k \in 1 .. p - 1 /\ \A j \in k .. p - 1 : t[j] = FitLfn(w, N - (j - k), s)
  BY <1>2 DEF Chain
<1> HIDE DEF N
<1>3. k \in 1 .. p /\ p - k < N /\ N - (p - k) = n - 1
  <2>1. n = E => k = p
    OBVIOUS
  <2>2. n < E => k \in 1 .. p
    BY <1>2
  <2>3. k \in 1 .. p
    BY <2>1, <2>2
  <2>4. p - k = E - n
    OBVIOUS
  <2> HIDE DEF k
  <2> QED
    BY <1>1, <2>3, <2>4
<1>4. ASSUME NEW j \in k .. p
      PROVE  u[j] = FitLfn(w, N - (j - k), s)
  <2>1. CASE j = p
    BY <1>3, <2>1
  <2>2. CASE j # p
    <3>1. j \in k .. p - 1 /\ k <= p - 1
      BY <1>3, <2>2
    <3>2. n < E
      BY <1>1, <3>1
    <3>3. t[j] = FitLfn(w, N - (j - k), s) /\ j \in 1 .. p - 1
      BY <1>2, <3>1, <3>2
    <3> QED
      BY <3>3
  <2> QED
    BY <2>1, <2>2
<1> QED
  BY <1>3, <1>4 DEF Chain, N

\* dir_register() keeps the invariant as it writes an entry.
LEMMA PutEntryStep ==
  ASSUME IInv, PutEntry
  PROVE  IInv'
<1> DEFINE p == op.pos
           L == Len(table)
           s == SumSfn(fn)
           e == IF op.n > 1 THEN FitLfn(cn.lfn, op.n - 1, s) ELSE Sfn(fn, cn.lfn)
<1>1. /\ op.at = "put" /\ InWindow /\ UNCHANGED <<table, opens, edits, torn>>
      /\ win' = [win EXCEPT !.view[p] = e, !.dirty = TRUE]
      /\ IF op.n > 1 THEN op' = [op EXCEPT !.pos = p + 1, !.n = op.n - 1]
                     ELSE op' = [op EXCEPT !.at = "ret", !.res = "FR_OK"]
  BY DEF PutEntry, Put, Return
<1>2. TypeInv /\ HeldInv /\ WindowInv /\ ApartInv /\ TornInv /\ NameInv /\ NewInv /\ PutInv
  BY DEF IInv
<1>3. /\ op \in OpType /\ p \in Nat /\ p <= L /\ L \in Nat /\ L > 0 /\ DOMAIN View = 1 .. L
      /\ opens \in 0 .. MaxOpens /\ edits \in 0 .. MaxEdits /\ IsTable(table) /\ DOMAIN table = 1 .. L
  BY TypesAre
<1>4. p \in 1 .. L
  BY <1>1, <1>2, SeenIs DEF Working
<1>5. /\ op.n \in 1 .. Entries /\ p + op.n - 1 <= L
      /\ \A j \in p .. p + op.n - 1 : Vacant(View[j])
      /\ p = 1 \/ ~Free(View[p - 1])
      /\ op.n < Entries => Chain(View, p - (Entries - op.n), p - 1, cn.lfn, s)
  BY <1>1, <1>2 DEF PutInv
<1>6. Entries \in Nat /\ Entries = (IF cn.long THEN LfnEntries(cn.lfn) + 1 ELSE 1)
      /\ op.n \in Nat /\ op.n > 0 /\ op.n <= Entries
  BY <1>1, <1>2, <1>5, EntriesPositive
<1>7. /\ cn.lfn \in Stored /\ IsLong(cn.lfn) = cn.long /\ LfnEntries(cn.lfn) \in Nat /\ LfnEntries(cn.lfn) > 0
      /\ ~InvalidName(op.name) /\ fn \in ShortNames(cn.lfn)
  BY <1>1, <1>2, <1>3, AskedIs, FnIs DEF OpType
<1>8. HeldAt(View, p) /\ View[p].kind \notin {"lfn", "sfn"}
  <2>1. p \in p .. p + op.n - 1
    BY <1>3, <1>6
  <2>2. Vacant(View[p])
    BY <1>5, <2>1
  <2> QED
    BY <1>2, <1>3, <1>4, <2>2, HeldIs DEF HeldInv, Vacant, Free, Stale
<1>9. /\ op.n > 1 => e = FitLfn(cn.lfn, op.n - 1, s) /\ e.kind = "lfn" /\ cn.long
      /\ op.n = 1 => e = Sfn(fn, cn.lfn) /\ e.kind = "sfn" /\ e.fn = fn /\ e.who = cn.lfn
      /\ e.kind \in {"lfn", "sfn"}
  BY <1>6 DEF FitLfn, Sfn
<1> HIDE DEF e
<1>10. /\ win'.view = [win.view EXCEPT ![p] = e] /\ win'.sect = win.sect /\ win'.dirty = TRUE
       /\ win' = [sect |-> win'.sect, dirty |-> win'.dirty, view |-> win'.view]
       /\ win.view = [i \in 1 .. L |-> win.view[i]]
  <2>1. win = [sect |-> win.sect, dirty |-> win.dirty, view |-> win.view]
        /\ win.view = [i \in 1 .. L |-> win.view[i]]
    BY <1>2 DEF TypeInv
  <2> HIDE DEF p, L
  <2> QED
    BY <1>1, <2>1
<1>11. /\ DOMAIN View' = 1 .. L /\ View'[p] = e /\ \A j \in 1 .. L : j # p => View'[j] = View[j]
  <2>1. View' = [i \in DOMAIN table |-> IF SectorOf(i) = win.sect THEN win'.view[i] ELSE table[i]]
    BY <1>1, <1>10 DEF View, SectorOf
  <2>2. \A j \in 1 .. L : View[j] = IF SectorOf(j) = win.sect THEN win.view[j] ELSE table[j]
    BY <1>3, ViewIs
  <2>3. SectorOf(p) = win.sect
    BY <1>1 DEF InWindow
  <2>4. \A j \in 1 .. L : win'.view[j] = IF j = p THEN e ELSE win.view[j]
    BY <1>4, <1>10
  <2>5. DOMAIN View' = 1 .. L /\ \A j \in 1 .. L : View'[j] = IF SectorOf(j) = win.sect THEN win'.view[j] ELSE table[j]
    BY <1>3, <2>1
  <2>6. View'[p] = e
    BY <1>4, <2>3, <2>4, <2>5
  <2>7. ASSUME NEW j \in 1 .. L, j # p
        PROVE  View'[j] = View[j]
    BY <2>2, <2>4, <2>5, <2>7
  <2> QED
    BY <2>5, <2>6, <2>7
<1> HIDE DEF p, L, s
<1>12. /\ op' \in OpType /\ op'.pos \in 0 .. L /\ op'.pos > 0
       /\ op'.name = op.name /\ op'.num = op.num /\ op'.call = op.call
       /\ op.n > 1 => op'.at = "put" /\ op'.pos = p + 1 /\ op'.n = op.n - 1
       /\ op.n = 1 => op'.at = "ret" /\ op'.pos = p /\ op'.res = "FR_OK"
  <2>1. CASE op.n > 1
    <3>1. op' = [call |-> op.call, name |-> op.name, at |-> "put", pos |-> p + 1,
                 ord |-> op.ord, sum |-> op.sum, num |-> op.num, n |-> op.n - 1, res |-> op.res]
      BY <1>1, <1>3, <2>1 DEF OpType
    <3>2. p + 1 \in Nat /\ p + 1 \in 0 .. L /\ p + 1 > 0 /\ op.n - 1 \in Nat
      BY <1>3, <1>5, <1>6, <2>1
    <3> QED
      BY <1>3, <2>1, <3>1, <3>2 DEF OpType
  <2>2. CASE op.n = 1
    <3>1. op' = [call |-> op.call, name |-> op.name, at |-> "ret", pos |-> p,
                 ord |-> op.ord, sum |-> op.sum, num |-> op.num, n |-> op.n, res |-> "FR_OK"]
      <4>1. op' = [op EXCEPT !.at = "ret", !.res = "FR_OK"]
        BY <1>1, <2>2
      <4> QED
        BY <1>3, <4>1 DEF OpType, p
    <3>2. p \in 0 .. L /\ p > 0
      BY <1>3, <1>4
    <3> QED
      BY <1>3, <2>2, <3>1, <3>2 DEF OpType
  <2> QED
    BY <1>6, <2>1, <2>2
<1>13. op'.at \in {"put", "ret"}
  BY <1>6, <1>12
<1>14. TypeInv'
  <2>1. IsTable(table)'
    BY <1>1, <1>3 DEF IsTable
  <2>2. (win.sect \in 0 .. SectorOf(Len(table)))'
    BY <1>1, <1>2, <1>10 DEF TypeInv, SectorOf
  <2>3. (win.view = [i \in 1 .. Len(table) |-> win.view[i]])'
    <3>1. win'.view = [i \in 1 .. L |-> win'.view[i]]
      BY <1>10
    <3> QED
      BY <1>1, <3>1 DEF L
  <2>4. (Working => op.pos > 0)'
    BY <1>12 DEF Working
  <2>5. (op.pos \in 0 .. Len(table))'
    BY <1>1, <1>12 DEF L
  <2>6. (op \in OpType)'
    BY <1>12 DEF OpType, Sums
  <2>7. (opens \in 0 .. MaxOpens /\ edits \in 0 .. MaxEdits /\ torn \in BOOLEAN)'
    BY <1>1, <1>2, <1>3 DEF TypeInv
  <2> QED
    BY <1>10, <2>1, <2>2, <2>3, <2>4, <2>5, <2>6, <2>7 DEF TypeInv
<1>15. Zeroed' <=> Zeroed
  BY <1>1, <1>13 DEF Zeroed
<1>16. \A j \in 1 .. p - 1 : View'[j] = View[j]
  <2>1. \A j \in 1 .. p - 1 : j \in 1 .. L /\ j # p
    BY <1>3, <1>4
  <2> QED
    BY <1>11, <2>1
<1>17. op.n > 1 => Chain(View', p - (Entries - op.n), p, cn.lfn, s)
  <2> SUFFICES ASSUME op.n > 1
               PROVE  Chain(View', p - (Entries - op.n), p, cn.lfn, s)
    OBVIOUS
  <2>1. Entries = LfnEntries(cn.lfn) + 1 /\ View'[p] = FitLfn(cn.lfn, op.n - 1, s) /\ p > 0
    BY <1>3, <1>4, <1>6, <1>9, <1>11
  <2> QED
    BY <1>3, <1>5, <1>6, <1>7, <1>16, <2>1, ChainLonger
<1>18. ASSUME NEW m \in 1 .. L
       PROVE  HeldAt(View', m)
  <2>1. CASE m # p
    <3>1. HeldAt(View, m) /\ View'[m] = View[m] /\ m \in Nat
      BY <1>2, <1>3, <1>11, <2>1, HeldIs DEF HeldInv
    <3>2. ASSUME NEW k \in 1 .. m, \A j \in k .. m - 1 : View[j].kind = "lfn", NEW j \in k .. m - 1
          PROVE  View'[j] = View[j]
      <4>1. j \in 1 .. L /\ View[j].kind = "lfn"
        BY <1>3, <3>2
      <4>2. j # p
        BY <1>8, <4>1
      <4> QED
        BY <1>11, <4>1, <4>2
    <3> QED
      BY <3>1, <3>2, StillHeld
  <2>2. CASE m = p /\ op.n > 1
    <3> DEFINE k == p - (Entries - op.n)
    <3>1. k \in 1 .. p
      BY <1>17, <2>2 DEF Chain
    <3>2. Chain(View', k, p, cn.lfn, SumSfn(fn))
      BY <1>17, <2>2 DEF s
    <3> HIDE DEF k
    <3>3. \E x \in 1 .. m : \E w \in Stored : \E f \in ShortNames(w) :
            IsLong(w) /\ Chain(View', x, m, w, SumSfn(f))
      BY <1>7, <1>9, <2>2, <3>1, <3>2
    <3>4. View'[m].kind = "lfn"
      BY <1>9, <1>11, <2>2
    <3> QED
      BY <3>3, <3>4 DEF HeldAt
  <2>3. CASE m = p /\ op.n = 1
    <3>1. View'[p] = Sfn(fn, cn.lfn) /\ View'[p].kind = "sfn" /\ View'[p].fn = fn /\ View'[p].who = cn.lfn
      BY <1>9, <1>11, <2>3
    <3>2. IsSfn(View'[p])
      BY <1>7, <3>1 DEF IsSfn
    <3>3. ASSUME cn.long
          PROVE  Chain(View', p - LfnEntries(cn.lfn), p - 1, cn.lfn, s)
      <4>1. Entries = LfnEntries(cn.lfn) + 1 /\ op.n < Entries /\ Entries - op.n = LfnEntries(cn.lfn)
        BY <1>6, <1>7, <2>3, <3>3
      <4>2. Chain(View, p - LfnEntries(cn.lfn), p - 1, cn.lfn, s)
        BY <1>5, <4>1
      <4>3. \A j \in p - LfnEntries(cn.lfn) .. p - 1 : j \in 1 .. p - 1
        BY <1>3, <4>2 DEF Chain
      <4> QED
        BY <1>16, <4>2, <4>3, ChainKept
    <3> QED
      BY <1>7, <2>3, <3>1, <3>2, <3>3 DEF HeldAt, s
  <2> QED
    BY <1>6, <2>1, <2>2, <2>3
<1>19. HeldInv'
  <2>1. Held(View')
    BY <1>11, <1>18, HeldIs
  <2>2. Held(table)
    BY <1>2 DEF HeldInv
  <2> QED
    BY <1>1, <2>1, <2>2 DEF HeldInv, Held, Sorts, Chained, Whole, IsSfn, Chain
<1>20. WindowInv'
  <2>1. ASSUME NEW i \in 1 .. L
        PROVE  View'[i] = Stale => table[i] = Stale
    <3>1. View[i] = Stale => table[i] = Stale
      BY <1>2, <1>3 DEF WindowInv
    <3>2. View'[p] # Stale
      BY <1>9, <1>11 DEF Stale
    <3> QED
      BY <1>11, <3>1, <3>2
  <2> QED
    BY <1>1, <1>3, <1>10, <2>1 DEF WindowInv
<1>21. ASSUME ~torn
       PROVE  Distinct(View') /\ Marked(View')
  <2>1. Distinct(View) /\ Marked(View)
    BY <1>2, <1>21 DEF ApartInv
  <2>2. \A j \in 1 .. L : View[j].kind = "sfn" => View[j].fn # fn
    BY <1>1, <1>2, <1>3, <1>21 DEF NewInv
  <2>3. Distinct(View')
    <3> SUFFICES ASSUME NEW i \in 1 .. L, NEW j \in 1 .. L, View'[i].kind = "sfn", View'[j].kind = "sfn",
                        View'[i].fn = View'[j].fn
                 PROVE  i = j
      BY <1>11 DEF Distinct
    <3>1. CASE i # p /\ j # p
      BY <1>3, <1>11, <2>1, <3>1 DEF Distinct
    <3>2. CASE i = p /\ j # p
      <4>1. View'[j] = View[j] /\ View'[i] = e
        BY <1>11, <3>2
      <4>2. e.fn = fn
        BY <1>6, <1>9, <4>1
      <4> QED
        BY <2>2, <4>1, <4>2
    <3>3. CASE i # p /\ j = p
      <4>1. View'[i] = View[i] /\ View'[j] = e
        BY <1>11, <3>3
      <4>2. e.fn = fn
        BY <1>6, <1>9, <4>1
      <4> QED
        BY <2>2, <4>1, <4>2
    <3> QED
      BY <3>1, <3>2, <3>3
  <2>4. \A i \in 1 .. L : View[i] # Stale
    <3> SUFFICES ASSUME NEW i \in 1 .. L, View[i] = Stale
                 PROVE  FALSE
      OBVIOUS
    <3>1. table[i] = Stale
      BY <1>2, <1>3 DEF WindowInv
    <3> QED
      BY <1>1, <1>2, <1>3, <1>21, <3>1 DEF TornInv, Zeroed, Stale
  <2>5. \A i \in 1 .. p - 1 : View[i] # End
    <3> SUFFICES ASSUME NEW i \in 1 .. p - 1, View[i] = End
                 PROVE  FALSE
      OBVIOUS
    <3>1. p - 1 \in 1 .. L /\ i \in 1 .. L /\ p # 1
      BY <1>3, <1>4
    <3>2. View[p - 1] = End
      <4>1. CASE i = p - 1
        BY <4>1
      <4>2. CASE i < p - 1
        BY <1>3, <2>1, <2>4, <3>1, <4>2 DEF Marked
      <4> QED
        BY <1>3, <4>1, <4>2
    <3> QED
      BY <1>5, <3>1, <3>2 DEF Free, End
  <2>6. ASSUME NEW i \in 1 .. L, NEW j \in 1 .. L, View'[i] = End, i < j
        PROVE  View'[j] \in {End, Stale}
    <3>1. i # p
      BY <1>9, <1>11, <2>6 DEF End
    <3>2. View[i] = End
      BY <1>11, <2>6, <3>1
    <3>3. j # p
      <4> SUFFICES ASSUME j = p
                   PROVE  FALSE
        OBVIOUS
      <4>1. i \in 1 .. p - 1
        BY <1>3, <2>6
      <4> QED
        BY <2>5, <3>2, <4>1
    <3>4. View[j] \in {End, Stale}
      BY <1>3, <2>1, <2>6, <3>2 DEF Marked
    <3> QED
      BY <1>11, <3>3, <3>4
  <2> QED
    BY <1>11, <2>3, <2>6 DEF Marked
<1>22. ApartInv'
  <2>1. ~torn => Distinct(table) /\ Marked(table)
    BY <1>2 DEF ApartInv
  <2> QED
    BY <1>1, <1>21, <2>1 DEF ApartInv, Distinct, Marked
<1>23. TornInv' /\ ZeroInv' /\ FindInv' /\ AllocInv'
  <2>1. TornInv'
    BY <1>1, <1>2, <1>15 DEF TornInv
  <2> QED
    BY <1>13, <2>1 DEF ZeroInv, FindInv, AllocInv
<1>24. cn' = cn /\ fn' = fn /\ Entries' = Entries
  BY <1>12 DEF cn, fn, Entries
<1>25. NameInv'
  BY <1>1, <1>2, <1>12, <1>13, <1>24 DEF NameInv
<1>26. NewInv'
  <2>1. ASSUME ~torn', op'.at = "put", NEW j \in 1 .. L, View'[j].kind = "sfn"
        PROVE  View'[j].fn # fn
    <3>1. j # p
      BY <1>6, <1>9, <1>11, <1>12, <2>1
    <3> QED
      BY <1>1, <1>2, <1>3, <1>11, <2>1, <3>1 DEF NewInv
  <2> QED
    BY <1>11, <1>13, <1>24, <2>1 DEF NewInv
<1>27. PutInv'
  <2> SUFFICES ASSUME op'.at = "put"
               PROVE  PutInv'
    BY DEF PutInv
  <2>1. op.n > 1 /\ op'.pos = p + 1 /\ op'.n = op.n - 1
    BY <1>6, <1>12
  <2>2. /\ op.n - 1 \in 1 .. Entries /\ (p + 1) + (op.n - 1) - 1 <= L
        /\ (p + 1) - 1 = p /\ (p + 1) - (Entries - (op.n - 1)) = p - (Entries - op.n)
    <3> DEFINE E == Entries
               n == op.n
    <3>1. E \in Nat /\ n \in Nat /\ n > 1 /\ n <= E /\ p + n - 1 <= L
      BY <1>5, <1>6, <2>1
    <3> HIDE DEF E, n
    <3>2. n - 1 \in 1 .. E
      BY <3>1
    <3>3. (p + 1) + (n - 1) - 1 <= L /\ (p + 1) - 1 = p
      BY <1>3, <3>1
    <3>4. (p + 1) - (E - (n - 1)) = p - (E - n)
      BY <1>3, <3>1
    <3> QED
      BY <3>2, <3>3, <3>4 DEF E, n
  <2>3. ASSUME NEW j \in p + 1 .. (p + 1) + (op.n - 1) - 1
        PROVE  Vacant(View'[j])
    <3>1. j \in p .. p + op.n - 1 /\ j \in 1 .. L /\ j # p
      BY <1>3, <1>4, <1>5, <1>6, <2>1
    <3> QED
      BY <1>5, <1>11, <3>1
  <2>4. ~Free(View'[p])
    BY <1>9, <1>11 DEF Free
  <2>5. Chain(View', (p + 1) - (Entries - (op.n - 1)), (p + 1) - 1, cn.lfn, s)
    BY <1>17, <2>1, <2>2
  <2>6. Len(table)' = L
    BY <1>1 DEF L
  <2>7. /\ op'.n \in 1 .. Entries' /\ op'.pos + op'.n - 1 <= Len(table)'
        /\ \A j \in op'.pos .. op'.pos + op'.n - 1 : Vacant(View'[j])
        /\ op'.pos = 1 \/ ~Free(View'[op'.pos - 1])
        /\ Chain(View', op'.pos - (Entries' - op'.n), op'.pos - 1, cn'.lfn, SumSfn(fn'))
    BY <1>24, <2>1, <2>2, <2>3, <2>4, <2>5, <2>6 DEF s
  <2> QED
    BY <2>7 DEF PutInv, Vacant, Free, Chain
<1>28. RetInv'
  <2> SUFFICES ASSUME op'.at = "ret"
               PROVE  RetInv'
    BY DEF RetInv
  <2>1. op.n = 1 /\ op'.pos = p /\ op'.res = "FR_OK"
    BY <1>6, <1>12
  <2>2. View'[p].kind = "sfn" /\ View'[p].who = cn.lfn
    BY <1>9, <1>11, <2>1
  <2> QED
    BY <1>7, <1>12, <1>24, <2>1, <2>2 DEF RetInv
<1> QED
  BY <1>14, <1>19, <1>20, <1>22, <1>23, <1>25, <1>26, <1>27, <1>28 DEF IInv

(***************************************************************************)
(* The theorems.                                                           *)
(***************************************************************************)
\* Every step keeps the invariant.
LEMMA NextStep ==
  ASSUME IInv, [Next]_vars
  PROVE  IInv'
<1>1. CASE OpStep
  BY <1>1, MoveWindowStep, FindStep, AllocStep, StretchStep, ZeroFillStep, PutEntryStep DEF OpStep
<1>2. CASE CallReturns \/ Sync \/ PowerLoss \/ PcDeletes
  BY <1>2, CallReturnsStep, SyncStep, PowerLossStep, PcDeletesStep
<1>3. CASE \E name \in Names : Open("open", name) \/ Open("create", name)
  BY <1>3, OpenStep
<1>4. CASE UNCHANGED vars
  BY <1>4, StutterStep
<1> QED
  BY <1>1, <1>2, <1>3, <1>4 DEF Next

\* IInv holds in every reachable state of the directory.
THEOREM DirectoryInvariant == Spec => []IInv
<1>1. Init => IInv
  BY InitHolds
<1>2. IInv /\ [Next]_vars => IInv'
  BY NextStep
<1> QED
  BY <1>1, <1>2, PTL DEF Spec

\* The types of the directory and of the call.
LEMMA TypesHold ==
  ASSUME IInv
  PROVE  TypeOK
<1>1. TypeInv /\ HeldInv
  BY DEF IInv
<1>2. IsTable(table) /\ Len(table) \in Nat /\ DOMAIN table = 1 .. Len(table) /\ Len(table) <= MaxTable
  BY <1>1, TableDomain DEF TypeInv
<1>3. \A i \in DOMAIN table : table[i].kind \in {"end", "deleted", "volume", "stale", "lfn", "sfn"}
  BY <1>1, HeldIs, KindsAre DEF HeldInv
<1>4. DOMAIN win.view = DOMAIN table
  <2>1. win.view = [i \in 1 .. Len(table) |-> win.view[i]]
    BY <1>1 DEF TypeInv
  <2>2. DOMAIN win.view = 1 .. Len(table)
    BY <2>1
  <2> QED
    BY <1>2, <2>2
<1> QED
  BY <1>1, <1>2, <1>3, <1>4 DEF TypeOK, TypeInv

\* A cluster that dir_next() links to the directory holds no entries of its own, but
\* while it is written with zeros and after a loss of power in that very time.
THEOREM StretchedClean == Spec => []StretchedIsClean
<1>1. IInv => StretchedIsClean
  BY DEF IInv, TornInv, StretchedIsClean, Zeroed
<1> QED
  BY <1>1, DirectoryInvariant, PTL

\* dir_register() gives no file the short name of another, for every number of names,
\* entries, calls, losses of power and deletions by a PC, unless a loss of power has left
\* a cluster that was not zeroed.
THEOREM ShortNamesAlwaysDiffer == Spec => []ShortNamesDiffer
<1>1. IInv => ShortNamesDiffer
  BY DEF IInv, ApartInv, ShortNamesDiffer
<1> QED
  BY <1>1, DirectoryInvariant, PTL

\* A file has its whole long name, or nobody else's.
LEMMA NamesHold ==
  ASSUME IInv, SumsTellApart
  PROVE  NamesAreWhole
<1>1. /\ IsTable(table) /\ Len(table) \in Nat /\ DOMAIN table = 1 .. Len(table) /\ Held(table)
  BY TypesAre DEF IInv, HeldInv
<1> SUFFICES ASSUME NEW i \in 1 .. Len(table), table[i].kind = "sfn"
             PROVE  IF CreateName(table[i].who).long THEN LongName(table, i) = table[i].who
                    ELSE LongName(table, i) = <<>> \/ SameName(LongName(table, i), table[i].who)
                           \/ table[i - 1] = Stale
  BY <1>1 DEF NamesAreWhole
<1> DEFINE who == table[i].who
           name == LongName(table, i)
<1>2. HeldAt(table, i)
  BY <1>1, HeldIs
<1>3. /\ who \in Stored /\ table[i].fn \in ShortNames(who)
      /\ ~CreateName(who).loss => table[i].fn = CreateName(who).fn
      /\ CreateName(who).loss => IsLong(who)
  BY <1>2, KindsAre, SfnIs
<1>4. CASE IsLong(who)
  <2>1. Chain(table, i - LfnEntries(who), i - 1, who, SumSfn(table[i].fn))
    BY <1>2, <1>4 DEF HeldAt
  <2>2. name = who
    <3>1. i \in Int
      BY <1>1
    <3> HIDE DEF who
    <3> QED
      BY <1>3, <2>1, <3>1, OwnName
  <2> QED
    BY <1>4, <2>2 DEF IsLong
<1>5. CASE ~IsLong(who)
  <2> SUFFICES ASSUME name # <<>>
               PROVE  SameName(name, who)
    BY <1>5 DEF IsLong
  <2>1. PICK w \in Stored : \E f \in ShortNames(w) :
           IsLong(w) /\ SumSfn(f) = SumSfn(table[i].fn) /\ name = w
    BY <1>1, ReadName DEF Held, IsTable
  <2>2. PICK f \in ShortNames(w) : IsLong(w) /\ SumSfn(f) = SumSfn(table[i].fn) /\ name = w
    BY <2>1
  <2>3. ~CreateName(who).loss /\ SumSfn(f) = SumSfn(CreateName(who).fn)
    BY <1>3, <1>5, <2>2
  <2>4. SameName(who, w)
    BY <1>3, <2>2, <2>3 DEF SumsTellApart
  <2> QED
    BY <2>2, <2>4 DEF SameName
<1> QED
  BY <1>4, <1>5

\* A file on the card has its whole long name before it as soon as dir_register() has
\* written it there, and one without has nobody else's, if the sums of the names in
\* use tell them apart.  What it directly follows may not have been written.
THEOREM NamesAlwaysWhole ==
  ASSUME SumsTellApart
  PROVE  Spec => []NamesAreWhole
<1>1. IInv => NamesAreWhole
  BY NamesHold
<1> QED
  BY <1>1, DirectoryInvariant, PTL

\* The whole chain that a lookup has matched spells the name.
LEMMA MatchedIs ==
  ASSUME NEW t, NEW m \in Int, NEW k, NEW v \in Seq(Char), Len(v) > 0, Matches(t, k, m, v),
         NEW l, NEW w \in Stored, NEW s, Chain(t, l, m, w, s), t[m].ord = 1
  PROVE  UpperAll(w) = UpperAll(v) /\ t[k].sum = s
<1>1. /\ k \in 1 .. m /\ t[k].last /\ Nearest(t, k, m)
      /\ \A j \in k .. m : TRUE \in CmpLfn(v, t[j])
  BY DEF Matches
<1>2. k = l
  BY <1>1, ChainStart DEF Nearest
<1>3. Linked(t, k, m, LfnEntries(w), s)
  BY <1>2, ChainIs
<1>4. t[k].sum = s
  <2>1. k \in k .. m
    BY <1>1
  <2> QED
    BY <1>3, <2>1 DEF Linked
<1>5. Entire(t, m, w, s) /\ \A o \in 1 .. LfnEntries(w) : m + 1 - o \in k .. m
  BY <1>2, ChainWhole
<1>6. \A o \in 1 .. LfnEntries(w) : TRUE \in CmpLfn(v, FitLfn(w, o, s))
  BY <1>1, <1>5 DEF Entire
<1>7. w \in Seq(Char) /\ Len(w) > 0
  BY StoredIs
<1> QED
  BY <1>4, <1>6, <1>7, AllMatch

\* What a lookup has found is what it was asked for.
LEMMA FoundHolds ==
  ASSUME IInv, SumsTellApart
  PROVE  FoundIsAsked
<1> SUFFICES ASSUME op.at = "ret", op.res = "FR_OK",
                    View[op.pos] # Stale, ~(op.pos > 1 /\ View[op.pos - 1] = Stale)
             PROVE  View[op.pos].kind = "sfn" /\ SameName(View[op.pos].who, op.name)
  BY DEF FoundIsAsked
<1> DEFINE p == op.pos
           who == View[p].who
           lfn == Stripped(op.name)
<1>1. NameInv /\ HeldInv /\ RetInv
  BY DEF IInv
<1>2. p \in Nat /\ p <= Len(table) /\ Len(table) \in Nat /\ DOMAIN View = 1 .. Len(table)
  BY TypesAre
<1>3. /\ p > 0 /\ View[p].kind = "sfn" /\ ~InvalidName(op.name) /\ op.name \in Names
      /\ \/ who = cn.lfn
         \/ ~cn.loss /\ View[p].fn = cn.fn
         \/ \E k \in 1 .. p - 1 : /\ Matches(View, k, p - 1, cn.lfn)
                                  /\ View[p - 1].ord = 1
                                  /\ View[k].sum = SumSfn(View[p].fn)
  BY <1>1 DEF RetInv, NameInv, Behind
<1>4. /\ Proper(lfn) /\ lfn \in Stored /\ \A i \in 1 .. Len(lfn) : lfn[i] # "05"
      /\ cn.lfn = lfn /\ CreateName(lfn) = cn /\ Stripped(lfn) = lfn /\ lfn \in Seq(Char) /\ Len(lfn) > 0
  <2>1. Proper(lfn) /\ lfn \in Stored /\ \A i \in 1 .. Len(lfn) : lfn[i] # "05"
    BY <1>3, NameIs
  <2>2. cn.lfn = lfn /\ CreateName(lfn) = cn /\ Stripped(lfn) = lfn
    BY <2>1, CreateIs, CreateStripped DEF cn
  <2> QED
    BY <2>1, <2>2 DEF Proper
<1>5. p \in 1 .. Len(table) /\ HeldAt(View, p)
  BY <1>1, <1>2, <1>3, HeldIs DEF HeldInv
<1>6. /\ who \in Stored /\ View[p].fn \in ShortNames(who)
      /\ ~CreateName(who).loss => View[p].fn = CreateName(who).fn
      /\ CreateName(who).loss => IsLong(who)
  <2> HIDE DEF p
  <2> QED
    BY <1>3, <1>5, KindsAre, SfnIs
<1>7. /\ Stripped(who) = who /\ Proper(who) /\ \A i \in 1 .. Len(who) : who[i] # "05"
      /\ SameName(who, op.name) <=> UpperAll(who) = UpperAll(lfn)
  <2>1. Stripped(who) = who /\ Proper(who) /\ \A i \in 1 .. Len(who) : who[i] # "05"
    BY <1>6, StoredIs
  <2> QED
    BY <2>1 DEF SameName
<1>8. CASE who = cn.lfn
  BY <1>3, <1>4, <1>7, <1>8
<1>9. CASE ~cn.loss /\ View[p].fn = cn.fn
  <2>1. CASE ~CreateName(who).loss
    <3>1. CreateName(who).fn = cn.fn /\ ~CreateName(lfn).loss /\ CreateName(lfn).fn = cn.fn
      BY <1>4, <1>6, <1>9, <2>1
    <3> HIDE DEF who, lfn
    <3>2. SameName(who, lfn)
      BY <1>4, <1>7, <2>1, <3>1, ShortTellsName
    <3> QED
      BY <1>3, <1>4, <1>7, <3>2 DEF SameName, who
  <2>2. CASE CreateName(who).loss
    <3>1. SumSfn(View[p].fn) = SumSfn(CreateName(lfn).fn) /\ ~CreateName(lfn).loss
      BY <1>4, <1>9
    <3>2. SameName(lfn, who)
      BY <1>4, <1>6, <2>2, <3>1 DEF SumsTellApart
    <3> QED
      BY <1>3, <1>4, <1>7, <3>2 DEF SameName
  <2> QED
    BY <2>1, <2>2
<1>10. CASE \E k \in 1 .. p - 1 : /\ Matches(View, k, p - 1, cn.lfn)
                                  /\ View[p - 1].ord = 1
                                  /\ View[k].sum = SumSfn(View[p].fn)
  <2>1. PICK k \in 1 .. p - 1 : /\ Matches(View, k, p - 1, lfn)
                                /\ View[p - 1].ord = 1
                                /\ View[k].sum = SumSfn(View[p].fn)
    BY <1>4, <1>10
  <2> DEFINE m == p - 1
  <2>2. m \in Int /\ m \in 1 .. Len(table) /\ m \in k .. m
    BY <1>2
  <2>3. CASE IsLong(who)
    <3>1. Chain(View, p - LfnEntries(who), m, who, SumSfn(View[p].fn))
      BY <1>3, <1>5, <2>3 DEF HeldAt
    <3>2. Matches(View, k, m, lfn) /\ View[m].ord = 1
      BY <2>1
    <3> HIDE DEF m, who, lfn
    <3>3. UpperAll(who) = UpperAll(lfn)
      BY <1>4, <1>6, <2>2, <3>1, <3>2, MatchedIs
    <3> QED
      BY <1>3, <1>7, <3>3 DEF who
  <2>4. CASE ~IsLong(who)
    <3>1. Matches(View, k, m, lfn) /\ View[m].ord = 1 /\ View[k].sum = SumSfn(View[p].fn)
      BY <2>1
    <3>2. HeldAt(View, m)
      BY <1>1, <1>2, <2>2, HeldIs DEF HeldInv
    <3> HIDE DEF m, lfn
    <3>3. View[m].kind = "lfn"
      BY <2>2, <3>1 DEF Matches
    <3>4. PICK l \in 1 .. m : \E w \in Stored : \E f \in ShortNames(w) :
            IsLong(w) /\ Chain(View, l, m, w, SumSfn(f))
      BY <3>2, <3>3 DEF HeldAt
    <3>5. PICK w \in Stored : \E f \in ShortNames(w) : IsLong(w) /\ Chain(View, l, m, w, SumSfn(f))
      BY <3>4
    <3>6. PICK f \in ShortNames(w) : IsLong(w) /\ Chain(View, l, m, w, SumSfn(f))
      BY <3>5
    <3>7. UpperAll(w) = UpperAll(lfn) /\ View[k].sum = SumSfn(f)
      BY <1>4, <2>2, <3>1, <3>6, MatchedIs
    <3>8. ~CreateName(who).loss /\ SumSfn(f) = SumSfn(CreateName(who).fn)
      BY <1>6, <2>4, <3>1, <3>7
    <3>9. SameName(who, w)
      BY <1>6, <3>6, <3>8 DEF SumsTellApart
    <3>10. Stripped(w) = w
      BY StoredIs
    <3> QED
      BY <1>3, <1>7, <3>7, <3>9, <3>10 DEF SameName
  <2> QED
    BY <2>3, <2>4
<1> QED
  BY <1>3, <1>8, <1>9, <1>10

\* dir_find() finds the file that was asked for and no other, and does find it when it
\* is there, whatever parts of long names are left in the directory, if the sums of
\* the names in use tell them apart.  The exceptions are those of LookupIsRight: what is
\* in, directly behind or after a cluster that was not written when the power failed,
\* and a file with a name at the limit of _MAX_LFN.
THEOREM LookupAlwaysRight ==
  ASSUME SumsTellApart
  PROVE  Spec => []LookupIsRight
<1>1. IInv => LookupIsRight
  <2> SUFFICES ASSUME IInv
               PROVE  LookupIsRight
    OBVIOUS
  <2>1. TypeOK /\ FoundIsAsked
    BY TypesHold, FoundHolds
  <2>2. MissingIsAbsent
    BY DEF IInv, RetInv, MissingIsAbsent
  <2> QED
    BY <2>1, <2>2 DEF LookupIsRight
<1> QED
  BY <1>1, DirectoryInvariant, PTL
===============================================================================
