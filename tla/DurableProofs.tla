---------------------------- MODULE DurableProofs ----------------------------
(***************************************************************************)
(* What is on the card of the files, for every number of files, clusters,  *)
(* sectors and mounts, and every power failure and failed access: a file   *)
(* has the size of what was written to it, a sync that has written the     *)
(* window back leaves all of it on the card, what is on the card of a log  *)
(* is at every moment a beginning of what was written (the refinement of   *)
(* DurableLog), and the configuration is read to the end of its first      *)
(* line.                                                                   *)
(*                                                                         *)
(* FInv is the inductive invariant, added to the one of LogFilesProofs,    *)
(* which says that no cluster is of two files.  Its heart is DataOf: a     *)
(* unit of a file is where the chain of the file says, in the buffer of    *)
(* the object or on the card.  A step of a call can only disturb the file  *)
(* of the call (the lemmas on the others come first), and each step has a  *)
(* lemma on what it does (...Effect) and one on what it keeps of its file  *)
(* (...Own).  A chain is followed by induction over its places, which is   *)
(* an induction over a set of numbers (SetInduction).                      *)
(***************************************************************************)
EXTENDS LogFilesProofs, WellFoundedInduction

(***************************************************************************)
(* Induction over the places of a chain.                                   *)
(***************************************************************************)
LEMMA SetInduction ==
  ASSUME NEW T, 0 \in T, \A n \in Nat : n \in T => n + 1 \in T
  PROVE  \A n \in Nat : n \in T
<1> DEFINE S == {n \in Nat : n \notin T}
<1> SUFFICES ASSUME S # {}
             PROVE  FALSE
  OBVIOUS
<1> DEFINE R == OpToRel(<, Nat)
<1>0. IsWellFoundedOn(R, Nat)
  BY NatLessThanWellFounded
<1>1. S \subseteq Nat
  OBVIOUS
<1> HIDE DEF S
<1>2. PICK x \in S : \A y \in S : ~ (<<y, x>> \in R)
  BY <1>0, <1>1, WFMin
<1>3. \A y \in S : ~ (y < x)
  BY <1>1, <1>2 DEF OpToRel
<1>4. x \in Nat /\ x \notin T /\ x # 0
  BY DEF S
<1>5. x - 1 \in Nat /\ x - 1 < x /\ (x - 1) + 1 = x
  BY <1>4
<1>6. x - 1 \in T
  BY <1>3, <1>5 DEF S
<1> QED
  BY <1>4, <1>5, <1>6

\* The cluster after c.
Succ(fat, c) == IF c \in Clusters THEN fat[c] ELSE 0

\* The walk of a chain is the function that its recursive definition describes.
LEMMA WalkDef ==
  ASSUME NEW fat \in [Clusters -> Links], NEW s \in Links
  PROVE  /\ Walk(fat, s) \in [Nat -> Links]
         /\ Walk(fat, s)[0] = s
         /\ \A i \in Nat : Walk(fat, s)[i + 1] = Succ(fat, Walk(fat, s)[i])
<1> DEFINE Begun(g, n) == /\ g \in [0 .. n -> Links] /\ g[0] = s
                          /\ \A i \in Nat : i < n => g[i + 1] = Succ(fat, g[i])
<1>0. \A c \in Links : Succ(fat, c) \in Links
  BY DEF Succ, Links
<1>1. \A n \in Nat : \E g : Begun(g, n)
  <2> DEFINE T == {n \in Nat : \E g : Begun(g, n)}
  <2>1. 0 \in T
    <3>1. Begun([i \in 0 .. 0 |-> s], 0)
      OBVIOUS
    <3> QED
      BY <3>1
  <2>2. ASSUME NEW n \in Nat, n \in T
        PROVE  n + 1 \in T
    <3>1. PICK g : Begun(g, n)
      BY <2>2
    <3> DEFINE h == [i \in 0 .. n + 1 |-> IF i = n + 1 THEN Succ(fat, g[n]) ELSE g[i]]
    <3>2. h \in [0 .. n + 1 -> Links]
      BY <1>0, <3>1
    <3>3. h[0] = s /\ \A i \in Nat : i < n + 1 => h[i + 1] = Succ(fat, h[i])
      BY <3>1
    <3> HIDE DEF h
    <3>4. Begun(h, n + 1)
      BY <3>2, <3>3
    <3> HIDE DEF Begun
    <3> QED
      BY <3>4
  <2> HIDE DEF T
  <2>3. \A n \in Nat : n \in T
    BY <2>1, <2>2, SetInduction
  <2> QED
    BY <2>3 DEF T
<1>2. \A i \in Nat : \A n, m \in Nat : \A g, h :
        Begun(g, n) /\ Begun(h, m) /\ i <= n /\ i <= m => g[i] = h[i]
  <2> DEFINE T == {i \in Nat : \A n, m \in Nat : \A g, h :
                      Begun(g, n) /\ Begun(h, m) /\ i <= n /\ i <= m => g[i] = h[i]}
  <2>1. 0 \in T
    OBVIOUS
  <2>2. ASSUME NEW i \in Nat, i \in T
        PROVE  i + 1 \in T
    <3> SUFFICES ASSUME NEW n \in Nat, NEW m \in Nat, NEW g, NEW h,
                        Begun(g, n), Begun(h, m), i + 1 <= n, i + 1 <= m
                 PROVE  g[i + 1] = h[i + 1]
      OBVIOUS
    <3>1. i \in Nat /\ i <= n /\ i <= m /\ i < n /\ i < m
      OBVIOUS
    <3>2. g[i] = h[i]
      <4> HIDE DEF Begun
      <4> QED
        BY <2>2, <3>1
    <3>3. g[i + 1] = Succ(fat, g[i]) /\ h[i + 1] = Succ(fat, h[i])
      BY <3>1
    <3> QED
      BY <3>2, <3>3
  <2> HIDE DEF T
  <2>3. \A i \in Nat : i \in T
    BY <2>1, <2>2, SetInduction
  <2> QED
    BY <2>3 DEF T
<1> DEFINE At_(n) == CHOOSE g : Begun(g, n)
           v == [i \in Nat |-> At_(i)[i]]
<1>3. \A n \in Nat : Begun(At_(n), n)
  BY <1>1
<1> HIDE DEF At_
<1>4. \A n \in Nat : At_(n) \in [0 .. n -> Links] /\ At_(n)[0] = s
  BY <1>3
<1>5. v \in [Nat -> Links] /\ v[0] = s
  BY <1>4
<1>6. ASSUME NEW i \in Nat
      PROVE  v[i + 1] = Succ(fat, v[i])
  <2>1. At_(i + 1)[i + 1] = Succ(fat, At_(i + 1)[i])
    BY <1>3
  <2>2. At_(i + 1)[i] = At_(i)[i]
    <3> HIDE DEF Begun
    <3>1. i + 1 \in Nat /\ i <= i + 1 /\ i <= i
      OBVIOUS
    <3>2. Begun(At_(i + 1), i + 1) /\ Begun(At_(i), i)
      BY <1>3, <3>1
    <3> QED
      BY <1>2, <3>1, <3>2
  <2> QED
    BY <2>1, <2>2
<1> HIDE DEF v, Begun
<1> DEFINE H(w) == [i \in Nat |-> IF i = 0 THEN s
                                  ELSE IF w[i - 1] \in Clusters THEN fat[w[i - 1]] ELSE 0]
<1>7. v = H(v)
  <2>1. ASSUME NEW i \in Nat
        PROVE  v[i] = IF i = 0 THEN s ELSE IF v[i - 1] \in Clusters THEN fat[v[i - 1]] ELSE 0
    <3>1. CASE i = 0
      BY <1>5, <3>1
    <3>2. CASE i # 0
      <4>1. i - 1 \in Nat /\ (i - 1) + 1 = i
        BY <3>2
      <4>2. v[(i - 1) + 1] = Succ(fat, v[i - 1])
        BY <1>6, <4>1
      <4> QED
        BY <3>2, <4>1, <4>2 DEF Succ
    <3> QED
      BY <3>1, <3>2
  <2> QED
    BY <1>5, <2>1
<1>8. Walk(fat, s) = CHOOSE w : w = H(w)
  BY DEF Walk
<1>9. Walk(fat, s) = H(Walk(fat, s))
  <2> HIDE DEF H
  <2> QED
    BY <1>7, <1>8
<1> DEFINE w == Walk(fat, s)
<1>10. w = H(w)
  BY <1>9
<1> HIDE DEF w
<1>11. \A i \in Nat : w[i] = IF i = 0 THEN s ELSE IF w[i - 1] \in Clusters THEN fat[w[i - 1]] ELSE 0
  BY <1>10
<1>12. w[0] = s
  BY <1>11
<1>13. \A i \in Nat : w[i + 1] = Succ(fat, w[i])
  <2> TAKE i \in Nat
  <2>1. i + 1 \in Nat /\ i + 1 # 0 /\ (i + 1) - 1 = i
    OBVIOUS
  <2> QED
    BY <1>11, <2>1 DEF Succ
<1>14. \A i \in Nat : w[i] \in Links
  <2>1. \A i \in Nat : i \in {k \in Nat : w[k] \in Links}
    <3>1. 0 \in {k \in Nat : w[k] \in Links}
      BY <1>12
    <3>2. \A i \in Nat : i \in {k \in Nat : w[k] \in Links} => i + 1 \in {k \in Nat : w[k] \in Links}
      BY <1>0, <1>13
    <3> QED
      BY <3>1, <3>2, SetInduction
  <2> QED
    BY <2>1
<1>15. w \in [Nat -> Links]
  BY <1>10, <1>14
<1> QED
  BY <1>12, <1>13, <1>15 DEF w

\* The walk of a chain whose links stay as they are stays as it is.
LEMMA WalkKeeps ==
  ASSUME NEW fat \in [Clusters -> Links], NEW s \in Links,
         NEW fat2 \in [Clusters -> Links],
         \A i \in Nat : Walk(fat, s)[i] \in Clusters /\ Walk(fat, s)[i + 1] \in Clusters
            => fat2[Walk(fat, s)[i]] = fat[Walk(fat, s)[i]]
  PROVE  \A i \in Nat : Walk(fat, s)[i] \in Clusters => Walk(fat2, s)[i] = Walk(fat, s)[i]
<1> DEFINE v == Walk(fat, s)
           w == Walk(fat2, s)
           T == {i \in Nat : v[i] \in Clusters => w[i] = v[i]}
<1>1. v[0] = s /\ w[0] = s /\ v \in [Nat -> Links]
  BY WalkDef
<1>2. \A i \in Nat : v[i + 1] = Succ(fat, v[i]) /\ w[i + 1] = Succ(fat2, w[i])
  BY WalkDef
<1>3. \A i \in Nat : v[i] \in Clusters /\ v[i + 1] \in Clusters => fat2[v[i]] = fat[v[i]]
  OBVIOUS
<1> HIDE DEF v, w
<1>4. 0 \in T
  BY <1>1
<1>5. ASSUME NEW i \in Nat, i \in T
      PROVE  i + 1 \in T
  <2> SUFFICES ASSUME v[i + 1] \in Clusters
               PROVE  w[i + 1] = v[i + 1]
    OBVIOUS
  <2>1. v[i] \in Clusters
    BY <1>2, Constants DEF Succ
  <2>2. w[i] = v[i]
    BY <1>5, <2>1
  <2> QED
    BY <1>2, <1>3, <2>1, <2>2 DEF Succ
<1> HIDE DEF T
<1>6. \A i \in Nat : i \in T
  BY <1>4, <1>5, SetInduction
<1> QED
  BY <1>6 DEF T, v, w

\* What leads to a place of a chain is in the chain.
LEMMA WalkBack ==
  ASSUME NEW fat \in [Clusters -> Links], NEW s \in Links, NEW i \in Nat,
         Walk(fat, s)[i + 1] \in Clusters
  PROVE  /\ Walk(fat, s)[i] \in Clusters
         /\ fat[Walk(fat, s)[i]] = Walk(fat, s)[i + 1]
<1>1. Walk(fat, s)[i + 1] = Succ(fat, Walk(fat, s)[i])
  BY WalkDef
<1> QED
  BY <1>1, Constants DEF Succ

\* The chains of a sound table do not meet, and each runs through a cluster once.
LEMMA WalksApart ==
  ASSUME NEW fat \in [Clusters -> Links], NEW start \in [Files -> Starts], SoundTable(fat, start)
  PROVE  \A n, m \in Files : \A i, j \in Nat :
           /\ Walk(fat, start[n])[i] \in Clusters
           /\ Walk(fat, start[n])[i] = Walk(fat, start[m])[j]
           => n = m /\ i = j
<1> DEFINE w(n) == Walk(fat, start[n])
           T == {i \in Nat : \A n, m \in Files : \A j \in Nat :
                   w(n)[i] \in Clusters /\ w(n)[i] = w(m)[j] => n = m /\ i = j}
<1>1. \A n \in Files : start[n] \in Links
  BY DEF Starts, Links
<1>2. \A n \in Files : w(n)[0] = start[n] /\ \A i \in Nat : w(n)[i + 1] = Succ(fat, w(n)[i])
  BY <1>1, WalkDef
<1>3. \A n \in Files : \A i \in Nat : w(n)[i + 1] \in Clusters =>
         w(n)[i] \in Clusters /\ fat[w(n)[i]] = w(n)[i + 1]
  BY <1>1, WalkBack
<1> HIDE DEF w
<1>4. ASSUME NEW n \in Files, NEW m \in Files, NEW j \in Nat, w(n)[0] \in Clusters, w(n)[0] = w(m)[j]
      PROVE  n = m /\ j = 0
  <2>1. start[n] # 0 /\ start[n] \in Clusters
    BY <1>2, <1>4, Constants
  <2>2. j = 0
    <3> SUFFICES ASSUME j # 0
                 PROVE  FALSE
      OBVIOUS
    <3>1. j - 1 \in Nat /\ (j - 1) + 1 = j
      OBVIOUS
    <3>2. w(m)[j - 1] \in Clusters /\ fat[w(m)[j - 1]] = start[n]
      BY <1>2, <1>3, <1>4, <3>1
    <3> QED
      BY <2>1, <3>2 DEF SoundTable
  <2> QED
    BY <1>2, <1>4, <2>1, <2>2 DEF SoundTable
<1>5. 0 \in T
  BY <1>4
<1>6. ASSUME NEW i \in Nat, i \in T
      PROVE  i + 1 \in T
  <2> SUFFICES ASSUME NEW n \in Files, NEW m \in Files, NEW j \in Nat,
                      w(n)[i + 1] \in Clusters, w(n)[i + 1] = w(m)[j]
               PROVE  n = m /\ i + 1 = j
    OBVIOUS
  <2>1. j # 0
    BY <1>4
  <2>2. j - 1 \in Nat /\ (j - 1) + 1 = j
    BY <2>1
  <2>3. w(n)[i] \in Clusters /\ fat[w(n)[i]] = w(n)[i + 1]
    BY <1>3
  <2>4. w(m)[j - 1] \in Clusters /\ fat[w(m)[j - 1]] = w(m)[j]
    BY <1>3, <2>2
  <2>5. w(n)[i] = w(m)[j - 1]
    BY <2>3, <2>4 DEF SoundTable
  <2>6. n = m /\ i = j - 1
    BY <1>6, <2>2, <2>3, <2>5
  <2> QED
    BY <2>2, <2>6
<1> HIDE DEF T
<1>7. \A i \in Nat : i \in T
  BY <1>5, <1>6, SetInduction
<1> QED
  BY <1>7 DEF T, w

\* A chain of a sound table does not run through a free cluster, nor through one
\* that nothing leads to.
LEMMA WalkInUse ==
  ASSUME NEW fat \in [Clusters -> Links], NEW start \in [Files -> Starts], SoundTable(fat, start),
         NEW n \in Files, NEW i \in Nat, Walk(fat, start[n])[i] \in Clusters
  PROVE  /\ fat[Walk(fat, start[n])[i]] # 0
         /\ \/ \E d \in Clusters : fat[d] = Walk(fat, start[n])[i]
            \/ start[n] = Walk(fat, start[n])[i]
<1>1. start[n] \in Links
  BY DEF Starts, Links
<1>2. CASE i = 0
  <2>1. Walk(fat, start[n])[i] = start[n]
    BY <1>1, <1>2, WalkDef
  <2> QED
    BY <2>1, Constants DEF SoundTable
<1>3. CASE i # 0
  <2>1. i - 1 \in Nat /\ (i - 1) + 1 = i
    BY <1>3
  <2>2. /\ Walk(fat, start[n])[i - 1] \in Clusters
        /\ fat[Walk(fat, start[n])[i - 1]] = Walk(fat, start[n])[i]
    BY <1>1, <2>1, WalkBack
  <2> QED
    BY <2>2 DEF SoundTable
<1> QED
  BY <1>2, <1>3

(***************************************************************************)
(* Where a unit of a file is.                                              *)
(***************************************************************************)
SectOf(c, p) == Clust2Sect(c, (p \div SS) % CSize)

\* Division.
LEMMA Divides ==
  ASSUME NEW a \in Nat, NEW b \in Nat \ {0}, NEW k \in Nat, NEW r \in Nat, a = k * b + r, r < b
  PROVE  a \div b = k /\ a % b = r
<1>1. a = (a \div b) * b + (a % b) /\ a \div b \in Nat /\ a % b \in Nat /\ a % b < b
  OBVIOUS
<1> DEFINE d == a \div b
           e == a % b
<1>2. \A x, y, u, v, z \in Nat : z > 0 /\ x * z + u = y * z + v /\ u < z /\ v < z => x = y /\ u = v
  <2> TAKE x, y, u, v, z \in Nat
  <2> HAVE z > 0 /\ x * z + u = y * z + v /\ u < z /\ v < z
  <2>1. ~ x >= y + 1
    <3> SUFFICES ASSUME x >= y + 1
                 PROVE  FALSE
      OBVIOUS
    <3>1. x * z >= (y + 1) * z
      OBVIOUS
    <3>2. (y + 1) * z = y * z + z
      OBVIOUS
    <3> QED
      BY <3>1, <3>2
  <2>2. ~ y >= x + 1
    <3> SUFFICES ASSUME y >= x + 1
                 PROVE  FALSE
      OBVIOUS
    <3>1. y * z >= (x + 1) * z
      OBVIOUS
    <3>2. (x + 1) * z = x * z + z
      OBVIOUS
    <3> QED
      BY <3>1, <3>2
  <2>3. x = y
    BY <2>1, <2>2
  <2> QED
    BY <2>3
<1>3. d \in Nat /\ e \in Nat /\ e < b /\ d * b + e = k * b + r
  BY <1>1
<1> HIDE DEF d, e
<1>4. d = k /\ e = r
  BY <1>2, <1>3
<1> QED
  BY <1>4 DEF d, e

\* A number, from its quotient and remainder.
LEMMA Splits ==
  ASSUME NEW a \in Nat, NEW b \in Nat \ {0}
  PROVE  /\ a = (a \div b) * b + (a % b) /\ a \div b \in Nat /\ a % b \in Nat /\ a % b < b
OBVIOUS

\* Where a unit is in its sector and in its cluster.
LEMMA SectorOfPlace ==
  ASSUME NEW p \in Nat
  PROVE  /\ p \div SS \in Nat /\ p \div BCS \in Nat
         /\ (p \div SS) \div CSize = p \div BCS
         /\ p % BCS = ((p \div SS) % CSize) * SS + (p % SS)
<1>0. SS \in Nat \ {0} /\ CSize \in Nat \ {0} /\ BCS \in Nat \ {0} /\ BCS = CSize * SS
  BY Constants DEF BCS
<1> DEFINE q == p \div SS
           r == p % SS
           k == q \div CSize
           t == q % CSize
<1>1. p = q * SS + r /\ q \in Nat /\ r \in Nat /\ r < SS
  BY <1>0, Splits
<1>2. q = k * CSize + t /\ k \in Nat /\ t \in Nat /\ t < CSize
  BY <1>0, <1>1, Splits
<1> HIDE DEF q, r, k, t
<1>3. p = k * BCS + (t * SS + r)
  <2>1. q * SS = (k * CSize) * SS + t * SS
    BY <1>0, <1>2
  <2>2. (k * CSize) * SS = k * (CSize * SS)
    BY <1>0, <1>2
  <2> QED
    BY <1>0, <1>1, <1>2, <2>1, <2>2
<1>4. t * SS + r \in Nat /\ t * SS + r < BCS
  <2>1. t + 1 <= CSize
    BY <1>0, <1>2
  <2>2. (t + 1) * SS <= CSize * SS
    BY <1>0, <1>2, <2>1
  <2>3. (t + 1) * SS = t * SS + SS
    BY <1>0, <1>2
  <2> QED
    BY <1>0, <1>1, <1>2, <2>2, <2>3
<1>5. p \div BCS = k /\ p % BCS = t * SS + r
  <2> DEFINE y == t * SS + r
  <2>1. p = k * BCS + y /\ y \in Nat /\ y < BCS
    BY <1>3, <1>4
  <2> HIDE DEF y
  <2>2. p \div BCS = k /\ p % BCS = y
    BY <1>0, <1>2, <2>1, Divides
  <2> QED
    BY <2>2 DEF y
<1> QED
  BY <1>1, <1>2, <1>5 DEF q, r, k, t

\* Two units of a sector of a file.
LEMMA SameSector ==
  ASSUME NEW p \in Nat, NEW q \in Nat, p \div SS = q \div SS
  PROVE  p \div BCS = q \div BCS /\ \A c : SectOf(c, p) = SectOf(c, q)
<1>1. p \div BCS = q \div BCS
  BY SectorOfPlace
<1> QED
  BY <1>1 DEF SectOf

\* and two of different clusters or sectors.
LEMMA SectorsApart ==
  ASSUME NEW p \in Nat, NEW q \in Nat, NEW c \in Clusters, NEW d \in Clusters
  PROVE  /\ SectOf(c, p) \in DataSectors
         /\ SectOf(c, p) \div CSize = c
         /\ SectOf(c, p) = SectOf(d, q) =>
              c = d /\ (p \div BCS = q \div BCS => p \div SS = q \div SS)
<1>0. CSize \in Nat \ {0} /\ c \in Nat /\ d \in Nat /\ p \div SS \in Nat /\ q \div SS \in Nat
  BY Constants, SectorOfPlace
<1>1. (p \div SS) % CSize \in 0 .. CSize - 1 /\ (q \div SS) % CSize \in 0 .. CSize - 1
  BY PlaceOfPointer
<1>2. SectOf(c, p) \in DataSectors
  BY <1>1, SectorOfCluster DEF SectOf
<1>3. \A e \in Nat, k \in 0 .. CSize - 1 : /\ (e * CSize + k) \div CSize = e
                                           /\ (e * CSize + k) % CSize = k
  BY <1>0, Divides
<1>4. SectOf(c, p) = c * CSize + ((p \div SS) % CSize) /\ SectOf(d, q) = d * CSize + ((q \div SS) % CSize)
  BY DEF SectOf, Clust2Sect
<1> DEFINE i == p \div SS
           j == q \div SS
           x == i % CSize
           y == j % CSize
<1>7. x \in 0 .. CSize - 1 /\ y \in 0 .. CSize - 1
  BY <1>1
<1> DEFINE a == SectOf(c, p)
           b == SectOf(d, q)
<1>8. a = c * CSize + x /\ b = d * CSize + y
  BY <1>4
<1> HIDE DEF x, y, a, b
<1>9. a \div CSize = c /\ a % CSize = x /\ b \div CSize = d /\ b % CSize = y
  BY <1>0, <1>3, <1>7, <1>8
<1>5. a \div CSize = c /\ a % CSize = i % CSize /\ b \div CSize = d /\ b % CSize = j % CSize
  BY <1>9 DEF x, y
<1>6. i = (p \div BCS) * CSize + (i % CSize) /\ j = (q \div BCS) * CSize + (j % CSize)
  BY <1>0, Splits, SectorOfPlace
<1> HIDE DEF i, j
<1>10. a = b => c = d /\ (p \div BCS = q \div BCS => i = j)
  BY <1>5, <1>6
<1> QED
  BY <1>2, <1>5, <1>10 DEF a, b, i, j

\* The unit before: of the same sector, of the sector before in the cluster, or of
\* the cluster before.
LEMMA UnitBefore ==
  ASSUME NEW p \in Nat, p # 0
  PROVE  /\ p - 1 \in Nat
         /\ p % SS # 0 => (p - 1) \div SS = p \div SS
         /\ p % BCS # 0 => (p - 1) \div BCS = p \div BCS
         /\ p % BCS = 0 => (p - 1) \div BCS + 1 = p \div BCS
<1>1. \A b \in Nat \ {0} : /\ p % b # 0 => (p - 1) \div b = p \div b
                           /\ p % b = 0 => (p - 1) \div b + 1 = p \div b
  <2> TAKE b \in Nat \ {0}
  <2> DEFINE k == p \div b
             r == p % b
  <2>1. p = k * b + r /\ k \in Nat /\ r \in Nat /\ r < b
    BY Splits
  <2> HIDE DEF k, r
  <2>2. ASSUME r # 0
        PROVE  (p - 1) \div b = k
    <3>1. p - 1 \in Nat /\ r - 1 \in Nat /\ p - 1 = k * b + (r - 1) /\ r - 1 < b
      BY <2>1, <2>2
    <3> QED
      BY <2>1, <3>1, Divides
  <2>3. ASSUME r = 0
        PROVE  (p - 1) \div b + 1 = k
    <3>1. k # 0
      BY <2>1, <2>3
    <3>2. k - 1 \in Nat /\ (k - 1) * b = k * b - b
      BY <2>1, <3>1
    <3>3. p - 1 \in Nat /\ b - 1 \in Nat /\ p - 1 = (k - 1) * b + (b - 1) /\ b - 1 < b
      BY <2>1, <2>3, <3>2
    <3>4. (p - 1) \div b = k - 1
      BY <3>2, <3>3, Divides
    <3> QED
      BY <2>1, <3>4
  <2> QED
    BY <2>2, <2>3 DEF k, r
<1>2. SS \in Nat \ {0} /\ BCS \in Nat \ {0}
  BY Constants
<1>3. p - 1 \in Nat
  OBVIOUS
<1>4. /\ p % SS # 0 => (p - 1) \div SS = p \div SS
      /\ p % BCS # 0 => (p - 1) \div BCS = p \div BCS
      /\ p % BCS = 0 => (p - 1) \div BCS + 1 = p \div BCS
  BY ONLY <1>1, <1>2, Zenon
<1> QED
  BY <1>3, <1>4

\* The units that fit behind p in its sector.
LEMMA UnitsBehind ==
  ASSUME NEW p \in Nat, NEW n \in Nat, n <= SS - (p % SS), NEW i \in Nat, p <= i, i < p + n
  PROVE  i \div SS = p \div SS /\ i % SS = (p % SS) + (i - p)
<1>1. SS \in Nat \ {0}
  BY Constants
<1>2. p = (p \div SS) * SS + (p % SS) /\ p \div SS \in Nat /\ p % SS \in Nat
  BY <1>1, Splits
<1> DEFINE k == p \div SS
           r == p % SS
<1> HIDE DEF k, r
<1>3. i = k * SS + (r + (i - p)) /\ r + (i - p) \in Nat /\ r + (i - p) < SS
  BY <1>1, <1>2 DEF k, r
<1>4. k \in Nat
  BY <1>2 DEF k
<1> QED
  BY <1>1, <1>3, <1>4, Divides DEF k, r

\* On a cluster boundary.
LEMMA AtBoundary ==
  ASSUME NEW p \in Nat
  PROVE  /\ p % SS = 0 /\ (p \div SS) % CSize = 0 => p % BCS = 0
         /\ p % BCS = 0 => p % SS = 0 /\ (p + BCS) % BCS = 0 /\ (p + BCS) \div BCS = p \div BCS + 1
         /\ (p \div SS) % CSize # 0 => p % BCS # 0
         /\ p % SS # 0 => p % BCS # 0
         /\ 0 % BCS = 0 /\ 0 \div BCS = 0
<1>0. SS \in Nat \ {0} /\ CSize \in Nat \ {0} /\ BCS \in Nat \ {0}
  BY Constants
<1>1. p % BCS = ((p \div SS) % CSize) * SS + (p % SS)
  BY SectorOfPlace
<1>2. p % SS \in Nat /\ (p \div SS) % CSize \in Nat
  BY <1>0, PlaceOfPointer
<1> DEFINE t == (p \div SS) % CSize
           r == p % SS
<1> HIDE DEF t, r
<1>3. \A x, y, z \in Nat : z > 0 => ((x * z + y = 0) <=> (x = 0 /\ y = 0))
  <2>1. \A x, z \in Nat : z > 0 /\ x > 0 => x * z > 0
    OBVIOUS
  <2> QED
    BY <2>1
<1>4. p % BCS = 0 <=> t = 0 /\ r = 0
  BY <1>0, <1>1, <1>2, <1>3 DEF t, r
<1>5. ASSUME p % BCS = 0
      PROVE  (p + BCS) % BCS = 0 /\ (p + BCS) \div BCS = p \div BCS + 1
  <2>1. p = (p \div BCS) * BCS /\ p \div BCS \in Nat
    BY <1>0, <1>5, Splits
  <2> DEFINE k == p \div BCS
             b == BCS
  <2> HIDE DEF k, b
  <2>2. k \in Nat /\ b \in Nat \ {0} /\ p + b = (k + 1) * b + 0 /\ p + b \in Nat
    BY <1>0, <2>1 DEF k, b
  <2>3. (p + b) \div b = k + 1 /\ (p + b) % b = 0
    BY <2>2, Divides
  <2> QED
    BY <2>3 DEF k, b
<1>6. 0 % BCS = 0 /\ 0 \div BCS = 0
  BY <1>0
<1> QED
  BY <1>4, <1>5, <1>6 DEF t, r

(***************************************************************************)
(* The contents of the files.                                              *)
(***************************************************************************)

\* The chains of the files, as FatFs has them and as the card has them.
Way     == [n \in Files |-> Walk(Fat, Start[n])]
DiskWay == [n \in Files |-> Walk(disk.fat, disk.dir[n].clust)]

\* Where unit p of a file is, and what the card has there.
Addr(n, p)   == SectOf(Way[n][p \div BCS], p)
OnCard(n, p) == disk.data[Addr(n, p)][p % SS]

\* A write is under way: its file goes up to its pointer.
Pending == op.call = "write" /\ op.at \in {"chunk", "follow", "scan", "link", "place", "copy", "full"}
End(n) == IF Pending /\ n = file THEN fptr ELSE Len(stream[n])
UnitAt(n, p) == IF p < Len(stream[n]) THEN stream[n][p + 1] ELSE <<n, mounts, p>>

\* The calls that sdlog and main make, in order, and how they end.
InSync == {"flush", "entry", "sync", "synced"}
StepInv ==
  /\ op.at # "out" => op.call = CallOf[step][1] /\ file = CallOf[step][2]
  /\ op.at = "out" => op = Idle
  /\ op.at = "ret" /\ op.res = "FR_INVALID_OBJECT" => ~Fp.fs
  /\ op.at \in AtFile \ InSync => ~Fp.err
  /\ op.at \in InSync => op.call \in {"sync", "close"}
  /\ op.at \in {"remove", "back"} => op.call = "create" /\ stream[file] = <<>>

\* The steps before a file is open.
CfgSteps     == {"cfg_open", "cfg_gets", "cfg_close"}
VersionSteps == {"version_open", "version_write", "version_close"}
Before == [config  |-> {"cfg_open"},
           version |-> CfgSteps \cup {"version_open"},
           mpu6000 |-> CfgSteps \cup VersionSteps \cup {"mpu_open", "open"},
           rc      |-> CfgSteps \cup VersionSteps \cup {"mpu_open", "mpu_write", "rc_open"}]

ClosedInv == \A n \in DOMAIN Before :
               fp[n].fs => step \notin Before[n] \/ (op.at = "ret" /\ file = n)

\* An entry of the card whose file has been created anew since.
Old(n) == disk.dir[n].size > Dir[n].size
OldInv == \A n \in Files : Old(n) =>
  /\ stream[n] = <<>> /\ ~fp[n].fs
  /\ \/ op.at = "remove" /\ file = n
     \/ op.at = "ret" /\ file = n /\ op.call = "create" /\ op.res # "FR_OK"
     \/ op.at = "out" /\ step = "dead"

\* The directory of the files is read before it is changed.
DirtyInv == /\ fs.wflag => fs.winsect # RootSect
            /\ op.at = "path" => fs.winsect = RootSect \/ ~fs.wflag

\* An object or an entry has the size of what was written.
StreamType == stream \in [Files -> Seq(Unit)]
SizeOf(n) ==
  /\ fp[n].fs => /\ fp[n].fsize = Len(stream[n])
                 /\ ~fp[n].written => Dir[n].size = fp[n].fsize
  /\ ~fp[n].fs => Dir[n].size = Len(stream[n])
SizeInv == /\ \A n \in Files : SizeOf(n)
           /\ op.at \in {"sync", "synced"} => ~Fp.written

\* A log's pointer is at its end when nothing moves it.
Sought == ~(step = "open" \/ (step = "lseek" /\ op.at # "ret"))
Still(n) == fp[n].fs /\ ~fp[n].err /\ ~(Pending /\ n = file) /\ (n = Log => Sought)
SoughtInv ==
  /\ fp["config"].fs => fp["config"].fptr <= fp["config"].fsize
  /\ fp[Log].fs /\ ~Sought => ~fp[Log].dirty
  /\ fp[Log].fs /\ ~Sought /\ op.at \in {"out", "check", "ret", "top"}
       => fp[Log].fptr = 0 /\ ~fp[Log].err
EndInv == (\A n \in Logs : Still(n) => fp[n].fptr = fp[n].fsize) /\ SoughtInv
CallEnd ==
  /\ op.call = "write" /\ op.at = "check" => op.from = fptr
  /\ Pending => op.from = Fp.fsize /\ op.from <= fptr
  /\ op.call = "gets" /\ op.at \in {"follow", "place", "copy"} => fptr < Fp.fsize
  /\ op.call = "write" /\ op.at \in {"follow", "scan", "link", "place", "copy"} => op.left > 0

\* A file object is where its pointer says, or one unit behind.
InPlace(n) ==
  fp[n].fptr # 0 => /\ fp[n].clust = Way[n][(fp[n].fptr - 1) \div BCS]
                    /\ fp[n].fptr % SS # 0 => fp[n].dsect = Addr(n, fp[n].fptr - 1)

Settled(n) == /\ fp[n].fs /\ ~fp[n].err
              /\ ~(n = file /\ op.at \in {"place", "copy"})
              /\ ~(n = file /\ op.call = "lseek" /\ op.at \in {"seek", "follow"})
PlaceInv == \A n \in Files : Settled(n) => InPlace(n)

CallPlace ==
  /\ op.at \in {"scan", "link", "full"} => op.call = "write"
  /\ op.at = "follow" => op.clst = Fp.clust /\ fptr % BCS = 0 /\ (op.call # "lseek" => fptr # 0)
  /\ op.at \in {"scan", "link"} =>
       IF op.clst = 0 THEN fptr = 0 /\ Fp.sclust = 0
       ELSE fptr # 0 /\ fptr % BCS = 0 /\ op.clst = Fp.clust /\ Fat[op.clst] \notin Clusters
  /\ op.at \in {"place", "copy"} => Fp.clust = Way[file][fptr \div BCS]
  /\ op.at = "place" => fptr % SS = 0
  /\ op.at = "copy" => Fp.dsect = Addr(file, fptr)
CallSeek ==
  /\ op.at = "top" => op.left = Fp.fsize /\ op.left # 0
  /\ op.at = "seek" => fptr + op.left = Fp.fsize
  /\ op.at = "seek" /\ op.left = 0 => fptr = 0
  /\ op.at = "seek" /\ op.left # 0 => fptr % BCS = 0 /\ Fp.clust = Way[file][fptr \div BCS]
  /\ op.at = "follow" /\ op.call = "lseek" =>
       fptr + op.left = Fp.fsize /\ Fp.clust = Way[file][fptr \div BCS]

\* The entries: the one FatFs has does not count more units than there are, and
\* names the start of the file; so does the one of the card, whose chain goes as
\* far as its size.
EntryOf(n) == /\ Dir[n].size <= Len(stream[n])
              /\ Dir[n].size # 0 => Dir[n].clust = Start[n]

DiskOf(n) == \A p \in Nat : p < disk.dir[n].size =>
  /\ DiskWay[n][p \div BCS] \in Clusters
  /\ ~Old(n) => DiskWay[n][p \div BCS] = Way[n][p \div BCS]

\* The chain of a file goes as far as the file; what its entry counts is on
\* the card, and all of it is in the buffer or on the card.
DataOf(n) == \A p \in Nat : p < End(n) =>
  /\ Way[n][p \div BCS] \in Clusters
  /\ p < Dir[n].size => OnCard(n, p) = UnitAt(n, p)
  /\ fp[n].fs /\ fp[n].dsect = Addr(n, p) => fp[n].buf[p % SS] = UnitAt(n, p)
  /\ fp[n].fs /\ (fp[n].dsect # Addr(n, p) \/ ~fp[n].dirty) => OnCard(n, p) = UnitAt(n, p)

\* A buffer that has to be written is of a sector of its file.
BufferOf(n) == fp[n].fs /\ fp[n].dirty =>
  \E i \in Nat : Way[n][i] \in Clusters /\ fp[n].dsect \div CSize = Way[n][i]

ContentOf(n) == EntryOf(n) /\ DiskOf(n) /\ DataOf(n) /\ BufferOf(n)
Content == \A n \in Files : ContentOf(n)
Clean   == op.at = "entry" => ~Fp.dirty

Flow  == StepInv /\ ClosedInv /\ OldInv /\ DirtyInv
Sizes == StreamType /\ SizeInv /\ EndInv /\ CallEnd
FInv  == IInv /\ Flow /\ Sizes /\ PlaceInv /\ CallPlace /\ CallSeek /\ Content /\ Clean

(***************************************************************************)
(* What a step of a call leaves alone.                                     *)
(***************************************************************************)
LEMMA SameCall ==
  ASSUME OpType, CallStep
  PROVE  op'.call = op.call /\ op'.file = op.file /\ op'.from = op.from
<1> DEFINE Same == op'.call = op.call /\ op'.file = op.file /\ op'.from = op.from
<1>1. \A r : Leave(r) \/ Abort(r) \/ FailCall(r) => Same
  BY DEF Leave, Abort, FailCall, OpType
<1>2. \A l : At(l) => Same
  BY DEF At, OpType
<1>3. \A c : GotCluster(c) => Same
  BY <1>2 DEF GotCluster, OpType
<1>4. \A c, s : op' = ScanOp(c, s) => Same
  BY DEF ScanOp, OpType
<1>5. NewChain => Same
  <2>1. \A c, s : /\ ScanOp(c, s).call = op.call /\ ScanOp(c, s).file = op.file
                  /\ ScanOp(c, s).from = op.from /\ "from" \in DOMAIN ScanOp(c, s)
                  /\ "call" \in DOMAIN ScanOp(c, s) /\ "file" \in DOMAIN ScanOp(c, s)
    BY DEF ScanOp, OpType
  <2>2. \A c, s : op' = [ScanOp(c, s) EXCEPT !.clst = 0] => Same
    BY <2>1 DEF ScanOp, OpType
  <2> QED
    BY <2>2 DEF NewChain
<1>6. \A c, l, n : \/ op' = [op EXCEPT !.at = l, !.clst = c]
                   \/ op' = [op EXCEPT !.at = l, !.left = n]
                   \/ op' = [op EXCEPT !.at = l, !.clst = c, !.ncl = n]
                   \/ op' = [op EXCEPT !.clst = c]
                   => Same
  BY DEF OpType
<1>7. UNCHANGED op => Same
  OBVIOUS
<1> SUFFICES Same
  OBVIOUS
<1> HIDE DEF Same
<1>8. CASE SyncWindow \/ MoveWindow \/ MountVolume \/ Root \/ OpenExisting \/ OpenCreated
  BY <1>1, <1>2, <1>7, <1>8 DEF SyncWindow, MoveWindow, MountVolume, Root, OpenExisting, OpenCreated,
     DiskRead, DiskWrite
<1>9. CASE Truncate \/ RemoveChain
  BY <1>2, <1>9 DEF Truncate, RemoveChain, OpType, Same
<1>10. CASE Follow \/ Scan \/ Link \/ Allocate
  BY <1>1, <1>2, <1>3, <1>4, <1>10 DEF Follow, Scan, Link, Allocate
<1>11. CASE WriteBack \/ Place \/ NextChunk \/ NextByte
  BY <1>1, <1>2, <1>3, <1>5, <1>6, <1>7, <1>11
     DEF WriteBack, Place, NextChunk, NextByte, DiskRead, DiskWrite
<1>12. CASE CopyIn \/ CopyOut
  BY <1>12 DEF CopyIn, CopyOut, OpType, Same
<1>13. CASE WriteEnds \/ SeekTop \/ Seek \/ SeekEnds \/ GetsEnds
  BY <1>1, <1>2, <1>6, <1>13 DEF WriteEnds, SeekTop, Seek, SeekEnds, GetsEnds, DiskRead
<1>14. CASE Flushed \/ UpdateEntry \/ SyncFs \/ SyncEnds
  BY <1>1, <1>2, <1>14 DEF Flushed, UpdateEntry, SyncFs, SyncEnds
<1>15. CASE Check
  BY <1>1, <1>2, <1>15 DEF Check
<1> QED
  BY <1>8, <1>9, <1>10, <1>11, <1>12, <1>13, <1>14, <1>15 DEF CallStep

\* A step of a call begins within it and does not go back to its check.
LEMMA InACall ==
  ASSUME Types, Control, MountInv, CallStep
  PROVE  op.at \notin {"out", "ret"} /\ op'.at \notin {"out", "check"}
<1>1. op.at # "out"
  <2>1. CASE op.at \in {"check", "mount"}
    BY <2>1
  <2>2. CASE op.at \notin {"check", "mount"}
    BY <2>2, Mounted
  <2> QED
    BY <2>1, <2>2
<1>2. op.at # "ret"
  BY DEF CallStep, Check, MountVolume, Root, OpenExisting, Truncate, RemoveChain, OpenCreated,
     Follow, Scan, Allocate, Link, WriteBack, Place, NextChunk, CopyIn, WriteEnds, SeekTop, Seek,
     SeekEnds, NextByte, CopyOut, GetsEnds, Flushed, UpdateEntry, SyncFs, SyncEnds,
     SyncWindow, MoveWindow, InWindow, Need
<1>3. op.at # "check" => op'.at \notin {"out", "check"}
  BY <1>1, OpFrame DEF Types
<1>4. op.at = "check" => Check
  BY DEF CallStep, Check, MountVolume, Root, OpenExisting, Truncate, RemoveChain, OpenCreated,
     Follow, Scan, Allocate, Link, WriteBack, Place, NextChunk, CopyIn, WriteEnds, SeekTop, Seek,
     SeekEnds, NextByte, CopyOut, GetsEnds, Flushed, UpdateEntry, SyncFs, SyncEnds,
     SyncWindow, MoveWindow, InWindow, Need
<1>5. Check => op'.at \notin {"out", "check"}
  <2> SUFFICES ASSUME Check
               PROVE  op'.at \notin {"out", "check"}
    OBVIOUS
  <2>1. \A l : At(l) => op'.at = l
    BY DEF At, Types, OpType
  <2>2. \A r : Leave(r) => op'.at = "ret"
    BY DEF Leave, Types, OpType
  <2>3. CASE op.call \in {"create", "open"}
    BY <2>1, <2>3 DEF Check
  <2>4. CASE op.call \in {"sync", "close"}
    BY <2>1, <2>2, <2>4 DEF Check
  <2>5. CASE op.call \in {"write", "gets", "lseek"}
    BY <2>1, <2>2, <2>5 DEF Check
  <2>6. op.call \in Calls
    BY <1>1, CallKnown
  <2> QED
    BY <2>3, <2>4, <2>5, <2>6 DEF Calls, Opening
<1> QED
  BY <1>1, <1>2, <1>3, <1>4, <1>5

\* A step of a call changes no other file object than its own.
LEMMA OtherFiles ==
  ASSUME Types, Control, MountInv, CallStep
  PROVE  \A n \in Files : n # file => fp'[n] = fp[n]
<1>0. file \in Files /\ fp \in [Files -> FileObject]
  BY InACall, CallKnown DEF Types
<1> DEFINE Others == \A n \in Files : n # file => fp'[n] = fp[n]
<1>1. \A o : fp' = [fp EXCEPT ![file] = o] => Others
  BY <1>0
<1>2. UNCHANGED fp => Others
  OBVIOUS
<1>3. \A r : (Leave(r) /\ UNCHANGED fp) \/ Abort(r) \/ FailCall(r) => Others
  BY <1>0 DEF Abort, FailCall
<1>4. \A c : GotCluster(c) => Others
  BY <1>0 DEF GotCluster
<1>5. \A o : fp' = [fp EXCEPT ![file].clust = o] \/ fp' = [fp EXCEPT ![file].dirty = o]
             \/ fp' = [fp EXCEPT ![file].fs = o] \/ fp' = [fp EXCEPT ![file].fptr = o]
             \/ fp' = [fp EXCEPT ![file].written = o] \/ fp' = [fp EXCEPT ![file].dsect = o] => Others
  BY <1>0
<1>6. CASE SyncWindow \/ MoveWindow \/ MountVolume \/ Root \/ OpenExisting \/ OpenCreated
  BY <1>1, <1>2, <1>3, <1>6 DEF SyncWindow, MoveWindow, MountVolume, Root, OpenExisting, OpenCreated,
     DiskRead, DiskWrite
<1>7. CASE Follow \/ Scan \/ Link \/ Allocate
  BY <1>2, <1>3, <1>4, <1>7 DEF Follow, Scan, Link, Allocate
<1>8. CASE NextChunk \/ NextByte
  BY <1>2, <1>3, <1>4, <1>8 DEF NextChunk, NextByte
<1>9. CASE WriteBack
  BY <1>0, <1>3, <1>5, <1>9 DEF WriteBack, DiskWrite
<1>10. CASE Place
  BY <1>0, <1>3, <1>5, <1>10 DEF Place, DiskRead
<1>11. CASE CopyIn
  BY <1>0, <1>11 DEF CopyIn
<1>12. CASE WriteEnds
  BY <1>0, <1>12 DEF WriteEnds
<1>13. CASE SeekTop \/ Seek
  BY <1>0, <1>2, <1>13 DEF SeekTop, Seek
<1>14. CASE SeekEnds
  BY <1>0, <1>14 DEF SeekEnds, DiskRead
<1>15. CASE CopyOut
  BY <1>0, <1>5, <1>15 DEF CopyOut
<1>16. CASE UpdateEntry \/ SyncEnds \/ Check
  BY <1>0, <1>2, <1>5, <1>16 DEF UpdateEntry, SyncEnds, Check
<1>17. CASE Truncate \/ RemoveChain \/ GetsEnds \/ Flushed \/ SyncFs
  BY <1>17 DEF Truncate, RemoveChain, GetsEnds, Flushed, SyncFs
<1> QED
  BY <1>6, <1>7, <1>8, <1>9, <1>10, <1>11, <1>12, <1>13, <1>14, <1>15, <1>16, <1>17 DEF CallStep

(***************************************************************************)
(* What the steps do to the file object of the call.                       *)
(***************************************************************************)
\* The objects are the same but for the fields in except.
AllBut(o, q, except) ==
  /\ "fs" \notin except => (o.fs <=> q.fs)
  /\ "err" \notin except => (o.err <=> q.err)
  /\ "sclust" \notin except => o.sclust = q.sclust
  /\ "clust" \notin except => o.clust = q.clust
  /\ "fptr" \notin except => o.fptr = q.fptr
  /\ "fsize" \notin except => o.fsize = q.fsize
  /\ "dsect" \notin except => o.dsect = q.dsect
  /\ "buf" \notin except => o.buf = q.buf
  /\ "dirty" \notin except => (o.dirty <=> q.dirty)
  /\ "written" \notin except => (o.written <=> q.written)

\* The file of a call that is in progress.
LEMMA FileKnown ==
  ASSUME Types, Control, op.at # "out"
  PROVE  file \in Files /\ fp \in [Files -> FileObject] /\ Fp \in FileObject /\ Fp = fp[file]
BY CallKnown DEF Types

\* What GotCluster does to the object and to the call.
LEMMA GotEffect ==
  ASSUME Types, Control, op.at # "out", NEW c, GotCluster(c)
  PROVE  /\ op.call = "lseek" =>
              /\ AllBut(fp'[file], fp[file], {"clust", "fptr"})
              /\ fp'[file].clust = c /\ fp'[file].fptr = fptr + BCS
              /\ op'.at = "seek" /\ op'.left = op.left - BCS
         /\ op.call # "lseek" =>
              /\ AllBut(fp'[file], fp[file], {"clust", "sclust"})
              /\ fp'[file].clust = c
              /\ fp'[file].sclust = IF fp[file].sclust = 0 THEN c ELSE fp[file].sclust
              /\ op'.at = "place" /\ op'.left = op.left
<1>0. file \in Files /\ fp \in [Files -> FileObject] /\ fp[file] \in FileObject /\ OpType
  BY FileKnown DEF Types
<1>1. CASE op.call = "lseek"
  <2>1. /\ fp' = [fp EXCEPT ![file] = [fp[file] EXCEPT !.clust = c, !.fptr = fptr + BCS]]
        /\ op' = [op EXCEPT !.at = "seek", !.left = op.left - BCS]
    BY <1>0, <1>1 DEF GotCluster
  <2>2. fp'[file] = [fp[file] EXCEPT !.clust = c, !.fptr = fptr + BCS]
    BY <1>0, <2>1
  <2> QED
    BY <1>0, <1>1, <2>1, <2>2 DEF AllBut, FileObject, OpType
<1>2. CASE op.call # "lseek"
  <2> DEFINE s == IF fp[file].sclust = 0 THEN c ELSE fp[file].sclust
  <2>1. /\ fp' = [fp EXCEPT ![file] = [fp[file] EXCEPT !.clust = c, !.sclust = s]]
        /\ op' = [op EXCEPT !.at = "place"]
    BY <1>0, <1>2 DEF GotCluster, At
  <2>2. fp'[file] = [fp[file] EXCEPT !.clust = c, !.sclust = s]
    BY <1>0, <2>1
  <2> HIDE DEF s
  <2>3. /\ AllBut(fp'[file], fp[file], {"clust", "sclust"})
        /\ fp'[file].clust = c /\ fp'[file].sclust = s
    BY <1>0, <2>2 DEF AllBut, FileObject
  <2>4. op'.at = "place" /\ op'.left = op.left
    BY <1>0, <2>1 DEF OpType
  <2> QED
    BY <1>2, <2>3, <2>4 DEF s
<1> QED
  BY <1>1, <1>2

\* A call that ends.
LEMMA LeaveEffect ==
  ASSUME Types, Control, op.at # "out"
  PROVE  \A r : /\ Leave(r) => op'.at = "ret" /\ op'.res = r
                /\ Abort(r) => /\ op'.at = "ret" /\ op'.res = r
                               /\ AllBut(fp'[file], fp[file], {"err"}) /\ fp'[file].err
                /\ FailCall(r) =>
                     /\ op'.at = "ret" /\ op'.res = r
                     /\ AllBut(fp'[file], fp[file], {"err"})
                     /\ \/ op.call \in {"write", "lseek", "gets"} /\ fp'[file].err
                        \/ op.call \notin {"write", "lseek", "gets"} /\ UNCHANGED fp
<1>0. file \in Files /\ fp \in [Files -> FileObject] /\ fp[file] \in FileObject /\ OpType
  BY FileKnown DEF Types
<1> TAKE r
<1>1. ASSUME Leave(r)
      PROVE  op'.at = "ret" /\ op'.res = r
  BY <1>0, <1>1 DEF Leave, OpType
<1>2. ASSUME fp' = [fp EXCEPT ![file].err = TRUE]
      PROVE  AllBut(fp'[file], fp[file], {"err"}) /\ fp'[file].err
  <2>1. fp'[file] = [fp[file] EXCEPT !.err = TRUE]
    BY <1>0, <1>2
  <2> QED
    BY <1>0, <2>1 DEF AllBut, FileObject
<1>3. AllBut(fp[file], fp[file], {"err"})
  BY DEF AllBut
<1> QED
  BY <1>1, <1>2, <1>3 DEF Abort, FailCall

\* What At does to the call.
LEMMA AtEffect ==
  ASSUME Types
  PROVE  \A l : At(l) => op'.at = l /\ op'.left = op.left /\ op'.clst = op.clst /\ op'.from = op.from
BY DEF At, Types, OpType

\* What WriteBack does: the buffer is on the card, or the call has failed.
LEMMA WriteBackEffect ==
  ASSUME Types, Control, WriteBack
  PROVE  /\ op.at \in {"place", "flush"} /\ op.at # "out" /\ fp[file].dirty
         /\ UNCHANGED <<fs, mounts, stream, line>>
         /\ disk' \in {disk, BufferWritten}
         /\ \/ /\ disk' = BufferWritten /\ UNCHANGED op
               /\ AllBut(fp'[file], fp[file], {"dirty"}) /\ ~fp'[file].dirty
            \/ FailCall("FR_DISK_ERR")
<1>0. /\ op.at # "out" /\ op.at \in {"place", "flush"} /\ fp[file].dirty
      /\ UNCHANGED <<fs, mounts, stream, line>>
  BY DEF WriteBack
<1>1. file \in Files /\ fp \in [Files -> FileObject] /\ fp[file] \in FileObject
  BY <1>0, FileKnown
<1>2. CASE disk' = BufferWritten /\ fp' = [fp EXCEPT ![file].dirty = FALSE] /\ UNCHANGED op
  <2>1. fp'[file] = [fp[file] EXCEPT !.dirty = FALSE]
    BY <1>1, <1>2
  <2>2. AllBut(fp'[file], fp[file], {"dirty"}) /\ ~fp'[file].dirty
    BY <1>1, <2>1 DEF AllBut, FileObject
  <2> QED
    BY <1>0, <1>2, <2>2
<1>3. CASE disk' \in {disk, BufferWritten} /\ FailCall("FR_DISK_ERR")
  BY <1>0, <1>3
<1> QED
  BY <1>2, <1>3 DEF WriteBack, DiskWrite

\* What Place does: the buffer holds the sector, or the call has failed.
LEMMA PlaceEffect ==
  ASSUME Types, Control, Place
  PROVE  /\ op.at = "place" /\ op.at # "out" /\ ~fp[file].dirty
         /\ UNCHANGED <<disk, fs, mounts, stream, line>>
         /\ LET sect == Clust2Sect(fp[file].clust, csect) IN
            \/ /\ At("copy") /\ AllBut(fp'[file], fp[file], {"dsect", "buf"})
               /\ fp'[file].dsect = sect
               /\ \/ fp'[file].buf = disk.data[sect]
                  \/ /\ fp'[file].buf = fp[file].buf
                     /\ fp[file].dsect = sect \/ (op.call # "gets" /\ fptr >= fp[file].fsize)
            \/ FailCall("FR_DISK_ERR")
<1>0. /\ op.at # "out" /\ op.at = "place" /\ ~fp[file].dirty
      /\ UNCHANGED <<disk, fs, mounts, stream, line>>
  BY DEF Place, DiskRead
<1>1. /\ file \in Files /\ fp \in [Files -> FileObject] /\ fp[file] \in FileObject
      /\ fptr \in Nat /\ fp[file].fsize \in Nat
  BY <1>0, FileKnown, CallKnown DEF FileObject
<1> DEFINE sect == Clust2Sect(fp[file].clust, csect)
           fill == fp[file].dsect # sect /\ (op.call = "gets" \/ fptr < fp[file].fsize)
<1>2. CASE fp' = [fp EXCEPT ![file].buf = disk.data[sect], ![file].dsect = sect] /\ At("copy")
  <2> DEFINE data == disk.data[sect]
  <2>0. fp' = [fp EXCEPT ![file].buf = data, ![file].dsect = sect]
    BY <1>2
  <2> HIDE DEF sect, data
  <2>1. fp' = [fp EXCEPT ![file] = [fp[file] EXCEPT !.buf = data, !.dsect = sect]]
    BY <1>1, <2>0
  <2>2. fp'[file] = [fp[file] EXCEPT !.buf = data, !.dsect = sect]
    BY <1>1, <2>1
  <2>3. AllBut(fp'[file], fp[file], {"dsect", "buf"}) /\ fp'[file].dsect = sect /\ fp'[file].buf = data
    BY <1>1, <2>2 DEF AllBut, FileObject
  <2> QED
    BY <1>0, <1>2, <2>3 DEF data, sect
<1>3. CASE fp' = [fp EXCEPT ![file].dsect = sect] /\ At("copy") /\ ~fill
  <2> HIDE DEF sect
  <2>1. fp'[file] = [fp[file] EXCEPT !.dsect = sect]
    BY <1>1, <1>3
  <2>2. AllBut(fp'[file], fp[file], {"dsect", "buf"}) /\ fp'[file].dsect = sect
        /\ fp'[file].buf = fp[file].buf
    BY <1>1, <2>1 DEF AllBut, FileObject
  <2>3. fp[file].dsect = sect \/ (op.call # "gets" /\ fptr >= fp[file].fsize)
    BY <1>1, <1>3
  <2> QED
    BY <1>0, <1>3, <2>2, <2>3 DEF sect
<1>4. CASE FailCall("FR_DISK_ERR")
  BY <1>0, <1>4
<1>5. \/ fill /\ fp' = [fp EXCEPT ![file].buf = disk.data[sect], ![file].dsect = sect] /\ At("copy")
      \/ FailCall("FR_DISK_ERR")
      \/ ~fill /\ fp' = [fp EXCEPT ![file].dsect = sect] /\ At("copy")
  BY DEF Place, DiskRead
<1> QED
  BY <1>2, <1>3, <1>4, <1>5

\* What CopyIn does: units of the call are in the buffer.
LEMMA CopyInEffect ==
  ASSUME Types, Control, CopyIn
  PROVE  /\ op.at = "copy" /\ op.at # "out" /\ op.call = "write"
         /\ UNCHANGED <<disk, fs, mounts, stream, line, faults>>
         /\ \E n \in Nat :
              /\ n <= op.left /\ n <= SS - (fptr % SS) /\ (op.left # 0 => n # 0)
              /\ op'.at = "chunk" /\ op'.left = op.left - n /\ op'.from = op.from
              /\ AllBut(fp'[file], fp[file], {"fptr", "dirty", "buf"})
              /\ fp'[file].fptr = fptr + n /\ fp'[file].dirty
              /\ \A i \in 0 .. SS - 1 : fp'[file].buf[i] =
                   IF fptr % SS <= i /\ i < (fptr % SS) + n THEN <<file, mounts, (fptr - (fptr % SS)) + i>>
                                                            ELSE fp[file].buf[i]
<1> DEFINE at == fptr % SS
           room == SS - at
           n == IF op.left < room THEN op.left ELSE room
           buf == [i \in 0 .. SS - 1 |-> IF i \in at .. at + n - 1
                              THEN <<file, mounts, fptr - at + i>> ELSE fp[file].buf[i]]
<1>0. /\ op.at # "out" /\ op.at = "copy" /\ op.call = "write"
      /\ UNCHANGED <<disk, fs, mounts, stream, line, faults>>
  BY DEF CopyIn
<1>1. /\ file \in Files /\ fp \in [Files -> FileObject] /\ fp[file] \in FileObject
      /\ fptr \in Nat /\ op.left \in Nat /\ OpType
  BY <1>0, FileKnown, CallKnown DEF Types
<1>2. SS \in Nat \ {0} /\ at \in 0 .. SS - 1
  BY <1>1, Constants, PlaceOfPointer
<1>3. fp' = [fp EXCEPT ![file].fptr = fptr + n, ![file].dirty = TRUE, ![file].buf = buf]
      /\ op' = [op EXCEPT !.at = "chunk", !.left = op.left - n]
  BY DEF CopyIn
<1>4. n \in Nat /\ n <= op.left /\ n <= SS - at /\ (op.left # 0 => n # 0)
  BY <1>1, <1>2
<1>5. \A i \in 0 .. SS - 1 : buf[i] = IF at <= i /\ i < at + n THEN <<file, mounts, (fptr - at) + i>>
                                                               ELSE fp[file].buf[i]
  <2> TAKE i \in 0 .. SS - 1
  <2>0. at \in Nat /\ n \in Nat /\ i \in Nat
    BY <1>2, <1>4
  <2> HIDE DEF at, n
  <2>1. i \in at .. at + n - 1 <=> at <= i /\ i < at + n
    BY <2>0
  <2> QED
    BY <2>1
<1> HIDE DEF n, buf
<1>6. fp' = [fp EXCEPT ![file] = [fp[file] EXCEPT !.fptr = fptr + n, !.dirty = TRUE, !.buf = buf]]
  BY <1>1, <1>3
<1>7. fp'[file] = [fp[file] EXCEPT !.fptr = fptr + n, !.dirty = TRUE, !.buf = buf]
  BY <1>1, <1>6
<1>8. /\ AllBut(fp'[file], fp[file], {"fptr", "dirty", "buf"})
      /\ fp'[file].fptr = fptr + n /\ fp'[file].dirty /\ fp'[file].buf = buf
  BY <1>1, <1>7 DEF AllBut, FileObject
<1>9. op'.at = "chunk" /\ op'.left = op.left - n /\ op'.from = op.from
  BY <1>1, <1>3 DEF OpType
<1>10. \A i \in 0 .. SS - 1 : fp'[file].buf[i] = IF at <= i /\ i < at + n
                THEN <<file, mounts, (fptr - at) + i>> ELSE fp[file].buf[i]
  BY <1>5, <1>8
<1> QED
  BY <1>0, <1>4, <1>8, <1>9, <1>10

\* What WriteEnds does: the size and the stream grow alike.
LEMMA WriteEndsEffect ==
  ASSUME Types, Control, WriteEnds
  PROVE  /\ op.at \in {"full", "chunk"} /\ op.at # "out" /\ op.call = "write"
         /\ UNCHANGED <<disk, fs, mounts, line, faults>>
         /\ stream' = [stream EXCEPT ![file] = stream[file] \o Units(op.from, fptr)]
         /\ op'.at = "ret" /\ op'.res = "FR_OK"
         /\ AllBut(fp'[file], fp[file], {"fsize", "written"})
         /\ fp'[file].fsize = IF fptr > fp[file].fsize THEN fptr ELSE fp[file].fsize
         /\ fp'[file].written
<1>0. /\ op.at # "out" /\ op.at \in {"full", "chunk"} /\ op.call = "write"
      /\ UNCHANGED <<disk, fs, mounts, line, faults>> /\ Leave("FR_OK")
      /\ stream' = [stream EXCEPT ![file] = stream[file] \o Units(op.from, fptr)]
  BY DEF WriteEnds
<1>1. file \in Files /\ fp \in [Files -> FileObject] /\ fp[file] \in FileObject
  BY <1>0, FileKnown
<1> DEFINE s == IF fptr > fp[file].fsize THEN fptr ELSE fp[file].fsize
<1>2. fp' = [fp EXCEPT ![file].fsize = s, ![file].written = TRUE]
  BY DEF WriteEnds
<1> HIDE DEF s
<1>3. fp' = [fp EXCEPT ![file] = [fp[file] EXCEPT !.fsize = s, !.written = TRUE]]
  BY <1>1, <1>2
<1>4. fp'[file] = [fp[file] EXCEPT !.fsize = s, !.written = TRUE]
  BY <1>1, <1>3
<1>5. AllBut(fp'[file], fp[file], {"fsize", "written"}) /\ fp'[file].fsize = s /\ fp'[file].written
  BY <1>1, <1>4 DEF AllBut, FileObject
<1> QED
  BY <1>0, <1>5, LeaveEffect DEF s

\* What SeekTop does to the object.
LEMMA SeekTopEffect ==
  ASSUME Types, Control, SeekTop
  PROVE  /\ op.at = "top" /\ op.at # "out" /\ At("seek")
         /\ UNCHANGED <<disk, fs, mounts, stream, line, faults>>
         /\ AllBut(fp'[file], fp[file], {"fptr", "clust"})
         /\ fp'[file].fptr = 0 /\ fp'[file].clust = fp[file].sclust
<1>0. /\ op.at # "out" /\ op.at = "top" /\ At("seek")
      /\ UNCHANGED <<disk, fs, mounts, stream, line, faults>>
      /\ fp' = [fp EXCEPT ![file].fptr = 0, ![file].clust = fp[file].sclust]
  BY DEF SeekTop
<1>1. file \in Files /\ fp \in [Files -> FileObject] /\ fp[file] \in FileObject
  BY <1>0, FileKnown
<1>2. fp' = [fp EXCEPT ![file] = [fp[file] EXCEPT !.fptr = 0, !.clust = fp[file].sclust]]
  BY <1>0, <1>1
<1>3. fp'[file] = [fp[file] EXCEPT !.fptr = 0, !.clust = fp[file].sclust]
  BY <1>1, <1>2
<1>4. /\ AllBut(fp'[file], fp[file], {"fptr", "clust"})
      /\ fp'[file].fptr = 0 /\ fp'[file].clust = fp[file].sclust
  BY <1>1, <1>3 DEF AllBut, FileObject
<1> QED
  BY <1>0, <1>4

\* What SeekEnds does: the pointer is at the offset.
LEMMA SeekEndsEffect ==
  ASSUME Types, Control, SeekEnds
  PROVE  /\ op.at = "seek" /\ op.at # "out" /\ op.left <= BCS /\ op'.at = "ret"
         /\ UNCHANGED <<disk, fs, mounts, stream, line>>
         /\ fp'[file].fptr = fptr + op.left
         /\ LET sect == Clust2Sect(fp[file].clust, op.left \div SS) IN
            \/ /\ op.left % SS # 0 /\ op'.res = "FR_OK"
               /\ AllBut(fp'[file], fp[file], {"fptr", "buf", "dsect"})
               /\ fp'[file].buf = disk.data[sect] /\ fp'[file].dsect = sect
            \/ /\ op.left % SS = 0 /\ op'.res = "FR_OK"
               /\ AllBut(fp'[file], fp[file], {"fptr"})
            \/ /\ AllBut(fp'[file], fp[file], {"fptr", "err"}) /\ fp'[file].err
               /\ op'.res = "FR_DISK_ERR"
<1> DEFINE sect == Clust2Sect(fp[file].clust, op.left \div SS)
           data == disk.data[sect]
           p    == fptr + op.left
<1>0. /\ op.at # "out" /\ op.at = "seek" /\ op.left <= BCS
      /\ UNCHANGED <<disk, fs, mounts, stream, line>>
  BY DEF SeekEnds, DiskRead
<1>1. file \in Files /\ fp \in [Files -> FileObject] /\ fp[file] \in FileObject
  BY <1>0, FileKnown
<1>2. \/ /\ op.left % SS # 0 /\ Leave("FR_OK")
         /\ fp' = [[fp EXCEPT ![file].fptr = p] EXCEPT ![file].buf = data, ![file].dsect = sect]
      \/ Leave("FR_DISK_ERR") /\ fp' = [[fp EXCEPT ![file].fptr = p] EXCEPT ![file].err = TRUE]
      \/ op.left % SS = 0 /\ Leave("FR_OK") /\ fp' = [fp EXCEPT ![file].fptr = p]
  BY DEF SeekEnds, DiskRead
<1>3. \A r : Leave(r) => op'.at = "ret" /\ op'.res = r
  BY <1>0, LeaveEffect
<1> HIDE DEF sect, data, p
<1>4. ASSUME fp' = [[fp EXCEPT ![file].fptr = p] EXCEPT ![file].buf = data, ![file].dsect = sect]
      PROVE  /\ AllBut(fp'[file], fp[file], {"fptr", "buf", "dsect"}) /\ fp'[file].fptr = p
             /\ fp'[file].buf = data /\ fp'[file].dsect = sect
  <2>1. fp' = [fp EXCEPT ![file] = [fp[file] EXCEPT !.fptr = p, !.buf = data, !.dsect = sect]]
    BY <1>1, <1>4
  <2>2. fp'[file] = [fp[file] EXCEPT !.fptr = p, !.buf = data, !.dsect = sect]
    BY <1>1, <2>1
  <2> QED
    BY <1>1, <2>2 DEF AllBut, FileObject
<1>5. ASSUME fp' = [[fp EXCEPT ![file].fptr = p] EXCEPT ![file].err = TRUE]
      PROVE  AllBut(fp'[file], fp[file], {"fptr", "err"}) /\ fp'[file].fptr = p /\ fp'[file].err
  <2>1. fp' = [fp EXCEPT ![file] = [fp[file] EXCEPT !.fptr = p, !.err = TRUE]]
    BY <1>1, <1>5
  <2>2. fp'[file] = [fp[file] EXCEPT !.fptr = p, !.err = TRUE]
    BY <1>1, <2>1
  <2> QED
    BY <1>1, <2>2 DEF AllBut, FileObject
<1>6. ASSUME fp' = [fp EXCEPT ![file].fptr = p]
      PROVE  AllBut(fp'[file], fp[file], {"fptr"}) /\ fp'[file].fptr = p
  <2>1. fp'[file] = [fp[file] EXCEPT !.fptr = p]
    BY <1>1, <1>6
  <2> QED
    BY <1>1, <2>1 DEF AllBut, FileObject
<1>7. CASE /\ op.left % SS # 0 /\ Leave("FR_OK")
           /\ fp' = [[fp EXCEPT ![file].fptr = p] EXCEPT ![file].buf = data, ![file].dsect = sect]
  BY <1>0, <1>3, <1>4, <1>7 DEF sect, data, p
<1>8. CASE Leave("FR_DISK_ERR") /\ fp' = [[fp EXCEPT ![file].fptr = p] EXCEPT ![file].err = TRUE]
  BY <1>0, <1>3, <1>5, <1>8 DEF p
<1>9. CASE op.left % SS = 0 /\ Leave("FR_OK") /\ fp' = [fp EXCEPT ![file].fptr = p]
  BY <1>0, <1>3, <1>6, <1>9 DEF p
<1> QED
  BY <1>2, <1>7, <1>8, <1>9

\* What OpenExisting and OpenCreated do to the object.
LEMMA OpenEffect ==
  ASSUME Types, Control, OpenExisting \/ OpenCreated
  PROVE  /\ op.at \in {"path", "back"} /\ op.at # "out" /\ op.call \in Opening
         /\ UNCHANGED <<disk, fs, mounts, stream, line, faults>> /\ op'.at = "ret"
         /\ \/ /\ op'.res = "FR_OK" /\ fp'[file].fs /\ ~fp'[file].err /\ ~fp'[file].dirty
               /\ fp'[file].sclust = Dir[file].clust /\ fp'[file].clust = 0 /\ fp'[file].fptr = 0
               /\ fp'[file].fsize = Dir[file].size /\ fp'[file].dsect = 0
               /\ fp'[file].written <=> op.call = "create"
            \/ UNCHANGED fp
<1>0. /\ op.at # "out" /\ op.at \in {"path", "back"} /\ InWindow
      /\ UNCHANGED <<disk, fs, mounts, stream, line, faults>>
      /\ \/ fp' = [fp EXCEPT ![file] = Object] /\ Leave("FR_OK")
         \/ UNCHANGED fp /\ Leave("FR_NO_FILE")
  BY DEF OpenExisting, OpenCreated
<1>1. file \in Files /\ fp \in [Files -> FileObject] /\ op.call \in Opening
  BY <1>0, FileKnown DEF Control, CallInv, AtOpen
<1>2. fs.winsect = DirSect /\ fs.dir[file] = Dir[file]
  BY <1>0 DEF InWindow, Need, Dir
<1>3. \A r : Leave(r) => op'.at = "ret" /\ op'.res = r
  BY <1>0, LeaveEffect
<1>4. /\ Object.fs /\ ~Object.err /\ ~Object.dirty
      /\ Object.sclust = Dir[file].clust /\ Object.clust = 0 /\ Object.fptr = 0
      /\ Object.fsize = Dir[file].size /\ Object.dsect = 0
      /\ Object.written <=> op.call = "create"
  BY <1>2 DEF Object, Closed
<1>5. CASE fp' = [fp EXCEPT ![file] = Object] /\ Leave("FR_OK")
  <2>1. fp'[file] = Object
    BY <1>1, <1>5
  <2> QED
    BY <1>0, <1>1, <1>3, <1>4, <1>5, <2>1
<1> QED
  BY <1>0, <1>1, <1>3, <1>5

\* What CopyOut does: the line gets a unit of the buffer.
LEMMA CopyOutEffect ==
  ASSUME Types, Control, CopyOut
  PROVE  /\ op.at = "copy" /\ op.at # "out" /\ op.call = "gets" /\ op'.at = "byte"
         /\ op'.left = IF fp[file].buf[fptr % SS] \in Newlines THEN 0 ELSE op.left - 1
         /\ UNCHANGED <<disk, fs, mounts, stream, faults>>
         /\ line' = Append(line, fp[file].buf[fptr % SS])
         /\ AllBut(fp'[file], fp[file], {"fptr"}) /\ fp'[file].fptr = fptr + 1
<1> DEFINE left == IF fp[file].buf[fptr % SS] \in Newlines THEN 0 ELSE op.left - 1
<1>0. /\ op.at # "out" /\ op.at = "copy" /\ op.call = "gets"
      /\ UNCHANGED <<disk, fs, mounts, stream, faults>>
      /\ line' = Append(line, fp[file].buf[fptr % SS])
      /\ fp' = [fp EXCEPT ![file].fptr = fptr + 1] /\ op' = [op EXCEPT !.at = "byte", !.left = left]
  BY DEF CopyOut
<1>1. file \in Files /\ fp \in [Files -> FileObject] /\ fp[file] \in FileObject /\ OpType
  BY <1>0, FileKnown DEF Types
<1> HIDE DEF left
<1>2. fp'[file] = [fp[file] EXCEPT !.fptr = fptr + 1]
  BY <1>0, <1>1
<1>3. AllBut(fp'[file], fp[file], {"fptr"}) /\ fp'[file].fptr = fptr + 1
  BY <1>1, <1>2 DEF AllBut, FileObject
<1>4. op'.at = "byte" /\ op'.left = left
  BY <1>0, <1>1 DEF OpType
<1> QED
  BY <1>0, <1>3, <1>4 DEF left

\* What SyncEnds does to the object.
LEMMA SyncEndsEffect ==
  ASSUME Types, Control, SyncEnds
  PROVE  /\ op.at = "synced" /\ op.at # "out" /\ op'.at = "ret" /\ op'.res = "FR_OK"
         /\ UNCHANGED <<disk, fs, mounts, stream, line, faults>>
         /\ AllBut(fp'[file], fp[file], {"fs"}) /\ (fp'[file].fs <=> op.call = "sync")
<1>0. /\ op.at # "out" /\ op.at = "synced" /\ Leave("FR_OK")
      /\ UNCHANGED <<disk, fs, mounts, stream, line, faults>>
      /\ fp' = [fp EXCEPT ![file].fs = (op.call = "sync")]
  BY DEF SyncEnds
<1>1. file \in Files /\ fp \in [Files -> FileObject] /\ fp[file] \in FileObject
  BY <1>0, FileKnown
<1> DEFINE b == op.call = "sync"
<1>2. fp' = [fp EXCEPT ![file].fs = b]
  BY <1>0
<1> HIDE DEF b
<1>3. fp'[file] = [fp[file] EXCEPT !.fs = b]
  BY <1>1, <1>2
<1>4. AllBut(fp'[file], fp[file], {"fs"}) /\ (fp'[file].fs <=> b)
  BY <1>1, <1>3 DEF AllBut, FileObject
<1> QED
  BY <1>0, <1>4, LeaveEffect DEF b

(***************************************************************************)
(* The order of the calls.                                                 *)
(***************************************************************************)
LEMMA CallNames ==
  ASSUME NEW s \in Steps
  PROVE  CallOf'[s][1] = CallOf[s][1] /\ CallOf'[s][2] = CallOf[s][2]
<1>1. CASE s # "lseek"
  BY <1>1 DEF CallOf, Steps
<1>2. CASE s = "lseek"
  BY <1>2 DEF CallOf
<1> QED
  BY <1>1, <1>2

\* A step of a call keeps what is known of the caller and of how calls end.
LEMMA StepKept ==
  ASSUME Types, Control, MountInv, StepInv, StreamType, CallStep, UNCHANGED step
  PROVE  StepInv'
<1>0. /\ file \in Files /\ fp \in [Files -> FileObject] /\ Fp = fp[file] /\ OpType
      /\ op'.call = op.call /\ op'.file = op.file /\ file' = file
      /\ op.at \notin {"out", "ret"} /\ op'.at \notin {"out", "check"} /\ step \in Steps
      /\ op.call \in Calls
  BY InACall, SameCall, CallKnown DEF Types, file
<1> DEFINE Good == /\ op'.at = "ret" => op'.res # "FR_INVALID_OBJECT" \/ ~fp'[file].fs
                   /\ op'.at \in AtFile \ InSync => ~fp'[file].err
                   /\ op'.at \in InSync => op.call \in {"sync", "close"}
                   /\ op'.at \in {"remove", "back"} => op.call = "create" /\ stream'[file] = <<>>
<1>1. op.at \in AtFile \ InSync => ~fp[file].err
  BY <1>0 DEF StepInv
<1>2. op.at \in InSync => op.call \in {"sync", "close"}
  BY DEF StepInv
<1>3. \A r \in {"FR_OK", "FR_DISK_ERR", "FR_INT_ERR", "FR_NO_FILE"} :
        Leave(r) \/ Abort(r) \/ FailCall(r) => Good
  <2> TAKE r \in {"FR_OK", "FR_DISK_ERR", "FR_INT_ERR", "FR_NO_FILE"}
  <2>1. Leave(r) \/ Abort(r) \/ FailCall(r) => op'.at = "ret" /\ op'.res = r
    BY <1>0, LeaveEffect
  <2> QED
    BY <2>1 DEF AtFile, InSync
<1>4. \A l : At(l) => op'.at = l
  BY <1>0 DEF At, OpType
<1>5. \A c : GotCluster(c) => op'.at \in {"seek", "place"} /\ (fp'[file].err <=> fp[file].err)
  BY <1>0, GotEffect DEF AllBut
<1>6. /\ \A c, s : op' = ScanOp(c, s) => op'.at \in {"full", "scan"}
      /\ NewChain => op'.at \in {"full", "scan"}
  <2>1. \A c, s : ScanOp(c, s).at \in {"full", "scan"} /\ "at" \in DOMAIN ScanOp(c, s)
    BY <1>0 DEF ScanOp, OpType
  <2>2. \A c, s : op' = [ScanOp(c, s) EXCEPT !.clst = 0] => op'.at \in {"full", "scan"}
    BY <1>0, <2>1 DEF ScanOp, OpType
  <2> QED
    BY <2>1, <2>2 DEF NewChain
<1>7. \A l \in AtFile \ InSync : op.at \in AtFile \ InSync /\ op'.at = l
         /\ (UNCHANGED fp \/ (fp'[file].err <=> fp[file].err)) => Good
  BY <1>1 DEF AtFile, InSync
<1>8. \A l \in {"mount", "root", "path"} : op'.at = l => Good
  BY DEF AtFile, AtOpen, InSync
<1>9. UNCHANGED <<op, fp, stream>> => Good
  <2>1. op.at \in {"remove", "back"} => op.call = "create" /\ stream[file] = <<>>
    BY <1>0 DEF StepInv
  <2> QED
    BY <1>0, <1>1, <1>2, <2>1
<1> SUFFICES Good
  <2>1. StepInv' <=> /\ op'.call = CallOf'[step][1] /\ file' = CallOf'[step][2]
                     /\ op'.at = "ret" /\ op'.res = "FR_INVALID_OBJECT" => ~fp'[file].fs
                     /\ op'.at \in AtFile \ InSync => ~fp'[file].err
                     /\ op'.at \in InSync => op'.call \in {"sync", "close"}
                     /\ op'.at \in {"remove", "back"} => op'.call = "create" /\ stream'[file] = <<>>
    BY <1>0 DEF StepInv, Fp
  <2>2. op'.call = CallOf'[step][1] /\ file' = CallOf'[step][2]
    BY <1>0, CallNames DEF StepInv
  <2> QED
    BY <1>0, <2>1, <2>2
<1> HIDE DEF Good
<1>10. CASE Check
  <2>1. \A l : At(l) => op'.at = l
    BY <1>4
  <2>2. CASE op.call \in {"create", "open"}
    <3>1. op'.at \in {"root", "mount"}
      BY <1>4, <1>10, <2>2 DEF Check
    <3> QED
      BY <1>8, <3>1
  <2>3. CASE op.call \notin {"create", "open"} /\ ~fp[file].fs
    <3>1. Leave("FR_INVALID_OBJECT") /\ UNCHANGED fp
      BY <1>10, <2>3 DEF Check
    <3> QED
      BY <1>0, <2>3, <3>1 DEF Leave, OpType, Good, AtFile, InSync
  <2>4. CASE op.call \in {"sync", "close"} /\ fp[file].fs
    <3>1. op'.at \in {"flush", "synced"}
      BY <1>4, <1>10, <2>4 DEF Check
    <3> QED
      BY <2>4, <3>1 DEF Good, AtFile, InSync
  <2>5. CASE op.call \in {"write", "gets", "lseek"} /\ fp[file].fs /\ fp[file].err
    <3>1. Leave("FR_DISK_ERR")
      BY <1>10, <2>5 DEF Check
    <3> QED
      BY <1>3, <3>1
  <2>6. CASE op.call \in {"write", "gets", "lseek"} /\ fp[file].fs /\ ~fp[file].err
    <3>1. op'.at \in {"chunk", "byte", "seek", "top"} /\ UNCHANGED fp
      BY <1>4, <1>10, <2>6 DEF Check
    <3> QED
      BY <2>6, <3>1 DEF Good, AtFile, InSync
  <2> QED
    BY <1>0, <2>2, <2>3, <2>4, <2>5, <2>6 DEF Calls, Opening
<1>11. CASE SyncWindow \/ MoveWindow
  BY <1>3, <1>9, <1>11 DEF SyncWindow, MoveWindow, DiskRead, DiskWrite
<1>12. CASE MountVolume \/ Root \/ OpenExisting \/ OpenCreated
  BY <1>3, <1>4, <1>8, <1>12 DEF MountVolume, Root, OpenExisting, OpenCreated, DiskRead
<1>13. CASE Truncate \/ RemoveChain
  <2>1. op'.at \in {"remove", "back"}
    BY <1>0, <1>4, <1>13 DEF Truncate, RemoveChain, OpType
  <2>2. op.call = "create" /\ stream'[file] = <<>>
    BY <1>0, <1>13 DEF Truncate, RemoveChain, StepInv, StreamType
  <2> QED
    BY <2>1, <2>2 DEF Good, AtFile, InSync
<1>14. CASE Follow \/ Scan \/ Link \/ Allocate
  <2>1. op.at \in AtFile \ InSync
    BY <1>14 DEF Follow, Scan, Link, Allocate, AtFile, InSync
  <2>2. \/ op'.at \in {"seek", "place", "full", "scan", "link"}
           /\ (UNCHANGED fp \/ (fp'[file].err <=> fp[file].err))
        \/ Abort("FR_INT_ERR")
    BY <1>4, <1>5, <1>6, <1>14 DEF Follow, Scan, Link, Allocate
  <2> QED
    BY <1>3, <1>7, <2>1, <2>2 DEF AtFile, InSync
<1>15. CASE WriteBack
  <2>1. CASE FailCall("FR_DISK_ERR")
    BY <1>3, <2>1
  <2>2. CASE fp' = [fp EXCEPT ![file].dirty = FALSE] /\ UNCHANGED op
    <3>1. fp'[file].err <=> fp[file].err
      BY <1>15, <2>2, WriteBackEffect, LeaveEffect DEF AllBut
    <3> QED
      BY <1>0, <1>1, <1>2, <1>15, <2>2, <3>1 DEF Good, WriteBack
  <2> QED
    BY <1>15, <2>1, <2>2 DEF WriteBack, DiskWrite
<1>16. CASE Place \/ NextChunk \/ NextByte
  <2>1. op.at \in AtFile \ InSync
    BY <1>16 DEF Place, NextChunk, NextByte, AtFile, InSync
  <2>2. \/ op'.at \in {"seek", "place", "full", "scan", "copy", "follow"}
           /\ (UNCHANGED fp \/ (fp'[file].err <=> fp[file].err))
        \/ Abort("FR_INT_ERR") \/ FailCall("FR_DISK_ERR")
    <3>1. CASE Place
      BY <1>0, <1>4, <3>1, PlaceEffect DEF AllBut
    <3>2. CASE NextChunk
      BY <1>0, <1>4, <1>5, <1>6, <3>2 DEF NextChunk, OpType
    <3>3. CASE NextByte
      BY <1>0, <1>4, <1>5, <3>3 DEF NextByte, OpType
    <3> QED
      BY <1>16, <3>1, <3>2, <3>3
  <2> QED
    BY <1>3, <1>7, <2>1, <2>2 DEF AtFile, InSync
<1>17. CASE CopyIn \/ CopyOut \/ SeekTop \/ Seek
  <2>1. op.at \in AtFile \ InSync
    BY <1>17 DEF CopyIn, CopyOut, SeekTop, Seek, AtFile, InSync
  <2>2. op'.at \in {"chunk", "byte", "seek", "follow"} /\ (fp'[file].err <=> fp[file].err)
    <3>1. CASE CopyIn
      BY <3>1, CopyInEffect DEF AllBut
    <3>2. CASE CopyOut \/ SeekTop
      BY <1>4, <3>2, CopyOutEffect, SeekTopEffect DEF AllBut
    <3>3. CASE Seek
      BY <1>0, <3>3 DEF Seek, OpType
    <3> QED
      BY <1>17, <3>1, <3>2, <3>3
  <2> QED
    BY <1>7, <2>1, <2>2 DEF AtFile, InSync
<1>18. CASE WriteEnds \/ SeekEnds \/ GetsEnds \/ SyncEnds
  BY <1>3, <1>18 DEF WriteEnds, SeekEnds, GetsEnds, SyncEnds, DiskRead
<1>19. CASE Flushed \/ UpdateEntry \/ SyncFs
  <2>1. op.at \in InSync /\ op'.at \in {"entry", "sync", "synced"}
    BY <1>4, <1>19 DEF Flushed, UpdateEntry, SyncFs, InSync
  <2> QED
    BY <1>2, <2>1 DEF Good, AtFile, InSync
<1> QED
  BY <1>10, <1>11, <1>12, <1>13, <1>14, <1>15, <1>16, <1>17, <1>18, <1>19 DEF CallStep

(***************************************************************************)
(* What the other steps do.                                                *)
(***************************************************************************)
LEMMA WindowEffect ==
  ASSUME Types, Control, op.at # "out", SyncWindow \/ MoveWindow
  PROVE  /\ UNCHANGED <<mounts, stream, line>> /\ disk'.data = disk.data
         /\ UNCHANGED <<op, fp>> \/ FailCall("FR_DISK_ERR")
         /\ fs'.wflag => fs' = fs /\ FailCall("FR_DISK_ERR")
<1>1. CASE SyncWindow
  <2>1. disk' \in {disk, WindowWritten} /\ UNCHANGED <<mounts, stream, line>>
        /\ \/ UNCHANGED fs /\ FailCall("FR_DISK_ERR")
           \/ fs' = [fs EXCEPT !.wflag = FALSE] /\ UNCHANGED <<fp, op>>
    BY <1>1 DEF SyncWindow, DiskWrite
  <2> QED
    BY <2>1, ViewTypes DEF WindowWritten, CardState, VolumeState
<1>2. CASE MoveWindow
  <2>1. UNCHANGED <<disk, mounts, stream, line>> /\ ~fs.wflag
        /\ \/ fs' = WindowRead(Need) /\ UNCHANGED <<fp, op>>
           \/ fs' = [fs EXCEPT !.winsect = NoSect] /\ FailCall("FR_DISK_ERR")
    BY <1>2 DEF MoveWindow, DiskRead
  <2>2. ~fs'.wflag
    BY <2>1, ViewTypes DEF WindowRead, VolumeState
  <2> QED
    BY <2>1, <2>2
<1> QED
  BY <1>1, <1>2

\* What ScanOp does to the call.
LEMMA ScanOpEffect ==
  ASSUME Types
  PROVE  /\ \A c, s : op' = ScanOp(c, s) =>
              op'.at \in {"full", "scan"} /\ op'.clst = op.clst /\ op'.left = op.left
         /\ NewChain => op'.at \in {"full", "scan"} /\ op'.clst = 0 /\ op'.left = op.left
<1>1. \A c, s : /\ ScanOp(c, s).at \in {"full", "scan"} /\ "at" \in DOMAIN ScanOp(c, s)
                /\ ScanOp(c, s).clst = op.clst /\ "clst" \in DOMAIN ScanOp(c, s)
                /\ ScanOp(c, s).left = op.left /\ "left" \in DOMAIN ScanOp(c, s)
  BY DEF ScanOp, Types, OpType
<1>2. \A c, s : op' = [ScanOp(c, s) EXCEPT !.clst = 0] =>
                  op'.at \in {"full", "scan"} /\ op'.clst = 0 /\ op'.left = op.left
  BY <1>1 DEF ScanOp, Types, OpType
<1> QED
  BY <1>1, <1>2 DEF NewChain

\* The steps that change the table or the directory.
TableStep == Truncate \/ RemoveChain \/ Allocate \/ Link \/ UpdateEntry

\* What the volume shows changes only where the table or the directory is changed.
LEMMA StepView ==
  ASSUME IInv, CallStep, ~TableStep
  PROVE  /\ SameView
         /\ ~(SyncWindow \/ MoveWindow \/ SyncFs) => disk'.fat = disk.fat /\ disk'.dir = disk.dir
<1>0. Types /\ WindowInv /\ disk \in CardState /\ disk.fat \in [Clusters -> Links]
  BY ViewTypes DEF IInv, Volume
<1>1. CASE SyncWindow \/ MoveWindow \/ SyncFs
  BY <1>0, <1>1, WindowView
<1>2. CASE MountVolume
  <2>1. op.at = "mount" /\ ~fs.type /\ UNCHANGED <<disk, fp>>
    BY <1>2 DEF MountVolume, DiskRead, IInv, Volume, MountInv
  <2>2. Fat = disk.fat /\ Dir = disk.dir
    BY <2>1 DEF IInv, Volume, MountInv, WindowInv
  <2>3. UNCHANGED fs \/ fs'.winsect \in {InfoSect, NoSect}
    BY <1>2 DEF MountVolume, DiskRead, Unmounted
  <2>4. CASE UNCHANGED fs
    BY <1>0, <2>1, <2>4, UnchangedView
  <2>5. CASE fs'.winsect \in {InfoSect, NoSect}
    <3>1. \A c \in Clusters : Fat'[c] = disk.fat[c]
      BY <2>1, <2>5, SectorsDiffer DEF Fat
    <3>2. Fat' = disk.fat
      BY <1>0, <3>1 DEF Fat
    <3>3. Dir' = disk.dir
      BY <2>1, <2>5, SectorsDiffer DEF Dir
    <3> QED
      BY <2>1, <2>2, <3>2, <3>3 DEF SameView
  <2> QED
    BY <2>1, <2>3, <2>4, <2>5
<1>3. CASE ~(SyncWindow \/ MoveWindow \/ SyncFs \/ MountVolume)
  <2>1. UNCHANGED fs
    BY <1>3 DEF TableStep, CallStep, Check, Root, OpenExisting, OpenCreated, Follow, Scan, WriteBack, Place,
       NextChunk, CopyIn, WriteEnds, SeekTop, Seek, SeekEnds, NextByte, CopyOut, GetsEnds, Flushed, SyncEnds
  <2>2. UNCHANGED disk \/ disk' = BufferWritten
    BY <1>3 DEF TableStep, CallStep, Check, Root, OpenExisting, OpenCreated, Follow, Scan, WriteBack, Place,
       NextChunk, CopyIn, WriteEnds, SeekTop, Seek, SeekEnds, NextByte, CopyOut, GetsEnds, Flushed, SyncEnds,
       DiskRead, DiskWrite
  <2>3. disk'.fat = disk.fat /\ disk'.dir = disk.dir
    BY <1>0, <2>2 DEF BufferWritten, CardState
  <2> QED
    BY <1>0, <2>1, <2>3, UnchangedView
<1> QED
  BY <1>1, <1>2, <1>3

\* What Truncate does to the directory and the stream.
LEMMA TruncateEffect ==
  ASSUME Types, Control, Truncate
  PROVE  /\ op.at = "path" /\ op.call = "create" /\ UNCHANGED <<disk, fp, mounts, line>>
         /\ file \in Files /\ ~fp[file].fs /\ fs.winsect = DirSect /\ fs'.winsect = DirSect
         /\ \E e \in Entry : e.clust = 0 /\ e.size = 0 /\ Dir' = [Dir EXCEPT ![file] = e]
         /\ Fat' = Fat
         /\ stream' = [stream EXCEPT ![file] = <<>>]
         /\ \/ op'.at = "remove" /\ Dir[file].clust # 0
            \/ op'.at = "back" /\ Dir[file].clust = 0
<1> DEFINE head == fs.dir[file].clust
           new  == [there |-> TRUE, clust |-> 0, size |-> 0]
<1>1. /\ op.at = "path" /\ op.at # "out" /\ UNCHANGED <<disk, fp, mounts, line>> /\ InWindow
      /\ op.call = "create" /\ stream' = [stream EXCEPT ![file] = <<>>]
      /\ fs' = [fs EXCEPT !.dir[file] = new, !.wflag = TRUE]
  BY DEF Truncate
<1>2. file \in Files /\ ~fp[file].fs
  BY <1>1, CallKnown DEF Control, CallInv, AtOpen, Fp
<1>3. fs.winsect = DirSect /\ head = Dir[file].clust
  BY <1>1 DEF InWindow, Need, Dir
<1>4. new \in Entry /\ new.clust = 0 /\ new.size = 0
  BY DEF Entry, Starts
<1>5. /\ fs'.winsect = fs.winsect /\ fs'.dir = [fs.dir EXCEPT ![file] = new]
      /\ fs'.fat = fs.fat
  BY <1>1, ViewTypes DEF VolumeState
<1>6. Dir' = [Dir EXCEPT ![file] = new] /\ Fat' = Fat
  BY <1>1, <1>2, <1>3, <1>4, <1>5, EntrySet
<1>7. op' = [op EXCEPT !.at = "remove", !.clst = head, !.ncl = head] => op'.at = "remove"
  BY DEF Types, OpType
<1>8. At("back") => op'.at = "back"
  BY DEF At, Types, OpType
<1>9. (op'.at = "remove" /\ head # 0) \/ (op'.at = "back" /\ head = 0)
  BY <1>7, <1>8 DEF Truncate
<1> QED
  BY <1>1, <1>2, <1>3, <1>4, <1>5, <1>6, <1>9

\* What RemoveChain does to the table.
LEMMA RemoveEffect ==
  ASSUME Types, Control, RemoveChain
  PROVE  /\ op.at = "remove" /\ op'.at \in {"remove", "back"} /\ op.clst \in Clusters
         /\ UNCHANGED <<disk, fp, mounts, stream, line>>
         /\ fs.winsect = FatSect(op.clst) /\ fs'.winsect = fs.winsect /\ Dir = disk.dir /\ Dir' = disk.dir
         /\ Fat' = Fat \/ Fat' = [Fat EXCEPT ![op.clst] = 0]
<1> DEFINE nxt == fs.fat[op.clst]
           freed == [fs EXCEPT !.fat[op.clst] = 0, !.wflag = TRUE, !.fsi = fs.info]
<1>1. /\ op.at = "remove" /\ UNCHANGED <<disk, fp, mounts, stream, line>> /\ InWindow /\ op.clst \in Clusters
  BY DEF RemoveChain, Control, ScanInv
<1>2. fs.winsect = FatSect(op.clst)
  BY <1>1 DEF InWindow, Need
<1>3. CASE fs' = [fs EXCEPT !.last = op.ncl - 1] /\ At("back")
  <2>1. fs'.winsect = fs.winsect /\ fs'.dir = fs.dir /\ fs'.fat = fs.fat
    BY <1>3, ViewTypes DEF VolumeState
  <2>2. Fat' = Fat /\ Dir' = Dir /\ Dir = disk.dir
    BY <1>1, <1>2, <2>1, SectorsDiffer DEF Fat, Dir
  <2>3. op'.at = "back"
    BY <1>3 DEF At, Types, OpType
  <2> QED
    BY <1>1, <1>2, <2>1, <2>2, <2>3
<1>4. CASE /\ fs' \in {freed, [freed EXCEPT !.last = op.ncl - 1]}
           /\ (nxt \in Clusters /\ op' = [op EXCEPT !.clst = nxt]) \/ At("back")
  <2>1. /\ fs'.winsect = fs.winsect /\ fs'.fat = [fs.fat EXCEPT ![op.clst] = 0]
        /\ fs'.dir = fs.dir
    BY <1>4, ViewTypes DEF VolumeState
  <2>2. Fat' = [Fat EXCEPT ![op.clst] = 0] /\ Dir' = Dir
    BY <1>1, <1>2, <2>1, LinkSet DEF Links
  <2>3. Dir = disk.dir
    BY <1>2, SectorsDiffer DEF Dir
  <2>4. op'.at \in {"remove", "back"}
    BY <1>1, <1>4 DEF At, Types, OpType
  <2> QED
    BY <1>1, <1>2, <2>1, <2>2, <2>3, <2>4
<1> QED
  BY <1>3, <1>4 DEF RemoveChain

\* What Allocate does to the table.
LEMMA AllocateEffect ==
  ASSUME Types, Control, Allocate
  PROVE  /\ op.at = "scan" /\ op.ncl \in Clusters /\ Fat[op.ncl] = 0
         /\ UNCHANGED <<disk, mounts, stream, line>> /\ fs.winsect = FatSect(op.ncl)
         /\ fs'.winsect = fs.winsect
         /\ Fat' = [Fat EXCEPT ![op.ncl] = EOC] /\ Dir' = Dir
         /\ \/ op.clst = 0 /\ GotCluster(op.ncl)
            \/ op.clst # 0 /\ At("link") /\ UNCHANGED fp
<1> DEFINE c == op.ncl
           marked == [fs EXCEPT !.fat[op.ncl] = EOC, !.wflag = TRUE]
<1>1. /\ op.at = "scan" /\ UNCHANGED <<disk, mounts, stream, line>> /\ InWindow
      /\ c \in Clusters /\ fs.fat[c] = 0
      /\ fs' \in {marked, [marked EXCEPT !.last = op.ncl, !.fsi = fs.info]}
      /\ \/ op.clst = 0 /\ GotCluster(op.ncl)
         \/ op.clst # 0 /\ At("link") /\ UNCHANGED fp
  BY DEF Allocate, Control, ScanInv
<1>2. fs.winsect = FatSect(c) /\ Fat[c] = 0
  BY <1>1 DEF InWindow, Need, Fat
<1>3. /\ fs'.winsect = fs.winsect /\ fs'.fat = [fs.fat EXCEPT ![c] = EOC] /\ fs'.dir = fs.dir
  BY <1>1, ViewTypes DEF VolumeState
<1>4. Fat' = [Fat EXCEPT ![c] = EOC] /\ Dir' = Dir
  BY <1>1, <1>2, <1>3, LinkSet DEF Links
<1> QED
  BY <1>1, <1>2, <1>3, <1>4

\* What Link does to the table.
LEMMA LinkEffect ==
  ASSUME Types, Control, Link
  PROVE  /\ op.at = "link" /\ op.ncl \in Clusters /\ op.clst \in Clusters
         /\ UNCHANGED <<disk, mounts, stream, line>> /\ fs.winsect = FatSect(op.clst)
         /\ fs'.winsect = fs.winsect
         /\ Fat' = [Fat EXCEPT ![op.clst] = op.ncl] /\ Dir' = Dir /\ GotCluster(op.ncl)
<1> DEFINE c == op.ncl
<1>1. /\ op.at = "link" /\ UNCHANGED <<disk, mounts, stream, line>> /\ InWindow /\ GotCluster(c)
      /\ c \in Clusters /\ op.clst \in Clusters
      /\ fs' = [fs EXCEPT !.fat[op.clst] = op.ncl, !.wflag = TRUE, !.last = op.ncl, !.fsi = fs.info]
  BY DEF Link, Control, ScanInv
<1>2. fs.winsect = FatSect(op.clst)
  BY <1>1 DEF InWindow, Need
<1>3. /\ fs'.winsect = fs.winsect /\ fs'.fat = [fs.fat EXCEPT ![op.clst] = c] /\ fs'.dir = fs.dir
  BY <1>1, ViewTypes DEF VolumeState
<1>4. Fat' = [Fat EXCEPT ![op.clst] = c] /\ Dir' = Dir
  BY <1>1, <1>2, <1>3, LinkSet DEF Links
<1> QED
  BY <1>1, <1>2, <1>3, <1>4

\* What UpdateEntry does to the directory and the object.
LEMMA UpdateEffect ==
  ASSUME Types, Control, UpdateEntry
  PROVE  /\ op.at = "entry" /\ op'.at = "sync" /\ UNCHANGED <<disk, mounts, stream, line>>
         /\ fs.winsect = DirSect /\ fs'.winsect = DirSect /\ Fat' = Fat
         /\ \E e \in Entry : /\ e.clust = fp[file].sclust /\ e.size = fp[file].fsize
                             /\ Dir' = [Dir EXCEPT ![file] = e]
         /\ AllBut(fp'[file], fp[file], {"written"}) /\ ~fp'[file].written
<1> DEFINE e == [fs.dir[file] EXCEPT !.size = Fp.fsize, !.clust = Fp.sclust]
<1>1. /\ op.at = "entry" /\ op.at # "out" /\ UNCHANGED <<disk, mounts, stream, line>> /\ InWindow
      /\ op.at \in AtFile /\ fp' = [fp EXCEPT ![file].written = FALSE] /\ At("sync")
  BY DEF UpdateEntry, AtFile
<1>2. /\ file \in Files /\ Fp.fs /\ Fp = fp[file] /\ fp \in [Files -> FileObject]
      /\ fs.dir[file] \in Entry /\ Fp.fsize \in Nat /\ Fp.sclust \in Starts
      /\ Fp.fsize # 0 => Fp.sclust # 0 /\ Fp \in FileObject
  BY <1>1, ChunkKnown, CallKnown DEF FileObject
<1>3. e \in Entry /\ e.clust = Fp.sclust /\ e.size = Fp.fsize
  BY <1>2 DEF Entry
<1>4. fs' = [fs EXCEPT !.dir[file] = e, !.wflag = TRUE]
  BY <1>2, ViewTypes DEF UpdateEntry, VolumeState
<1> HIDE DEF e
<1>5. /\ fs'.winsect = fs.winsect /\ fs'.dir = [fs.dir EXCEPT ![file] = e]
      /\ fs'.fat = fs.fat
  BY <1>4, ViewTypes DEF VolumeState
<1>6. fs.winsect = DirSect
  BY <1>1 DEF InWindow, Need
<1>7. Dir' = [Dir EXCEPT ![file] = e] /\ Fat' = Fat
  BY <1>1, <1>2, <1>3, <1>5, <1>6, EntrySet
<1>8. fp'[file] = [fp[file] EXCEPT !.written = FALSE]
  BY <1>1, <1>2
<1>9. AllBut(fp'[file], fp[file], {"written"}) /\ ~fp'[file].written
  BY <1>2, <1>8, FileKnown, <1>1 DEF AllBut, FileObject
<1>10. op'.at = "sync"
  BY <1>1, AtEffect
<1> QED
  BY <1>1, <1>2, <1>3, <1>5, <1>6, <1>7, <1>9, <1>10

\* What Check does: where each call goes on.
LEMMA CheckEffect ==
  ASSUME Types, Control, Check
  PROVE  /\ op.at = "check" /\ UNCHANGED <<disk, fs, mounts, stream, line, faults>> /\ op'.left = op.left
         /\ \/ /\ op.call \in Opening /\ op'.at \in {"root", "mount"}
               /\ AllBut(fp'[file], fp[file], {"fs"}) /\ ~fp'[file].fs
            \/ op.call \notin Opening /\ UNCHANGED fp /\ op'.at = "ret" /\ (fp[file].fs => fp[file].err)
            \/ /\ op.call \in {"sync", "close"} /\ UNCHANGED fp /\ fp[file].fs
               /\ op'.at = IF fp[file].written THEN "flush" ELSE "synced"
            \/ /\ op.call \notin Opening /\ UNCHANGED fp /\ fp[file].fs /\ ~fp[file].err
               /\ \/ op.call = "write" /\ op'.at = "chunk"
                  \/ op.call = "gets" /\ op'.at = "byte"
                  \/ op.call = "lseek" /\ op'.at = IF op.left = 0 THEN "seek" ELSE "top"
<1>0. /\ op.at = "check" /\ op.at # "out" /\ UNCHANGED <<disk, fs, mounts, stream, line, faults>>
      /\ op.call \in Calls /\ file \in Files /\ fp \in [Files -> FileObject] /\ fp[file] \in FileObject
      /\ Opening = {"create", "open"}
  BY CallKnown, FileKnown DEF Check, Opening
<1>1. \A l : At(l) => op'.at = l /\ op'.left = op.left
  BY AtEffect
<1>2. \A r : Leave(r) => op'.at = "ret" /\ op'.left = op.left
  BY DEF Leave, Types, OpType
<1>3. CASE op.call \in Opening
  <2>1. fp' = [fp EXCEPT ![file].fs = FALSE] /\ op'.at \in {"root", "mount"} /\ op'.left = op.left
    BY <1>0, <1>1, <1>3 DEF Check
  <2>2. fp'[file] = [fp[file] EXCEPT !.fs = FALSE]
    BY <1>0, <2>1
  <2>3. AllBut(fp'[file], fp[file], {"fs"}) /\ ~fp'[file].fs
    BY <1>0, <2>2 DEF AllBut, FileObject
  <2> QED
    BY <1>0, <1>3, <2>1, <2>3
<1>4. CASE op.call \notin Opening /\ ~fp[file].fs
  BY <1>0, <1>2, <1>4 DEF Check
<1>5. CASE op.call \in {"sync", "close"} /\ fp[file].fs
  BY <1>0, <1>1, <1>5 DEF Check
<1>6. CASE op.call \in {"write", "gets", "lseek"} /\ fp[file].fs /\ fp[file].err
  BY <1>0, <1>2, <1>6 DEF Check
<1>7. CASE op.call \in {"write", "gets", "lseek"} /\ fp[file].fs /\ ~fp[file].err
  BY <1>0, <1>1, <1>7 DEF Check
<1> QED
  BY <1>0, <1>3, <1>4, <1>5, <1>6, <1>7 DEF Calls

(***************************************************************************)
(* A step of a call keeps the order of the calls and the old entries.      *)
(***************************************************************************)
\* The facts of the invariant that every step of a call uses.
LEMMA InStep ==
  ASSUME IInv, CallStep
  PROVE  /\ Types /\ Control /\ Volume /\ MountInv /\ WindowInv /\ SoundInv /\ OpType
         /\ op.at \notin {"out", "ret"} /\ op'.at \notin {"out", "check"}
         /\ op'.call = op.call /\ op'.file = op.file /\ op'.from = op.from /\ file' = file
         /\ file \in Files /\ step \in Steps /\ op.call \in Calls
         /\ \A n \in Files : n # file => fp'[n] = fp[n]
         /\ Fp = fp[file] /\ fp \in [Files -> FileObject] /\ fp[file] \in FileObject
         /\ fptr = fp[file].fptr /\ fptr \in Nat /\ op.left \in Nat /\ op.from \in Nat
         /\ fptr' = fp'[file].fptr
<1>1. Types /\ Control /\ Volume /\ MountInv /\ WindowInv /\ SoundInv /\ OpType
  BY DEF IInv, Volume, Types
<1>2. op.at \notin {"out", "ret"} /\ op'.at \notin {"out", "check"}
  BY <1>1, InACall
<1>3. op'.call = op.call /\ op'.file = op.file /\ op'.from = op.from /\ file' = file
  BY <1>1, SameCall DEF file
<1> QED
  BY <1>1, <1>2, <1>3, CallKnown, OtherFiles, FileKnown DEF fptr

\* A file object becomes valid only at the end of f_open().
LEMMA Opens ==
  ASSUME IInv, CallStep, fp'[file].fs, ~fp[file].fs
  PROVE  op'.at = "ret"
<1>0. /\ Types /\ Control /\ op.at # "out" /\ file \in Files /\ fp \in [Files -> FileObject]
      /\ op.at \in AtFile => Fp.fs /\ Fp = fp[file]
  BY InStep DEF Control, CallInv
<1>1. op.at \notin AtFile
  BY <1>0
<1>2. CASE Check
  BY <1>0, <1>2 DEF Check, FileObject
<1>3. CASE SyncWindow \/ MoveWindow
  BY <1>0, <1>3, WindowEffect, LeaveEffect
<1>4. CASE MountVolume \/ Root \/ Truncate \/ RemoveChain
  BY <1>4 DEF MountVolume, Root, Truncate, RemoveChain
<1>5. CASE OpenExisting \/ OpenCreated
  BY <1>0, <1>5, OpenEffect
<1> QED
  BY <1>1, <1>2, <1>3, <1>4, <1>5 DEF CallStep, AtFile, 
     Follow, Scan, Allocate, Link, WriteBack, Place, NextChunk, CopyIn, WriteEnds, SeekTop, Seek,
     SeekEnds, NextByte, CopyOut, GetsEnds, Flushed, UpdateEntry, SyncFs, SyncEnds

\* The files of which the order of the program is known.
LEMMA BeforeNames ==
  /\ DOMAIN Before = {"config", "version", "mpu6000", "rc"} /\ DOMAIN Before \subseteq Files
  /\ Before' = Before
  /\ Before["config"] = {"cfg_open"}
  /\ Before["version"] = CfgSteps \cup {"version_open"}
  /\ Before["mpu6000"] = CfgSteps \cup VersionSteps \cup {"mpu_open", "open"}
  /\ Before["rc"] = CfgSteps \cup VersionSteps \cup {"mpu_open", "mpu_write", "rc_open"}
BY FilesNamed DEF Before, CfgSteps, VersionSteps

\* No object is valid before the step that opens its file.
LEMMA ClosedKept ==
  ASSUME IInv, ClosedInv, CallStep, UNCHANGED step
  PROVE  ClosedInv'
<1> SUFFICES ASSUME NEW n \in DOMAIN Before, fp'[n].fs
             PROVE  step \notin Before[n] \/ (op'.at = "ret" /\ file = n)
  BY InStep, BeforeNames DEF ClosedInv
<1>1. CASE fp[n].fs
  BY <1>1, InStep DEF ClosedInv
<1>2. CASE ~fp[n].fs
  <2>1. n = file
    BY <1>2, InStep, BeforeNames
  <2> QED
    BY <1>2, <2>1, Opens
<1> QED
  BY <1>1, <1>2

\* Only while its chain is freed is there an old entry in a call.
LEMMA NoneOld ==
  ASSUME IInv, CallStep, OldInv, op.at # "remove"
  PROVE  \A n \in Files : disk.dir[n].size <= Dir[n].size
<1> SUFFICES ASSUME NEW n \in Files
             PROVE  ~Old(n) => disk.dir[n].size <= Dir[n].size
  BY InStep DEF OldInv
<1>1. disk.dir[n].size \in Nat /\ Dir[n].size \in Nat
  BY ViewTypes, InStep DEF Entry
<1> QED
  BY <1>1 DEF Old

\* An entry of the card stays old only while its file is being created.
LEMMA OldKept ==
  ASSUME FInv, CallStep, UNCHANGED step, Types'
  PROVE  OldInv'
<1>0. /\ IInv /\ Types /\ Control /\ op.at # "out" /\ file \in Files /\ OldInv /\ WindowInv
      /\ Dir \in [Files -> Entry] /\ disk.dir \in [Files -> Entry]
      /\ \A e \in Entry : e.size \in Nat /\ (e.clust = 0 => e.size = 0)
      /\ fp \in [Files -> FileObject] /\ file' = file /\ op'.call = op.call
  BY InStep, ViewTypes DEF Entry, Flow, FInv
<1>1. ASSUME \A n \in Files : disk'.dir[n].size <= Dir'[n].size
      PROVE  OldInv'
  <2>1. \A n \in Files : disk'.dir[n].size \in Nat /\ Dir'[n].size \in Nat
    <3>1. disk'.dir \in [Files -> Entry] /\ Dir' \in [Files -> Entry]
      BY DEF Types, DiskType, FsType, CardState, VolumeState, Dir
    <3> QED
      BY <1>0, <3>1
  <2> QED
    BY <1>1, <2>1 DEF OldInv, Old
<1>2. CASE op.at # "remove" /\ ~TableStep
  <2>1. SameView
    BY <1>0, <1>2, StepView
  <2>2. \A n \in Files : disk'.dir[n].size <= Dir'[n].size
    BY <1>0, <1>2, <2>1, NoneOld DEF SameView
  <2> QED
    BY <1>1, <2>2
<1>3. CASE Allocate \/ Link
  <2>1. op.at # "remove" /\ UNCHANGED disk /\ Dir' = Dir
    BY <1>0, <1>3, AllocateEffect, LinkEffect
  <2> QED
    BY <1>0, <1>1, <2>1, NoneOld
<1>4. CASE UpdateEntry
  <2>1. op.at = "entry" /\ UNCHANGED disk
    BY <1>0, <1>4, UpdateEffect
  <2>2. PICK e \in Entry : e.size = fp[file].fsize /\ Dir' = [Dir EXCEPT ![file] = e]
    BY <1>0, <1>4, UpdateEffect
  <2>3. \A n \in Files : disk.dir[n].size <= Dir[n].size
    BY <1>0, <2>1, NoneOld
  <2>4. fp[file].fs
    BY <1>0, <2>1, InStep DEF Control, CallInv, AtFile
  <2>5. Dir[file].size <= fp[file].fsize
    BY <1>0, <2>4 DEF FInv, Sizes, SizeInv, SizeOf, Content, ContentOf, EntryOf
  <2>6. \A n \in Files : Dir[n].size <= Dir'[n].size
    <3>1. \A n \in Files : Dir'[n] = IF n = file THEN e ELSE Dir[n]
      BY <1>0, <2>2
    <3> QED
      BY <1>0, <2>2, <2>5, <3>1
  <2>7. \A n \in Files : disk.dir[n].size \in Nat /\ Dir[n].size \in Nat /\ Dir'[n].size \in Nat
    BY <1>0, <2>2
  <2> QED
    BY <1>1, <2>1, <2>3, <2>6, <2>7
<1>5. CASE Truncate
  <2>1. /\ op.at = "path" /\ UNCHANGED <<disk, fp>> /\ ~fp[file].fs /\ fs.winsect = DirSect
        /\ stream' = [stream EXCEPT ![file] = <<>>]
        /\ op'.at = "remove" \/ (op'.at = "back" /\ Dir[file].clust = 0)
    BY <1>0, <1>5, TruncateEffect
  <2>2. PICK e \in Entry : e.size = 0 /\ Dir' = [Dir EXCEPT ![file] = e]
    BY <1>0, <1>5, TruncateEffect
  <2>3. Dir = disk.dir
    BY <1>0, <2>1, SectorsDiffer DEF FInv, Flow, DirtyInv, WindowInv
  <2>4. \A n \in Files : n # file => disk'.dir[n].size <= Dir'[n].size
    BY <1>0, <2>1, <2>2, <2>3
  <2>5. CASE op'.at = "back" /\ Dir[file].clust = 0
    BY <1>0, <1>1, <2>1, <2>2, <2>3, <2>4, <2>5
  <2>6. CASE op'.at = "remove"
    <3>1. stream'[file] = <<>> /\ ~fp'[file].fs
      BY <1>0, <2>1 DEF FInv, Sizes, StreamType
    <3>2. \A n \in Files : n # file => ~Old(n)'
      BY <1>0, <2>1, <2>2, <2>3, <2>4 DEF Old
    <3> QED
      BY <1>0, <2>6, <3>1, <3>2 DEF OldInv
  <2> QED
    BY <2>1, <2>5, <2>6
<1>6. CASE RemoveChain
  <2>1. UNCHANGED disk /\ Dir' = disk.dir
    BY <1>0, <1>6, RemoveEffect
  <2> QED
    BY <1>0, <1>1, <2>1
<1>7. CASE op.at = "remove" /\ ~RemoveChain
  <2>1. SyncWindow \/ MoveWindow
    BY <1>7 DEF CallStep, Check, MountVolume, Root, OpenExisting, Truncate, OpenCreated,
     Follow, Scan, Allocate, Link, WriteBack, Place, NextChunk, CopyIn, WriteEnds, SeekTop, Seek,
     SeekEnds, NextByte, CopyOut, GetsEnds, Flushed, UpdateEntry, SyncFs, SyncEnds
  <2>2. SameView /\ UNCHANGED stream
    BY <1>0, <2>1, WindowView, WindowEffect DEF IInv, Volume
  <2>3. ASSUME NEW n \in Files, Old(n)'
        PROVE  Old(n) /\ stream[n] = <<>> /\ ~fp[n].fs /\ file = n
    <3>1. disk'.dir[n].size > Dir[n].size /\ Dir[n].size \in Nat
      BY <1>0, <2>2, <2>3 DEF Old, SameView
    <3>2. Old(n)
      BY <1>0, <2>2, <3>1 DEF Old, SameView
    <3> QED
      BY <1>0, <1>7, <3>2 DEF OldInv
  <2>4. CASE UNCHANGED <<op, fp>>
    BY <1>7, <2>2, <2>3, <2>4 DEF OldInv, file
  <2>5. CASE FailCall("FR_DISK_ERR")
    <3>1. op.call = "create"
      BY <1>7 DEF FInv, Flow, StepInv
    <3>2. UNCHANGED fp /\ op'.at = "ret" /\ op'.res # "FR_OK"
      BY <1>0, <2>5, <3>1, LeaveEffect
    <3> QED
      BY <1>0, <2>2, <2>3, <3>1, <3>2 DEF OldInv
  <2> QED
    BY <1>0, <2>1, <2>4, <2>5, WindowEffect
<1> QED
  BY <1>2, <1>3, <1>4, <1>5, <1>6, <1>7 DEF TableStep

\* The directory is not changed before it is read.
LEMMA DirtyKept ==
  ASSUME IInv, DirtyInv, CallStep
  PROVE  DirtyInv'
<1>0. Types /\ Control /\ op.at # "out" /\ OpType /\ fs \in VolumeState
  BY InStep, ViewTypes
<1>1. CASE Truncate \/ UpdateEntry
  <2>1. fs'.winsect = DirSect /\ op'.at \in {"remove", "back", "sync"}
    BY <1>0, <1>1, TruncateEffect, UpdateEffect
  <2> QED
    BY <2>1, SectorsDiffer DEF DirtyInv
<1>2. CASE RemoveChain \/ Allocate \/ Link
  <2>1. op'.at # "path" /\ \E c : fs'.winsect = FatSect(c)
    BY <1>0, <1>2, RemoveEffect, AllocateEffect, LinkEffect, GotEffect, AtEffect
  <2> QED
    BY <2>1, SectorsDiffer DEF DirtyInv
<1>3. CASE SyncWindow \/ MoveWindow
  <2>1. fs'.wflag => fs' = fs /\ op'.at = "ret"
    BY <1>0, <1>3, WindowEffect, LeaveEffect
  <2> QED
    BY <2>1 DEF DirtyInv
<1>4. CASE ~TableStep /\ ~(SyncWindow \/ MoveWindow)
  <2>1. fs'.wflag => fs.wflag /\ fs'.winsect = fs.winsect
    <3>1. CASE MountVolume
      BY <3>1 DEF MountVolume, DiskRead, Unmounted
    <3>2. CASE SyncFs
      BY <1>0, <3>2 DEF SyncFs, DiskWrite, VolumeState
    <3>3. CASE ~(MountVolume \/ SyncFs)
      <4>1. UNCHANGED fs
        BY <1>4, <3>3 DEF TableStep, CallStep, Check, Root, OpenExisting, OpenCreated, Follow, Scan, WriteBack,
          Place, NextChunk, CopyIn, WriteEnds, SeekTop, Seek, SeekEnds, NextByte, CopyOut, GetsEnds, Flushed,
          SyncEnds
      <4> QED
        BY <4>1
    <3> QED
      BY <3>1, <3>2, <3>3
  <2>2. op'.at = "path" => fs'.winsect = RootSect
    <3>1. CASE Root
      BY <3>1 DEF Root, InWindow, Need
    <3>2. CASE Check
      BY <1>0, <3>2, CheckEffect
    <3>3. CASE OpenExisting
      BY <1>0, <3>3, OpenEffect
    <3>4. CASE ~(Root \/ Check \/ OpenExisting)
      <4>1. op.at \notin {"check", "path"}
        BY <1>4, <3>4 DEF TableStep, CallStep, Check, MountVolume, Root, OpenCreated,
          Follow, Scan, WriteBack, Place, NextChunk, CopyIn, WriteEnds, SeekTop, Seek,
          SeekEnds, NextByte, CopyOut, GetsEnds, Flushed, SyncFs, SyncEnds
      <4> QED
        BY <1>0, <3>4, <4>1, OpFrame
    <3> QED
      BY <3>1, <3>2, <3>3, <3>4
  <2> QED
    BY <2>1, <2>2 DEF DirtyInv
<1> QED
  BY <1>1, <1>2, <1>3, <1>4 DEF TableStep

(***************************************************************************)
(* What is kept of the contents of a file.                                 *)
(***************************************************************************)
WayKept(n) == \A i \in Nat : Way[n][i] \in Clusters => Way[n]'[i] = Way[n][i]

\* The chains of the files, cluster by cluster.
LEMMA Ways ==
  ASSUME Types
  PROVE  /\ \A n \in Files : Way[n] = Walk(Fat, Start[n]) /\ Way[n] \in [Nat -> Links]
         /\ \A n \in Files : Way[n][0] = Start[n]
         /\ \A n \in Files : \A i \in Nat : Way[n][i + 1] = Succ(Fat, Way[n][i])
         /\ \A n \in Files : DiskWay[n] = Walk(disk.fat, disk.dir[n].clust) /\ DiskWay[n] \in [Nat -> Links]
<1>1. /\ Fat \in [Clusters -> Links] /\ \A n \in Files : Start[n] \in Links
      /\ disk.fat \in [Clusters -> Links] /\ \A n \in Files : disk.dir[n].clust \in Links
  BY ViewTypes DEF Starts, Links, Entry
<1>2. \A n \in Files : Way[n] = Walk(Fat, Start[n]) /\ DiskWay[n] = Walk(disk.fat, disk.dir[n].clust)
  BY DEF Way, DiskWay
<1>3. \A n \in Files : /\ Way[n] \in [Nat -> Links] /\ Way[n][0] = Start[n]
                       /\ \A i \in Nat : Way[n][i + 1] = Succ(Fat, Way[n][i])
                       /\ DiskWay[n] \in [Nat -> Links]
  <2> TAKE n \in Files
  <2>1. Start[n] \in Links /\ disk.dir[n].clust \in Links
    BY <1>1
  <2>2. /\ Walk(Fat, Start[n]) \in [Nat -> Links] /\ Walk(Fat, Start[n])[0] = Start[n]
        /\ \A i \in Nat : Walk(Fat, Start[n])[i + 1] = Succ(Fat, Walk(Fat, Start[n])[i])
    BY <1>1, <2>1, WalkDef
  <2>3. Walk(disk.fat, disk.dir[n].clust) \in [Nat -> Links]
    BY <1>1, <2>1, WalkDef
  <2> QED
    BY <1>2, <2>2, <2>3
<1> QED
  BY <1>2, <1>3

\* A chain whose table and start do not change is the same.
LEMMA SameWay ==
  ASSUME NEW n \in Files, Fat' = Fat, Start'[n] = Start[n]
  PROVE  WayKept(n) /\ Way'[n] = Way[n]
BY DEF WayKept, Way

\* No sector of data is sector 0.
LEMMA NoSectorZero ==
  ASSUME NEW p \in Nat, NEW c \in Clusters
  PROVE  SectOf(c, p) # 0
<1>1. SectOf(c, p) \div CSize = c /\ c # 0 /\ CSize \in Nat \ {0}
  BY SectorsApart, Constants
<1>2. 0 \div CSize = 0
  BY <1>1
<1> QED
  BY <1>1, <1>2

\* The contents of a file whose chain, buffer and sectors are kept.
LEMMA DataKept ==
  ASSUME NEW n \in Files, DataOf(n), WayKept(n),
         \A p \in Nat : p < End(n) => disk'.data[Addr(n, p)] = disk.data[Addr(n, p)],
         Dir[n].size \in Nat, Dir'[n].size \in Nat,
         \A p \in Nat : p < End(n)' => p < End(n) /\ UnitAt(n, p)' = UnitAt(n, p),
         Dir'[n].size <= Dir[n].size \/ \A p \in Nat : p < End(n) => OnCard(n, p) = UnitAt(n, p),
         fp'[n].fs => \/ /\ fp[n].fs /\ fp'[n].dsect = fp[n].dsect /\ fp'[n].buf = fp[n].buf
                         /\ fp'[n].dirty <=> fp[n].dirty
                      \/ /\ fp'[n].dsect = 0
                         /\ \A p \in Nat : p < End(n) => OnCard(n, p) = UnitAt(n, p)
  PROVE  DataOf(n)'
<1> SUFFICES ASSUME NEW p \in Nat, p < End(n)'
             PROVE  /\ Way'[n][p \div BCS] \in Clusters
                    /\ p < Dir'[n].size => OnCard(n, p)' = UnitAt(n, p)'
                    /\ fp'[n].fs /\ fp'[n].dsect = Addr(n, p)' => fp'[n].buf[p % SS] = UnitAt(n, p)'
                    /\ fp'[n].fs /\ (fp'[n].dsect # Addr(n, p)' \/ ~fp'[n].dirty)
                         => OnCard(n, p)' = UnitAt(n, p)'
  BY DEF DataOf
<1>1. /\ p < End(n) /\ UnitAt(n, p)' = UnitAt(n, p) /\ p \div BCS \in Nat /\ Way[n][p \div BCS] \in Clusters
      /\ p < Dir[n].size => OnCard(n, p) = UnitAt(n, p)
      /\ fp[n].fs /\ fp[n].dsect = Addr(n, p) => fp[n].buf[p % SS] = UnitAt(n, p)
      /\ fp[n].fs /\ (fp[n].dsect # Addr(n, p) \/ ~fp[n].dirty) => OnCard(n, p) = UnitAt(n, p)
  BY SectorOfPlace DEF DataOf
<1>2. Way'[n][p \div BCS] = Way[n][p \div BCS]
  BY <1>1 DEF WayKept
<1>3. Addr(n, p)' = Addr(n, p) /\ OnCard(n, p)' = OnCard(n, p) /\ Addr(n, p) # 0
  BY <1>1, <1>2, NoSectorZero DEF Addr, OnCard
<1>4. p < Dir'[n].size => OnCard(n, p) = UnitAt(n, p)
  BY <1>1
<1> QED
  BY <1>1, <1>2, <1>3, <1>4

\* A buffer that is kept is still of a sector of its file.
LEMMA BufferKept ==
  ASSUME NEW n \in Files, BufferOf(n), WayKept(n),
         fp'[n].fs /\ fp'[n].dirty => fp[n].fs /\ fp[n].dirty /\ fp'[n].dsect = fp[n].dsect
  PROVE  BufferOf(n)'
BY DEF BufferOf, WayKept

\* An entry that is kept still counts what was written.
LEMMA EntryKept ==
  ASSUME NEW n \in Files, EntryOf(n), Dir'[n] = Dir[n], Len(stream[n]) <= Len(stream'[n]),
         Dir[n].size \in Nat, Len(stream[n]) \in Nat, Len(stream'[n]) \in Nat,
         Dir[n].size # 0 => Start'[n] = Start[n]
  PROVE  EntryOf(n)'
BY DEF EntryOf

\* A pending write begins behind what was written.
LEMMA EndBound ==
  ASSUME FInv, NEW n \in Files
  PROVE  /\ Len(stream[n]) \in Nat /\ End(n) \in Nat /\ Len(stream[n]) <= End(n)
         /\ Dir[n].size \in Nat /\ Dir[n].size <= Len(stream[n])
<1>0. stream[n] \in Seq(Unit) /\ Types /\ Control
  BY DEF FInv, Sizes, StreamType, IInv
<1>1. Len(stream[n]) \in Nat /\ fp[n].fptr \in Nat /\ fp[n].fsize \in Nat
  BY <1>0 DEF Types, FileObject
<1>2. Dir[n].size \in Nat /\ Dir[n].size <= Len(stream[n])
  BY <1>0, ViewTypes DEF Entry, FInv, Content, ContentOf, EntryOf
<1>3. CASE Pending /\ n = file
  <2>1. fp[n].fs
    BY <1>0, <1>3 DEF Pending, Control, CallInv, AtFile, Fp
  <2>2. fp[n].fsize = Len(stream[n])
    BY <2>1 DEF FInv, Sizes, SizeInv, SizeOf
  <2>3. fp[n].fsize <= fptr /\ fptr \in Nat
    BY <1>1, <1>3 DEF FInv, Sizes, CallEnd, Fp, fptr
  <2> QED
    BY <1>1, <1>2, <1>3, <2>2, <2>3 DEF End
<1>4. CASE ~(Pending /\ n = file)
  BY <1>1, <1>2, <1>4 DEF End
<1> QED
  BY <1>3, <1>4

\* What the entry of the card counts, when the window stays or is written.
LEMMA DiskKept ==
  ASSUME FInv, Types', NEW n \in Files,
         \/ /\ disk'.fat = disk.fat /\ disk'.dir = disk.dir /\ (Old(n) => Old(n)')
            /\ WayKept(n) \/ Old(n)' \/ disk.dir[n].size = 0
         \/ disk'.fat = Fat /\ disk'.dir = Dir /\ Way'[n] = Way[n]
  PROVE  DiskOf(n)'
<1>0. /\ Types /\ DiskOf(n) /\ DataOf(n) /\ EntryOf(n) /\ disk.dir[n].size \in Nat
      /\ \A p \in Nat : p \div BCS \in Nat
  BY ViewTypes, SectorOfPlace DEF Entry, FInv, IInv, Content, ContentOf
<1> SUFFICES ASSUME NEW p \in Nat, p < disk'.dir[n].size
             PROVE  /\ DiskWay'[n][p \div BCS] \in Clusters
                    /\ ~Old(n)' => DiskWay'[n][p \div BCS] = Way'[n][p \div BCS]
  BY DEF DiskOf
<1>1. CASE /\ disk'.fat = disk.fat /\ disk'.dir = disk.dir /\ (Old(n) => Old(n)')
           /\ WayKept(n) \/ Old(n)' \/ disk.dir[n].size = 0
  <2>1. DiskWay'[n] = DiskWay[n]
    BY <1>1 DEF DiskWay
  <2>2. /\ DiskWay[n][p \div BCS] \in Clusters
        /\ ~Old(n) => DiskWay[n][p \div BCS] = Way[n][p \div BCS]
    BY <1>0, <1>1 DEF DiskOf
  <2>3. WayKept(n) \/ Old(n)'
    BY <1>0, <1>1
  <2> QED
    BY <1>0, <1>1, <2>1, <2>2, <2>3 DEF WayKept
<1>2. CASE disk'.fat = Fat /\ disk'.dir = Dir /\ Way'[n] = Way[n]
  <2>1. p < End(n) /\ Dir[n].size # 0
    BY <1>2, EndBound
  <2>2. Dir[n].clust = Start[n] /\ Way[n][p \div BCS] \in Clusters
    BY <1>0, <2>1 DEF EntryOf, DataOf
  <2>3. DiskWay'[n] = Way[n]
    BY <1>2, <2>2 DEF DiskWay, Way
  <2> QED
    BY <1>2, <2>2, <2>3
<1> QED
  BY <1>1, <1>2

(***************************************************************************)
(* A step of a call keeps the chains.                                      *)
(***************************************************************************)
LEMMA EmptyWay ==
  ASSUME Types, NEW n \in Files, Start[n] = 0
  PROVE  \A i \in Nat : Way[n][i] \notin Clusters
<1> DEFINE T == {i \in Nat : Way[n][i] = 0}
<1>0. 0 \notin Clusters
  BY Constants
<1>1. 0 \in T
  BY Ways
<1>2. \A i \in Nat : i \in T => i + 1 \in T
  BY <1>0, Ways DEF Succ
<1> HIDE DEF T
<1>3. \A i \in Nat : i \in T
  BY <1>1, <1>2, SetInduction
<1> QED
  BY <1>0, <1>3 DEF T

\* A link is changed behind which no chain goes on.
LEMMA LinkKeepsWay ==
  ASSUME Types, Types', NEW n \in Files, NEW c \in Clusters, NEW v, Fat' = [Fat EXCEPT ![c] = v],
         Start'[n] = Start[n],
         \A i \in Nat : Way[n][i] = c => Way[n][i + 1] \notin Clusters
  PROVE  WayKept(n)
<1>1. /\ Fat \in [Clusters -> Links] /\ Start[n] \in Links
  BY ViewTypes DEF Starts, Links
<1>2. Fat' \in [Clusters -> Links]
  <2>1. Fat' \in [Clusters -> Links]
    BY DEF Types, DiskType, FsType, CardState, VolumeState, Fat
  <2> QED
    BY <2>1
<1> DEFINE f == Fat'
           s == Start[n]
<1>3. Way[n] = Walk(Fat, s) /\ Way'[n] = Walk(f, s)
  BY DEF Way
<1>4. f \in [Clusters -> Links] /\ \A d \in Clusters : d # c => f[d] = Fat[d]
  BY <1>1, <1>2
<1> HIDE DEF f, s
<1>5. \A i \in Nat : Walk(Fat, s)[i] \in Clusters /\ Walk(Fat, s)[i + 1] \in Clusters
         => f[Walk(Fat, s)[i]] = Fat[Walk(Fat, s)[i]]
  BY <1>3, <1>4
<1>6. \A i \in Nat : Walk(Fat, s)[i] \in Clusters => Walk(f, s)[i] = Walk(Fat, s)[i]
  BY <1>1, <1>4, <1>5, WalkKeeps DEF s
<1> QED
  BY <1>3, <1>6 DEF WayKept

\* f_open() makes the object invalid when the file was complete on the card.
LEMMA CheckClosed ==
  ASSUME IInv, StepInv, ClosedInv, op.at = "check", op.call \in Opening
  PROVE  ~fp[file].fs
<1>1. op.call = CallOf[step][1] /\ file = CallOf[step][2] /\ step \in Steps
  BY DEF StepInv, IInv, Control, CallInv
<1>2. step \in {"cfg_open", "version_open", "mpu_open", "rc_open", "open"}
  BY <1>1 DEF CallOf, Steps, Opening
<1> QED
  BY <1>1, <1>2, BeforeNames DEF ClosedInv, CallOf, Log

\* What a step of a call leaves of the files that are not its own.
OtherKept(n) == /\ WayKept(n) /\ Start'[n] = Start[n] /\ Dir'[n] = Dir[n] /\ stream'[n] = stream[n]
                /\ fp'[n] = fp[n]

\* A step that leaves the table and the directory alone leaves the chains alone.
LEMMA ViewWays ==
  ASSUME IInv, CallStep, ~TableStep
  PROVE  /\ \A n \in Files : Start'[n] = Start[n] => WayKept(n) /\ Way'[n] = Way[n]
         /\ \A n \in Files : n # file => Start'[n] = Start[n] /\ Dir'[n] = Dir[n]
<1>1. Fat' = Fat /\ Dir' = Dir
  BY StepView DEF SameView
<1>2. \A n \in Files : n # file => Start'[n] = Start[n]
  BY <1>1, InStep DEF Start
<1> QED
  BY <1>1, <1>2, SameWay

\* A step of a call leaves the chain, the entry, the stream and the object of every other file.
LEMMA OthersKept ==
  ASSUME FInv, Types', CallStep, NEW n \in Files, n # file
  PROVE  OtherKept(n)
<1>0. IInv /\ Types /\ Control /\ op.at # "out" /\ fp'[n] = fp[n] /\ file \in Files
      /\ Dir \in [Files -> Entry] /\ Fat \in [Clusters -> Links] /\ Start \in [Files -> Starts]
      /\ SoundTable(Fat, Start) /\ LooseInv
  BY InStep, ViewTypes DEF FInv, IInv, Volume, SoundInv
<1>1. stream'[n] = stream[n]
  <2>1. stream \in [Files -> Seq(Unit)]
    BY DEF FInv, Sizes, StreamType
  <2>2. CASE Truncate
    BY <1>0, <2>1, <2>2, TruncateEffect
  <2>3. CASE WriteEnds
    BY <1>0, <2>1, <2>3, WriteEndsEffect
  <2>4. CASE ~(Truncate \/ WriteEnds)
    <3>1. UNCHANGED stream
      BY <2>4 DEF CallStep, Check, MountVolume, Root, OpenExisting, RemoveChain, OpenCreated,
         Follow, Scan, Allocate, Link, WriteBack, Place, NextChunk, CopyIn, SeekTop, Seek,
         SeekEnds, NextByte, CopyOut, GetsEnds, Flushed, UpdateEntry, SyncFs, SyncEnds,
         SyncWindow, MoveWindow
    <3> QED
      BY <3>1
  <2> QED
    BY <2>2, <2>3, <2>4
<1>2. CASE ~TableStep
  BY <1>0, <1>1, <1>2, ViewWays DEF OtherKept
<1>3. CASE TableStep
  <2>1. Dir'[n] = Dir[n]
    BY <1>0, <1>3, TruncateEffect, RemoveEffect, AllocateEffect, LinkEffect, UpdateEffect DEF TableStep
  <2>2. Start'[n] = Start[n]
    BY <1>0, <2>1 DEF Start
  <2>3. CASE Truncate \/ UpdateEntry
    BY <1>0, <1>1, <2>1, <2>2, <2>3, TruncateEffect, UpdateEffect, SameWay DEF OtherKept
  <2>4. \A i \in Nat : Way[n][i] \in Clusters =>
          /\ Fat[Way[n][i]] # 0
          /\ (\E d \in Clusters : Fat[d] = Way[n][i]) \/ Start[n] = Way[n][i]
    BY <1>0, Ways, WalkInUse
  <2>5. CASE RemoveChain
    <3>1. Fat' = Fat \/ (Fat' = [Fat EXCEPT ![op.clst] = 0] /\ op.clst \in Clusters /\ op.at = "remove")
      BY <1>0, <2>5, RemoveEffect
    <3>2. CASE Fat' = Fat
      BY <1>0, <1>1, <2>1, <2>2, <3>2, SameWay DEF OtherKept
    <3>3. CASE Fat' = [Fat EXCEPT ![op.clst] = 0] /\ op.clst \in Clusters /\ op.at = "remove"
      <4>1. \A i \in Nat : Way[n][i] # op.clst
        BY <1>0, <2>4, <3>3 DEF LooseInv, Loose
      <4> QED
        BY <1>0, <1>1, <2>1, <2>2, <3>3, <4>1, LinkKeepsWay DEF OtherKept
    <3> QED
      BY <3>1, <3>2, <3>3
  <2>6. CASE Allocate
    <3>1. Fat' = [Fat EXCEPT ![op.ncl] = EOC] /\ op.ncl \in Clusters /\ Fat[op.ncl] = 0
      BY <1>0, <2>6, AllocateEffect
    <3>2. \A i \in Nat : Way[n][i] # op.ncl
      BY <2>4, <3>1
    <3> QED
      BY <1>0, <1>1, <2>1, <2>2, <3>1, <3>2, LinkKeepsWay DEF OtherKept
  <2>7. CASE Link
    <3>1. Fat' = [Fat EXCEPT ![op.clst] = op.ncl] /\ op.clst \in Clusters /\ op.at = "link"
      BY <1>0, <2>7, LinkEffect
    <3>2. Fat[op.clst] \notin Clusters
      BY <3>1, Constants DEF FInv, CallPlace
    <3>3. \A i \in Nat : Way[n][i] = op.clst => Way[n][i + 1] \notin Clusters
      BY <1>0, <3>1, <3>2, Ways DEF Succ
    <3> QED
      BY <1>0, <1>1, <2>1, <2>2, <3>1, <3>3, LinkKeepsWay DEF OtherKept
  <2> QED
    BY <1>3, <2>3, <2>5, <2>6, <2>7 DEF TableStep
<1> QED
  BY <1>2, <1>3

(***************************************************************************)
(* A step of a call keeps what is known of the other files.                *)
(***************************************************************************)
LEMMA DataSame ==
  ASSUME IInv, CallStep
  PROVE  /\ ~WriteBack => disk'.data = disk.data
         /\ \/ disk'.fat = disk.fat /\ disk'.dir = disk.dir
            \/ disk'.fat = Fat /\ disk'.dir = Dir /\ ~TableStep
<1>0. Types /\ Control /\ op.at # "out" /\ disk \in CardState
  BY InStep, ViewTypes
<1>1. CASE TableStep
  <2>1. UNCHANGED disk
    BY <1>0, <1>1, TruncateEffect, RemoveEffect, AllocateEffect, LinkEffect, UpdateEffect DEF TableStep
  <2> QED
    BY <2>1
<1>2. CASE ~TableStep
  <2>1. ~WriteBack => disk'.data = disk.data
    <3>1. CASE SyncWindow \/ MoveWindow
      BY <1>0, <3>1, WindowEffect
    <3>2. CASE SyncFs
      BY <1>0, <3>2 DEF SyncFs, DiskWrite, CardState
    <3>3. CASE ~(SyncWindow \/ MoveWindow \/ SyncFs \/ WriteBack)
      <4>1. UNCHANGED disk
        BY <1>2, <3>3 DEF TableStep, CallStep, Check, MountVolume, Root, OpenExisting, OpenCreated, Follow,
           Scan, Place, NextChunk, CopyIn, WriteEnds, SeekTop, Seek, SeekEnds, NextByte, CopyOut, GetsEnds,
           Flushed, SyncEnds, DiskRead
      <4> QED
        BY <4>1
    <3> QED
      BY <3>1, <3>2, <3>3
  <2> QED
    BY <1>2, <2>1, StepView DEF SameView
<1> QED
  BY <1>1, <1>2

\* The buffer that is written back is of its own file.
LEMMA WrittenApart ==
  ASSUME FInv, WriteBack, NEW n \in Files, n # file, NEW p \in Nat, p < End(n)
  PROVE  disk'.data[Addr(n, p)] = disk.data[Addr(n, p)]
<1>0. /\ Types /\ Control /\ op.at # "out" /\ file \in Files /\ fp[file].fs /\ fp[file].dirty
      /\ disk' \in {disk, BufferWritten} /\ disk \in CardState
      /\ Fat \in [Clusters -> Links] /\ Start \in [Files -> Starts] /\ SoundTable(Fat, Start)
  <2>1. IInv /\ CallStep /\ op.at \in {"place", "flush"}
    BY DEF FInv, CallStep, WriteBack
  <2> QED
    BY <2>1, InStep, WriteBackEffect, ViewTypes DEF SoundInv, Control, CallInv, AtFile
<1>1. PICK i \in Nat : Way[file][i] \in Clusters /\ fp[file].dsect \div CSize = Way[file][i]
  BY <1>0 DEF FInv, Content, ContentOf, BufferOf
<1>2. p \div BCS \in Nat /\ Way[n][p \div BCS] \in Clusters
  BY SectorOfPlace DEF FInv, Content, ContentOf, DataOf
<1>3. Way[n] = Walk(Fat, Start[n]) /\ Way[file] = Walk(Fat, Start[file])
  BY <1>0, Ways
<1>4. Way[n][p \div BCS] # Way[file][i]
  BY <1>0, <1>1, <1>2, <1>3, WalksApart
<1>5. Addr(n, p) \div CSize = Way[n][p \div BCS]
  BY <1>2, SectorsApart DEF Addr
<1>6. Addr(n, p) # fp[file].dsect
  BY <1>1, <1>4, <1>5
<1>7. BufferWritten.data[Addr(n, p)] = disk.data[Addr(n, p)]
  BY <1>0, <1>6 DEF BufferWritten, CardState
<1> QED
  BY <1>0, <1>7

\* and its contents,
LEMMA OtherContent ==
  ASSUME FInv, Types', CallStep, NEW n \in Files, n # file
  PROVE  ContentOf(n)' /\ SizeOf(n)'
<1>0. /\ IInv /\ Types /\ Control /\ op.at # "out" /\ n # file' /\ OtherKept(n)
      /\ ContentOf(n) /\ SizeOf(n)
  BY InStep, OthersKept DEF FInv, Content, Sizes, SizeInv
<1>1. /\ WayKept(n) /\ Start'[n] = Start[n] /\ Dir'[n] = Dir[n] /\ stream'[n] = stream[n]
      /\ fp'[n] = fp[n]
  BY <1>0 DEF OtherKept
<1>2. /\ Len(stream[n]) \in Nat /\ Dir[n].size \in Nat /\ End(n) = Len(stream[n])
      /\ End(n)' = Len(stream[n])
  BY <1>0, <1>1, EndBound DEF End
<1>3. SizeOf(n)'
  BY <1>0, <1>1 DEF SizeOf
<1>4. EntryOf(n)'
  BY <1>0, <1>1, <1>2, EntryKept DEF ContentOf
<1>5. BufferOf(n)'
  BY <1>0, <1>1, BufferKept DEF ContentOf
<1>6. DiskOf(n)'
  <2>1. \/ disk'.fat = disk.fat /\ disk'.dir = disk.dir
        \/ disk'.fat = Fat /\ disk'.dir = Dir /\ Way'[n] = Way[n]
    BY <1>0, <1>1, DataSame, ViewWays
  <2>2. disk'.dir = disk.dir => (Old(n) => Old(n)')
    BY <1>1 DEF Old
  <2> QED
    BY <1>1, <2>1, <2>2, DiskKept
<1>7. DataOf(n)'
  <2>1. \A p \in Nat : p < End(n)' => p < End(n) /\ UnitAt(n, p)' = UnitAt(n, p)
    BY <1>1, <1>2 DEF UnitAt
  <2>2. \A p \in Nat : p < End(n) => disk'.data[Addr(n, p)] = disk.data[Addr(n, p)]
    BY <1>0, DataSame, WrittenApart
  <2> QED
    BY <1>0, <1>1, <1>2, <2>1, <2>2, DataKept DEF ContentOf
<1> QED
  BY <1>3, <1>4, <1>5, <1>6, <1>7 DEF ContentOf

\* An object that keeps its place, in a chain that is kept.
LEMMA PlaceKept ==
  ASSUME Types, Control, NEW n \in Files, WayKept(n), InPlace(n), fp[n].fs,
         fp'[n].clust = fp[n].clust, fp'[n].fptr = fp[n].fptr, fp'[n].dsect = fp[n].dsect
  PROVE  InPlace(n)'
<1> SUFFICES ASSUME fp[n].fptr # 0
             PROVE  InPlace(n)'
  BY DEF InPlace
<1>1. fp[n] \in FileObject /\ fp[n].fptr \in Nat /\ fp[n].clust \in Starts
  BY DEF Types, FileObject
<1>2. fp[n].clust \in Clusters
  BY <1>1 DEF Control, PointerInv, Starts
<1>3. fp[n].fptr - 1 \in Nat /\ (fp[n].fptr - 1) \div BCS \in Nat
  BY <1>1, UnitBefore, SectorOfPlace
<1>4. Way'[n][(fp[n].fptr - 1) \div BCS] = Way[n][(fp[n].fptr - 1) \div BCS]
  BY <1>2, <1>3 DEF InPlace, WayKept
<1> QED
  BY <1>4 DEF InPlace, Addr

\* and where its pointer is,
LEMMA OtherPlace ==
  ASSUME FInv, Types', CallStep, NEW n \in Files, n # file
  PROVE  Settled(n)' => InPlace(n)'
<1>1. Types /\ Control /\ n # file' /\ WayKept(n) /\ fp'[n] = fp[n]
  BY InStep, OthersKept DEF FInv, OtherKept
<1>2. Settled(n)' => Settled(n)
  BY <1>1 DEF Settled
<1>3. Settled(n) => fp[n].fs /\ InPlace(n)
  BY DEF FInv, PlaceInv, Settled
<1> QED
  BY <1>1, <1>2, <1>3, PlaceKept

\* and where it ends.
LEMMA OtherEnd ==
  ASSUME FInv, CallStep, UNCHANGED step, NEW n \in Logs, n # file
  PROVE  Still(n)' => fp'[n].fptr = fp'[n].fsize
<1>0. IInv /\ n \in Files /\ StepInv
  BY FilesNamed DEF Logs, Log, FInv, Flow
<1>1. fp'[n] = fp[n] /\ n # file' /\ step \in Steps /\ op.at # "out"
  BY <1>0, InStep
<1>2. n = Log => step \notin {"open", "lseek"}
  BY <1>0, <1>1 DEF StepInv, CallOf
<1>3. Still(n)' => Still(n)
  BY <1>1, <1>2 DEF Still, Sought
<1> QED
  BY <1>1, <1>3 DEF FInv, Sizes, EndInv

(***************************************************************************)
(* The file of the call.                                                   *)
(***************************************************************************)
\* Which calls there are of which file.
LEMMA Named ==
  ASSUME IInv, StepInv, op.at # "out"
  PROVE  /\ op.call = "gets" => file = "config"
         /\ op.call \in {"write", "lseek", "create", "sync"} => file \in Logs /\ file # "config"
         /\ op.call = "lseek" => file = Log /\ step = "lseek"
         /\ op.call # "lseek" => step # "lseek"
         /\ op.call = "open" => (file = Log /\ step = "open") \/ file = "config"
         /\ op.call # "open" => step # "open"
         /\ file \in Logs \cup {"config"}
         /\ step \in {"open", "lseek"} => file = Log
<1>1. op.call = CallOf[step][1] /\ file = CallOf[step][2] /\ step \in Steps
  BY DEF StepInv, IInv, Control, CallInv
<1> QED
  BY <1>1 DEF CallOf, Steps, Logs, Log

\* What a step of a call does to what the log is sought to.
LEMMA SoughtNext ==
  ASSUME IInv, StepInv, CallStep, UNCHANGED step
  PROVE  /\ ~Sought' => /\ ~Sought /\ file = Log /\ op.call \in {"open", "lseek"}
                        /\ op'.at = "ret" => op.call = "open"
         /\ Sought' /\ ~Sought => op.call = "lseek" /\ op'.at = "ret"
<1>1. op.at \notin {"out", "ret"} /\ step' = step
  BY InStep
<1>2. /\ op.call # "lseek" => step # "lseek"
      /\ op.call # "open" => step # "open"
      /\ step \in {"open", "lseek"} => file = Log
      /\ op.call = "lseek" => step = "lseek"
  BY <1>1, Named
<1> QED
  BY <1>1, <1>2 DEF Sought

\* The buffer of a file is as it was, or was dropped when all of the file was on the card.
BufferSame(n) ==
  fp'[n].fs => \/ /\ fp[n].fs /\ fp'[n].dsect = fp[n].dsect
                  /\ fp'[n].buf = fp[n].buf /\ (fp'[n].dirty <=> fp[n].dirty)
               \/ fp'[n].dsect = 0 /\ ~fp'[n].dirty /\ End(n) <= Dir[n].size

\* The contents when neither the chain nor the buffer nor the data changes.
LEMMA ContentKept ==
  ASSUME FInv, Types', NEW n \in Files, disk'.data = disk.data, WayKept(n), Start'[n] = Start[n],
         Dir'[n] = Dir[n],
         \/ disk'.fat = disk.fat /\ disk'.dir = disk.dir
         \/ disk'.fat = Fat /\ disk'.dir = Dir /\ Way'[n] = Way[n],
         Len(stream'[n]) \in Nat, Len(stream[n]) <= Len(stream'[n]),
         \A p \in Nat : p < End(n)' => p < End(n) /\ UnitAt(n, p)' = UnitAt(n, p),
         BufferSame(n)
  PROVE  ContentOf(n)'
<1>0. ContentOf(n)
  BY DEF FInv, Content
<1>1. /\ Len(stream[n]) \in Nat /\ Dir[n].size \in Nat /\ End(n) \in Nat
      /\ Dir'[n].size <= Dir[n].size
  BY EndBound
<1>2. EntryOf(n)'
  BY <1>0, <1>1, EntryKept DEF ContentOf
<1>3. BufferOf(n)'
  <2>1. fp'[n].fs /\ fp'[n].dirty => fp[n].fs /\ fp[n].dirty /\ fp'[n].dsect = fp[n].dsect
    BY DEF BufferSame
  <2> QED
    BY <1>0, <2>1, BufferKept DEF ContentOf
<1>4. DiskOf(n)'
  <2>1. disk'.dir = disk.dir => (Old(n) => Old(n)')
    BY DEF Old
  <2> QED
    BY <2>1, DiskKept
<1>5. DataOf(n)'
  <2>1. End(n) <= Dir[n].size => \A p \in Nat : p < End(n) => OnCard(n, p) = UnitAt(n, p)
    <3>1. \A p \in Nat : p < End(n) => (p < Dir[n].size => OnCard(n, p) = UnitAt(n, p))
      BY <1>0 DEF ContentOf, DataOf
    <3>2. \A p \in Nat : End(n) <= Dir[n].size /\ p < End(n) => p < Dir[n].size
      BY <1>1
    <3> QED
      BY <3>1, <3>2
  <2>2. DataOf(n)
    BY <1>0 DEF ContentOf
  <2>3. fp'[n].fs => \/ /\ fp[n].fs /\ fp'[n].dsect = fp[n].dsect /\ fp'[n].buf = fp[n].buf
                        /\ fp'[n].dirty <=> fp[n].dirty
                     \/ /\ fp'[n].dsect = 0
                        /\ \A p \in Nat : p < End(n) => OnCard(n, p) = UnitAt(n, p)
    BY <2>1 DEF BufferSame
  <2> QED
    BY <1>1, <2>2, <2>3, DataKept
<1> QED
  BY <1>2, <1>3, <1>4, <1>5 DEF ContentOf

\* The units of a file whose pointer does not go beyond its end.
LEMMA UnitsKept ==
  ASSUME FInv, Types', NEW n \in Files, stream'[n] = stream[n], mounts' = mounts \/ ~Pending,
         End(n)' <= End(n)
  PROVE  \A p \in Nat : p < End(n)' => p < End(n) /\ UnitAt(n, p)' = UnitAt(n, p)
<1>1. Len(stream[n]) \in Nat /\ End(n) \in Nat
  BY EndBound
<1>2. End(n)' \in Nat
  <2>1. fp'[n].fptr \in Nat
    BY DEF Types, FileObject
  <2> QED
    BY <1>1, <2>1 DEF End, fptr
<1> SUFFICES ASSUME NEW p \in Nat, p < End(n)'
             PROVE  p < End(n) /\ UnitAt(n, p)' = UnitAt(n, p)
  OBVIOUS
<1>3. p < End(n)
  BY <1>1, <1>2
<1>4. mounts' = mounts \/ p < Len(stream[n])
  BY <1>1, <1>3 DEF End
<1> QED
  BY <1>3, <1>4 DEF UnitAt

\* The contents when only the object moves.
LEMMA FrameContent ==
  ASSUME FInv, Types', CallStep, ~TableStep, NEW n \in Files, n = file, disk'.data = disk.data,
         Start'[n] = Start[n], stream'[n] = stream[n], mounts' = mounts \/ ~Pending,
         End(n)' <= End(n), BufferSame(n)
  PROVE  ContentOf(n)'
<1>0. /\ IInv /\ Fat' = Fat /\ Dir' = Dir /\ WayKept(n) /\ Way'[n] = Way[n]
  <2>1. IInv
    BY DEF FInv
  <2> QED
    BY <2>1, ViewWays, StepView DEF SameView
<1>1. \A p \in Nat : p < End(n)' => p < End(n) /\ UnitAt(n, p)' = UnitAt(n, p)
  BY UnitsKept
<1>2. Len(stream[n]) \in Nat
  BY EndBound
<1>3. \/ disk'.fat = disk.fat /\ disk'.dir = disk.dir
      \/ disk'.fat = Fat /\ disk'.dir = Dir
  BY <1>0, DataSame
<1> QED
  BY <1>0, <1>1, <1>2, <1>3, ContentKept

(***************************************************************************)
(* The invariant, for the file of the call.                                *)
(***************************************************************************)
SizesAt(n) ==
  /\ SizeOf(n)
  /\ op.at \in {"sync", "synced"} => ~fp[n].written
  /\ n \in Logs /\ Still(n) => fp[n].fptr = fp[n].fsize
  /\ fp[n].fs /\ n = "config" => fp[n].fptr <= fp[n].fsize
  /\ fp[n].fs /\ ~Sought => ~fp[n].dirty
  /\ fp[n].fs /\ ~Sought /\ op.at \in {"ret", "top"} => fp[n].fptr = 0 /\ ~fp[n].err
  /\ Pending => op.from = fp[n].fsize /\ op.from <= fp[n].fptr
  /\ op.call = "gets" /\ op.at \in {"follow", "place", "copy"} => fp[n].fptr < fp[n].fsize
  /\ op.call = "write" /\ op.at \in {"follow", "scan", "link", "place", "copy"} => op.left > 0

PlacesAt(n) ==
  /\ Settled(n) => InPlace(n)
  /\ op.at \in {"scan", "link", "full"} => op.call = "write"
  /\ op.at = "follow" => /\ op.clst = fp[n].clust /\ fp[n].fptr % BCS = 0
                         /\ op.call # "lseek" => fp[n].fptr # 0
  /\ op.at \in {"scan", "link"} =>
       IF op.clst = 0 THEN fp[n].fptr = 0 /\ fp[n].sclust = 0
       ELSE fp[n].fptr # 0 /\ fp[n].fptr % BCS = 0 /\ op.clst = fp[n].clust /\ Fat[op.clst] \notin Clusters
  /\ op.at \in {"place", "copy"} => fp[n].clust = Way[n][fp[n].fptr \div BCS]
  /\ op.at = "place" => fp[n].fptr % SS = 0
  /\ op.at = "copy" => fp[n].dsect = Addr(n, fp[n].fptr)
  /\ op.at = "top" => op.left = fp[n].fsize /\ op.left # 0
  /\ op.at = "seek" => fp[n].fptr + op.left = fp[n].fsize
  /\ op.at = "seek" /\ op.left = 0 => fp[n].fptr = 0
  /\ op.at = "seek" /\ op.left # 0 => /\ fp[n].fptr % BCS = 0
                                      /\ fp[n].clust = Way[n][fp[n].fptr \div BCS]
  /\ op.at = "follow" /\ op.call = "lseek" => /\ fp[n].fptr + op.left = fp[n].fsize
                                              /\ fp[n].clust = Way[n][fp[n].fptr \div BCS]
  /\ op.at = "entry" => ~fp[n].dirty

\* What is known of the file of the call.
LEMMA Here ==
  ASSUME FInv, CallStep, NEW n \in Files, n = file
  PROVE  SizesAt(n) /\ PlacesAt(n) /\ ContentOf(n)
<1>0. IInv /\ StepInv /\ op.at # "out" /\ Fp = fp[n] /\ fptr = fp[n].fptr
  BY InStep DEF FInv, Flow
<1>1. ~Sought => n = Log
  BY <1>0, Named DEF Sought
<1>2. SizesAt(n)
  BY <1>0, <1>1 DEF FInv, Sizes, SizeInv, EndInv, SoughtInv, CallEnd, SizesAt
<1>3. PlacesAt(n)
  BY <1>0 DEF FInv, PlaceInv, CallPlace, CallSeek, Clean, PlacesAt
<1> QED
  BY <1>2, <1>3 DEF FInv, Content

\* The invariant, from the file of the call and the others.
LEMMA Together ==
  ASSUME FInv, CallStep, UNCHANGED <<step, error>>, StreamType',
         NEW n \in Files, n = file, SizesAt(n)', PlacesAt(n)', ContentOf(n)'
  PROVE  FInv'
<1>0. IInv /\ IInv' /\ StepInv /\ StreamType /\ Types /\ Control /\ MountInv /\ Types' /\ ClosedInv
      /\ SoughtInv
  BY InStep, CallKeepsIInv DEF FInv, Flow, Sizes, IInv, EndInv
<1>1. /\ file' = n /\ op'.at \notin {"out", "check"} /\ op.at \notin {"out", "ret"} /\ op'.call = op.call
      /\ Fp' = fp'[n] /\ fptr' = fp'[n].fptr /\ \A m \in Files : m # n => fp'[m] = fp[m]
  BY <1>0, InStep DEF Fp
<1>2. Flow'
  BY <1>0, StepKept, ClosedKept, OldKept, DirtyKept DEF FInv, Flow
<1>3. /\ \A m \in Files : m # n => ContentOf(m)' /\ SizeOf(m)' /\ (Settled(m)' => InPlace(m)')
      /\ \A m \in Logs : m # n => (Still(m)' => fp'[m].fptr = fp'[m].fsize)
  BY <1>0, OtherContent, OtherPlace, OtherEnd
<1>4. SizeInv'
  BY <1>1, <1>3 DEF SizeInv, SizesAt
<1>5. CallEnd'
  BY <1>1 DEF CallEnd, SizesAt
<1>6. SoughtInv'
  <2>0. "config" \in Files /\ Log \in Files
    BY FilesNamed DEF Log
  <2>1. fp'["config"].fs => fp'["config"].fptr <= fp'["config"].fsize
    BY <1>0, <1>1, <2>0 DEF SizesAt, SoughtInv
  <2>2. ~Sought' => n = Log
    BY <1>0, SoughtNext
  <2> QED
    BY <1>1, <2>1, <2>2 DEF SoughtInv, SizesAt
<1>7. EndInv'
  BY <1>3, <1>6 DEF EndInv, SizesAt
<1>8. CallPlace' /\ CallSeek' /\ Clean'
  BY <1>1 DEF CallPlace, CallSeek, Clean, PlacesAt
<1>9. PlaceInv' /\ Content'
  BY <1>3 DEF PlaceInv, Content, PlacesAt
<1> QED
  BY <1>0, <1>2, <1>4, <1>5, <1>7, <1>8, <1>9 DEF FInv, Sizes

\* A call that fails.
LEMMA FailsAt ==
  ASSUME FInv, CallStep, UNCHANGED step, NEW n \in Files, n = file, op.at # "check", SameView, stream' = stream,
         op'.at = "ret", AllBut(fp'[n], fp[n], {"err"}),
         \/ op.call \in {"write", "lseek", "gets"} /\ fp'[n].err
         \/ op.call \notin {"write", "lseek", "gets"} /\ UNCHANGED fp
  PROVE  SizesAt(n)' /\ PlacesAt(n)' /\ End(n)' <= End(n)
<1>0. /\ IInv /\ StepInv /\ Types /\ Control /\ op.at \notin {"out", "ret", "check"} /\ op'.call = op.call
      /\ file' = n /\ step' = step /\ Dir' = Dir /\ Fat' = Fat /\ op.at \in Places /\ op.call \in Calls
      /\ CallInv
  BY InStep DEF FInv, Flow, SameView, Control, Types, OpType
<1>1. SizesAt(n) /\ PlacesAt(n)
  BY Here
<1>2. ~Pending'
  BY DEF Pending
<1>3. Start'[n] = Start[n]
  BY <1>0 DEF Start, AllBut
<1>4. op.call = "open" => ~fp[n].fs
  BY <1>0 DEF CallInv, Fp, Places, AtFile, Opening
<1>5. ~Sought' => op.call = "open"
  BY <1>0, SoughtNext
<1>6. ~fp'[n].err => UNCHANGED fp /\ ~Pending /\ (Sought' => Sought) /\ op.call \notin {"write", "lseek", "gets"}
  BY <1>0, SoughtNext DEF Pending
<1>7. SizesAt(n)'
  <2>1. SizeOf(n)'
    BY <1>0, <1>1 DEF SizesAt, SizeOf, AllBut
  <2>2. Still(n)' => Still(n)
    BY <1>0, <1>6 DEF Still
  <2>3. n \in Logs /\ Still(n)' => fp'[n].fptr = fp'[n].fsize
    BY <1>1, <2>2 DEF SizesAt, AllBut
  <2> QED
    BY <1>1, <1>2, <1>4, <1>5, <2>1, <2>3 DEF SizesAt, AllBut
<1>8. PlacesAt(n)'
  <2>1. Settled(n)' => Settled(n)
    BY <1>0, <1>6 DEF Settled, CallInv, AllBut
  <2>2. WayKept(n)
    BY <1>0, <1>3, SameWay
  <2>3. Settled(n)' => InPlace(n)'
    BY <1>0, <1>1, <2>1, <2>2, PlaceKept DEF PlacesAt, Settled, AllBut
  <2> QED
    BY <2>3 DEF PlacesAt
<1>9. End(n)' <= End(n)
  BY <1>2, EndBound DEF End
<1> QED
  BY <1>7, <1>8, <1>9

\* A call that waits for the window.
LEMMA StaysAt ==
  ASSUME FInv, CallStep, UNCHANGED step, NEW n \in Files, n = file, SameView, UNCHANGED <<op, fp, stream>>
  PROVE  SizesAt(n)' /\ PlacesAt(n)' /\ End(n)' <= End(n)
<1>0. file' = n /\ Dir' = Dir /\ Fat' = Fat /\ step' = step /\ fptr' = fptr
  BY InStep DEF FInv, SameView, fptr
<1>1. SizesAt(n) /\ PlacesAt(n)
  BY Here
<1>2. Way'[n] = Way[n]
  BY <1>0, SameWay DEF Start
<1>3. Still(n)' = Still(n) /\ Sought' = Sought /\ Pending' = Pending /\ Settled(n)' = Settled(n)
  BY <1>0 DEF Still, Sought, Pending, Settled
<1>4. SizesAt(n)'
  BY <1>0, <1>1, <1>3 DEF SizesAt, SizeOf
<1>5. PlacesAt(n)'
  BY <1>0, <1>1, <1>2, <1>3 DEF PlacesAt, InPlace, Addr
<1>6. End(n)' <= End(n)
  BY <1>0, <1>3, EndBound DEF End
<1> QED
  BY <1>4, <1>5, <1>6

(***************************************************************************)
(* The steps that open a file, and those that leave the object as it is.   *)
(***************************************************************************)
LEMMA NotTable ==
  ASSUME \/ Check \/ SyncWindow \/ MoveWindow \/ MountVolume \/ Root \/ OpenExisting \/ OpenCreated
         \/ Follow \/ Scan \/ WriteBack \/ Place \/ NextChunk \/ CopyIn \/ WriteEnds
         \/ SeekTop \/ Seek \/ SeekEnds \/ NextByte \/ CopyOut \/ GetsEnds
         \/ Flushed \/ SyncFs \/ SyncEnds
  PROVE  CallStep /\ ~TableStep
BY DEF CallStep, TableStep, Check, SyncWindow, MoveWindow, MountVolume, Root, OpenExisting, OpenCreated, Follow, Scan, WriteBack, Place,
       NextChunk, CopyIn, WriteEnds, SeekTop, Seek, SeekEnds, NextByte, CopyOut, GetsEnds, Flushed, SyncFs, SyncEnds,
       Truncate, RemoveChain, Allocate, Link, UpdateEntry

\* What is known at a step.
LEMMA Facts ==
  ASSUME FInv, CallStep, NEW n \in Files, n = file
  PROVE  /\ IInv /\ StepInv /\ ClosedInv /\ OldInv /\ Types /\ Control /\ MountInv /\ SoundInv /\ OpType
         /\ op.at \in Places /\ op.at \notin {"out", "ret"} /\ op'.at \notin {"out", "check"}
         /\ op'.call = op.call /\ file' = n /\ op'.from = op.from /\ op.call \in Calls
         /\ fp[n] \in FileObject /\ fp[n].fptr \in Nat /\ fp[n].fsize \in Nat
         /\ op.left \in Nat /\ op.from \in Nat /\ fptr = fp[n].fptr /\ fptr' = fp'[n].fptr
         /\ op.at \in AtOpen => op.call \in Opening /\ ~fp[n].fs
         /\ op.at \in AtFile => op.call \notin Opening /\ fp[n].fs
         /\ op.at \in AtFile \ InSync => ~fp[n].err
         /\ SizesAt(n) /\ PlacesAt(n) /\ ContentOf(n)
<1>1. IInv /\ StepInv /\ ClosedInv /\ OldInv
  BY DEF FInv, Flow
<1>2. SizesAt(n) /\ PlacesAt(n) /\ ContentOf(n)
  BY Here
<1>3. Types /\ Control /\ Volume /\ MountInv /\ SoundInv /\ OpType /\ Fp = fp[n] /\ fp[n] \in FileObject
  BY <1>1, InStep
<1>4. op.at \in Places
  BY <1>3 DEF OpType
<1>5. /\ op.at \in AtOpen => op.call \in Opening /\ ~fp[n].fs
      /\ op.at \in AtFile => op.call \notin Opening /\ fp[n].fs
      /\ op.at \in AtFile \ InSync => ~fp[n].err
  BY <1>1, <1>3 DEF Control, CallInv, StepInv
<1>6. fp[n].fptr \in Nat /\ fp[n].fsize \in Nat
  BY <1>3 DEF FileObject
<1> QED
  BY <1>1, <1>2, <1>3, <1>4, <1>5, <1>6, InStep DEF fptr

OwnKept(n) == SizesAt(n)' /\ PlacesAt(n)' /\ ContentOf(n)'

\* While a file is opened.
LEMMA OpeningAt ==
  ASSUME FInv, CallStep, NEW n \in Files, n = file, op.call \in Opening, ~fp'[n].fs,
         Dir'[n].size = Len(stream'[n]), op'.at \in AtOpen \cup {"ret"}
  PROVE  SizesAt(n)' /\ PlacesAt(n)' /\ ~Pending'
<1>1. ~Pending'
  BY DEF Pending, AtOpen
<1>2. SizesAt(n)'
  BY <1>1 DEF SizesAt, SizeOf, Still, AtOpen
<1>3. PlacesAt(n)'
  BY DEF PlacesAt, Settled, AtOpen
<1> QED
  BY <1>1, <1>2, <1>3

\* The steps of f_open() that do not change the directory.
LEMMA OpeningOwn ==
  ASSUME FInv, Types', CallStep, ~TableStep, NEW n \in Files, n = file, op.call \in Opening,
         ~fp[n].fs, ~fp'[n].fs, stream' = stream, disk'.data = disk.data, op'.at \in AtOpen \cup {"ret"}
  PROVE  OwnKept(n)
<1>0. IInv /\ SizesAt(n) /\ op.at \in Places /\ op.call \in Opening /\ Dir' = Dir
  BY Facts, StepView DEF SameView
<1>1. Dir'[n].size = Len(stream'[n])
  BY <1>0 DEF SizesAt, SizeOf
<1>2. SizesAt(n)' /\ PlacesAt(n)' /\ ~Pending'
  BY <1>1, OpeningAt
<1>3. ~Pending
  BY DEF Pending, Opening
<1>4. End(n)' <= End(n)
  BY <1>2, EndBound DEF End
<1>5. Start'[n] = Start[n]
  BY <1>0 DEF Start
<1>6. ContentOf(n)'
  BY <1>3, <1>4, <1>5, FrameContent DEF BufferSame
<1> QED
  BY <1>2, <1>6 DEF OwnKept

\* The window is written back or moved.
LEMMA WindowOwn ==
  ASSUME FInv, Types', UNCHANGED step, SyncWindow \/ MoveWindow, NEW n \in Files, n = file
  PROVE  OwnKept(n)
<1>0. CallStep /\ ~TableStep
  BY NotTable
<1>1. IInv /\ Types /\ Control /\ op.at # "out"
  BY <1>0, Facts
<1>2. /\ UNCHANGED <<mounts, stream>> /\ disk'.data = disk.data
      /\ UNCHANGED <<op, fp>> \/ FailCall("FR_DISK_ERR")
  BY <1>1, WindowEffect
<1>3. SameView
  BY <1>0, <1>1, StepView
<1>4. SizesAt(n)' /\ PlacesAt(n)' /\ End(n)' <= End(n) /\ Start'[n] = Start[n] /\ BufferSame(n)
  <2>1. CASE UNCHANGED <<op, fp>>
    BY <1>0, <1>2, <1>3, <2>1, StaysAt DEF BufferSame, Start, SameView
  <2>2. CASE FailCall("FR_DISK_ERR")
    <3>1. op.at # "check"
      BY DEF SyncWindow, MoveWindow, InWindow, Need
    <3>2. op'.at = "ret" /\ AllBut(fp'[n], fp[n], {"err"})
          /\ \/ op.call \in {"write", "lseek", "gets"} /\ fp'[n].err
             \/ op.call \notin {"write", "lseek", "gets"} /\ UNCHANGED fp
      BY <1>1, <2>2, LeaveEffect
    <3>3. SizesAt(n)' /\ PlacesAt(n)' /\ End(n)' <= End(n)
      BY <1>0, <1>2, <1>3, <3>1, <3>2, FailsAt
    <3> QED
      BY <1>3, <3>2, <3>3 DEF BufferSame, AllBut, Start, SameView
  <2> QED
    BY <1>2, <2>1, <2>2
<1>5. ContentOf(n)'
  BY <1>0, <1>2, <1>4, FrameContent
<1> QED
  BY <1>4, <1>5 DEF OwnKept

\* The volume is mounted.
LEMMA MountOwn ==
  ASSUME FInv, Types', UNCHANGED step, MountVolume \/ Root, NEW n \in Files, n = file
  PROVE  OwnKept(n)
<1>0. CallStep /\ ~TableStep
  BY NotTable
<1>1. /\ op.at \in {"mount", "root"} /\ UNCHANGED <<disk, fp, stream>>
      /\ (\E r : Leave(r)) \/ At("root") \/ At("path")
  BY DEF MountVolume, Root, DiskRead
<1>2. Types /\ op.call \in Opening /\ ~fp[n].fs
  BY <1>0, <1>1, Facts DEF AtOpen
<1>3. op'.at \in AtOpen \cup {"ret"}
  BY <1>1, <1>2, AtEffect DEF Leave, AtOpen, Types, OpType
<1> QED
  BY <1>0, <1>1, <1>2, <1>3, OpeningOwn

\* A call begins.
LEMMA CheckOwn ==
  ASSUME FInv, Types', UNCHANGED step, Check, NEW n \in Files, n = file
  PROVE  OwnKept(n)
<1>0. CallStep /\ ~TableStep
  BY NotTable
<1>1. /\ IInv /\ StepInv /\ ClosedInv /\ Types /\ Control /\ op.at = "check" /\ file' = n /\ op'.call = op.call
      /\ SizesAt(n) /\ PlacesAt(n) /\ Fat' = Fat /\ Dir' = Dir /\ op'.from = op.from /\ fptr = fp[n].fptr
      /\ fptr' = fp'[n].fptr /\ op.left \in Nat /\ fp[n].fsize \in Nat /\ fp[n].fptr \in Nat
  BY <1>0, Facts, CheckEffect, StepView DEF SameView
<1>2. UNCHANGED <<disk, mounts, stream>> /\ op'.left = op.left
  BY <1>1, CheckEffect
<1>3. CASE op.call \in Opening
  <2>1. ~fp[n].fs
    BY <1>1, <1>3, CheckClosed
  <2>2. op'.at \in {"root", "mount"} /\ ~fp'[n].fs
    BY <1>1, <1>3, CheckEffect DEF Opening
  <2> QED
    BY <1>0, <1>2, <1>3, <2>1, <2>2, OpeningOwn DEF AtOpen
<1>4. CASE op.call \notin Opening
  <2>1. /\ UNCHANGED fp
        /\ \/ op'.at = "ret" /\ (fp[n].fs => fp[n].err)
           \/ /\ op.call \in {"sync", "close"} /\ fp[n].fs
              /\ op'.at = IF fp[n].written THEN "flush" ELSE "synced"
           \/ /\ fp[n].fs /\ ~fp[n].err
              /\ \/ op.call = "write" /\ op'.at = "chunk"
                 \/ op.call = "gets" /\ op'.at = "byte"
                 \/ op.call = "lseek" /\ op'.at = IF op.left = 0 THEN "seek" ELSE "top"
    BY <1>1, <1>4, CheckEffect DEF Opening
  <2>2. /\ Start'[n] = Start[n] /\ Way'[n] = Way[n] /\ WayKept(n) /\ BufferSame(n)
        /\ ~Pending
    BY <1>0, <1>1, <2>1, ViewWays DEF Start, BufferSame, Pending
  <2>3. /\ ~Sought' => ~Sought /\ op.call = "lseek"
        /\ Sought' /\ ~Sought => op'.at = "ret"
        /\ ~Sought => op.call = "lseek"
        /\ op.call = "lseek" => n = Log /\ ~Sought
    <3>1. /\ ~Sought' => ~Sought
          /\ Sought' /\ ~Sought => op'.at = "ret"
          /\ op.call # "lseek" => step # "lseek"
          /\ op.call # "open" => step # "open"
          /\ op.call = "lseek" => n = Log /\ step = "lseek"
      BY <1>0, <1>1, SoughtNext, Named
    <3> QED
      BY <1>1, <1>4, <3>1 DEF Sought, Opening
  <2>4. op.call = "lseek" /\ fp[n].fs => fp[n].fptr = 0 /\ ~fp[n].err /\ op.left = fp[n].fsize
    BY <1>1, <2>3 DEF FInv, Sizes, EndInv, SoughtInv, Control, PointerInv, Fp
  <2>5. op.call = "write" /\ op'.at = "chunk" => op.from = fp[n].fptr /\ fp[n].fptr = fp[n].fsize
    <3> SUFFICES ASSUME op.call = "write", op'.at = "chunk"
                 PROVE  op.from = fp[n].fptr /\ fp[n].fptr = fp[n].fsize
      OBVIOUS
    <3>1. op.from = fp[n].fptr
      BY <1>1 DEF FInv, Sizes, CallEnd
    <3>2. n \in Logs /\ Still(n)
      BY <1>0, <1>1, <2>1, <2>2, <2>3, Named DEF Still
    <3> QED
      BY <1>1, <3>1, <3>2 DEF SizesAt
  <2>6. Pending' => op.call = "write" /\ op'.at = "chunk"
    BY <1>1, <2>1 DEF Pending
  <2>7. SizesAt(n)'
    <3>1. SizeOf(n)'
      BY <1>1, <1>2, <2>1 DEF SizesAt, SizeOf
    <3>2. Still(n)' => Still(n)
      BY <2>1, <2>2, <2>3 DEF Still
    <3>3. op'.at \in {"sync", "synced"} => ~fp'[n].written
      BY <2>1
    <3>4. n \in Logs /\ Still(n)' => fp'[n].fptr = fp'[n].fsize
      BY <1>1, <2>1, <3>2 DEF SizesAt
    <3>5. fp'[n].fs /\ ~Sought' => ~fp'[n].dirty /\ (op'.at \in {"ret", "top"} => fp'[n].fptr = 0 /\ ~fp'[n].err)
      BY <1>1, <2>1, <2>3, <2>4 DEF SizesAt
    <3>6. Pending' => op'.from = fp'[n].fsize /\ op'.from <= fp'[n].fptr
      BY <1>1, <2>1, <2>5, <2>6
    <3>7. op'.at \notin {"follow", "scan", "link", "place", "copy"}
      BY <2>1
    <3>8. fp'[n].fs /\ n = "config" => fp'[n].fptr <= fp'[n].fsize
      BY <1>1, <2>1 DEF SizesAt
    <3> QED
      BY <3>1, <3>3, <3>4, <3>5, <3>6, <3>7, <3>8 DEF SizesAt
  <2>8. PlacesAt(n)'
    <3>1. Settled(n)' => InPlace(n)'
      <4>1. Settled(n)' => Settled(n) /\ fp[n].fs
        BY <1>1, <2>1 DEF Settled
      <4> QED
        BY <1>1, <2>1, <2>2, <4>1, PlaceKept DEF PlacesAt
    <3>2. op'.at \in {"top", "seek"} => /\ op.call = "lseek" /\ fp[n].fs
                                        /\ op'.at = IF op.left = 0 THEN "seek" ELSE "top"
      BY <1>1, <2>1 DEF Opening
    <3>3. op'.at = "seek" => fp'[n].fptr + op'.left = fp'[n].fsize /\ fp'[n].fptr = 0 /\ op'.left = 0
      BY <1>1, <1>2, <2>1, <2>4, <3>2
    <3>4. op'.at = "top" => op'.left = fp'[n].fsize /\ op'.left # 0
      BY <1>1, <1>2, <2>1, <2>4, <3>2
    <3>5. op'.at \notin {"follow", "scan", "link", "place", "copy", "full", "entry"}
      BY <2>1
    <3> QED
      BY <3>1, <3>3, <3>4, <3>5 DEF PlacesAt
  <2>9. End(n)' <= End(n)
    <3>1. fp[n].fs => fp[n].fsize = Len(stream[n])
      BY <1>1 DEF SizesAt, SizeOf
    <3>2. Pending' => fp[n].fs
      BY <2>1, <2>6
    <3>3. Len(stream[n]) \in Nat /\ End(n) = Len(stream[n])
      BY <2>2, EndBound DEF End
    <3>4. Pending' => End(n)' = fp[n].fptr
      BY <1>1, <2>1 DEF End
    <3>5. ~Pending' => End(n)' = Len(stream[n])
      BY <1>2 DEF End
    <3> QED
      BY <1>1, <2>5, <2>6, <3>1, <3>2, <3>3, <3>4, <3>5
  <2>10. ContentOf(n)'
    BY <1>0, <1>2, <2>2, <2>9, FrameContent
  <2> QED
    BY <2>7, <2>8, <2>10 DEF OwnKept
<1> QED
  BY <1>3, <1>4

(***************************************************************************)
(* The sizes while a call goes on.                                         *)
(***************************************************************************)
InWrite == {"chunk", "follow", "scan", "link", "place", "copy", "full"}

\* f_write() goes on,
LEMMA WriteGoes ==
  ASSUME FInv, CallStep, UNCHANGED step, NEW n \in Files, n = file, op.call = "write", op.at \in InWrite,
         op'.at \in InWrite, op'.at # "chunk" /\ op'.at # "full" => op'.left > 0,
         AllBut(fp'[n], fp[n], {"clust", "sclust", "fptr", "dsect", "buf", "dirty"}),
         fp'[n].fptr \in Nat, fp[n].fptr <= fp'[n].fptr, Dir'[n].size = Dir[n].size, stream'[n] = stream[n]
  PROVE  SizesAt(n)' /\ Pending /\ Pending' /\ op.from = fp[n].fsize /\ op.from <= fp[n].fptr
<1>0. /\ IInv /\ StepInv /\ file' = n /\ op'.call = op.call /\ op'.from = op.from /\ SizesAt(n)
      /\ op.at # "out" /\ op.from \in Nat /\ fp[n].fptr \in Nat /\ fp[n].fs
  BY Facts DEF InWrite, AtFile
<1>1. Pending /\ Pending'
  BY <1>0 DEF Pending, InWrite
<1>2. ~Still(n)' /\ Sought' /\ n # "config"
  BY <1>0, <1>1, SoughtNext, Named DEF Still
<1>3. fp'[n].fs /\ fp'[n].fsize = fp[n].fsize /\ (fp'[n].written <=> fp[n].written)
  BY <1>0 DEF AllBut
<1>4. SizeOf(n)'
  BY <1>0, <1>3 DEF SizesAt, SizeOf
<1>5. op.from = fp[n].fsize /\ op.from <= fp[n].fptr
  BY <1>0, <1>1 DEF SizesAt
<1>6. op'.from = fp'[n].fsize /\ op'.from <= fp'[n].fptr
  BY <1>0, <1>3, <1>5
<1> QED
  BY <1>0, <1>1, <1>2, <1>4, <1>5, <1>6 DEF SizesAt, InWrite

\* f_lseek() goes on,
LEMMA SeekGoes ==
  ASSUME FInv, CallStep, UNCHANGED step, NEW n \in Files, n = file, op.call = "lseek", op.at \in AtFile,
         op'.at \in {"seek", "follow"}, AllBut(fp'[n], fp[n], {"clust", "fptr", "dsect", "buf"}),
         Dir'[n].size = Dir[n].size, stream'[n] = stream[n]
  PROVE  SizesAt(n)' /\ ~Pending /\ ~Pending'
<1>0. /\ IInv /\ StepInv /\ file' = n /\ op'.call = op.call /\ SizesAt(n) /\ fp[n].fs /\ op.at # "out"
      /\ step' = step /\ op.at # "ret"
  BY Facts
<1>1. ~Pending /\ ~Pending'
  BY <1>0 DEF Pending
<1>2. n = Log /\ ~Sought' /\ ~Sought /\ n # "config" /\ ~Still(n)'
  BY <1>0, Named DEF Sought, Still, Log
<1>3. SizeOf(n)'
  BY <1>0 DEF SizesAt, SizeOf, AllBut
<1> QED
  BY <1>0, <1>1, <1>2, <1>3 DEF SizesAt, AllBut

\* f_gets() goes on,
LEMMA GetsGoes ==
  ASSUME FInv, CallStep, UNCHANGED step, NEW n \in Files, n = file, op.call = "gets", op.at \in AtFile,
         op'.at \in {"byte", "follow", "place", "copy", "ret"},
         AllBut(fp'[n], fp[n], {"clust", "sclust", "fptr", "dsect", "buf", "dirty"}),
         fp'[n].fptr <= fp[n].fsize, op'.at \in {"follow", "place", "copy"} => fp'[n].fptr < fp[n].fsize,
         Dir'[n].size = Dir[n].size, stream'[n] = stream[n]
  PROVE  SizesAt(n)' /\ ~Pending /\ ~Pending'
<1>0. /\ IInv /\ StepInv /\ file' = n /\ op'.call = op.call /\ SizesAt(n) /\ fp[n].fs /\ op.at # "out"
  BY Facts
<1>1. ~Pending /\ ~Pending'
  BY <1>0 DEF Pending
<1>2. n = "config" /\ n \notin Logs /\ Sought'
  BY <1>0, Named, SoughtNext DEF Logs, Log
<1>3. SizeOf(n)'
  BY <1>0 DEF SizesAt, SizeOf, AllBut
<1> QED
  BY <1>0, <1>1, <1>2, <1>3 DEF SizesAt, AllBut

\* f_sync() and f_close() go on.
LEMMA SyncGoes ==
  ASSUME FInv, CallStep, UNCHANGED step, NEW n \in Files, n = file, op.call \in {"sync", "close"},
         op.at \in AtFile, op'.at \in InSync \cup {"ret"},
         AllBut(fp'[n], fp[n], {"dirty", "written", "fs"}), fp'[n].fs => WayKept(n),
         stream'[n] = stream[n],
         fp'[n].fs => /\ fp'[n].dirty => fp[n].dirty
                      /\ ~fp'[n].written => Dir'[n].size = fp[n].fsize,
         ~fp'[n].fs => Dir'[n].size = fp[n].fsize /\ op'.at = "ret",
         op'.at \in {"sync", "synced"} => ~fp'[n].written,
         op'.at = "entry" => ~fp'[n].dirty
  PROVE  SizesAt(n)' /\ PlacesAt(n)' /\ ~Pending /\ ~Pending'
<1>0. /\ IInv /\ StepInv /\ Types /\ Control /\ file' = n /\ op'.call = op.call /\ SizesAt(n) /\ PlacesAt(n)
      /\ fp[n].fs /\ op.at # "out" /\ fp[n].fsize = Len(stream[n])
  BY Facts DEF SizesAt, SizeOf
<1>1. ~Pending /\ ~Pending'
  BY <1>0 DEF Pending
<1>2. Sought' /\ Sought
  BY <1>0, SoughtNext
<1>3. SizeOf(n)'
  BY <1>0 DEF SizeOf, AllBut
<1>4. Still(n)' => Still(n)
  BY <1>0, <1>1, <1>2 DEF Still, AllBut
<1>5. SizesAt(n)'
  BY <1>0, <1>1, <1>2, <1>3, <1>4 DEF SizesAt, AllBut, InSync
<1>6. Settled(n)' => Settled(n)
  BY <1>0 DEF Settled, AllBut, Control, CallInv, AtFile
<1>7. Settled(n)' => InPlace(n)'
  <2>1. Settled(n)' => fp'[n].fs
    BY DEF Settled
  <2> QED
    BY <1>0, <1>6, <2>1, PlaceKept DEF PlacesAt, AllBut
<1>8. PlacesAt(n)'
  BY <1>7 DEF PlacesAt, InSync
<1> QED
  BY <1>1, <1>5, <1>8

(***************************************************************************)
(* The steps that change no data.                                          *)
(***************************************************************************)
LEMMA OpenOwn ==
  ASSUME FInv, Types', UNCHANGED step, OpenExisting \/ OpenCreated, NEW n \in Files, n = file
  PROVE  OwnKept(n)
<1>0. CallStep /\ ~TableStep
  BY NotTable
<1>1. /\ IInv /\ StepInv /\ Types /\ Control /\ op.at \in {"path", "back"} /\ op.call \in Opening /\ ~fp[n].fs
      /\ UNCHANGED <<disk, mounts, stream>> /\ op'.at = "ret" /\ Fat' = Fat /\ Dir' = Dir
      /\ SizesAt(n) /\ file' = n /\ op'.call = op.call /\ op.at # "out" /\ step' = step /\ ContentOf(n)
  BY <1>0, Facts, OpenEffect, StepView DEF AtOpen, SameView
<1>2. CASE UNCHANGED fp
  BY <1>0, <1>1, <1>2, OpeningOwn DEF AtOpen
<1>3. CASE /\ fp'[n].fs /\ ~fp'[n].err /\ ~fp'[n].dirty
           /\ fp'[n].sclust = Dir[n].clust /\ fp'[n].clust = 0 /\ fp'[n].fptr = 0
           /\ fp'[n].fsize = Dir[n].size /\ fp'[n].dsect = 0
           /\ fp'[n].written <=> op.call = "create"
  <2>1. Dir[n].size = Len(stream[n]) /\ Len(stream[n]) \in Nat /\ End(n) = Len(stream[n]) /\ ~Pending /\ ~Pending'
    BY <1>1, EndBound DEF SizesAt, SizeOf, End, Pending, Opening
  <2>2. SizeOf(n)'
    BY <1>1, <1>3, <2>1 DEF SizeOf
  <2>3. op.call = "create" => Len(stream[n]) = 0
    <3>1. op.call = "create" => op.at = "back"
      BY DEF OpenExisting, OpenCreated
    <3>2. op.call = "create" => stream[n] = <<>>
      BY <1>1, <3>1 DEF StepInv
    <3> QED
      BY <3>2
  <2>4. n \in Logs /\ Still(n)' => op.call = "create"
    <3>1. op.call = "open" => (n = Log /\ step = "open") \/ n = "config"
      BY <1>1, Named
    <3> QED
      BY <1>1, <3>1 DEF Still, Sought, Opening, Logs, Log
  <2>5. SizesAt(n)'
    BY <1>1, <1>3, <2>1, <2>2, <2>3, <2>4 DEF SizesAt
  <2>6. PlacesAt(n)'
    BY <1>1, <1>3 DEF PlacesAt, InPlace
  <2>7. Start'[n] = Start[n] /\ End(n)' <= End(n)
    BY <1>1, <1>3, <2>1 DEF Start, End
  <2>8. BufferSame(n)
    BY <1>3, <2>1 DEF BufferSame
  <2>9. ContentOf(n)'
    BY <1>0, <1>1, <2>7, <2>8, FrameContent
  <2> QED
    BY <2>5, <2>6, <2>9 DEF OwnKept
<1> QED
  BY <1>1, <1>2, <1>3, OpenEffect

\* The search for a free cluster.
LEMMA ScanOwn ==
  ASSUME FInv, Types', UNCHANGED step, Scan, NEW n \in Files, n = file
  PROVE  OwnKept(n)
<1>0. CallStep /\ ~TableStep
  BY NotTable
<1>1. /\ IInv /\ Types /\ op.at = "scan" /\ UNCHANGED <<disk, fs, fp, mounts, stream>> /\ Fat' = Fat /\ Dir' = Dir
      /\ op'.at \in {"full", "scan"} /\ op'.left = op.left /\ op'.clst = op.clst
  <2>1. Types /\ Fat' = Fat /\ Dir' = Dir /\ IInv
    BY <1>0, Facts, StepView DEF SameView
  <2> QED
    BY <2>1, AtEffect, ScanOpEffect DEF Scan
<1>2. SizesAt(n) /\ PlacesAt(n) /\ op.call = "write" /\ op'.call = op.call /\ file' = n /\ fp[n].fptr \in Nat
      /\ fptr = fp[n].fptr /\ fptr' = fp'[n].fptr
  BY <1>0, <1>1, Facts DEF PlacesAt
<1>3. SizesAt(n)' /\ Pending /\ Pending'
  <2>1. AllBut(fp'[n], fp[n], {"clust", "sclust", "fptr", "dsect", "buf", "dirty"})
    BY <1>1 DEF AllBut
  <2>2. op.left > 0
    BY <1>1, <1>2 DEF SizesAt
  <2> QED
    BY <1>0, <1>1, <1>2, <2>1, <2>2, WriteGoes DEF InWrite
<1>4. Way'[n] = Way[n] /\ WayKept(n) /\ Start'[n] = Start[n]
  BY <1>0, <1>1, ViewWays DEF Start
<1>5. PlacesAt(n)'
  <2>1. Settled(n)' => Settled(n) /\ fp[n].fs
    BY <1>1, <1>2 DEF Settled
  <2>2. Settled(n)' => InPlace(n)'
    BY <1>1, <1>2, <1>4, <2>1 DEF PlacesAt, InPlace, Addr
  <2> QED
    BY <1>1, <1>2, <2>2 DEF PlacesAt
<1>6. End(n)' <= End(n) /\ BufferSame(n)
  BY <1>1, <1>2, <1>3, EndBound DEF End, BufferSame
<1>7. ContentOf(n)'
  BY <1>0, <1>1, <1>4, <1>6, FrameContent
<1> QED
  BY <1>3, <1>5, <1>7 DEF OwnKept

\* f_lseek() begins at the first cluster.
LEMMA SeekTopOwn ==
  ASSUME FInv, Types', UNCHANGED step, SeekTop, NEW n \in Files, n = file
  PROVE  OwnKept(n)
<1>0. CallStep /\ ~TableStep
  BY NotTable
<1>1. /\ IInv /\ Types /\ Control /\ op.at = "top" /\ op.at # "out" /\ UNCHANGED <<disk, fs, mounts, stream>>
      /\ Fat' = Fat /\ Dir' = Dir /\ At("seek")
      /\ AllBut(fp'[n], fp[n], {"fptr", "clust"}) /\ fp'[n].fptr = 0 /\ fp'[n].clust = fp[n].sclust
  BY <1>0, Facts, StepView, SeekTopEffect DEF SameView
<1>2. op'.at = "seek" /\ op'.left = op.left
  BY <1>1, AtEffect
<1>3. /\ SizesAt(n) /\ PlacesAt(n) /\ op.call = "lseek" /\ fp[n].fs /\ op'.call = op.call /\ file' = n
      /\ op.left \in Nat
  BY <1>0, <1>1, Facts DEF AtFile, Control, CallInv
<1>4. SizesAt(n)' /\ ~Pending /\ ~Pending'
  <2>1. AllBut(fp'[n], fp[n], {"clust", "fptr", "dsect", "buf"})
    BY <1>1 DEF AllBut
  <2> QED
    BY <1>0, <1>1, <1>2, <1>3, <2>1, SeekGoes DEF AtFile
<1>5. Way'[n] = Way[n] /\ WayKept(n) /\ Start'[n] = Start[n] /\ Way[n][0] = fp[n].sclust
  <2>1. Start'[n] = Start[n] /\ Start[n] = fp[n].sclust
    BY <1>1, <1>3 DEF Start, AllBut
  <2> QED
    BY <1>0, <1>1, <2>1, ViewWays, Ways
<1>6. PlacesAt(n)'
  <2>1. 0 % BCS = 0 /\ 0 \div BCS = 0
    BY AtBoundary
  <2>2. ~Settled(n)'
    BY <1>2, <1>3 DEF Settled
  <2>3. op.left = fp[n].fsize /\ op.left # 0
    BY <1>1, <1>3 DEF PlacesAt
  <2>4. fp'[n].fptr + op'.left = fp'[n].fsize
    BY <1>1, <1>2, <1>3, <2>3 DEF AllBut
  <2> QED
    BY <1>1, <1>2, <1>5, <2>1, <2>2, <2>3, <2>4 DEF PlacesAt
<1>7. End(n)' <= End(n) /\ BufferSame(n)
  <2>1. Len(stream[n]) \in Nat
    BY EndBound
  <2> QED
    BY <1>1, <1>3, <1>4, <2>1 DEF End, BufferSame, AllBut
<1>8. ContentOf(n)'
  BY <1>0, <1>1, <1>5, <1>7, FrameContent
<1> QED
  BY <1>4, <1>6, <1>8 DEF OwnKept

\* f_lseek() goes to the next cluster.
LEMMA SeekOwn ==
  ASSUME FInv, Types', UNCHANGED step, Seek, NEW n \in Files, n = file
  PROVE  OwnKept(n)
<1>0. CallStep /\ ~TableStep
  BY NotTable
<1>1. /\ IInv /\ Types /\ Control /\ UNCHANGED <<disk, fs, fp, mounts, stream>>
      /\ Fat' = Fat /\ Dir' = Dir
  BY <1>0, Facts, StepView DEF SameView, Seek
<1>2. /\ SizesAt(n) /\ PlacesAt(n) /\ op.call = "lseek" /\ op'.call = op.call /\ file' = n
      /\ op.left \in Nat /\ OpType
  BY <1>0, Facts DEF Seek
<1>3. op.at = "seek" /\ op.left > BCS /\ op' = [op EXCEPT !.at = "follow", !.clst = fp[n].clust]
  BY <1>2 DEF Seek, PlacesAt
<1>4. op'.at = "follow" /\ op'.left = op.left /\ op'.clst = fp[n].clust
  BY <1>2, <1>3 DEF OpType
<1>5. op.left # 0 /\ op.at \in AtFile
  BY <1>2, <1>3, Constants DEF AtFile
<1>6. SizesAt(n)' /\ ~Pending /\ ~Pending'
  <2>1. AllBut(fp'[n], fp[n], {"clust", "fptr", "dsect", "buf"})
    BY <1>1 DEF AllBut
  <2> QED
    BY <1>0, <1>1, <1>2, <1>4, <1>5, <2>1, SeekGoes
<1>7. Way'[n] = Way[n] /\ Start'[n] = Start[n]
  BY <1>0, <1>1, ViewWays DEF Start
<1>8. PlacesAt(n)'
  <2>1. ~Settled(n)'
    BY <1>2, <1>4 DEF Settled
  <2> QED
    BY <1>1, <1>2, <1>3, <1>4, <1>5, <1>7, <2>1 DEF PlacesAt
<1>9. End(n)' <= End(n) /\ BufferSame(n)
  <2>1. Len(stream[n]) \in Nat
    BY EndBound
  <2> QED
    BY <1>1, <1>6, <2>1 DEF End, BufferSame
<1>10. ContentOf(n)'
  BY <1>0, <1>1, <1>7, <1>9, FrameContent
<1> QED
  BY <1>6, <1>8, <1>10 DEF OwnKept

\* f_sync() between its writes.
LEMMA SyncOwn ==
  ASSUME FInv, Types', UNCHANGED step, Flushed \/ SyncFs, NEW n \in Files, n = file
  PROVE  OwnKept(n)
<1>0. CallStep /\ ~TableStep
  BY NotTable
<1>1. /\ IInv /\ StepInv /\ Types /\ Control /\ op.at \in {"flush", "sync"} /\ UNCHANGED <<fp, mounts, stream>>
      /\ Fat' = Fat /\ Dir' = Dir /\ ((At("entry") /\ ~fp[n].dirty) \/ (At("synced") /\ op.at = "sync"))
      /\ (op.at = "flush" => ~fp[n].dirty)
  BY <1>0, Facts, StepView DEF SameView, Flushed, SyncFs
<1>2. /\ op'.at \in {"entry", "synced"} /\ (op'.at = "entry" => ~fp[n].dirty)
      /\ (op'.at = "synced" => op.at = "sync")
  BY <1>1, AtEffect
<1>3. SizesAt(n) /\ PlacesAt(n) /\ op.call \in {"sync", "close"} /\ fp[n].fs /\ op.at \in AtFile
  BY <1>0, <1>1, Facts DEF StepInv, InSync, AtFile
<1>4. Way'[n] = Way[n] /\ WayKept(n) /\ Start'[n] = Start[n]
  BY <1>0, <1>1, ViewWays DEF Start
<1>5. SizesAt(n)' /\ PlacesAt(n)' /\ ~Pending /\ ~Pending'
  <2>1. AllBut(fp'[n], fp[n], {"dirty", "written", "fs"})
    BY <1>1 DEF AllBut
  <2>2. op'.at \in {"sync", "synced"} => ~fp'[n].written
    BY <1>1, <1>2, <1>3 DEF SizesAt
  <2>3. ~fp'[n].written => Dir'[n].size = fp[n].fsize
    BY <1>1, <1>3 DEF SizesAt, SizeOf
  <2> QED
    BY <1>0, <1>1, <1>2, <1>3, <1>4, <2>1, <2>2, <2>3, SyncGoes DEF InSync
<1>6. End(n)' <= End(n) /\ BufferSame(n)
  <2>1. Len(stream[n]) \in Nat
    BY EndBound
  <2> QED
    BY <1>1, <1>5, <2>1 DEF End, BufferSame
<1>7. disk'.data = disk.data
  <2>1. ~WriteBack
    BY <1>1 DEF WriteBack
  <2> QED
    BY <1>0, <1>1, <2>1, DataSame
<1>8. ContentOf(n)'
  BY <1>0, <1>1, <1>4, <1>6, <1>7, FrameContent
<1> QED
  BY <1>5, <1>8 DEF OwnKept

(***************************************************************************)
(* The steps along the chain.                                              *)
(***************************************************************************)
LEMMA FailOwn ==
  ASSUME FInv, Types', UNCHANGED step, CallStep, ~TableStep, NEW n \in Files, n = file, op.at # "check",
         disk'.data = disk.data, stream' = stream, mounts' = mounts, NEW r,
         FailCall(r) \/ (op.call \in {"write", "lseek", "gets"} /\ Abort(r))
  PROVE  OwnKept(n)
<1>1. IInv /\ Types /\ Control /\ op.at # "out" /\ SameView
  BY Facts, StepView
<1>2. op'.at = "ret" /\ AllBut(fp'[n], fp[n], {"err"})
      /\ \/ op.call \in {"write", "lseek", "gets"} /\ fp'[n].err
         \/ op.call \notin {"write", "lseek", "gets"} /\ UNCHANGED fp
  BY <1>1, LeaveEffect
<1>3. SizesAt(n)' /\ PlacesAt(n)' /\ End(n)' <= End(n)
  BY <1>1, <1>2, FailsAt
<1>4. Start'[n] = Start[n] /\ BufferSame(n)
  BY <1>1, <1>2 DEF Start, SameView, AllBut, BufferSame
<1>5. ContentOf(n)'
  BY <1>3, <1>4, FrameContent
<1> QED
  BY <1>3, <1>5 DEF OwnKept

\* The place of a unit on a cluster boundary is behind the cluster of the unit before.
LEMMA NextInWay ==
  ASSUME FInv, NEW n \in Files, InPlace(n), fp[n].fptr \in Nat, fp[n].fptr # 0, fp[n].fptr % BCS = 0
  PROVE  /\ fp[n].fptr \div BCS \in Nat /\ fp[n].fptr % SS = 0
         /\ Way[n][fp[n].fptr \div BCS] = Succ(Fat, fp[n].clust)
<1> DEFINE p == fp[n].fptr
<1>1. /\ (p - 1) \div BCS + 1 = p \div BCS /\ p % SS = 0 /\ (p - 1) \div BCS \in Nat /\ p \div BCS \in Nat
  BY UnitBefore, AtBoundary, SectorOfPlace
<1>2. fp[n].clust = Way[n][(p - 1) \div BCS]
  BY DEF InPlace
<1>3. Way[n][(p - 1) \div BCS + 1] = Succ(Fat, Way[n][(p - 1) \div BCS])
  BY <1>1, Ways DEF FInv, IInv
<1> QED
  BY <1>1, <1>2, <1>3

\* What Follow does: an error, the next cluster, or the search for one.
LEMMA FollowEffect ==
  ASSUME Types, Control, Follow
  PROVE  /\ op.at = "follow" /\ op.at # "out" /\ op.clst \in Clusters
         /\ UNCHANGED <<disk, fs, mounts, stream, line, faults>>
         /\ \/ Abort("FR_INT_ERR")
            \/ Fat[op.clst] \in Clusters /\ GotCluster(Fat[op.clst])
            \/ /\ Fat[op.clst] \notin Clusters /\ op.call # "gets" /\ UNCHANGED fp
               /\ op'.at \in {"full", "scan"} /\ op'.clst = op.clst /\ op'.left = op.left
<1>1. op.at = "follow" /\ op.clst \in Clusters /\ fs.winsect = FatSect(op.clst)
  BY DEF Follow, InWindow, Need, Control, ScanInv
<1>2. fs.fat[op.clst] = Fat[op.clst]
  BY <1>1 DEF Fat
<1> QED
  BY <1>1, <1>2, ScanOpEffect DEF Follow

\* The chain is followed.
LEMMA FollowOwn ==
  ASSUME FInv, Types', UNCHANGED step, Follow, NEW n \in Files, n = file
  PROVE  OwnKept(n)
<1> DEFINE cs == Fat[op.clst]
           p  == fp[n].fptr
<1>0. CallStep /\ ~TableStep
  BY NotTable
<1>1. /\ IInv /\ Types /\ Control /\ op.at = "follow" /\ op.at # "out" /\ op.clst \in Clusters
      /\ UNCHANGED <<disk, fs, mounts, stream>> /\ Fat' = Fat /\ Dir' = Dir
      /\ op.call \in {"write", "lseek", "gets"}
      /\ op.call = "lseek" => op.left > BCS
  BY <1>0, Facts, FollowEffect, StepView DEF SameView, Control, CallInv, LeftInv
<1>2. /\ SizesAt(n) /\ PlacesAt(n) /\ ContentOf(n) /\ op'.call = op.call /\ file' = n /\ p \in Nat
      /\ fp[n].fs /\ ~fp[n].err /\ fptr = p /\ fptr' = fp'[n].fptr /\ op.left \in Nat /\ fp[n].fsize \in Nat
      /\ fp[n].sclust # 0 /\ op.at \in AtFile /\ op.at \in InWrite
  <2>1. fp[n].sclust # 0
    BY <1>0, <1>1, Facts DEF Control, ScanInv, Fp
  <2> QED
    BY <1>0, <1>1, <2>1, Facts DEF AtFile, InSync, InWrite
<1>3. op.clst = fp[n].clust /\ p % BCS = 0 /\ (op.call # "lseek" => p # 0)
  BY <1>1, <1>2 DEF PlacesAt
<1>4. /\ p \div BCS \in Nat /\ p % SS = 0
      /\ op.call # "lseek" => Way[n][p \div BCS] = cs
      /\ op.call = "lseek" => Way[n][p \div BCS + 1] = cs /\ p + op.left = fp[n].fsize
  <2>1. p \div BCS \in Nat /\ p % SS = 0
    BY <1>2, <1>3, AtBoundary, SectorOfPlace
  <2>2. op.call # "lseek" => Way[n][p \div BCS] = cs
    <3> SUFFICES ASSUME op.call # "lseek"
                 PROVE  Way[n][p \div BCS] = cs
      OBVIOUS
    <3>1. InPlace(n)
      BY <1>1, <1>2 DEF PlacesAt, Settled
    <3>2. Way[n][p \div BCS] = Succ(Fat, fp[n].clust)
      BY <1>2, <1>3, <3>1, NextInWay
    <3> QED
      BY <1>1, <1>3, <3>2 DEF Succ
  <2>3. op.call = "lseek" => Way[n][p \div BCS + 1] = cs /\ p + op.left = fp[n].fsize
    <3>1. op.call = "lseek" => Way[n][p \div BCS] = op.clst /\ p + op.left = fp[n].fsize
      BY <1>1, <1>2, <1>3 DEF PlacesAt
    <3>2. Way[n][p \div BCS + 1] = Succ(Fat, Way[n][p \div BCS])
      BY <1>1, <2>1, Ways
    <3> QED
      BY <1>1, <3>1, <3>2 DEF Succ
  <2> QED
    BY <2>1, <2>2, <2>3
<1>5. CASE Abort("FR_INT_ERR")
  BY <1>0, <1>1, <1>5, FailOwn
<1>6. Start'[n] = Start[n] => Way'[n] = Way[n]
  BY <1>0, <1>1, ViewWays
<1>7. CASE cs \in Clusters /\ GotCluster(cs) /\ op.call = "lseek"
  <2>1. /\ AllBut(fp'[n], fp[n], {"clust", "fptr"}) /\ fp'[n].clust = cs /\ fp'[n].fptr = p + BCS
        /\ op'.at = "seek" /\ op'.left = op.left - BCS
    BY <1>1, <1>2, <1>7, GotEffect
  <2>2. AllBut(fp'[n], fp[n], {"clust", "fptr", "dsect", "buf"})
    BY <2>1 DEF AllBut
  <2>3. SizesAt(n)' /\ ~Pending /\ ~Pending'
    BY <1>0, <1>1, <1>2, <1>7, <2>1, <2>2, SeekGoes
  <2>4. Start'[n] = Start[n] /\ Way'[n] = Way[n]
    BY <1>1, <1>2, <1>6, <2>1 DEF Start, AllBut
  <2>5. PlacesAt(n)'
    <3>1. (p + BCS) % BCS = 0 /\ (p + BCS) \div BCS = p \div BCS + 1
      BY <1>2, <1>3, AtBoundary
    <3>2. ~Settled(n)'
      BY <1>2, <1>7, <2>1 DEF Settled
    <3>3. fp'[n].fptr + op'.left = fp'[n].fsize /\ op'.left # 0
      <4>1. fp'[n].fsize = fp[n].fsize
        BY <2>1 DEF AllBut
      <4> QED
        BY <1>1, <1>2, <1>4, <1>7, <2>1, <4>1, Constants
    <3> QED
      BY <1>4, <1>7, <2>1, <2>4, <3>1, <3>2, <3>3 DEF PlacesAt
  <2>6. End(n)' <= End(n) /\ BufferSame(n)
    <3>1. Len(stream[n]) \in Nat
      BY EndBound
    <3> QED
      BY <1>1, <1>2, <2>1, <2>3, <3>1 DEF End, BufferSame, AllBut
  <2>7. ContentOf(n)'
    BY <1>0, <1>1, <2>4, <2>6, FrameContent
  <2> QED
    BY <2>3, <2>5, <2>7 DEF OwnKept
<1>8. CASE cs \in Clusters /\ GotCluster(cs) /\ op.call # "lseek"
  <2>1. /\ AllBut(fp'[n], fp[n], {"clust", "sclust"}) /\ fp'[n].clust = cs /\ fp'[n].sclust = fp[n].sclust
        /\ op'.at = "place" /\ op'.left = op.left
    BY <1>1, <1>2, <1>8, GotEffect
  <2>2. /\ AllBut(fp'[n], fp[n], {"clust", "sclust", "fptr", "dsect", "buf", "dirty"})
        /\ fp'[n].fptr = p /\ fp'[n].fsize = fp[n].fsize /\ fp'[n].fs
    BY <1>2, <2>1 DEF AllBut
  <2>3. SizesAt(n)' /\ (Pending <=> Pending')
    <3>1. CASE op.call = "write"
      <4>1. op.left > 0
        BY <1>1, <1>2, <3>1 DEF SizesAt
      <4> QED
        BY <1>0, <1>1, <1>2, <2>1, <2>2, <3>1, <4>1, WriteGoes DEF InWrite
    <3>2. CASE op.call = "gets"
      <4>1. p < fp[n].fsize
        BY <1>1, <1>2, <3>2 DEF SizesAt
      <4> QED
        BY <1>0, <1>1, <1>2, <2>1, <2>2, <3>2, <4>1, GetsGoes
    <3> QED
      BY <1>1, <1>8, <3>1, <3>2
  <2>4. Start'[n] = Start[n] /\ Way'[n] = Way[n]
    BY <1>1, <1>2, <1>6, <2>1, <2>2 DEF Start
  <2>5. PlacesAt(n)'
    BY <1>2, <1>4, <1>8, <2>1, <2>2, <2>4 DEF PlacesAt, Settled
  <2>6. End(n)' <= End(n) /\ BufferSame(n)
    <3>1. Len(stream[n]) \in Nat
      BY EndBound
    <3> QED
      BY <1>1, <1>2, <2>1, <2>2, <2>3, <3>1 DEF End, BufferSame, AllBut
  <2>7. ContentOf(n)'
    BY <1>0, <1>1, <2>4, <2>6, FrameContent
  <2> QED
    BY <2>3, <2>5, <2>7 DEF OwnKept
<1>9. CASE /\ cs \notin Clusters /\ op.call # "gets" /\ UNCHANGED fp
           /\ op'.at \in {"full", "scan"} /\ op'.clst = op.clst /\ op'.left = op.left
  <2>1. op.call = "write"
    <3> SUFFICES ASSUME op.call = "lseek"
                 PROVE  FALSE
      BY <1>1, <1>9
    <3>1. (p + BCS) \div BCS = p \div BCS + 1
      BY <1>2, <1>3, AtBoundary
    <3>2. p + BCS \in Nat /\ p + BCS < fp[n].fsize
      BY <1>1, <1>2, <1>4, Constants
    <3>3. fp[n].fsize = Len(stream[n]) /\ End(n) = Len(stream[n])
      BY <1>2 DEF SizesAt, SizeOf, End, Pending
    <3>4. Way[n][(p + BCS) \div BCS] \in Clusters
      BY <1>2, <3>2, <3>3 DEF ContentOf, DataOf
    <3> QED
      BY <1>4, <1>9, <3>1, <3>4
  <2>2. AllBut(fp'[n], fp[n], {"clust", "sclust", "fptr", "dsect", "buf", "dirty"})
    BY <1>9 DEF AllBut
  <2>3. SizesAt(n)' /\ Pending /\ Pending'
    <3>1. op.left > 0
      BY <1>1, <1>2, <2>1 DEF SizesAt
    <3> QED
      BY <1>0, <1>1, <1>2, <1>9, <2>1, <2>2, <3>1, WriteGoes DEF InWrite
  <2>4. Start'[n] = Start[n] /\ Way'[n] = Way[n]
    BY <1>1, <1>6, <1>9 DEF Start
  <2>5. PlacesAt(n)'
    <3>1. Settled(n)' => InPlace(n)'
      <4>1. InPlace(n)
        BY <1>1, <1>2, <2>1 DEF PlacesAt, Settled
      <4> QED
        BY <1>9, <2>4, <4>1 DEF InPlace, Addr
    <3>2. op'.clst # 0
      BY <1>1, <1>9, Constants
    <3> QED
      BY <1>1, <1>2, <1>3, <1>9, <2>1, <3>1, <3>2 DEF PlacesAt
  <2>6. End(n)' <= End(n) /\ BufferSame(n)
    BY <1>1, <1>2, <1>9, <2>3, EndBound DEF End, BufferSame
  <2>7. ContentOf(n)'
    BY <1>0, <1>1, <2>4, <2>6, FrameContent
  <2> QED
    BY <2>3, <2>5, <2>7 DEF OwnKept
<1> QED
  BY <1>1, <1>5, <1>7, <1>8, <1>9, FollowEffect

(***************************************************************************)
(* The steps to the next unit.                                             *)
(***************************************************************************)
LEMMA SectorInWay ==
  ASSUME FInv, NEW n \in Files, InPlace(n), fp[n].fptr \in Nat
  PROVE  /\ fp[n].fptr % SS # 0 => /\ fp[n].clust = Way[n][fp[n].fptr \div BCS]
                                   /\ fp[n].dsect = Addr(n, fp[n].fptr)
         /\ (fp[n].fptr \div SS) % CSize # 0 => fp[n].clust = Way[n][fp[n].fptr \div BCS]
<1> DEFINE p == fp[n].fptr
<1>1. (p % SS # 0 \/ (p \div SS) % CSize # 0) => p # 0 /\ p % BCS # 0
  BY PlaceOfPointer, AtBoundary
<1>2. p # 0 => /\ p - 1 \in Nat
               /\ p % SS # 0 => (p - 1) \div SS = p \div SS
               /\ p % BCS # 0 => (p - 1) \div BCS = p \div BCS
  BY UnitBefore
<1>3. p # 0 /\ p % BCS # 0 => fp[n].clust = Way[n][p \div BCS]
  BY <1>2 DEF InPlace
<1>4. p # 0 /\ p % SS # 0 => fp[n].dsect = Addr(n, p)
  BY <1>2, SameSector DEF InPlace, Addr
<1> QED
  BY <1>1, <1>3, <1>4

\* What NextChunk and NextByte do.
LEMMA NextEffect ==
  ASSUME Types, Control, NextChunk \/ NextByte
  PROVE  /\ op.at # "out" /\ op.left > 0 /\ UNCHANGED <<disk, fs, mounts, stream>>
         /\ \/ op.call = "write" /\ op.at = "chunk"
            \/ op.call = "gets" /\ op.at = "byte" /\ fptr < fp[file].fsize
         /\ \/ op.call = "gets" /\ Abort("FR_INT_ERR")
            \/ fptr % SS # 0 /\ At("copy") /\ UNCHANGED fp
            \/ fptr % SS = 0 /\ csect # 0 /\ At("place") /\ UNCHANGED fp
            \/ fptr = 0 /\ fp[file].sclust # 0 /\ GotCluster(fp[file].sclust)
            \/ fptr = 0 /\ fp[file].sclust = 0 /\ op.call = "write" /\ NewChain /\ UNCHANGED fp
            \/ /\ fptr # 0 /\ fptr % SS = 0 /\ csect = 0 /\ UNCHANGED fp
               /\ op'.at = "follow" /\ op'.clst = fp[file].clust /\ op'.left = op.left
<1>1. ASSUME op' = [op EXCEPT !.at = "follow", !.clst = fp[file].clust]
      PROVE  op'.at = "follow" /\ op'.clst = fp[file].clust /\ op'.left = op.left
  BY <1>1 DEF Types, OpType
<1>2. op.at = "byte" => op.call = "gets"
  BY DEF Control, CallInv
<1>3. CASE NextChunk
  BY <1>1, <1>3 DEF NextChunk
<1>4. CASE NextByte
  BY <1>1, <1>2, <1>4 DEF NextByte
<1> QED
  BY <1>3, <1>4

\* The next sector of f_write() and f_read().
LEMMA NextOwn ==
  ASSUME FInv, Types', UNCHANGED step, NextChunk \/ NextByte, NEW n \in Files, n = file
  PROVE  OwnKept(n)
<1> DEFINE p == fp[n].fptr
<1>0. CallStep /\ ~TableStep
  BY NotTable
<1>1. /\ IInv /\ Types /\ Control /\ op.at # "out" /\ op.left > 0 /\ UNCHANGED <<disk, fs, mounts, stream>>
      /\ op.at \in {"chunk", "byte"} /\ op.call \in {"write", "gets"}
      /\ Fat' = Fat /\ Dir' = Dir
      /\ op.call = "write" => op.at = "chunk"
      /\ op.call = "gets" => p < fp[n].fsize
  BY <1>0, Facts, NextEffect, StepView DEF SameView
<1>2. /\ SizesAt(n) /\ PlacesAt(n) /\ op'.call = op.call /\ file' = n /\ p \in Nat
      /\ fp[n].fs /\ ~fp[n].err /\ fptr = p /\ fptr' = fp'[n].fptr /\ fp[n].fsize \in Nat
      /\ op.at \in AtFile
  BY <1>0, <1>1, Facts DEF AtFile, InSync
<1>3. InPlace(n)
  BY <1>1, <1>2 DEF PlacesAt, Settled
<1>4. CASE Abort("FR_INT_ERR")
  BY <1>0, <1>1, <1>4, FailOwn
<1>5. ASSUME AllBut(fp'[n], fp[n], {"clust", "sclust"}), fp'[n].sclust = fp[n].sclust, op'.left = op.left,
             op'.at \in {"follow", "place", "copy", "scan", "full"},
             op.call = "gets" => op'.at \in {"follow", "place", "copy"}
      PROVE  SizesAt(n)' /\ Way'[n] = Way[n] /\ ContentOf(n)'
  <2>1. /\ AllBut(fp'[n], fp[n], {"clust", "sclust", "fptr", "dsect", "buf", "dirty"})
        /\ fp'[n].fptr = p /\ fp'[n].fsize = fp[n].fsize /\ fp'[n].fs
    BY <1>2, <1>5 DEF AllBut
  <2>2. SizesAt(n)' /\ (Pending <=> Pending')
    <3>1. CASE op.call = "write"
      BY <1>0, <1>1, <1>2, <1>5, <2>1, <3>1, WriteGoes DEF InWrite
    <3>2. CASE op.call = "gets"
      BY <1>0, <1>1, <1>2, <1>5, <2>1, <3>2, GetsGoes
    <3> QED
      BY <1>1, <3>1, <3>2
  <2>3. Start'[n] = Start[n] /\ Way'[n] = Way[n]
    <3>1. Start'[n] = Start[n]
      BY <1>1, <1>2, <1>5, <2>1 DEF Start
    <3> QED
      BY <1>0, <1>1, <3>1, ViewWays
  <2>4. End(n)' <= End(n) /\ BufferSame(n)
    <3>1. Len(stream[n]) \in Nat
      BY EndBound
    <3> QED
      BY <1>1, <1>2, <1>5, <2>1, <2>2, <3>1 DEF End, BufferSame, AllBut
  <2>5. ContentOf(n)'
    BY <1>0, <1>1, <2>3, <2>4, FrameContent
  <2> QED
    BY <2>2, <2>3, <2>5
<1>6. UNCHANGED fp => AllBut(fp'[n], fp[n], {"clust", "sclust"}) /\ fp'[n].sclust = fp[n].sclust
  BY DEF AllBut
<1>7. \A l : At(l) => op'.at = l /\ op'.left = op.left /\ op'.clst = op.clst
  BY <1>1, AtEffect
<1>8. ASSUME op'.at \in {"copy", "place"}
      PROVE  ~Settled(n)'
  BY <1>2, <1>8 DEF Settled
<1>9. CASE p % SS # 0 /\ At("copy") /\ UNCHANGED fp
  <2>1. SizesAt(n)' /\ Way'[n] = Way[n] /\ ContentOf(n)' /\ op'.at = "copy"
    BY <1>5, <1>6, <1>7, <1>9
  <2>2. fp[n].clust = Way[n][p \div BCS] /\ fp[n].dsect = Addr(n, p)
    BY <1>2, <1>3, <1>9, SectorInWay
  <2>3. PlacesAt(n)'
    BY <1>8, <1>9, <2>1, <2>2 DEF PlacesAt, Addr
  <2> QED
    BY <2>1, <2>3 DEF OwnKept
<1>10. CASE p % SS = 0 /\ csect # 0 /\ At("place") /\ UNCHANGED fp
  <2>1. SizesAt(n)' /\ Way'[n] = Way[n] /\ ContentOf(n)' /\ op'.at = "place"
    BY <1>5, <1>6, <1>7, <1>10
  <2>2. fp[n].clust = Way[n][p \div BCS]
    BY <1>2, <1>3, <1>10, SectorInWay DEF csect
  <2>3. PlacesAt(n)'
    BY <1>8, <1>10, <2>1, <2>2 DEF PlacesAt
  <2> QED
    BY <2>1, <2>3 DEF OwnKept
<1>11. CASE p = 0 /\ fp[n].sclust # 0 /\ GotCluster(fp[n].sclust)
  <2>1. /\ AllBut(fp'[n], fp[n], {"clust", "sclust"}) /\ fp'[n].clust = fp[n].sclust
        /\ fp'[n].sclust = fp[n].sclust /\ op'.at = "place" /\ op'.left = op.left
    BY <1>1, <1>11, GotEffect
  <2>2. SizesAt(n)' /\ Way'[n] = Way[n] /\ ContentOf(n)'
    BY <1>5, <2>1
  <2>3. fp'[n].fptr = 0 /\ Way[n][0] = fp[n].sclust
    BY <1>1, <1>2, <1>11, <2>1, Ways DEF AllBut, Start
  <2>4. 0 % SS = 0 /\ 0 \div BCS = 0
    BY AtBoundary
  <2>5. PlacesAt(n)'
    BY <1>8, <2>1, <2>2, <2>3, <2>4 DEF PlacesAt
  <2> QED
    BY <2>2, <2>5 DEF OwnKept
<1>12. CASE p = 0 /\ fp[n].sclust = 0 /\ op.call = "write" /\ NewChain /\ UNCHANGED fp
  <2>1. op'.at \in {"full", "scan"} /\ op'.clst = 0 /\ op'.left = op.left
    BY <1>1, <1>12, ScanOpEffect
  <2>2. SizesAt(n)' /\ Way'[n] = Way[n] /\ ContentOf(n)'
    BY <1>5, <1>6, <1>12, <2>1
  <2>3. Settled(n)' => InPlace(n)'
    BY <1>12 DEF InPlace
  <2>4. PlacesAt(n)'
    BY <1>2, <1>12, <2>1, <2>3 DEF PlacesAt
  <2> QED
    BY <2>2, <2>4 DEF OwnKept
<1>13. CASE /\ p # 0 /\ p % SS = 0 /\ csect = 0 /\ UNCHANGED fp
            /\ op'.at = "follow" /\ op'.clst = fp[n].clust /\ op'.left = op.left
  <2>1. SizesAt(n)' /\ Way'[n] = Way[n] /\ ContentOf(n)'
    BY <1>5, <1>6, <1>13
  <2>2. p % BCS = 0
    BY <1>2, <1>13, AtBoundary DEF csect
  <2>3. Settled(n)' => InPlace(n)'
    BY <1>3, <1>13, <2>1 DEF InPlace, Addr
  <2>4. PlacesAt(n)'
    BY <1>1, <1>2, <1>13, <2>2, <2>3 DEF PlacesAt
  <2> QED
    BY <2>1, <2>4 DEF OwnKept
<1> QED
  BY <1>0, <1>1, <1>2, <1>4, <1>9, <1>10, <1>11, <1>12, <1>13, NextEffect

\* f_gets() takes a unit, or ends.
LEMMA GetsOwn ==
  ASSUME FInv, Types', UNCHANGED step, GetsEnds \/ CopyOut, NEW n \in Files, n = file
  PROVE  OwnKept(n)
<1> DEFINE p == fp[n].fptr
<1>0. CallStep /\ ~TableStep
  BY NotTable
<1>1. /\ IInv /\ Types /\ Control /\ op.at # "out" /\ UNCHANGED <<disk, fs, mounts, stream>>
      /\ op.at \in {"byte", "copy"} /\ op.call = "gets" /\ Fat' = Fat /\ Dir' = Dir
      /\ (CopyOut => op.at = "copy")
  BY <1>0, Facts, StepView DEF SameView, GetsEnds, CopyOut, Control, CallInv
<1>2. /\ SizesAt(n) /\ PlacesAt(n) /\ op'.call = op.call /\ file' = n /\ p \in Nat
      /\ fp[n].fs /\ ~fp[n].err /\ fptr = p /\ fptr' = fp'[n].fptr /\ fp[n].fsize \in Nat
      /\ op.at \in AtFile /\ StepInv
  BY <1>0, <1>1, Facts DEF AtFile, InSync
<1>3. \/ op'.at = "ret" /\ UNCHANGED fp /\ op.at = "byte"
      \/ op'.at = "byte" /\ AllBut(fp'[n], fp[n], {"fptr"}) /\ fp'[n].fptr = p + 1 /\ op.at = "copy"
  <2>1. CASE GetsEnds
    BY <1>1, <2>1, LeaveEffect DEF GetsEnds
  <2>2. CASE CopyOut
    BY <1>1, <1>2, <2>2, CopyOutEffect
  <2> QED
    BY <2>1, <2>2
<1>4. /\ AllBut(fp'[n], fp[n], {"clust", "sclust", "fptr", "dsect", "buf", "dirty"})
      /\ fp'[n].sclust = fp[n].sclust /\ fp'[n].fs
  BY <1>2, <1>3 DEF AllBut
<1>5. SizesAt(n)' /\ ~Pending /\ ~Pending'
  <2>1. n = "config" /\ p <= fp[n].fsize
    BY <1>1, <1>2, Named DEF SizesAt
  <2>2. op.at = "copy" => p + 1 <= fp[n].fsize
    BY <1>1, <1>2 DEF SizesAt
  <2> QED
    BY <1>0, <1>1, <1>2, <1>3, <1>4, <2>1, <2>2, GetsGoes
<1>6. Start'[n] = Start[n] /\ Way'[n] = Way[n]
  <2>1. Start'[n] = Start[n]
    BY <1>1, <1>2, <1>4 DEF Start
  <2> QED
    BY <1>0, <1>1, <2>1, ViewWays
<1>7. PlacesAt(n)'
  <2>1. CASE op'.at = "ret" /\ UNCHANGED fp /\ op.at = "byte"
    <3>1. InPlace(n)
      BY <1>1, <1>2, <2>1 DEF PlacesAt, Settled
    <3>2. InPlace(n)'
      BY <1>6, <2>1, <3>1 DEF InPlace, Addr
    <3> QED
      BY <2>1, <3>2 DEF PlacesAt
  <2>2. CASE op'.at = "byte" /\ AllBut(fp'[n], fp[n], {"fptr"}) /\ fp'[n].fptr = p + 1 /\ op.at = "copy"
    <3>1. fp[n].clust = Way[n][p \div BCS] /\ fp[n].dsect = Addr(n, p)
      BY <1>2, <2>2 DEF PlacesAt
    <3>2. (p + 1) - 1 = p
      BY <1>2
    <3>3. InPlace(n)'
      BY <1>6, <2>2, <3>1, <3>2 DEF InPlace, Addr, AllBut
    <3> QED
      BY <2>2, <3>3 DEF PlacesAt
  <2> QED
    BY <1>3, <2>1, <2>2
<1>8. End(n)' <= End(n) /\ BufferSame(n)
  <2>1. Len(stream[n]) \in Nat
    BY EndBound
  <2> QED
    BY <1>1, <1>2, <1>3, <1>5, <2>1 DEF End, BufferSame, AllBut
<1>9. ContentOf(n)'
  BY <1>0, <1>1, <1>6, <1>8, FrameContent
<1> QED
  BY <1>5, <1>7, <1>9 DEF OwnKept

(***************************************************************************)
(* The steps that write the buffer, and that fill it.                      *)
(***************************************************************************)
LEMMA WrittenContent ==
  ASSUME FInv, Types', CallStep, ~TableStep, NEW n \in Files, n = file, disk' = BufferWritten,
         fp[n].fs, fp[n].dirty, AllBut(fp'[n], fp[n], {"dirty", "err"}), UNCHANGED <<mounts, stream>>, End(n)' <= End(n)
  PROVE  ContentOf(n)'
<1>0. /\ IInv /\ Types /\ ContentOf(n) /\ fp[n] \in FileObject /\ Dir' = Dir
      /\ disk \in CardState
  BY Facts, StepView, ViewTypes DEF SameView
<1>1. Start'[n] = Start[n] /\ Way'[n] = Way[n] /\ WayKept(n)
  <2>1. Start'[n] = Start[n]
    BY <1>0 DEF Start, AllBut
  <2> QED
    BY <1>0, <2>1, ViewWays
<1>2. /\ disk'.fat = disk.fat /\ disk'.dir = disk.dir
      /\ \A s \in DataSectors : disk'.data[s] = IF s = fp[n].dsect THEN fp[n].buf ELSE disk.data[s]
  BY <1>0 DEF BufferWritten, CardState
<1>3. \A p \in Nat : p < End(n)' => p < End(n) /\ UnitAt(n, p)' = UnitAt(n, p)
  BY UnitsKept
<1>4. EntryOf(n)'
  BY <1>0, <1>1 DEF ContentOf, EntryOf
<1>5. DiskOf(n)'
  BY <1>0, <1>1, <1>2, DiskKept DEF Old
<1>6. BufferOf(n)'
  <2>1. fp'[n].fs /\ fp'[n].dirty => fp[n].fs /\ fp[n].dirty /\ fp'[n].dsect = fp[n].dsect
    BY DEF AllBut
  <2> QED
    BY <1>0, <1>1, <2>1, BufferKept DEF ContentOf
<1>7. DataOf(n)'
  <2> SUFFICES ASSUME NEW p \in Nat, p < End(n)'
               PROVE  /\ Way'[n][p \div BCS] \in Clusters
                      /\ OnCard(n, p)' = UnitAt(n, p)'
                      /\ fp'[n].dsect = Addr(n, p)' => fp'[n].buf[p % SS] = UnitAt(n, p)'
    BY DEF DataOf
  <2>1. p < End(n) /\ UnitAt(n, p)' = UnitAt(n, p) /\ Addr(n, p)' = Addr(n, p)
    BY <1>1, <1>3 DEF Addr
  <2>2. /\ Way[n][p \div BCS] \in Clusters
        /\ fp[n].dsect = Addr(n, p) => fp[n].buf[p % SS] = UnitAt(n, p)
        /\ fp[n].dsect # Addr(n, p) => OnCard(n, p) = UnitAt(n, p)
    BY <1>0, <2>1 DEF ContentOf, DataOf
  <2>3. Addr(n, p) \in DataSectors
    BY <2>2, SectorsApart DEF Addr
  <2>4. OnCard(n, p)' = IF Addr(n, p) = fp[n].dsect THEN fp[n].buf[p % SS] ELSE disk.data[Addr(n, p)][p % SS]
    BY <1>2, <2>1, <2>3 DEF OnCard
  <2>5. OnCard(n, p)' = UnitAt(n, p)
    BY <2>2, <2>4 DEF OnCard
  <2>6. fp'[n].dsect = fp[n].dsect /\ fp'[n].buf = fp[n].buf
    BY DEF AllBut
  <2> QED
    BY <1>1, <2>1, <2>2, <2>5, <2>6
<1> QED
  BY <1>4, <1>5, <1>6, <1>7 DEF ContentOf

\* The buffer is written back.
LEMMA WriteBackOwn ==
  ASSUME FInv, Types', UNCHANGED step, WriteBack, NEW n \in Files, n = file
  PROVE  OwnKept(n)
<1>0. CallStep /\ ~TableStep
  BY NotTable
<1>1. /\ IInv /\ StepInv /\ Types /\ Control /\ op.at \in {"place", "flush"} /\ op.at # "out" /\ fp[n].dirty
      /\ UNCHANGED <<fs, mounts, stream>> /\ disk' \in {disk, BufferWritten} /\ Fat' = Fat /\ Dir' = Dir
      /\ \/ /\ disk' = BufferWritten /\ UNCHANGED op /\ AllBut(fp'[n], fp[n], {"dirty"}) /\ ~fp'[n].dirty
         \/ FailCall("FR_DISK_ERR")
  BY <1>0, Facts, WriteBackEffect, StepView DEF SameView
<1>2. /\ SizesAt(n) /\ PlacesAt(n) /\ op'.call = op.call /\ file' = n /\ fp[n].fptr \in Nat
      /\ fp[n].fs /\ fptr = fp[n].fptr /\ fptr' = fp'[n].fptr /\ fp[n].fsize \in Nat /\ op.at \in AtFile
      /\ op.at = "place" => op.call \in {"write", "gets"}
      /\ op.at = "flush" => op.call \in {"sync", "close"}
  BY <1>0, <1>1, Facts DEF AtFile, Control, CallInv, StepInv, InSync
<1>3. CASE FailCall("FR_DISK_ERR") /\ disk' = disk
  BY <1>0, <1>1, <1>3, FailOwn
<1>4. CASE FailCall("FR_DISK_ERR") /\ disk' = BufferWritten
  <2>1. op'.at = "ret" /\ AllBut(fp'[n], fp[n], {"err"})
        /\ \/ op.call \in {"write", "lseek", "gets"} /\ fp'[n].err
           \/ op.call \notin {"write", "lseek", "gets"} /\ UNCHANGED fp
    BY <1>1, <1>4, LeaveEffect
  <2>2. SizesAt(n)' /\ PlacesAt(n)' /\ End(n)' <= End(n)
    BY <1>0, <1>1, <2>1, FailsAt, StepView
  <2>3. AllBut(fp'[n], fp[n], {"dirty", "err"})
    BY <2>1 DEF AllBut
  <2>4. ContentOf(n)'
    BY <1>0, <1>1, <1>2, <1>4, <2>2, <2>3, WrittenContent
  <2> QED
    BY <2>2, <2>4 DEF OwnKept
<1>5. CASE disk' = BufferWritten /\ UNCHANGED op /\ AllBut(fp'[n], fp[n], {"dirty"}) /\ ~fp'[n].dirty
  <2>1. Start'[n] = Start[n] /\ Way'[n] = Way[n] /\ WayKept(n)
    <3>1. Start'[n] = Start[n]
      BY <1>1, <1>2, <1>5 DEF Start, AllBut
    <3> QED
      BY <1>0, <1>1, <3>1, ViewWays
  <2>2. ASSUME op.at = "flush"
        PROVE  SizesAt(n)' /\ PlacesAt(n)'
    <3>1. AllBut(fp'[n], fp[n], {"dirty", "written", "fs"})
      BY <1>5 DEF AllBut
    <3>2. ~fp'[n].written => Dir'[n].size = fp[n].fsize
      BY <1>1, <1>2, <1>5 DEF SizesAt, SizeOf, AllBut
    <3>3. fp'[n].fs /\ stream'[n] = stream[n]
      BY <1>1, <1>2, <1>5 DEF AllBut
    <3> QED
      BY <1>0, <1>2, <1>5, <2>1, <2>2, <3>1, <3>2, <3>3, SyncGoes DEF InSync
  <2>3. ASSUME op.at = "place"
        PROVE  SizesAt(n)' /\ PlacesAt(n)'
    <3>1. AllBut(fp'[n], fp[n], {"clust", "sclust", "fptr", "dsect", "buf", "dirty"}) /\ fp'[n].fptr = fp[n].fptr
      BY <1>5 DEF AllBut
    <3>2. SizesAt(n)' /\ (Pending <=> Pending')
      <4>1. CASE op.call = "write"
        <5>1. op.left > 0
          BY <1>2, <2>3, <4>1 DEF SizesAt
        <5> QED
          BY <1>0, <1>1, <1>2, <1>5, <2>3, <3>1, <4>1, <5>1, WriteGoes DEF InWrite
      <4>2. CASE op.call = "gets"
        <5>1. fp[n].fptr < fp[n].fsize
          BY <1>2, <2>3, <4>2 DEF SizesAt
        <5> QED
          BY <1>0, <1>1, <1>2, <1>5, <2>3, <3>1, <4>2, <5>1, GetsGoes
      <4> QED
        BY <1>2, <2>3, <4>1, <4>2
    <3>3. PlacesAt(n)'
      BY <1>2, <1>5, <2>1, <2>3 DEF PlacesAt, Settled, AllBut
    <3> QED
      BY <3>2, <3>3
  <2>4. End(n)' <= End(n)
    <3>1. Len(stream[n]) \in Nat
      BY EndBound
    <3>2. Pending' <=> Pending
      BY <1>5 DEF Pending
    <3>3. fp'[n].fptr = fp[n].fptr
      BY <1>5 DEF AllBut
    <3> QED
      BY <1>1, <1>2, <3>1, <3>2, <3>3 DEF End
  <2>5. ContentOf(n)'
    <3>1. AllBut(fp'[n], fp[n], {"dirty", "err"})
      BY <1>5 DEF AllBut
    <3> QED
      BY <1>0, <1>1, <1>2, <1>5, <2>4, <3>1, WrittenContent
  <2>6. SizesAt(n)' /\ PlacesAt(n)'
    BY <1>1, <2>2, <2>3
  <2> QED
    BY <2>5, <2>6 DEF OwnKept
<1> QED
  BY <1>1, <1>3, <1>4, <1>5

\* Two places of a file with the same sector.
LEMMA SectorsOfFile ==
  ASSUME FInv, NEW n \in Files, NEW p \in Nat, NEW q \in Nat,
         Way[n][p \div BCS] \in Clusters, Way[n][q \div BCS] \in Clusters, Addr(n, p) = Addr(n, q)
  PROVE  p \div SS = q \div SS
<1>0. /\ Types /\ Fat \in [Clusters -> Links] /\ Start \in [Files -> Starts] /\ SoundTable(Fat, Start)
  BY ViewTypes DEF FInv, IInv, Volume, SoundInv
<1>1. p \div BCS \in Nat /\ q \div BCS \in Nat
  BY SectorOfPlace
<1>2. Way[n][p \div BCS] = Way[n][q \div BCS] /\ (p \div BCS = q \div BCS => p \div SS = q \div SS)
  BY SectorsApart DEF Addr
<1>3. p \div BCS = q \div BCS
  BY <1>0, <1>1, <1>2, Ways, WalksApart
<1> QED
  BY <1>2, <1>3

\* The contents of a file whose buffer changes.
LEMMA BufferChanged ==
  ASSUME FInv, Types', CallStep, ~TableStep, NEW n \in Files, n = file, UNCHANGED <<disk, mounts, stream>>,
         Start'[n] = Start[n], fp'[n].fs, BufferOf(n)',
         \A p \in Nat : p < End(n)' =>
           /\ Way[n][p \div BCS] \in Clusters
           /\ fp'[n].dsect = Addr(n, p) => fp'[n].buf[p % SS] = UnitAt(n, p)
           /\ (p < Dir[n].size \/ fp'[n].dsect # Addr(n, p) \/ ~fp'[n].dirty) => OnCard(n, p) = UnitAt(n, p)
  PROVE  ContentOf(n)'
<1>0. /\ IInv /\ Types /\ ContentOf(n) /\ Dir' = Dir /\ Way'[n] = Way[n] /\ WayKept(n)
  BY Facts, StepView, ViewWays DEF SameView
<1>1. EntryOf(n)'
  BY <1>0 DEF ContentOf, EntryOf
<1>2. DiskOf(n)'
  BY <1>0, DiskKept DEF Old
<1>3. DataOf(n)'
  <2>1. \A p \in Nat : UnitAt(n, p)' = UnitAt(n, p) /\ Addr(n, p)' = Addr(n, p) /\ OnCard(n, p)' = OnCard(n, p)
    BY <1>0 DEF UnitAt, Addr, OnCard
  <2> QED
    BY <1>0, <2>1 DEF DataOf
<1> QED
  BY <1>1, <1>2, <1>3 DEF ContentOf

\* The buffer gets another sector.
LEMMA PlaceOwn ==
  ASSUME FInv, Types', UNCHANGED step, Place, NEW n \in Files, n = file
  PROVE  OwnKept(n)
<1> DEFINE p == fp[n].fptr
           sect == Clust2Sect(fp[n].clust, csect)
<1>0. CallStep /\ ~TableStep
  BY NotTable
<1>1. /\ IInv /\ Types /\ Control /\ op.at = "place" /\ op.at # "out" /\ op.at # "check" /\ ~fp[n].dirty
      /\ UNCHANGED <<disk, fs, mounts, stream>> /\ Fat' = Fat /\ Dir' = Dir
      /\ \/ /\ At("copy") /\ AllBut(fp'[n], fp[n], {"dsect", "buf"})
            /\ fp'[n].dsect = sect
            /\ \/ fp'[n].buf = disk.data[sect]
               \/ /\ fp'[n].buf = fp[n].buf
                  /\ fp[n].dsect = sect \/ (op.call # "gets" /\ fptr >= fp[n].fsize)
         \/ FailCall("FR_DISK_ERR")
  BY <1>0, Facts, PlaceEffect, StepView DEF SameView
<1>2. /\ SizesAt(n) /\ PlacesAt(n) /\ ContentOf(n) /\ op'.call = op.call /\ file' = n /\ p \in Nat
      /\ fp[n].fs /\ fptr = p /\ fptr' = fp'[n].fptr /\ fp[n].fsize \in Nat /\ op.at \in AtFile
      /\ op.call \in {"write", "gets"} /\ fp[n].clust \in Clusters /\ p % SS = 0
      /\ fp[n].clust = Way[n][p \div BCS]
  <2>1. fp[n].clust \in Clusters
    BY <1>0, <1>1, Facts DEF Control, PointerInv, Fp, FileObject, Starts
  <2> QED
    BY <1>0, <1>1, <2>1, Facts DEF AtFile, Control, CallInv, PlacesAt
<1>3. sect = Addr(n, p)
  BY <1>2 DEF Addr, SectOf, csect
<1>4. CASE FailCall("FR_DISK_ERR")
  BY <1>0, <1>1, <1>4, FailOwn
<1>5. CASE /\ At("copy") /\ AllBut(fp'[n], fp[n], {"dsect", "buf"})
           /\ fp'[n].dsect = sect
           /\ \/ fp'[n].buf = disk.data[sect]
              \/ /\ fp'[n].buf = fp[n].buf
                 /\ fp[n].dsect = sect \/ (op.call # "gets" /\ fptr >= fp[n].fsize)
  <2>1. op'.at = "copy" /\ op'.left = op.left
    BY <1>1, <1>5, AtEffect
  <2>2. /\ AllBut(fp'[n], fp[n], {"clust", "sclust", "fptr", "dsect", "buf", "dirty"})
        /\ fp'[n].fptr = p /\ fp'[n].fs /\ fp'[n].sclust = fp[n].sclust /\ fp'[n].clust = fp[n].clust
        /\ ~fp'[n].dirty
    BY <1>1, <1>2, <1>5 DEF AllBut
  <2>3. Start'[n] = Start[n] /\ Way'[n] = Way[n]
    <3>1. Start'[n] = Start[n]
      BY <1>1, <1>2, <2>2 DEF Start
    <3> QED
      BY <1>0, <1>1, <3>1, ViewWays
  <2>4. SizesAt(n)' /\ (Pending <=> Pending')
    <3>1. CASE op.call = "write"
      <4>1. op.left > 0
        BY <1>1, <1>2, <3>1 DEF SizesAt
      <4> QED
        BY <1>0, <1>1, <1>2, <2>1, <2>2, <3>1, <4>1, WriteGoes DEF InWrite
    <3>2. CASE op.call = "gets"
      <4>1. p < fp[n].fsize
        BY <1>1, <1>2, <3>2 DEF SizesAt
      <4> QED
        BY <1>0, <1>1, <1>2, <2>1, <2>2, <3>2, <4>1, GetsGoes
    <3> QED
      BY <1>2, <3>1, <3>2
  <2>5. PlacesAt(n)'
    BY <1>2, <1>3, <1>5, <2>1, <2>2, <2>3 DEF PlacesAt, Settled, Addr
  <2>6. End(n)' = End(n) /\ (op.call # "gets" => End(n) = p) /\ End(n) \in Nat
    <3>1. op.call # "gets" => Pending
      BY <1>1, <1>2 DEF Pending
    <3> QED
      BY <1>1, <1>2, <2>2, <2>4, <3>1, EndBound DEF End
  <2>7. ContentOf(n)'
    <3>1. BufferOf(n)'
      BY <2>2 DEF BufferOf
    <3>2. ASSUME NEW q \in Nat, q < End(n)
          PROVE  /\ Way[n][q \div BCS] \in Clusters /\ OnCard(n, q) = UnitAt(n, q)
                 /\ sect = Addr(n, q) => fp'[n].buf[q % SS] = UnitAt(n, q)
      <4>1. /\ Way[n][q \div BCS] \in Clusters /\ OnCard(n, q) = UnitAt(n, q)
            /\ fp[n].dsect = Addr(n, q) => fp[n].buf[q % SS] = UnitAt(n, q)
        BY <1>1, <1>2, <3>2 DEF ContentOf, DataOf
      <4>2. ASSUME sect = Addr(n, q), op.call # "gets"
            PROVE  FALSE
        <5>1. q \div SS = p \div SS
          BY <1>2, <1>3, <4>1, <4>2, SectorsOfFile
        <5>2. q < p
          BY <2>6, <3>2, <4>2
        <5>3. p = (p \div SS) * SS + (p % SS) /\ q = (q \div SS) * SS + (q % SS) /\ q % SS \in Nat
              /\ p \div SS \in Nat /\ SS \in Nat
          BY <1>2, Splits, Constants
        <5>4. \A x, r \in Nat : p = x + 0 /\ q = x + r /\ q < p => FALSE
          BY <1>2
        <5>5. (p \div SS) * SS \in Nat
          BY <5>3
        <5> HIDE DEF p
        <5> QED
          BY <1>2, <5>1, <5>2, <5>3, <5>4, <5>5
      <4>3. ASSUME sect = Addr(n, q)
            PROVE  fp'[n].buf[q % SS] = UnitAt(n, q)
        <5>1. disk.data[sect][q % SS] = UnitAt(n, q)
          BY <4>1, <4>3 DEF OnCard
        <5> QED
          BY <1>5, <4>1, <4>2, <4>3, <5>1
      <4> QED
        BY <4>1, <4>3
    <3> QED
      BY <1>0, <1>1, <1>5, <2>2, <2>3, <2>6, <3>1, <3>2, BufferChanged
  <2> QED
    BY <2>4, <2>5, <2>7 DEF OwnKept
<1> QED
  BY <1>1, <1>4, <1>5

\* f_write() puts units behind the pointer in the buffer.
LEMMA CopyInOwn ==
  ASSUME FInv, Types', UNCHANGED step, CopyIn, NEW n \in Files, n = file
  PROVE  OwnKept(n)
<1> DEFINE p == fp[n].fptr
<1>0. CallStep /\ ~TableStep
  BY NotTable
<1>1. /\ IInv /\ Types /\ Control /\ op.at = "copy" /\ op.at # "out" /\ op.call = "write"
      /\ UNCHANGED <<disk, fs, mounts, stream>> /\ Fat' = Fat /\ Dir' = Dir
  BY <1>0, Facts, CopyInEffect, StepView DEF SameView
<1>2. /\ SizesAt(n) /\ PlacesAt(n) /\ ContentOf(n) /\ op'.call = op.call /\ file' = n /\ p \in Nat
      /\ fp[n].fs /\ fptr = p /\ fptr' = fp'[n].fptr /\ fp[n].fsize \in Nat /\ op.at \in AtFile
      /\ fp[n].clust \in Clusters /\ fp[n] \in FileObject /\ fp'[n] \in FileObject
      /\ fp[n].clust = Way[n][p \div BCS] /\ fp[n].dsect = Addr(n, p) /\ op.left \in Nat /\ op.left # 0
  <2>1. fp[n].clust \in Clusters
    BY <1>0, <1>1, Facts DEF Control, PointerInv, Fp, FileObject, Starts
  <2>2. op.left # 0
    BY <1>0, <1>1, Facts DEF SizesAt
  <2>3. fp'[n] \in FileObject
    BY DEF Types
  <2> QED
    BY <1>0, <1>1, <2>1, <2>2, <2>3, Facts DEF AtFile, Control, CallInv, PlacesAt
<1>3. PICK k \in Nat :
        /\ k <= op.left /\ k <= SS - (p % SS) /\ k # 0
        /\ op'.at = "chunk" /\ op'.left = op.left - k /\ op'.from = op.from
        /\ AllBut(fp'[n], fp[n], {"fptr", "dirty", "buf"})
        /\ fp'[n].fptr = p + k /\ fp'[n].dirty
        /\ \A i \in 0 .. SS - 1 : fp'[n].buf[i] =
             IF p % SS <= i /\ i < (p % SS) + k THEN <<n, mounts, (p - (p % SS)) + i>> ELSE fp[n].buf[i]
  BY <1>1, <1>2, CopyInEffect
<1>4. /\ AllBut(fp'[n], fp[n], {"clust", "sclust", "fptr", "dsect", "buf", "dirty"})
      /\ fp'[n].fs /\ fp'[n].sclust = fp[n].sclust /\ fp'[n].clust = fp[n].clust /\ fp'[n].dsect = fp[n].dsect
      /\ p <= p + k /\ p + k \in Nat
  BY <1>2, <1>3 DEF AllBut
<1>5. Start'[n] = Start[n] /\ Way'[n] = Way[n]
  <2>1. Start'[n] = Start[n]
    BY <1>1, <1>2, <1>4 DEF Start
  <2> QED
    BY <1>0, <1>1, <2>1, ViewWays
<1>6. SizesAt(n)' /\ Pending /\ Pending' /\ op.from = fp[n].fsize /\ op.from <= p
  BY <1>0, <1>1, <1>2, <1>3, <1>4, WriteGoes DEF InWrite
<1>7. /\ SS \in Nat \ {0} /\ p % SS \in Nat /\ p % SS < SS /\ p = (p \div SS) * SS + (p % SS)
      /\ p \div SS \in Nat /\ (p \div SS) * SS \in Nat
  <2>1. SS \in Nat \ {0}
    BY Constants
  <2>2. p \div SS \in Nat /\ p % SS \in Nat /\ p % SS < SS /\ p = (p \div SS) * SS + (p % SS)
    BY <1>2, <2>1, Splits
  <2>3. \A a, b \in Nat : a * b \in Nat
    OBVIOUS
  <2> QED
    BY <2>1, <2>2, <2>3
<1>8. ASSUME NEW q \in Nat, p <= q, q < p + k
      PROVE  /\ q \div SS = p \div SS /\ q \div BCS = p \div BCS /\ q % SS = (p % SS) + (q - p)
             /\ Addr(n, q) = Addr(n, p)
  <2>1. q \div SS = p \div SS /\ q % SS = (p % SS) + (q - p)
    BY <1>2, <1>3, <1>8, UnitsBehind
  <2>2. q \div BCS = p \div BCS /\ \A c : SectOf(c, q) = SectOf(c, p)
    BY <1>2, <2>1, SameSector
  <2> QED
    BY <2>1, <2>2 DEF Addr
<1>9. PlacesAt(n)'
  <2>1. /\ p + k # 0 /\ (p + k) - 1 \in Nat /\ p <= (p + k) - 1 /\ (p + k) - 1 < p + k
    BY <1>2, <1>3
  <2>2. Addr(n, (p + k) - 1) = Addr(n, p) /\ ((p + k) - 1) \div BCS = p \div BCS
    BY <1>8, <2>1
  <2>3. InPlace(n)'
    BY <1>2, <1>3, <1>4, <1>5, <2>2 DEF InPlace, Addr
  <2> QED
    BY <1>3, <2>3 DEF PlacesAt
<1>10. ContentOf(n)'
  <2>1. End(n) = p /\ End(n)' = p + k
    BY <1>2, <1>3, <1>6 DEF End
  <2>2. BufferOf(n)'
    <3>1. Addr(n, p) \div CSize = Way[n][p \div BCS] /\ p \div BCS \in Nat
      BY <1>2, SectorsApart, SectorOfPlace DEF Addr
    <3> QED
      BY <1>2, <1>4, <1>5, <3>1 DEF BufferOf
  <2>3. Len(stream[n]) = fp[n].fsize /\ Dir[n].size \in Nat /\ Dir[n].size <= Len(stream[n])
    BY <1>1, <1>2, EndBound DEF SizesAt, SizeOf, FInv
  <2>4. ASSUME NEW q \in Nat, q < p + k
        PROVE  /\ Way[n][q \div BCS] \in Clusters
               /\ fp[n].dsect = Addr(n, q) => fp'[n].buf[q % SS] = UnitAt(n, q)
               /\ q < Dir[n].size \/ fp[n].dsect # Addr(n, q) => OnCard(n, q) = UnitAt(n, q)
    <3>0. q % SS \in Nat /\ q % SS < SS /\ q % SS \in 0 .. SS - 1 /\ q = (q \div SS) * SS + (q % SS)
          /\ q \div SS \in Nat
      <4>1. q % SS \in Nat /\ q % SS < SS /\ q = (q \div SS) * SS + (q % SS) /\ q \div SS \in Nat
        BY <1>7, Splits
      <4>2. \A r, s \in Nat : r < s => r \in 0 .. s - 1
        OBVIOUS
      <4> QED
        BY <1>7, <4>1, <4>2
    <3>1. CASE q < p
      <4>1. /\ Way[n][q \div BCS] \in Clusters
            /\ fp[n].dsect = Addr(n, q) => fp[n].buf[q % SS] = UnitAt(n, q)
            /\ q < Dir[n].size \/ fp[n].dsect # Addr(n, q) => OnCard(n, q) = UnitAt(n, q)
        BY <1>2, <2>1, <3>1 DEF ContentOf, DataOf
      <4>2. ASSUME fp[n].dsect = Addr(n, q)
            PROVE  fp'[n].buf[q % SS] = UnitAt(n, q)
        <5>0. Addr(n, q) = Addr(n, p) /\ Way[n][p \div BCS] \in Clusters
          BY <1>2, <4>2
        <5>1. q \div SS = p \div SS
          BY <1>2, <4>1, <5>0, SectorsOfFile
        <5>2. \A x, r, t \in Nat : q = x + r /\ p = x + t /\ q < p => r < t
          OBVIOUS
        <5>3. q % SS < p % SS
          BY <1>7, <3>0, <3>1, <5>1, <5>2
        <5>4. ~(p % SS <= q % SS)
          BY <1>7, <3>0, <5>3
        <5> QED
          BY <1>3, <3>0, <4>1, <4>2, <5>4
      <4> QED
        BY <4>1, <4>2
    <3>2. CASE p <= q
      <4>1. /\ q \div BCS = p \div BCS /\ q % SS = (p % SS) + (q - p) /\ Addr(n, q) = Addr(n, p)
        BY <1>8, <2>4, <3>2
      <4>2. fp'[n].buf[q % SS] = <<n, mounts, (p - (p % SS)) + (q % SS)>>
        <5>1. p % SS <= q % SS /\ q % SS < (p % SS) + k
          <6>1. \A a, r, s \in Nat : s = r + (q - p) => r <= s /\ s < r + k
            BY <1>2, <2>4, <3>2
          <6> QED
            BY <1>7, <3>0, <4>1, <6>1
        <5> QED
          BY <1>3, <3>0, <5>1
      <4>3. (p - (p % SS)) + (q % SS) = q
        <5>1. \A r, s \in Nat : s = r + (q - p) => (p - r) + s = q
          BY <1>2
        <5> QED
          BY <1>7, <3>0, <4>1, <5>1
      <4>4. ~(q < Len(stream[n])) /\ ~(q < Dir[n].size)
        BY <1>2, <1>6, <2>3, <3>2
      <4> QED
        BY <1>2, <4>1, <4>2, <4>3, <4>4 DEF UnitAt
    <3> QED
      BY <1>2, <3>1, <3>2
  <2> QED
    BY <1>0, <1>1, <1>3, <1>4, <1>5, <2>1, <2>2, <2>4, BufferChanged
<1> QED
  BY <1>6, <1>9, <1>10 DEF OwnKept

\* The units of two sequences, one after the other.
LEMMA Concats ==
  ASSUME NEW S, NEW s \in Seq(S), NEW u \in Seq(S)
  PROVE  /\ s \o u \in Seq(S) /\ Len(s \o u) = Len(s) + Len(u)
         /\ \A i \in 1 .. Len(s) : (s \o u)[i] = s[i]
         /\ \A i \in 1 .. Len(u) : (s \o u)[Len(s) + i] = u[i]
         /\ SubSeq(s \o u, 1, Len(s)) = s
<1>1. /\ s \o u \in Seq(S) /\ Len(s \o u) = Len(s) + Len(u) /\ Len(s) \in Nat /\ Len(u) \in Nat
      /\ \A i \in 1 .. Len(s) : (s \o u)[i] = s[i]
      /\ \A i \in 1 .. Len(u) : (s \o u)[Len(s) + i] = u[i]
  OBVIOUS
<1>2. SubSeq(s \o u, 1, Len(s)) = [i \in 1 .. Len(s) |-> (s \o u)[i]]
  BY <1>1
<1>3. s = [i \in 1 .. Len(s) |-> s[i]]
  OBVIOUS
<1> QED
  BY <1>1, <1>2, <1>3

\* The end of a write: the units are in the stream.
LEMMA StreamGrows ==
  ASSUME FInv, WriteEnds, NEW n \in Files, n = file
  PROVE  /\ stream'[n] \in Seq(Unit) /\ Len(stream'[n]) = fp[n].fptr /\ Pending
         /\ Len(stream[n]) = fp[n].fsize /\ Len(stream[n]) <= fp[n].fptr /\ op.from = Len(stream[n])
         /\ stream' = [stream EXCEPT ![n] = stream[n] \o Units(op.from, fp[n].fptr)]
         /\ SubSeq(stream'[n], 1, Len(stream[n])) = stream[n]
         /\ \A q \in Nat : q < fp[n].fptr => UnitAt(n, q)' = UnitAt(n, q)
         /\ StreamType'
<1> DEFINE p == fp[n].fptr
           s == stream[n]
           u == Units(op.from, p)
<1>0. CallStep /\ ~TableStep
  BY NotTable
<1>1. /\ IInv /\ Types /\ Control /\ op.at \in {"full", "chunk"} /\ op.at # "out" /\ op.call = "write"
      /\ UNCHANGED <<disk, fs, mounts>> /\ SizesAt(n) /\ fp[n].fs /\ p \in Nat
      /\ stream' = [stream EXCEPT ![n] = stream[n] \o Units(op.from, p)]
  BY <1>0, Facts, WriteEndsEffect DEF AtFile
<1>2. Pending
  BY <1>1 DEF Pending
<1>3. /\ StreamType /\ s \in Seq(Unit) /\ Len(s) = fp[n].fsize /\ op.from = Len(s) /\ Len(s) <= p /\ Len(s) \in Nat
  <2>1. StreamType
    BY DEF FInv, Sizes
  <2> QED
    BY <1>1, <1>2, <2>1 DEF StreamType, SizesAt, SizeOf
<1>4. mounts \in Nat
  BY <1>1 DEF Types, Counted
<1>5. /\ u \in Seq(Unit) /\ Len(u) = p - Len(s)
      /\ \A i \in 1 .. p - Len(s) : u[i] = <<n, mounts, Len(s) + i - 1>>
  <2>1. u = [i \in 1 .. p - Len(s) |-> <<n, mounts, Len(s) + i - 1>>] /\ p - Len(s) \in Nat
    BY <1>1, <1>3 DEF Units
  <2>2. \A i \in 1 .. p - Len(s) : Len(s) + i - 1 \in Nat
    BY <1>1, <1>3
  <2>3. \A i \in 1 .. p - Len(s) : <<n, mounts, Len(s) + i - 1>> \in Unit
    BY <1>4, <2>2 DEF Unit
  <2> HIDE DEF u
  <2> QED
    BY <2>1, <2>3
<1>6. stream'[n] = s \o u
  BY <1>1, <1>3 DEF StreamType
<1> HIDE DEF u, s
<1>7. stream'[n] \in Seq(Unit) /\ Len(stream'[n]) = p
  <2>1. Len(s \o u) = Len(s) + Len(u) /\ s \o u \in Seq(Unit)
    BY <1>3, <1>5, Concats
  <2>2. \A a, b, c \in Nat : b = c - a => a + b = c
    OBVIOUS
  <2>3. Len(u) \in Nat
    BY <1>5
  <2>4. Len(s) + Len(u) = p
    BY <1>1, <1>3, <1>5, <2>2, <2>3
  <2> QED
    BY <1>6, <2>1, <2>4
<1>8. SubSeq(stream'[n], 1, Len(s)) = s
  BY <1>3, <1>5, <1>6, Concats
<1>8a. \A i \in 1 .. Len(u) : (s \o u)[Len(s) + i] = u[i]
  <2>1. s \in Seq(Unit) /\ u \in Seq(Unit)
    BY <1>3, <1>5
  <2> QED
    BY <2>1, Concats
<1>9. ASSUME NEW q \in Nat, q < p
      PROVE  UnitAt(n, q)' = UnitAt(n, q)
  <2>1. UnitAt(n, q)' = stream'[n][q + 1]
    BY <1>7, <1>9 DEF UnitAt
  <2>2. CASE q < Len(s)
    <3>1. q + 1 \in 1 .. Len(s)
      BY <1>3, <2>2
    <3>2. (s \o u)[q + 1] = s[q + 1]
      BY <1>3, <1>5, <3>1, Concats
    <3> QED
      BY <1>6, <2>1, <2>2, <3>2 DEF UnitAt, s
  <2>3. CASE ~(q < Len(s))
    <3>1. PICK i \in 1 .. p - Len(s) : q + 1 = Len(s) + i
      <4>1. (q + 1) - Len(s) \in 1 .. p - Len(s) /\ q + 1 = Len(s) + ((q + 1) - Len(s))
        BY <1>1, <1>3, <1>9, <2>3
      <4> QED
        BY <4>1
    <3>2. (s \o u)[Len(s) + i] = u[i]
      <4>1. i \in 1 .. Len(u)
        BY <1>5
      <4> QED
        BY <1>8a, <4>1
    <3>3. u[i] = <<n, mounts, Len(s) + i - 1>> /\ Len(s) + i - 1 = q
      BY <1>3, <1>5, <3>1
    <3> QED
      BY <1>6, <2>1, <2>3, <3>1, <3>2, <3>3 DEF UnitAt, s
  <2> QED
    BY <2>2, <2>3
<1>10. StreamType'
  BY <1>1, <1>3, <1>6, <1>7 DEF StreamType, u, s
<1> QED
  BY <1>1, <1>2, <1>3, <1>7, <1>8, <1>9, <1>10 DEF u, s

\* f_write() ends.
LEMMA WriteEndsOwn ==
  ASSUME FInv, Types', UNCHANGED step, WriteEnds, NEW n \in Files, n = file
  PROVE  OwnKept(n)
<1> DEFINE p == fp[n].fptr
<1>0. CallStep /\ ~TableStep
  BY NotTable
<1>1. /\ IInv /\ StepInv /\ Types /\ Control /\ op.at \in {"full", "chunk"} /\ op.at # "out" /\ op.call = "write"
      /\ UNCHANGED <<disk, fs, mounts>> /\ Fat' = Fat /\ Dir' = Dir
      /\ op'.at = "ret" /\ AllBut(fp'[n], fp[n], {"fsize", "written"})
      /\ fp'[n].fsize = IF p > fp[n].fsize THEN p ELSE fp[n].fsize
      /\ fp'[n].written
  BY <1>0, Facts, WriteEndsEffect, StepView DEF SameView
<1>2. /\ SizesAt(n) /\ PlacesAt(n) /\ ContentOf(n) /\ op'.call = op.call /\ file' = n /\ p \in Nat
      /\ fp[n].fs /\ ~fp[n].err /\ fptr = p /\ fptr' = fp'[n].fptr /\ fp[n].fsize \in Nat
  BY <1>0, <1>1, Facts DEF AtFile, InSync
<1>3. /\ stream'[n] \in Seq(Unit) /\ Len(stream'[n]) = p /\ Pending /\ fp[n].fsize <= p
      /\ Len(stream[n]) <= p
      /\ \A q \in Nat : q < p => UnitAt(n, q)' = UnitAt(n, q)
  BY StreamGrows
<1>4. fp'[n].fsize = p /\ fp'[n].fptr = p /\ fp'[n].fs /\ ~Pending'
  BY <1>1, <1>2, <1>3 DEF AllBut, Pending
<1>5. SizesAt(n)'
  <2>1. Sought' /\ n # "config"
    BY <1>0, <1>1, <1>2, SoughtNext, Named
  <2>2. SizeOf(n)'
    BY <1>1, <1>3, <1>4 DEF SizeOf
  <2> QED
    BY <1>1, <1>4, <2>1, <2>2 DEF SizesAt
<1>6. Start'[n] = Start[n] /\ Way'[n] = Way[n] /\ WayKept(n)
  <2>1. Start'[n] = Start[n]
    BY <1>1, <1>2, <1>4 DEF Start, AllBut
  <2> QED
    BY <1>0, <1>1, <2>1, ViewWays
<1>7. PlacesAt(n)'
  <2>1. Settled(n)' => InPlace(n)'
    <3>1. InPlace(n)
      BY <1>1, <1>2 DEF PlacesAt, Settled
    <3> QED
      BY <1>1, <1>2, <1>6, <3>1, PlaceKept DEF AllBut
  <2> QED
    BY <1>1, <2>1 DEF PlacesAt
<1>8. ContentOf(n)'
  <2>1. End(n) = p /\ End(n)' = p
    BY <1>2, <1>3, <1>4 DEF End
  <2>2. BufferSame(n)
    BY <1>1, <1>2 DEF BufferSame, AllBut
  <2> QED
    BY <1>1, <1>2, <1>3, <1>6, <2>1, <2>2, ContentKept
<1> QED
  BY <1>5, <1>7, <1>8 DEF OwnKept

(***************************************************************************)
(* The end of f_lseek().                                                   *)
(***************************************************************************)
LEMMA SeekArith ==
  ASSUME NEW p \in Nat, NEW l \in Nat, p % BCS = 0, l # 0, l <= BCS
  PROVE  /\ (p + l) - 1 \in Nat /\ ((p + l) - 1) \div BCS = p \div BCS
         /\ (p + l) % SS # 0 => /\ l % SS # 0
                                /\ \A c : SectOf(c, (p + l) - 1) = Clust2Sect(c, l \div SS)
<1>0. SS \in Nat \ {0} /\ CSize \in Nat \ {0} /\ BCS \in Nat \ {0} /\ BCS = CSize * SS
  BY Constants DEF BCS
<1> DEFINE m == p \div BCS
           j == l \div SS
           r == l % SS
<1>1. p = m * BCS + 0 /\ m \in Nat
  BY <1>0, Splits
<1>2. l = j * SS + r /\ j \in Nat /\ r \in Nat /\ r < SS
  BY <1>0, Splits
<1>2a. r # 0 => j < CSize
  BY <1>0, PlaceOfPointer
<1> HIDE DEF m, j, r
<1>3. (p + l) - 1 \in Nat /\ (p + l) - 1 = m * BCS + (l - 1) /\ l - 1 \in Nat /\ l - 1 < BCS
  <2>1. m * BCS \in Nat
    BY <1>0, <1>1
  <2> QED
    BY <1>0, <1>1, <2>1
<1>4. ((p + l) - 1) \div BCS = m
  BY <1>0, <1>1, <1>3, Divides
<1>5. p + l = (m * CSize + j) * SS + r /\ m * CSize + j \in Nat /\ m * CSize \in Nat
  <2>1. m * (CSize * SS) = (m * CSize) * SS /\ m * CSize \in Nat
    BY <1>0, <1>1
  <2>2. \A a, b, s \in Nat : (a + b) * s = a * s + b * s
    OBVIOUS
  <2>3. (m * CSize + j) * SS = (m * CSize) * SS + j * SS
    BY <1>0, <1>2, <2>1, <2>2
  <2>4. (m * CSize) * SS \in Nat /\ j * SS \in Nat
    BY <1>0, <1>2, <2>1
  <2> QED
    BY <1>0, <1>1, <1>2, <2>1, <2>3, <2>4
<1>6. (p + l) % SS = r
  BY <1>0, <1>2, <1>5, Divides
<1>7. ASSUME r # 0
      PROVE  \A c : SectOf(c, (p + l) - 1) = Clust2Sect(c, j)
  <2> DEFINE k == m * CSize + j
  <2>1. k \in Nat /\ k * SS \in Nat
    BY <1>0, <1>5
  <2>2. (p + l) - 1 = k * SS + (r - 1) /\ r - 1 \in Nat /\ r - 1 < SS
    <3>1. p + l = k * SS + r
      BY <1>5
    <3> DEFINE x == k * SS
    <3>2. x \in Nat /\ p + l = x + r
      BY <2>1, <3>1
    <3> HIDE DEF k, x
    <3>3. (p + l) - 1 = x + (r - 1) /\ r - 1 \in Nat /\ r - 1 < SS
      BY <1>0, <1>2, <1>7, <3>2
    <3> QED
      BY <3>3 DEF x
  <2> HIDE DEF k
  <2>3. ((p + l) - 1) \div SS = k
    <3> DEFINE a == (p + l) - 1
               b == r - 1
    <3>1. a \in Nat /\ b \in Nat /\ a = k * SS + b /\ b < SS
      BY <1>3, <2>2
    <3> HIDE DEF a, b
    <3>2. a \div SS = k
      BY <1>0, <2>1, <3>1, Divides
    <3> QED
      BY <3>2 DEF a
  <2>4. k % CSize = j
    BY <1>0, <1>1, <1>2, <1>2a, <1>7, <2>1, Divides DEF k
  <2> QED
    BY <2>3, <2>4 DEF SectOf
<1> QED
  BY <1>3, <1>4, <1>6, <1>7 DEF m, j, r

\* f_lseek() ends.
LEMMA SeekEndsOwn ==
  ASSUME FInv, Types', UNCHANGED step, SeekEnds, NEW n \in Files, n = file
  PROVE  OwnKept(n)
<1> DEFINE p == fp[n].fptr
           sect == Clust2Sect(fp[n].clust, op.left \div SS)
<1>0. CallStep /\ ~TableStep
  BY NotTable
<1>1. /\ IInv /\ StepInv /\ Types /\ Control /\ op.at = "seek" /\ op.at # "out" /\ op.left <= BCS /\ op'.at = "ret"
      /\ UNCHANGED <<disk, fs, mounts, stream>> /\ Fat' = Fat /\ Dir' = Dir
      /\ fp'[n].fptr = fptr + op.left
      /\ \/ /\ op.left % SS # 0 /\ AllBut(fp'[n], fp[n], {"fptr", "buf", "dsect"})
            /\ fp'[n].buf = disk.data[sect] /\ fp'[n].dsect = sect
         \/ op.left % SS = 0 /\ AllBut(fp'[n], fp[n], {"fptr"})
         \/ AllBut(fp'[n], fp[n], {"fptr", "err"}) /\ fp'[n].err
  BY <1>0, Facts, SeekEndsEffect, StepView DEF SameView
<1>2. /\ SizesAt(n) /\ PlacesAt(n) /\ ContentOf(n) /\ op'.call = op.call /\ file' = n /\ p \in Nat
      /\ fp[n].fs /\ fptr = p /\ fptr' = fp'[n].fptr /\ fp[n].fsize \in Nat /\ op.left \in Nat
      /\ op.call = "lseek" /\ step' = step
  BY <1>0, <1>1, Facts DEF AtFile, Control, CallInv
<1>3. /\ ~Sought /\ Sought' /\ n = Log /\ n # "config" /\ ~Pending /\ ~Pending'
  BY <1>0, <1>1, <1>2, SoughtNext, Named DEF Sought, Pending, Log
<1>4. ~fp[n].dirty
  BY <1>2, <1>3 DEF SizesAt
<1>5. /\ fp'[n].fs /\ fp'[n].sclust = fp[n].sclust /\ fp'[n].clust = fp[n].clust /\ ~fp'[n].dirty
      /\ fp'[n].fsize = fp[n].fsize /\ (fp'[n].written <=> fp[n].written)
      /\ fp'[n].fptr = p + op.left
  BY <1>1, <1>2, <1>4 DEF AllBut
<1>6. p + op.left = fp[n].fsize
  BY <1>1, <1>2 DEF PlacesAt
<1>7. SizesAt(n)'
  <2>1. SizeOf(n)'
    BY <1>1, <1>2, <1>5 DEF SizesAt, SizeOf
  <2> QED
    BY <1>1, <1>3, <1>5, <1>6, <2>1 DEF SizesAt
<1>8. Start'[n] = Start[n] /\ Way'[n] = Way[n]
  <2>1. Start'[n] = Start[n]
    BY <1>1, <1>2, <1>5 DEF Start
  <2> QED
    BY <1>0, <1>1, <2>1, ViewWays
<1>9. PlacesAt(n)'
  <2>1. ASSUME ~fp'[n].err, fp'[n].fptr # 0
        PROVE  InPlace(n)'
    <3>1. op.left # 0
      BY <1>1, <1>2, <1>5, <2>1 DEF PlacesAt
    <3>2. p % BCS = 0 /\ fp[n].clust = Way[n][p \div BCS]
      BY <1>1, <1>2, <3>1 DEF PlacesAt
    <3>3. /\ ((p + op.left) - 1) \div BCS = p \div BCS
          /\ (p + op.left) % SS # 0 => /\ op.left % SS # 0
                                       /\ SectOf(fp[n].clust, (p + op.left) - 1) = sect
      BY <1>1, <1>2, <3>1, <3>2, SeekArith
    <3>4. (p + op.left) % SS # 0 => fp'[n].dsect = sect
      BY <1>1, <2>1, <3>3
    <3> QED
      BY <1>5, <1>8, <3>2, <3>3, <3>4 DEF InPlace, Addr
  <2>2. Settled(n)' => InPlace(n)'
    BY <2>1 DEF Settled, InPlace
  <2> QED
    BY <1>1, <2>2 DEF PlacesAt
<1>10. End(n)' = End(n) /\ End(n) = Len(stream[n]) /\ Len(stream[n]) \in Nat
  BY <1>1, <1>3, EndBound DEF End
<1>11. ContentOf(n)'
  <2>1. CASE /\ fp'[n].buf = disk.data[sect] /\ fp'[n].dsect = sect
    <3>1. BufferOf(n)'
      BY <1>5 DEF BufferOf
    <3>2. ASSUME NEW q \in Nat, q < End(n)
          PROVE  /\ Way[n][q \div BCS] \in Clusters /\ OnCard(n, q) = UnitAt(n, q)
                 /\ sect = Addr(n, q) => fp'[n].buf[q % SS] = UnitAt(n, q)
      <4>1. Way[n][q \div BCS] \in Clusters /\ OnCard(n, q) = UnitAt(n, q)
        BY <1>2, <1>4, <3>2 DEF ContentOf, DataOf
      <4> QED
        BY <2>1, <4>1 DEF OnCard
    <3> QED
      BY <1>0, <1>1, <1>5, <1>8, <1>10, <2>1, <3>1, <3>2, BufferChanged
  <2>2. CASE fp'[n].buf = fp[n].buf /\ fp'[n].dsect = fp[n].dsect
    <3>1. BufferSame(n)
      BY <1>2, <1>4, <1>5, <2>2 DEF BufferSame
    <3> QED
      BY <1>0, <1>1, <1>8, <1>10, <3>1, FrameContent
  <2>3. \/ fp'[n].buf = disk.data[sect] /\ fp'[n].dsect = sect
        \/ fp'[n].buf = fp[n].buf /\ fp'[n].dsect = fp[n].dsect
    BY <1>1 DEF AllBut
  <2> QED
    BY <2>1, <2>2, <2>3
<1> QED
  BY <1>7, <1>9, <1>11 DEF OwnKept

(***************************************************************************)
(* The steps that change the table or an entry.                            *)
(***************************************************************************)
LEMMA WaysNext ==
  ASSUME Types', NEW n \in Files
  PROVE  Way'[n][0] = Start'[n] /\ \A i \in Nat : Way'[n][i + 1] = Succ(Fat', Way'[n][i])
<1> DEFINE f == Fat'
           s == Start'[n]
<1>1. f \in [Clusters -> Links]
  BY DEF Types, DiskType, FsType, CardState, VolumeState, Fat
<1>2. s \in Links
  <2>1. fp'[n].sclust \in Starts /\ Dir'[n].clust \in Starts
    BY DEF Types, DiskType, FsType, CardState, VolumeState, Entry, FileObject, Dir
  <2> QED
    BY <2>1 DEF Start, Starts, Links
<1>3. Way'[n] = Walk(f, s)
  BY DEF Way
<1> HIDE DEF f, s
<1>4. Walk(f, s)[0] = s /\ \A i \in Nat : Walk(f, s)[i + 1] = Succ(f, Walk(f, s)[i])
  BY <1>1, <1>2, WalkDef
<1> QED
  BY <1>3, <1>4 DEF f, s

\* A file without units.
LEMMA EmptyContent ==
  ASSUME Types', NEW n \in Files, Dir'[n].size = 0, End(n)' = 0, Len(stream'[n]) \in Nat, DiskOf(n)',
         ~(fp'[n].fs /\ fp'[n].dirty)
  PROVE  ContentOf(n)'
<1>1. EntryOf(n)' /\ BufferOf(n)'
  BY DEF EntryOf, BufferOf
<1>2. DataOf(n)'
  <2>1. \A p \in Nat : ~(p < End(n)')
    OBVIOUS
  <2> QED
    BY <2>1 DEF DataOf
<1> QED
  BY <1>1, <1>2 DEF ContentOf

\* A file without clusters has no units.
LEMMA EmptyFile ==
  ASSUME FInv, CallStep, NEW n \in Files, n = file, Start[n] = 0, op.at # "remove"
  PROVE  /\ End(n) = 0 /\ Len(stream[n]) = 0 /\ Dir[n].size = 0 /\ disk.dir[n].size = 0
         /\ fp[n].fs => ~fp[n].dirty
<1>1. /\ IInv /\ Types /\ ContentOf(n) /\ OldInv
  BY Facts
<1>2. \A i \in Nat : Way[n][i] \notin Clusters
  BY <1>1, EmptyWay
<1>3. End(n) \in Nat /\ Len(stream[n]) \in Nat /\ Len(stream[n]) <= End(n)
      /\ Dir[n].size \in Nat /\ Dir[n].size <= Len(stream[n])
  BY EndBound
<1>4. End(n) = 0
  <2> SUFFICES ASSUME 0 < End(n)
               PROVE  FALSE
    BY <1>3
  <2>1. 0 \div BCS \in Nat
    BY SectorOfPlace
  <2> QED
    BY <1>1, <1>2, <2>1 DEF ContentOf, DataOf
<1>5. fp[n].fs => ~fp[n].dirty
  BY <1>1, <1>2 DEF ContentOf, BufferOf
<1>6. disk.dir[n].size \in Nat
  BY <1>1, ViewTypes DEF Entry
<1>7. disk.dir[n].size <= Dir[n].size
  BY <1>1, NoneOld
<1> QED
  BY <1>3, <1>4, <1>5, <1>6, <1>7

\* A free cluster is marked.
LEMMA AllocateOwn ==
  ASSUME FInv, Types', UNCHANGED step, Allocate, NEW n \in Files, n = file
  PROVE  OwnKept(n)
<1>0. CallStep
  BY DEF CallStep
<1>1. /\ IInv /\ StepInv /\ Types /\ Control /\ op.at = "scan" /\ op.at # "out" /\ op.ncl \in Clusters
      /\ Fat[op.ncl] = 0 /\ UNCHANGED <<disk, mounts, stream>>
      /\ Fat' = [Fat EXCEPT ![op.ncl] = EOC] /\ Dir' = Dir
      /\ \/ op.clst = 0 /\ GotCluster(op.ncl)
         \/ op.clst # 0 /\ At("link") /\ UNCHANGED fp
  BY <1>0, Facts, AllocateEffect
<1>2. /\ SizesAt(n) /\ PlacesAt(n) /\ ContentOf(n) /\ op'.call = op.call /\ file' = n /\ op.call = "write"
      /\ fp[n].fs /\ ~fp[n].err /\ fptr = fp[n].fptr /\ fptr' = fp'[n].fptr /\ fp[n].fptr \in Nat
      /\ op.left > 0 /\ op.left \in Nat
  BY <1>0, <1>1, Facts DEF AtFile, InSync, PlacesAt, SizesAt
<1>3. /\ Fat \in [Clusters -> Links] /\ Start \in [Files -> Starts] /\ SoundTable(Fat, Start)
  BY <1>1, ViewTypes DEF IInv, Volume, SoundInv
<1>4. CASE op.clst # 0 /\ At("link") /\ UNCHANGED fp
  <2>1. op'.at = "link" /\ op'.left = op.left /\ op'.clst = op.clst
    BY <1>1, <1>4, AtEffect
  <2>2. SizesAt(n)' /\ Pending /\ Pending'
    <3>1. AllBut(fp'[n], fp[n], {"clust", "sclust", "fptr", "dsect", "buf", "dirty"})
      BY <1>4 DEF AllBut
    <3> QED
      BY <1>0, <1>1, <1>2, <1>4, <2>1, <3>1, WriteGoes DEF InWrite
  <2>3. Start'[n] = Start[n]
    BY <1>1, <1>4 DEF Start
  <2>4. WayKept(n)
    <3>1. \A i \in Nat : Way[n][i] \in Clusters => Fat[Way[n][i]] # 0
      BY <1>1, <1>3, Ways, WalkInUse
    <3> QED
      BY <1>1, <2>3, <3>1, LinkKeepsWay
  <2>5. PlacesAt(n)'
    <3>1. Settled(n)' => InPlace(n)'
      <4>1. InPlace(n)
        BY <1>1, <1>2 DEF PlacesAt, Settled
      <4> QED
        BY <1>1, <1>2, <1>4, <2>4, <4>1, PlaceKept
    <3>2. /\ fp[n].fptr # 0 /\ fp[n].fptr % BCS = 0 /\ op.clst = fp[n].clust /\ Fat[op.clst] \notin Clusters
      BY <1>1, <1>2, <1>4 DEF PlacesAt
    <3>3. op.clst \in Clusters
      BY <1>1, <1>4 DEF Control, ScanInv
    <3>4. Fat'[op.clst] \notin Clusters
      BY <1>1, <1>3, <3>2, <3>3, Constants
    <3> QED
      BY <1>2, <1>4, <2>1, <3>1, <3>2, <3>4 DEF PlacesAt
  <2>6. ContentOf(n)'
    <3>1. End(n)' = End(n) /\ End(n) = fp[n].fptr /\ Len(stream[n]) \in Nat
      BY <1>2, <1>4, <2>2, EndBound DEF End
    <3>2. \A p \in Nat : p < End(n)' => p < End(n) /\ UnitAt(n, p)' = UnitAt(n, p)
      BY <1>1, <3>1 DEF UnitAt
    <3>3. BufferSame(n)
      BY <1>2, <1>4 DEF BufferSame
    <3> QED
      BY <1>1, <2>3, <2>4, <3>1, <3>2, <3>3, ContentKept
  <2> QED
    BY <2>2, <2>5, <2>6 DEF OwnKept
<1>5. CASE op.clst = 0 /\ GotCluster(op.ncl)
  <2>1. fp[n].fptr = 0 /\ fp[n].sclust = 0 /\ Start[n] = 0
    BY <1>1, <1>2, <1>5 DEF PlacesAt, Start
  <2>2. /\ AllBut(fp'[n], fp[n], {"clust", "sclust"}) /\ fp'[n].clust = op.ncl /\ fp'[n].sclust = op.ncl
        /\ op'.at = "place" /\ op'.left = op.left
    BY <1>1, <1>2, <1>5, <2>1, GotEffect
  <2>3. End(n) = 0 /\ Dir[n].size = 0 /\ disk.dir[n].size = 0 /\ ~fp[n].dirty /\ Len(stream[n]) = 0
    BY <1>0, <1>1, <1>2, <2>1, EmptyFile
  <2>4. /\ fp'[n].fptr = 0 /\ fp'[n].fs /\ ~fp'[n].dirty
        /\ AllBut(fp'[n], fp[n], {"clust", "sclust", "fptr", "dsect", "buf", "dirty"})
    BY <1>2, <2>1, <2>2, <2>3 DEF AllBut
  <2>5. SizesAt(n)' /\ Pending /\ Pending'
    BY <1>0, <1>1, <1>2, <2>1, <2>2, <2>4, WriteGoes DEF InWrite
  <2>6. Way'[n][0] = op.ncl
    <3>1. Start'[n] = op.ncl
      BY <2>2, <2>4 DEF Start
    <3> QED
      BY <3>1, WaysNext
  <2>7. PlacesAt(n)'
    <3>1. 0 \div BCS = 0 /\ 0 % SS = 0
      BY AtBoundary
    <3> QED
      BY <1>2, <2>2, <2>4, <2>6, <3>1 DEF PlacesAt, Settled
  <2>8. ContentOf(n)'
    <3>1. End(n)' = 0
      BY <1>2, <2>4, <2>5 DEF End
    <3>2. DiskOf(n)'
      BY <1>1, <2>3, DiskKept DEF Old
    <3> QED
      BY <1>1, <2>3, <2>4, <3>1, <3>2, EmptyContent
  <2> QED
    BY <2>5, <2>7, <2>8 DEF OwnKept
<1> QED
  BY <1>1, <1>4, <1>5

\* and linked to the chain: it is longer by one cluster.
LEMMA LinkOwn ==
  ASSUME FInv, Types', UNCHANGED step, Link, NEW n \in Files, n = file
  PROVE  OwnKept(n)
<1> DEFINE p == fp[n].fptr
<1>0. CallStep
  BY DEF CallStep
<1>1. /\ IInv /\ StepInv /\ Types /\ Control /\ op.at = "link" /\ op.at # "out" /\ op.ncl \in Clusters
      /\ op.clst \in Clusters /\ UNCHANGED <<disk, mounts, stream>>
      /\ Fat' = [Fat EXCEPT ![op.clst] = op.ncl] /\ Dir' = Dir /\ GotCluster(op.ncl)
  BY <1>0, Facts, LinkEffect
<1>2. /\ SizesAt(n) /\ PlacesAt(n) /\ ContentOf(n) /\ op'.call = op.call /\ file' = n /\ op.call = "write"
      /\ fp[n].fs /\ ~fp[n].err /\ fptr = p /\ fptr' = fp'[n].fptr /\ p \in Nat
      /\ op.left > 0 /\ op.left \in Nat /\ fp[n].sclust # 0
  BY <1>0, <1>1, Facts DEF AtFile, InSync, PlacesAt, SizesAt, Control, ScanInv, Fp
<1>3. /\ p # 0 /\ p % BCS = 0 /\ op.clst = fp[n].clust /\ Fat[op.clst] \notin Clusters
  BY <1>1, <1>2, Constants DEF PlacesAt
<1>4. /\ AllBut(fp'[n], fp[n], {"clust", "sclust"}) /\ fp'[n].clust = op.ncl
      /\ fp'[n].sclust = fp[n].sclust /\ op'.at = "place" /\ op'.left = op.left
  BY <1>1, <1>2, GotEffect
<1>5. /\ fp'[n].fptr = p /\ fp'[n].fs
      /\ AllBut(fp'[n], fp[n], {"clust", "sclust", "fptr", "dsect", "buf", "dirty"})
  BY <1>2, <1>4 DEF AllBut
<1>6. SizesAt(n)' /\ Pending /\ Pending'
  BY <1>0, <1>1, <1>2, <1>4, <1>5, WriteGoes DEF InWrite
<1>7. Start'[n] = Start[n]
  BY <1>1, <1>2, <1>4, <1>5 DEF Start
<1>8. WayKept(n)
  <2>1. \A i \in Nat : Way[n][i] = op.clst => Way[n][i + 1] \notin Clusters
    BY <1>1, <1>3, Ways DEF Succ
  <2> QED
    BY <1>1, <1>7, <2>1, LinkKeepsWay
<1>9. PlacesAt(n)'
  <2>1. InPlace(n)
    BY <1>1, <1>2 DEF PlacesAt, Settled
  <2>2. /\ (p - 1) \div BCS + 1 = p \div BCS /\ p % SS = 0 /\ (p - 1) \div BCS \in Nat
    BY <1>2, <1>3, UnitBefore, AtBoundary, SectorOfPlace
  <2>3. Way[n][(p - 1) \div BCS] = op.clst
    BY <1>3, <2>1 DEF InPlace
  <2>4. Way'[n][(p - 1) \div BCS] = op.clst
    BY <1>1, <1>8, <2>2, <2>3 DEF WayKept
  <2>5. Way'[n][(p - 1) \div BCS + 1] = Succ(Fat', op.clst)
    BY <2>2, <2>4, WaysNext
  <2>6. Succ(Fat', op.clst) = op.ncl
    <3>1. Fat \in [Clusters -> Links]
      BY <1>1, ViewTypes
    <3> QED
      BY <1>1, <3>1 DEF Succ
  <2> QED
    BY <1>2, <1>4, <1>5, <2>2, <2>5, <2>6 DEF PlacesAt, Settled
<1>10. ContentOf(n)'
  <2>1. End(n)' = End(n) /\ End(n) = p /\ Len(stream[n]) \in Nat
    BY <1>2, <1>5, <1>6, EndBound DEF End
  <2>2. \A q \in Nat : q < End(n)' => q < End(n) /\ UnitAt(n, q)' = UnitAt(n, q)
    BY <1>1, <2>1 DEF UnitAt
  <2>3. BufferSame(n)
    BY <1>2, <1>4 DEF BufferSame, AllBut
  <2> QED
    BY <1>1, <1>7, <1>8, <2>1, <2>2, <2>3, ContentKept
<1> QED
  BY <1>6, <1>9, <1>10 DEF OwnKept

\* A file is created anew.
LEMMA TruncateOwn ==
  ASSUME FInv, Types', UNCHANGED step, Truncate, NEW n \in Files, n = file
  PROVE  OwnKept(n)
<1>0. CallStep
  BY DEF CallStep
<1>1. /\ IInv /\ StepInv /\ Types /\ Control /\ op.call = "create" /\ UNCHANGED <<disk, fp, mounts>>
      /\ op'.at \in {"remove", "back"} /\ ~fp[n].fs /\ StreamType
      /\ \E e \in Entry : e.clust = 0 /\ e.size = 0 /\ Dir' = [Dir EXCEPT ![n] = e]
      /\ stream' = [stream EXCEPT ![n] = <<>>] /\ ContentOf(n)
  BY <1>0, Facts, TruncateEffect DEF FInv, Sizes
<1>2. Dir'[n].size = 0 /\ stream'[n] = <<>> /\ Len(stream'[n]) = 0
  <2>1. Dir \in [Files -> Entry]
    BY <1>1, ViewTypes
  <2> QED
    BY <1>1, <2>1 DEF StreamType
<1>3. SizesAt(n)' /\ PlacesAt(n)' /\ ~Pending'
  BY <1>0, <1>1, <1>2, OpeningAt DEF AtOpen, Opening
<1>4. DiskOf(n)'
  <2>1. disk.dir[n].size \in Nat /\ Dir[n].size \in Nat
    BY <1>1, ViewTypes DEF Entry
  <2>2. (Old(n) => Old(n)') /\ (Old(n)' \/ disk.dir[n].size = 0)
    BY <1>1, <1>2, <2>1 DEF Old
  <2> QED
    BY <1>1, <2>2, DiskKept
<1>5. End(n)' = 0
  BY <1>2, <1>3 DEF End
<1>6. ContentOf(n)'
  BY <1>1, <1>2, <1>4, <1>5, EmptyContent
<1> QED
  BY <1>3, <1>6 DEF OwnKept

\* The chain that the entry let go of is freed.
LEMMA RemoveOwn ==
  ASSUME FInv, Types', UNCHANGED step, RemoveChain, NEW n \in Files, n = file
  PROVE  OwnKept(n)
<1>0. CallStep
  BY DEF CallStep
<1>1. /\ IInv /\ StepInv /\ Types /\ Control /\ op.at = "remove" /\ op'.at \in {"remove", "back"}
      /\ op.clst \in Clusters /\ UNCHANGED <<disk, fp, mounts, stream>> /\ Dir' = Dir
      /\ Fat' = Fat \/ Fat' = [Fat EXCEPT ![op.clst] = 0]
      /\ op.call \in Opening /\ ~fp[n].fs /\ SizesAt(n)
  BY <1>0, Facts, RemoveEffect DEF AtOpen
<1>2. SizesAt(n)' /\ PlacesAt(n)' /\ ~Pending' /\ ~Pending
  <2>1. Dir'[n].size = Len(stream'[n])
    BY <1>1 DEF SizesAt, SizeOf
  <2> QED
    BY <1>0, <1>1, <2>1, OpeningAt DEF AtOpen, Pending, Opening
<1>3. Start'[n] = Start[n]
  BY <1>1 DEF Start
<1>4. WayKept(n)
  <2>1. CASE Fat' = Fat
    BY <1>3, <2>1, SameWay
  <2>2. CASE Fat' = [Fat EXCEPT ![op.clst] = 0]
    <3>1. /\ Fat \in [Clusters -> Links] /\ Start \in [Files -> Starts] /\ SoundTable(Fat, Start) /\ LooseInv
      BY <1>1, ViewTypes DEF IInv, Volume, SoundInv
    <3>2. \A i \in Nat : Way[n][i] \in Clusters =>
             (\E d \in Clusters : Fat[d] = Way[n][i]) \/ Start[n] = Way[n][i]
      BY <1>1, <3>1, Ways, WalkInUse
    <3>3. \A i \in Nat : Way[n][i] # op.clst
      BY <1>1, <3>1, <3>2 DEF LooseInv, Loose
    <3> QED
      BY <1>1, <1>3, <2>2, <3>3, LinkKeepsWay
  <2> QED
    BY <1>1, <2>1, <2>2
<1>5. ContentOf(n)'
  <2>1. End(n)' = End(n) /\ Len(stream[n]) \in Nat
    BY <1>1, <1>2, EndBound DEF End
  <2>2. \A q \in Nat : q < End(n)' => q < End(n) /\ UnitAt(n, q)' = UnitAt(n, q)
    BY <1>1, <2>1 DEF UnitAt
  <2>3. BufferSame(n)
    BY <1>1 DEF BufferSame
  <2> QED
    BY <1>1, <1>3, <1>4, <2>1, <2>2, <2>3, ContentKept
<1> QED
  BY <1>2, <1>5 DEF OwnKept

\* The entry gets the size, and the data was written before.
LEMMA UpdateOwn ==
  ASSUME FInv, Types', UNCHANGED step, UpdateEntry, NEW n \in Files, n = file
  PROVE  OwnKept(n)
<1>0. CallStep
  BY DEF CallStep
<1>1. /\ IInv /\ StepInv /\ Types /\ Control /\ op.at = "entry" /\ op'.at = "sync" /\ UNCHANGED <<disk, mounts, stream>>
      /\ Fat' = Fat
      /\ \E e \in Entry : /\ e.clust = fp[n].sclust /\ e.size = fp[n].fsize
                          /\ Dir' = [Dir EXCEPT ![n] = e]
      /\ AllBut(fp'[n], fp[n], {"written"}) /\ ~fp'[n].written
  BY <1>0, Facts, UpdateEffect
<1>2. /\ SizesAt(n) /\ PlacesAt(n) /\ ContentOf(n) /\ fp[n].fs /\ op.call \in {"sync", "close"}
      /\ op.at \in AtFile /\ ~fp[n].dirty /\ OldInv /\ fp[n].fsize \in Nat
  BY <1>0, <1>1, Facts DEF AtFile, StepInv, InSync, PlacesAt
<1>3. Dir'[n].size = fp[n].fsize /\ Dir'[n].clust = fp[n].sclust /\ fp[n].fsize = Len(stream[n])
  <2>1. Dir \in [Files -> Entry]
    BY <1>1, ViewTypes
  <2> QED
    BY <1>1, <1>2, <2>1 DEF SizesAt, SizeOf
<1>4. Start'[n] = fp[n].sclust /\ Start[n] = fp[n].sclust /\ WayKept(n) /\ Way'[n] = Way[n]
  <2>1. Start'[n] = fp[n].sclust /\ Start[n] = fp[n].sclust
    BY <1>1, <1>2 DEF Start, AllBut
  <2> QED
    BY <1>1, <2>1, SameWay
<1>5. SizesAt(n)' /\ PlacesAt(n)' /\ ~Pending /\ ~Pending'
  <2>1. /\ AllBut(fp'[n], fp[n], {"dirty", "written", "fs"}) /\ fp'[n].fs
        /\ (fp'[n].dirty <=> fp[n].dirty)
    BY <1>1, <1>2 DEF AllBut
  <2> QED
    BY <1>0, <1>1, <1>2, <1>3, <1>4, <2>1, SyncGoes DEF InSync
<1>6. ContentOf(n)'
  <2>1. /\ End(n)' = End(n) /\ End(n) = Len(stream[n]) /\ Len(stream[n]) \in Nat /\ Dir[n].size \in Nat
    BY <1>1, <1>5, EndBound DEF End
  <2>2. EntryOf(n)'
    BY <1>1, <1>3, <1>4, <2>1 DEF EntryOf
  <2>3. BufferOf(n)'
    BY <1>1, <1>2 DEF BufferOf, AllBut
  <2>4. DiskOf(n)'
    <3>1. ~Old(n)
      BY <1>2 DEF OldInv
    <3> QED
      BY <1>1, <1>4, <3>1, DiskKept
  <2>5. DataOf(n)'
    <3>1. \A q \in Nat : q < End(n)' => q < End(n) /\ UnitAt(n, q)' = UnitAt(n, q)
      BY <1>1, <2>1 DEF UnitAt
    <3>2. \A q \in Nat : q < End(n) => OnCard(n, q) = UnitAt(n, q)
      BY <1>2 DEF ContentOf, DataOf
    <3>3. /\ fp'[n].dsect = fp[n].dsect /\ fp'[n].buf = fp[n].buf /\ (fp'[n].dirty <=> fp[n].dirty)
      BY <1>1 DEF AllBut
    <3>4. DataOf(n) /\ Dir'[n].size \in Nat
      BY <1>2, <1>3 DEF ContentOf
    <3> QED
      BY <1>1, <1>2, <1>4, <2>1, <3>1, <3>2, <3>3, <3>4, DataKept
  <2> QED
    BY <2>2, <2>3, <2>4, <2>5 DEF ContentOf
<1> QED
  BY <1>5, <1>6 DEF OwnKept

\* f_sync() and f_close() end.
LEMMA SyncEndsOwn ==
  ASSUME FInv, Types', UNCHANGED step, SyncEnds, NEW n \in Files, n = file
  PROVE  OwnKept(n)
<1>0. CallStep /\ ~TableStep
  BY NotTable
<1>1. /\ IInv /\ StepInv /\ Types /\ Control /\ op.at = "synced" /\ op.at # "remove" /\ op'.at = "ret"
      /\ UNCHANGED <<disk, fs, mounts, stream>> /\ Fat' = Fat /\ Dir' = Dir /\ SoundInv
      /\ AllBut(fp'[n], fp[n], {"fs"}) /\ (fp'[n].fs <=> op.call = "sync")
  BY <1>0, Facts, SyncEndsEffect, StepView DEF SameView
<1>2. /\ SizesAt(n) /\ PlacesAt(n) /\ ContentOf(n) /\ fp[n].fs /\ op.call \in {"sync", "close"}
      /\ op.at \in AtFile /\ fp[n].fsize \in Nat
  BY <1>0, <1>1, Facts DEF AtFile, StepInv, InSync
<1>3. Dir[n].size = fp[n].fsize /\ fp[n].fsize = Len(stream[n]) /\ ~fp[n].written
  BY <1>1, <1>2 DEF SizesAt, SizeOf
<1>4. /\ Start[n] = fp[n].sclust /\ (fp'[n].fs => Start'[n] = Start[n])
      /\ Start'[n] = Start[n] \/ (Start'[n] = 0 /\ Dir[n].clust = 0)
  <2>1. Start[n] = fp[n].sclust /\ Start'[n] = IF fp'[n].fs THEN fp[n].sclust ELSE Dir[n].clust
    BY <1>1, <1>2 DEF Start, AllBut
  <2>2. Dir[n].clust \in {0, fp[n].sclust}
    BY <1>1, <1>2 DEF SoundInv
  <2> QED
    BY <2>1, <2>2
<1>5. SizesAt(n)' /\ PlacesAt(n)' /\ ~Pending /\ ~Pending'
  <2>1. /\ AllBut(fp'[n], fp[n], {"dirty", "written", "fs"})
        /\ (fp'[n].dirty <=> fp[n].dirty) /\ (fp'[n].written <=> fp[n].written)
    BY <1>1 DEF AllBut
  <2>2. fp'[n].fs => WayKept(n)
    BY <1>0, <1>1, <1>4, ViewWays
  <2> QED
    BY <1>0, <1>1, <1>2, <1>3, <2>1, <2>2, SyncGoes DEF InSync
<1>6. End(n)' = Len(stream[n]) /\ End(n) = Len(stream[n]) /\ Len(stream[n]) \in Nat
  BY <1>1, <1>5, EndBound DEF End
<1>7. CASE Start'[n] = Start[n]
  <2>1. BufferSame(n)
    BY <1>1, <1>2 DEF BufferSame, AllBut
  <2>2. ContentOf(n)'
    BY <1>0, <1>1, <1>6, <1>7, <2>1, FrameContent
  <2> QED
    BY <1>5, <2>2 DEF OwnKept
<1>8. CASE Start'[n] # Start[n]
  <2>1. Dir[n].size = 0 /\ ~fp'[n].fs
    BY <1>2, <1>4, <1>8 DEF ContentOf, EntryOf
  <2>2. disk.dir[n].size = 0
    <3>1. disk.dir[n].size \in Nat /\ OldInv
      BY <1>0, <1>1, Facts, ViewTypes DEF Entry
    <3>2. disk.dir[n].size <= Dir[n].size
      BY <1>0, <1>1, <3>1, NoneOld
    <3> QED
      BY <2>1, <3>1, <3>2
  <2>3. DiskOf(n)'
    BY <1>1, <2>2, DiskKept DEF Old
  <2>4. ContentOf(n)'
    BY <1>1, <1>3, <1>6, <2>1, <2>3, EmptyContent
  <2> QED
    BY <1>5, <2>4 DEF OwnKept
<1> QED
  BY <1>7, <1>8

(***************************************************************************)
(* A step of a call keeps the invariant.                                   *)
(***************************************************************************)
LEMMA CallKeepsFInv ==
  ASSUME FInv, CallStep, UNCHANGED <<step, error>>
  PROVE  FInv'
<1>0. IInv /\ file \in Files /\ Types /\ Control /\ op.at # "out" /\ StreamType
  BY InStep DEF FInv, Sizes
<1>1. Types' /\ UNCHANGED step
  BY <1>0, CallKeepsIInv DEF IInv
<1>2. PICK n \in Files : n = file
  BY <1>0
<1>3. StreamType'
  <2>1. CASE Truncate
    <3>1. stream' = [stream EXCEPT ![file] = <<>>]
      BY <1>0, <2>1, TruncateEffect
    <3>2. <<>> \in Seq(Unit)
      OBVIOUS
    <3> QED
      BY <1>0, <3>1, <3>2 DEF StreamType
  <2>2. CASE WriteEnds
    BY <1>2, <2>2, StreamGrows
  <2>3. CASE ~(Truncate \/ WriteEnds)
    <3>1. UNCHANGED stream
      BY <2>3 DEF CallStep, Check, MountVolume, Root, OpenExisting, RemoveChain, OpenCreated,
         Follow, Scan, Allocate, Link, WriteBack, Place, NextChunk, CopyIn, SeekTop, Seek,
         SeekEnds, NextByte, CopyOut, GetsEnds, Flushed, UpdateEntry, SyncFs, SyncEnds,
         SyncWindow, MoveWindow
    <3> QED
      BY <1>0, <3>1 DEF StreamType
  <2> QED
    BY <2>1, <2>2, <2>3
<1>4. OwnKept(n)
  <2>1. CASE Check \/ SyncWindow \/ MoveWindow \/ MountVolume \/ Root
    BY <1>1, <1>2, <2>1, CheckOwn, WindowOwn, MountOwn
  <2>2. CASE OpenExisting \/ OpenCreated \/ Truncate \/ RemoveChain
    BY <1>1, <1>2, <2>2, OpenOwn, TruncateOwn, RemoveOwn
  <2>3. CASE Follow \/ Scan \/ Allocate \/ Link
    BY <1>1, <1>2, <2>3, FollowOwn, ScanOwn, AllocateOwn, LinkOwn
  <2>4. CASE WriteBack \/ Place \/ NextChunk \/ NextByte \/ CopyIn \/ WriteEnds
    BY <1>1, <1>2, <2>4, WriteBackOwn, PlaceOwn, NextOwn, CopyInOwn, WriteEndsOwn
  <2>5. CASE SeekTop \/ Seek \/ SeekEnds \/ CopyOut \/ GetsEnds
    BY <1>1, <1>2, <2>5, SeekTopOwn, SeekOwn, SeekEndsOwn, GetsOwn
  <2>6. CASE Flushed \/ UpdateEntry \/ SyncFs \/ SyncEnds
    BY <1>1, <1>2, <2>6, SyncOwn, UpdateOwn, SyncEndsOwn
  <2> QED
    BY <2>1, <2>2, <2>3, <2>4, <2>5, <2>6 DEF CallStep
<1> QED
  BY <1>2, <1>3, <1>4, Together DEF OwnKept

(***************************************************************************)
(* The caller's steps.                                                     *)
(***************************************************************************)
\* Between the calls nothing changes of the card, the volume and the objects.
LEMMA CallerContent ==
  ASSUME UNCHANGED <<disk, fs, fp, mounts, stream>>, ~Pending, ~Pending', Content
  PROVE  /\ Content' /\ Way' = Way /\ Dir' = Dir
         /\ \A n \in Files : Old(n)' = Old(n) /\ SizeOf(n)' = SizeOf(n) /\ InPlace(n)' = InPlace(n)
<1>1. Fat' = Fat /\ Dir' = Dir
  BY DEF Fat, Dir
<1>2. Start' = Start
  BY <1>1 DEF Start
<1>3. Way' = Way /\ DiskWay' = DiskWay
  BY <1>1, <1>2 DEF Way, DiskWay
<1>4. \A n \in Files : Old(n)' = Old(n) /\ SizeOf(n)' = SizeOf(n) /\ InPlace(n)' = InPlace(n)
  BY <1>1, <1>3 DEF Old, SizeOf, InPlace, Addr
<1>5. ASSUME NEW n \in Files
      PROVE  ContentOf(n)'
  <2>1. End(n)' = End(n)
    BY DEF End
  <2>2. \A p : Addr(n, p)' = Addr(n, p) /\ OnCard(n, p)' = OnCard(n, p) /\ UnitAt(n, p)' = UnitAt(n, p)
    BY <1>3 DEF Addr, OnCard, UnitAt
  <2>3. ContentOf(n)
    BY DEF Content
  <2>4. DataOf(n)'
    BY <1>1, <1>3, <2>1, <2>2, <2>3 DEF ContentOf, DataOf
  <2>5. EntryOf(n)' /\ DiskOf(n)' /\ BufferOf(n)'
    BY <1>1, <1>2, <1>3, <1>4, <2>3 DEF ContentOf, EntryOf, DiskOf, BufferOf
  <2> QED
    BY <2>4, <2>5 DEF ContentOf
<1> QED
  BY <1>1, <1>3, <1>4, <1>5 DEF Content

\* A step between two calls keeps the invariant.
LEMMA CallerKeeps ==
  ASSUME FInv, IInv', UNCHANGED <<disk, fs, fp, mounts, stream>>, op.at \in {"out", "ret"},
         op'.at \in {"out", "check"}, StepInv', ClosedInv', OldInv', Sought' => Sought,
         Sought /\ ~Sought' => ~fp[Log].fs,
         op'.at = "check" => op'.from = fp[op'.file].fptr
  PROVE  FInv'
<1>0. /\ ClosedInv /\ DirtyInv /\ StreamType /\ SizeInv /\ EndInv /\ SoughtInv
      /\ PlaceInv /\ Content
  BY DEF FInv, Flow, Sizes, EndInv
<1>1. ~Pending /\ ~Pending'
  BY DEF Pending
<1>2. /\ Content' /\ Way' = Way /\ Dir' = Dir
      /\ \A n \in Files : Old(n)' = Old(n) /\ SizeOf(n)' = SizeOf(n) /\ InPlace(n)' = InPlace(n)
  BY <1>0, <1>1, CallerContent
<1>3. DirtyInv'
  BY <1>0 DEF DirtyInv
<1>4. StreamType' /\ SizeInv'
  BY <1>0, <1>2 DEF StreamType, SizeInv
<1>5. EndInv'
  <2>1. \A n \in Logs : Still(n)' => Still(n)
    BY <1>1 DEF Still
  <2>2. SoughtInv'
    BY <1>0 DEF SoughtInv
  <2> QED
    BY <1>0, <2>1, <2>2 DEF EndInv
<1>6. CallEnd'
  BY <1>1 DEF CallEnd, fptr, file
<1>7. PlaceInv'
  BY <1>0, <1>2 DEF PlaceInv, Settled
<1>8. CallPlace' /\ CallSeek' /\ Clean'
  BY DEF CallPlace, CallSeek, Clean
<1> QED
  BY <1>2, <1>3, <1>4, <1>5, <1>6, <1>7, <1>8 DEF FInv, Flow, Sizes

\* A call begins,
LEMMA CallBeginsFInv ==
  ASSUME FInv, CallBegins
  PROVE  FInv'
<1>0. /\ IInv /\ IInv' /\ StepInv /\ ClosedInv /\ OldInv /\ Types /\ Types'
  BY CallBeginsIInv DEF FInv, Flow, IInv
<1>1. /\ op.at = "out" /\ step \in Steps /\ UNCHANGED <<disk, fs, fp, mounts, stream, faults, step, error>>
      /\ op' = [Idle EXCEPT !.call = CallOf[step][1], !.file = CallOf[step][2], !.at = "check",
                            !.from = fp[CallOf[step][2]].fptr, !.left = CallOf[step][3]]
  BY StepsNamed DEF CallBegins, Begin
<1>2. op'.at = "check" /\ op'.call = CallOf[step][1] /\ op'.file = CallOf[step][2] /\ op'.from = fp[op'.file].fptr
  BY <1>1 DEF Idle
<1>3. StepInv'
  <2>1. CallOf'[step][1] = CallOf[step][1] /\ CallOf'[step][2] = CallOf[step][2]
    BY <1>1, CallNames
  <2> QED
    BY <1>1, <1>2, <2>1 DEF StepInv, AtFile, InSync, file
<1>4. ClosedInv'
  BY <1>0, <1>1, BeforeNames DEF ClosedInv
<1>5. OldInv'
  <2>1. \A n \in Files : ~Old(n)
    BY <1>0, <1>1 DEF OldInv, Steps
  <2>2. \A n \in Files : Old(n)' = Old(n)
    BY <1>1 DEF Old, Dir
  <2> QED
    BY <2>1, <2>2 DEF OldInv
<1>6. Sought' => Sought
  BY <1>1, <1>2 DEF Sought
<1>7. Sought' <=> Sought
  BY <1>1, <1>2 DEF Sought
<1> QED
  BY <1>0, <1>1, <1>2, <1>3, <1>4, <1>5, <1>6, <1>7, CallerKeeps

\* a header is left out,
LEMMA HeaderSkippedFInv ==
  ASSUME FInv, HeaderSkipped
  PROVE  FInv'
<1>0. /\ IInv /\ IInv' /\ StepInv /\ ClosedInv /\ OldInv /\ Types
  BY CallerIInv DEF FInv, Flow, IInv
<1>1. op.at = "out" /\ step \in Headers /\ UNCHANGED <<disk, fs, fp, op, mounts, stream>>
  BY DEF HeaderSkipped, fileVars
<1>2. \/ step = "rc_write" /\ step' = "dead"
      \/ step = "version_write" /\ step' = "version_close"
      \/ step = "mpu_write" /\ step' = "rc_open"
  BY DEF HeaderSkipped, Headers, After
<1>3. op = Idle /\ StepInv'
  BY <1>0, <1>1 DEF StepInv, Idle, AtFile, InSync
<1>4. ClosedInv'
  <2>1. \A n \in DOMAIN Before : step' \in Before[n] => step \in Before[n]
    BY <1>2, BeforeNames DEF CfgSteps, VersionSteps
  <2>2. \A n \in DOMAIN Before : fp[n].fs => step \notin Before[n]
    BY <1>0, <1>1 DEF ClosedInv
  <2> QED
    BY <1>1, <2>1, <2>2, BeforeNames DEF ClosedInv
<1>5. OldInv'
  <2>1. \A n \in Files : ~Old(n)
    BY <1>0, <1>1, <1>2 DEF OldInv
  <2>2. \A n \in Files : Old(n)' = Old(n)
    BY <1>1 DEF Old, Dir
  <2> QED
    BY <2>1, <2>2 DEF OldInv
<1>6. Sought' /\ Sought
  BY <1>2 DEF Sought
<1> QED
  BY <1>0, <1>1, <1>3, <1>4, <1>5, <1>6, CallerKeeps

\* sdlog wakes up,
LEMMA WakeFInv ==
  ASSUME FInv, Wake
  PROVE  FInv'
<1>0. /\ IInv /\ IInv' /\ StepInv /\ ClosedInv /\ OldInv /\ Types /\ CallInv
  BY CallerIInv DEF FInv, Flow, IInv, Control
<1>1. step = "wait" /\ step' \in {"write", "sync"} /\ UNCHANGED <<disk, fs, fp, op, mounts, stream>>
  BY DEF Wake, fileVars
<1>2. op.at = "out"
  BY <1>0, <1>1 DEF CallInv, Steps
<1>3. op = Idle /\ StepInv'
  BY <1>0, <1>1, <1>2 DEF StepInv, Idle, AtFile, InSync
<1>4. ClosedInv'
  <2>1. \A n \in DOMAIN Before : step' \notin Before[n]
    BY <1>1, BeforeNames DEF CfgSteps, VersionSteps
  <2> QED
    BY <2>1, BeforeNames DEF ClosedInv
<1>5. OldInv'
  <2>1. \A n \in Files : ~Old(n)
    BY <1>0, <1>1, <1>2 DEF OldInv
  <2>2. \A n \in Files : Old(n)' = Old(n)
    BY <1>1 DEF Old, Dir
  <2> QED
    BY <2>1, <2>2 DEF OldInv
<1>6. Sought' /\ Sought
  BY <1>1 DEF Sought
<1> QED
  BY <1>0, <1>1, <1>2, <1>3, <1>4, <1>5, <1>6, CallerKeeps

\* What the program does next.
LEMMA Returned ==
  ASSUME CallReturns, step \in Steps
  PROVE  /\ step \in {"version_open", "mpu_open", "rc_open"} /\ op.res # "FR_OK" => step' = "dead"
         /\ step' \in {"open", "lseek"} =>
              \/ step = "open" /\ step' = "lseek"
              \/ step = "write" /\ step' = "open" /\ op.res = "FR_INVALID_OBJECT"
         /\ step = "open" => step' = "lseek"
         /\ step' # "cfg_open" /\ (step' = "cfg_gets" => step = "cfg_open")
         /\ step' = "cfg_close" => step = "cfg_gets"
         /\ step' = "version_open" => step \in {"cfg_open", "cfg_close"}
         /\ step' = "version_write" => step = "version_open"
         /\ step' = "version_close" => step = "version_write"
         /\ step' = "mpu_open" => step = "version_close"
         /\ step' = "mpu_write" => step = "mpu_open"
         /\ step' = "rc_open" => step = "mpu_write"
<1>1. CASE op.res # "FR_OK"
  BY <1>1 DEF CallReturns, After, Steps, Headers
<1>2. CASE op.res = "FR_OK"
  BY <1>2 DEF CallReturns, After, Steps, Headers
<1> QED
  BY <1>1, <1>2

\* a call returns.
LEMMA CallReturnsFInv ==
  ASSUME FInv, CallReturns
  PROVE  FInv'
<1>0. /\ IInv /\ IInv' /\ StepInv /\ ClosedInv /\ OldInv /\ Types /\ CallInv
  BY CallerIInv DEF FInv, Flow, IInv, Control
<1>1. op.at = "ret" /\ op' = Idle /\ UNCHANGED <<disk, fs, fp, mounts, stream>> /\ op'.at = "out"
  BY DEF CallReturns, Idle
<1>2. step \in Steps /\ file \in Files /\ op.call = CallOf[step][1] /\ file = CallOf[step][2]
  BY <1>0, <1>1 DEF CallInv, StepInv
<1>3. StepInv'
  BY <1>1 DEF StepInv, AtFile, InSync
<1>4. ClosedInv'
  <2> SUFFICES ASSUME NEW n \in DOMAIN Before, fp[n].fs, step' \in Before[n]
               PROVE  FALSE
    BY <1>1, BeforeNames DEF ClosedInv
  <2>1. step \notin Before[n] \/ file = n
    BY <1>0 DEF ClosedInv
  <2>2. n \in {"config", "version", "mpu6000", "rc"}
    BY BeforeNames
  <2>3. CASE n = "config"
    BY <1>1, <1>2, <2>3, Returned, BeforeNames
  <2>4. CASE n = "version"
    <3>1. step \in CfgSteps
      BY <1>2, <2>4, Returned, BeforeNames DEF CfgSteps
    <3>2. step \in Before[n] /\ file = "config"
      BY <1>2, <2>4, <3>1, BeforeNames DEF CfgSteps, CallOf
    <3> QED
      BY <2>1, <2>4, <3>2
  <2>5. CASE n = "rc"
    <3>1. step \in CfgSteps \cup VersionSteps \cup {"mpu_open", "mpu_write"}
      BY <1>2, <2>5, Returned, BeforeNames DEF CfgSteps, VersionSteps
    <3>2. step \in Before[n] /\ file # "rc"
      BY <1>2, <2>5, <3>1, BeforeNames DEF CfgSteps, VersionSteps, CallOf, Log
    <3> QED
      BY <2>1, <2>5, <3>2
  <2>6. CASE n = "mpu6000"
    <3>1. \/ step \in CfgSteps \cup VersionSteps
          \/ step = "write" /\ op.res = "FR_INVALID_OBJECT"
      BY <1>2, <2>6, Returned, BeforeNames DEF CfgSteps, VersionSteps
    <3>2. CASE step \in CfgSteps \cup VersionSteps
      <4>1. step \in Before[n] /\ file # "mpu6000"
        BY <1>2, <2>6, <3>2, BeforeNames DEF CfgSteps, VersionSteps, CallOf
      <4> QED
        BY <2>1, <2>6, <4>1
    <3>3. CASE step = "write" /\ op.res = "FR_INVALID_OBJECT"
      <4>1. file = Log /\ ~Fp.fs
        BY <1>0, <1>1, <1>2, <3>3 DEF StepInv, CallOf
      <4> QED
        BY <2>6, <4>1 DEF Fp, Log
    <3> QED
      BY <3>1, <3>2, <3>3
  <2> QED
    BY <2>2, <2>3, <2>4, <2>5, <2>6
<1>5. OldInv'
  <2>1. \A n \in Files : Old(n)' = Old(n)
    BY <1>1 DEF Old, Dir
  <2>2. ASSUME NEW n \in Files, Old(n)
        PROVE  step' = "dead" /\ stream[n] = <<>> /\ ~fp[n].fs
    <3>1. op.call = "create" /\ op.res # "FR_OK" /\ stream[n] = <<>> /\ ~fp[n].fs
      BY <1>0, <1>1, <2>2 DEF OldInv
    <3>2. step \in {"version_open", "mpu_open", "rc_open"}
      BY <1>2, <3>1 DEF CallOf, Steps
    <3> QED
      BY <1>2, <3>1, <3>2, Returned
  <2> QED
    BY <1>1, <2>1, <2>2 DEF OldInv
<1>6. Sought' => Sought
  BY <1>1, <1>2, Returned DEF Sought
<1>7. Sought /\ ~Sought' => ~fp[Log].fs
  <2> SUFFICES ASSUME Sought, ~Sought'
               PROVE  ~fp[Log].fs
    OBVIOUS
  <2>1. step = "write" /\ op.res = "FR_INVALID_OBJECT"
    BY <1>1, <1>2, Returned DEF Sought
  <2>2. file = Log /\ ~Fp.fs
    BY <1>0, <1>1, <1>2, <2>1 DEF StepInv, CallOf
  <2> QED
    BY <2>2 DEF Fp
<1> QED
  BY <1>0, <1>1, <1>3, <1>4, <1>5, <1>6, <1>7, CallerKeeps

(***************************************************************************)
(* A card that is not mounted.                                             *)
(***************************************************************************)
\* The program begins, or the volume was unmounted: each file is what the card
\* has of it, and its chain goes as far as its size.
Fresh ==
  /\ fs = Unmounted /\ fp = [n \in Files |-> Closed] /\ stream = Found /\ op = Idle
  /\ \A n \in Files : \A p \in Nat : p < disk.dir[n].size => DiskWay[n][p \div BCS] \in Clusters

\* What a reader finds in a file, unit by unit.
LEMMA FoundUnits ==
  ASSUME Types, NEW n \in Files,
         \A p \in Nat : p < disk.dir[n].size => DiskWay[n][p \div BCS] \in Clusters
  PROVE  /\ OnDisk(n) \in Seq(Unit) /\ Len(OnDisk(n)) = disk.dir[n].size
         /\ \A p \in Nat : p < disk.dir[n].size =>
              OnDisk(n)[p + 1] = disk.data[SectOf(DiskWay[n][p \div BCS], p)][p % SS]
<1> DEFINE size == disk.dir[n].size
           unit(p) == disk.data[SectOf(DiskWay[n][p \div BCS], p)][p % SS]
<1>0. disk.data \in [DataSectors -> Sector] /\ size \in Nat /\ BCS \in Nat \ {0} /\ SS \in Nat \ {0}
  BY ViewTypes, Constants DEF Entry, Types, DiskType, CardState
<1>1. ASSUME NEW p \in Nat, p < size
      PROVE  unit(p) \in Unit
  <2>1. DiskWay[n][p \div BCS] \in Clusters
    BY <1>1
  <2>2. SectOf(DiskWay[n][p \div BCS], p) \in DataSectors /\ p % SS \in 0 .. SS - 1
    BY <1>0, <2>1, SectorsApart
  <2> QED
    BY <1>0, <2>2 DEF Sector
<1>2. OnDisk(n) = [i \in 1 .. size |-> unit(i - 1)]
  <2>1. Chain(n) = DiskWay[n]
    BY DEF Chain, DiskWay
  <2>2. \A i \in 1 .. size : DiskWay[n][(i - 1) \div BCS] \in Clusters
    <3> TAKE i \in 1 .. size
    <3>1. i - 1 \in Nat /\ i - 1 < size
      BY <1>0
    <3> QED
      BY <3>1
  <2>3. OnDisk(n) = [i \in 1 .. size |->
          IF DiskWay[n][(i - 1) \div BCS] \in Clusters
            THEN disk.data[Clust2Sect(DiskWay[n][(i - 1) \div BCS], ((i - 1) \div SS) % CSize)][(i - 1) % SS]
            ELSE Blank]
    BY <2>1 DEF OnDisk
  <2> QED
    BY <2>2, <2>3 DEF SectOf
<1>3. \A i \in 1 .. size : unit(i - 1) \in Unit
  <2>1. \A i \in 1 .. size : i - 1 \in Nat /\ i - 1 < size
    BY <1>0
  <2> QED
    BY <1>1, <2>1
<1> HIDE DEF unit
<1>4. OnDisk(n) \in Seq(Unit) /\ Len(OnDisk(n)) = size
  BY <1>0, <1>2, <1>3
<1>5. \A p \in Nat : p < size => OnDisk(n)[p + 1] = unit(p)
  <2>1. \A p \in Nat : p < size => p + 1 \in 1 .. size /\ (p + 1) - 1 = p
    BY <1>0
  <2> QED
    BY <1>2, <2>1
<1> QED
  BY <1>4, <1>5 DEF unit

\* A card that is not mounted satisfies the invariant.
LEMMA FreshFInv == Fresh /\ IInv => FInv
<1> SUFFICES ASSUME Fresh, IInv
             PROVE  FInv
  OBVIOUS
<1>0. Types /\ op.at = "out" /\ op.call = "none" /\ op = Idle
  BY DEF IInv, Fresh, Idle
<1>1. \A n \in Files : fp[n] = Closed /\ ~fp[n].fs
  BY UnmountedTypes DEF Fresh
<1>2. Fat = disk.fat /\ Dir = disk.dir
  <2>1. disk.fat \in [Clusters -> Links]
    BY <1>0, ViewTypes
  <2>2. \A c \in Clusters : Fat[c] = disk.fat[c]
    BY UnmountedTypes DEF Fresh, Fat
  <2> QED
    BY <2>1, <2>2, UnmountedTypes DEF Fresh, Fat, Dir
<1>3. \A n \in Files : Start[n] = Dir[n].clust /\ Way[n] = DiskWay[n]
  BY <1>1, <1>2 DEF Start, Way, DiskWay
<1>4. \A n \in Files : Dir[n] \in Entry /\ Dir[n].size \in Nat /\ ~Old(n)
  BY <1>0, <1>2, ViewTypes DEF Entry, Old
<1>5. ASSUME NEW n \in Files
      PROVE  /\ stream[n] \in Seq(Unit) /\ Len(stream[n]) = Dir[n].size
             /\ \A p \in Nat : p < Dir[n].size =>
                  /\ Way[n][p \div BCS] \in Clusters
                  /\ OnCard(n, p) = stream[n][p + 1]
  <2>1. stream[n] = OnDisk(n)
    BY DEF Fresh, Found
  <2>2. \A p \in Nat : p < disk.dir[n].size => DiskWay[n][p \div BCS] \in Clusters
    BY DEF Fresh
  <2> QED
    BY <1>0, <1>2, <1>3, <2>1, <2>2, FoundUnits DEF OnCard, Addr
<1>6. Flow
  <2>1. StepInv
    BY <1>0 DEF StepInv, AtFile, InSync
  <2>2. ClosedInv /\ OldInv
    BY <1>1, <1>4, BeforeNames DEF ClosedInv, OldInv
  <2>3. DirtyInv
    BY <1>0, UnmountedTypes DEF DirtyInv, Fresh
  <2> QED
    BY <2>1, <2>2, <2>3 DEF Flow
<1>7. Sizes
  <2>1. StreamType
    <3>1. stream = [n \in Files |-> stream[n]]
      BY DEF Fresh, Found
    <3> QED
      BY <1>5, <3>1 DEF StreamType
  <2>2. SizeInv
    BY <1>0, <1>1, <1>5 DEF SizeInv, SizeOf
  <2>3. EndInv
    BY <1>1, FilesNamed DEF EndInv, SoughtInv, Still, Logs, Log
  <2>4. CallEnd
    BY <1>0 DEF CallEnd, Pending
  <2> QED
    BY <2>1, <2>2, <2>3, <2>4 DEF Sizes
<1>8. PlaceInv /\ CallPlace /\ CallSeek /\ Clean
  BY <1>0, <1>1 DEF PlaceInv, Settled, CallPlace, CallSeek, Clean
<1>9. ASSUME NEW n \in Files
      PROVE  ContentOf(n)
  <2>1. ~Pending /\ End(n) = Dir[n].size
    BY <1>0, <1>5 DEF Pending, End
  <2>2. EntryOf(n)
    BY <1>3, <1>4, <1>5 DEF EntryOf
  <2>3. DiskOf(n)
    BY <1>2, <1>3, <1>5 DEF DiskOf
  <2>4. DataOf(n)
    <3>1. \A p \in Nat : p < Dir[n].size => UnitAt(n, p) = stream[n][p + 1]
      BY <1>5 DEF UnitAt
    <3> QED
      BY <1>1, <1>5, <2>1, <3>1 DEF DataOf
  <2>5. BufferOf(n)
    BY <1>1 DEF BufferOf
  <2> QED
    BY <2>2, <2>3, <2>4, <2>5 DEF ContentOf
<1> QED
  BY <1>6, <1>7, <1>8, <1>9 DEF FInv, Content

\* After a power failure or an unmount the card is one that is not mounted.
LEMMA RestartFresh ==
  ASSUME FInv, PowerLoss \/ Remount
  PROVE  Fresh' /\ IInv'
<1>1. IInv /\ IInv' /\ StepInv /\ Content
  BY RestartIInv DEF FInv, Flow
<1>2. UNCHANGED disk /\ fs' = Unmounted /\ fp' = [n \in Files |-> Closed] /\ stream' = Found
  BY DEF PowerLoss, Remount, Restart
<1>3. op' = Idle
  BY <1>1 DEF PowerLoss, Remount, StepInv
<1>4. Found' = Found /\ Unmounted' = Unmounted /\ DiskWay' = DiskWay
  BY <1>2 DEF Found, OnDisk, Chain, Unmounted, DiskWay
<1>5. \A n \in Files : \A p \in Nat : p < disk.dir[n].size => DiskWay[n][p \div BCS] \in Clusters
  BY <1>1 DEF Content, ContentOf, DiskOf
<1> QED
  BY <1>1, <1>2, <1>3, <1>4, <1>5 DEF Fresh

\* The clusters of the configuration follow one another.
LEMMA InitChain ==
  ASSUME Init, NEW n \in Files, NEW p \in Nat, p < disk.dir[n].size
  PROVE  /\ n = "config" /\ disk.dir[n].size = ConfigUnits
         /\ DiskWay[n][p \div BCS] = 2 + p \div BCS
         /\ 2 + p \div BCS \in ConfigClusters /\ 2 + p \div BCS \in Clusters
<1>0. Types /\ BCS \in Nat \ {0} /\ NFatEnt \in Nat
  BY InitIInv, Constants DEF IInv
<1> DEFINE last == (ConfigUnits - 1) \div BCS
<1>1. PICK config \in BOOLEAN :
         disk = [fat  |-> [c \in Clusters |-> IF c \notin ConfigClusters THEN 0
                             ELSE IF c + 1 \in ConfigClusters THEN c + 1 ELSE EOC],
                 dir  |-> [m \in Files |-> IF ~config \/ m # "config" THEN NoEntry
                             ELSE [there |-> TRUE, clust |-> 2, size |-> ConfigUnits]],
                 data |-> [s \in DataSectors |-> [i \in 0 .. SS - 1 |->
                             IF s \div CSize \in ConfigClusters
                               THEN <<"config", 0, (s - 2 * CSize) * SS + i>> ELSE Blank]],
                 hint |-> 0]
  BY DEF Init
<1>2. last \in Nat /\ last < ClusterCount /\ ClusterCount \in Nat /\ NFatEnt = ClusterCount + 2
  <2>1. ConfigUnits \in 1 .. ClusterCount * BCS /\ ClusterCount \in Nat
    BY LogFilesAssumption, FatFileAssumption
  <2>2. \A a, b \in Nat : a * b \in Nat
    OBVIOUS
  <2>3. ClusterCount * BCS \in Nat
    BY <1>0, <2>1, <2>2
  <2>4. ConfigUnits - 1 \in Nat /\ ConfigUnits - 1 < ClusterCount * BCS
    BY <2>1, <2>3
  <2>5. \A a, c \in Nat, b \in Nat \ {0} : a < c * b => a \div b < c
    <3> TAKE a, c \in Nat, b \in Nat \ {0}
    <3>1. /\ a \div b \in Nat /\ a % b \in Nat /\ a = b * (a \div b) + (a % b)
      OBVIOUS
    <3>2. ASSUME a \div b >= c
          PROVE  a >= c * b
      <4>1. \A x, y, z \in Nat : x >= y => z * x >= y * z
        OBVIOUS
      <4>2. b * (a \div b) >= c * b
        BY <3>1, <3>2, <4>1
      <4>3. b * (a \div b) \in Nat /\ c * b \in Nat
        BY <3>1, <2>2
      <4> QED
        BY <3>1, <4>2, <4>3
    <3>3. c * b \in Nat
      BY <2>2
    <3> QED
      BY <3>1, <3>2, <3>3
  <2> QED
    BY <1>0, <2>1, <2>4, <2>5 DEF NFatEnt
<1> HIDE DEF last
<1>3. ConfigClusters = 2 .. 2 + last /\ \A c \in ConfigClusters : c \in Clusters
  <2>1. ConfigClusters = 2 .. 2 + last
    BY DEF ConfigClusters, last
  <2> QED
    BY <1>2, <2>1, Constants
<1>4. /\ \A c \in Clusters : disk.fat[c] = IF c \notin ConfigClusters THEN 0
                               ELSE IF c + 1 \in ConfigClusters THEN c + 1 ELSE EOC
      /\ \A m \in Files : disk.dir[m].size # 0 =>
            m = "config" /\ disk.dir[m].clust = 2 /\ disk.dir[m].size = ConfigUnits
  BY <1>1 DEF NoEntry
<1> QED
  <2>1. n = "config" /\ disk.dir[n].clust = 2 /\ disk.dir[n].size = ConfigUnits /\ ConfigUnits \in Nat
    BY <1>0, <1>4, LogFilesAssumption, ViewTypes DEF Entry
  <2>2. disk.fat \in [Clusters -> Links] /\ 2 \in Links
    BY <1>0, ViewTypes, Constants DEF Links
  <2> DEFINE w == Walk(disk.fat, 2)
             T == {i \in Nat : i <= last => w[i] = 2 + i}
  <2>3. w[0] = 2 /\ \A i \in Nat : w[i + 1] = Succ(disk.fat, w[i])
    BY <2>2, WalkDef
  <2> HIDE DEF w
  <2>4. 0 \in T
    BY <2>3
  <2>5. \A i \in Nat : i \in T => i + 1 \in T
    <3> SUFFICES ASSUME NEW i \in Nat, i \in T, i + 1 <= last
                 PROVE  w[i + 1] = 2 + (i + 1)
      OBVIOUS
    <3>1. w[i] = 2 + i
      BY <1>2
    <3>2. 2 + i \in ConfigClusters /\ (2 + i) + 1 \in ConfigClusters
      BY <1>2, <1>3
    <3>3. 2 + i \in Clusters
      BY <1>3, <3>2
    <3> QED
      BY <1>4, <2>3, <3>1, <3>2, <3>3 DEF Succ
  <2> HIDE DEF T
  <2>6. \A i \in Nat : i \in T
    BY <2>4, <2>5, SetInduction
  <2>7. p \div BCS \in Nat /\ p \div BCS <= last
    <3>1. p <= ConfigUnits - 1 /\ ConfigUnits - 1 \in Nat
      BY <2>1
    <3>2. \A a, b \in Nat : \A d \in Nat \ {0} : a <= b => a \div d \in Nat /\ a \div d <= b \div d
      <4> TAKE a, b \in Nat
      <4> TAKE d \in Nat \ {0}
      <4> DEFINE x == a \div d
                 y == b \div d
      <4>1. /\ x \in Nat /\ a % d \in Nat /\ a = d * x + (a % d)
            /\ y \in Nat /\ b % d \in Nat /\ b % d < d /\ b = d * y + (b % d)
        OBVIOUS
      <4> HIDE DEF x, y
      <4>2. ASSUME a <= b, y + 1 <= x
            PROVE  FALSE
        <5>1. \A u, v, z \in Nat : u + 1 <= v => z * v >= z * u + z
          OBVIOUS
        <5>2. d * x >= d * y + d
          BY <4>1, <4>2, <5>1
        <5>3. \A u, v \in Nat : u * v \in Nat
          OBVIOUS
        <5>4. d * x \in Nat /\ d * y \in Nat
          BY <4>1, <5>3
        <5> QED
          BY <4>1, <4>2, <5>2, <5>4
      <4> QED
        BY <4>1, <4>2 DEF x, y
    <3> QED
      BY <1>0, <3>1, <3>2 DEF last
  <2>8. w[p \div BCS] = 2 + p \div BCS
    BY <2>6, <2>7 DEF T
  <2>9. 2 + p \div BCS \in ConfigClusters /\ 2 + p \div BCS \in Clusters
    BY <1>2, <1>3, <2>7
  <2> QED
    BY <2>1, <2>8, <2>9 DEF DiskWay, w

\* The card is not mounted at first.
LEMMA InitFresh == Init => Fresh
<1> SUFFICES ASSUME Init
             PROVE  Fresh
  OBVIOUS
<1>1. \A n \in Files : \A p \in Nat : p < disk.dir[n].size => DiskWay[n][p \div BCS] \in Clusters
  BY InitChain
<1> QED
  BY <1>1 DEF Init, Fresh

(***************************************************************************)
(* The invariant.                                                          *)
(***************************************************************************)
LEMMA NextFInv ==
  ASSUME FInv, [Next]_vars
  PROVE  FInv' \/ (Fresh' /\ IInv')
<1>1. CASE InCall
  BY <1>1, CallKeepsFInv DEF InCall
<1>2. CASE CallBegins
  BY <1>2, CallBeginsFInv
<1>3. CASE HeaderSkipped
  BY <1>3, HeaderSkippedFInv
<1>4. CASE CallReturns
  BY <1>4, CallReturnsFInv
<1>5. CASE Wake
  BY <1>5, WakeFInv
<1>6. CASE PowerLoss \/ Remount
  BY <1>6, RestartFresh
<1>7. CASE UNCHANGED vars
  <2>1. UNCHANGED <<disk, fs, fp, op, mounts, stream, line, faults, step, error>>
    BY <1>7 DEF vars, fileVars
  <2>2. /\ IInv' /\ UNCHANGED <<Fat, Dir, file>> /\ CallOf' = CallOf
    BY <1>7, <2>1, NextIInv DEF FInv, Fat, Dir, file, CallOf
  <2>3. UNCHANGED <<Start, Fp, fptr, Pending>>
    BY <2>1, <2>2 DEF Start, Fp, fptr, Pending
  <2>4. UNCHANGED <<Way, DiskWay, Sought>>
    BY <2>1, <2>2, <2>3 DEF Way, DiskWay, Sought
  <2>5. \A n : /\ Old(n)' = Old(n) /\ SizeOf(n)' = SizeOf(n) /\ InPlace(n)' = InPlace(n)
               /\ Still(n)' = Still(n) /\ Settled(n)' = Settled(n) /\ End(n)' = End(n)
    BY <2>1, <2>2, <2>3, <2>4 DEF Old, SizeOf, InPlace, Addr, Still, Settled, End
  <2>6. \A n, p : Addr(n, p)' = Addr(n, p) /\ OnCard(n, p)' = OnCard(n, p) /\ UnitAt(n, p)' = UnitAt(n, p)
    BY <2>1, <2>4 DEF Addr, OnCard, UnitAt
  <2>7. Flow'
    BY <2>1, <2>2, <2>3, <2>5, BeforeNames DEF FInv, Flow, StepInv, ClosedInv, OldInv, DirtyInv
  <2>8. Sizes'
    BY <2>1, <2>2, <2>3, <2>4, <2>5 DEF FInv, Sizes, StreamType, SizeInv, EndInv, SoughtInv, CallEnd
  <2>9. PlaceInv' /\ CallPlace' /\ CallSeek' /\ Clean'
    BY <2>1, <2>2, <2>3, <2>4, <2>5, <2>6 DEF FInv, PlaceInv, CallPlace, CallSeek, Clean
  <2>10. ASSUME NEW n \in Files
         PROVE  ContentOf(n)'
    <3>1. ContentOf(n)
      BY DEF FInv, Content
    <3>2. DataOf(n)'
      BY <2>1, <2>2, <2>4, <2>5, <2>6, <3>1 DEF ContentOf, DataOf
    <3>3. EntryOf(n)' /\ DiskOf(n)' /\ BufferOf(n)'
      BY <2>1, <2>2, <2>3, <2>4, <2>5, <3>1 DEF ContentOf, EntryOf, DiskOf, BufferOf
    <3> QED
      BY <3>2, <3>3 DEF ContentOf
  <2> QED
    BY <2>2, <2>7, <2>8, <2>9, <2>10 DEF FInv, Content
<1> QED
  BY <1>1, <1>2, <1>3, <1>4, <1>5, <1>6, <1>7 DEF Next, Caller

\* At every moment, whatever failed and wherever the power was lost: a file's chain
\* goes as far as the file, each of its units is in the buffer of the object or on
\* the card, and those that its entry counts are on the card (fatfs/src/ff.c).
THEOREM FilesInvariant == Spec => []FInv
<1>1. Init => FInv
  BY InitFresh, InitIInv, FreshFInv
<1>2. FInv /\ [Next]_vars => FInv' \/ (Fresh' /\ IInv')
  BY NextFInv
<1>3. Fresh /\ IInv => FInv
  BY FreshFInv
<1> QED
  BY <1>1, <1>2, <1>3, PTL DEF Spec

(***************************************************************************)
(* What is on the card is a beginning of what was written.                 *)
(***************************************************************************)
LEMMA Beginnings ==
  ASSUME NEW S, NEW s \in Seq(S), NEW j \in Nat, NEW k \in Nat, j <= k, k <= Len(s)
  PROVE  /\ SubSeq(s, 1, k) \in Seq(S) /\ Len(SubSeq(s, 1, k)) = k
         /\ IsPrefix(SubSeq(s, 1, j), SubSeq(s, 1, k)) /\ IsPrefix(SubSeq(s, 1, k), s)
         /\ SubSeq(s, 1, Len(s)) = s /\ SubSeq(s, 1, 0) = <<>> /\ IsPrefix(s, s)
<1>1. \A i \in Nat : i <= Len(s) =>
        /\ SubSeq(s, 1, i) \in Seq(S) /\ Len(SubSeq(s, 1, i)) = i
        /\ \A m \in 1 .. i : SubSeq(s, 1, i)[m] = s[m]
  OBVIOUS
<1>2. \A a, b \in Seq(S) : Len(a) = Len(b) /\ (\A m \in 1 .. Len(a) : a[m] = b[m]) => a = b
  OBVIOUS
<1>3. \A a \in Seq(S) : \A i \in Nat : i <= Len(a) =>
        SubSeq(a, 1, i) \in Seq(S) /\ Len(SubSeq(a, 1, i)) = i /\ \A m \in 1 .. i : SubSeq(a, 1, i)[m] = a[m]
  OBVIOUS
<1>4. \A i, m \in Nat : i <= m /\ m <= Len(s) => IsPrefix(SubSeq(s, 1, i), SubSeq(s, 1, m))
  <2> TAKE i, m \in Nat
  <2> HAVE i <= m /\ m <= Len(s)
  <2> DEFINE a == SubSeq(s, 1, i)
             b == SubSeq(s, 1, m)
  <2>1. /\ a \in Seq(S) /\ Len(a) = i /\ b \in Seq(S) /\ Len(b) = m
        /\ \A x \in 1 .. i : a[x] = s[x] /\ b[x] = s[x]
    BY <1>1
  <2>2. /\ SubSeq(a, 1, i) \in Seq(S) /\ Len(SubSeq(a, 1, i)) = i /\ SubSeq(b, 1, i) \in Seq(S)
        /\ Len(SubSeq(b, 1, i)) = i
        /\ \A x \in 1 .. i : SubSeq(a, 1, i)[x] = a[x] /\ SubSeq(b, 1, i)[x] = b[x]
    BY <1>3, <2>1
  <2> HIDE DEF a, b
  <2>3. SubSeq(a, 1, i) = SubSeq(b, 1, i)
    BY <1>2, <2>1, <2>2
  <2> QED
    BY <2>1, <2>3 DEF IsPrefix, a, b
<1>5. SubSeq(s, 1, Len(s)) = s /\ Len(s) \in Nat
  OBVIOUS
<1>6. SubSeq(s, 1, 0) = <<>>
  OBVIOUS
<1>7. IsPrefix(SubSeq(s, 1, j), SubSeq(s, 1, k))
  BY <1>4
<1>8. IsPrefix(SubSeq(s, 1, k), SubSeq(s, 1, Len(s))) /\ IsPrefix(SubSeq(s, 1, Len(s)), SubSeq(s, 1, Len(s)))
  BY <1>4, <1>5
<1> QED
  BY <1>1, <1>5, <1>6, <1>7, <1>8

\* What the card has of a file whose entry is not an old one.
OnDiskFact ==
  FInv => \A n \in Files : ~Old(n) =>
    /\ disk.dir[n].size \in Nat /\ disk.dir[n].size <= Len(stream[n])
    /\ OnDisk(n) = SubSeq(stream[n], 1, disk.dir[n].size)

\* A reader of the card finds a beginning of what was written.
LEMMA OnDiskIs == OnDiskFact
<1> SUFFICES ASSUME FInv, NEW n \in Files, ~Old(n)
             PROVE  /\ disk.dir[n].size \in Nat /\ disk.dir[n].size <= Len(stream[n])
                    /\ OnDisk(n) = SubSeq(stream[n], 1, disk.dir[n].size)
  BY DEF OnDiskFact
<1> DEFINE size == disk.dir[n].size
           s == stream[n]
<1>1. Types /\ ContentOf(n) /\ s \in Seq(Unit) /\ size \in Nat
  BY ViewTypes DEF FInv, IInv, Content, Sizes, StreamType, Entry
<1>2. size <= Dir[n].size /\ Dir[n].size <= Len(s) /\ Len(s) <= End(n) /\ Dir[n].size \in Nat /\ Len(s) \in Nat
      /\ End(n) \in Nat
  BY <1>1, EndBound DEF Old
<1>3. \A p \in Nat : p < size => DiskWay[n][p \div BCS] \in Clusters /\ DiskWay[n][p \div BCS] = Way[n][p \div BCS]
  BY <1>1 DEF ContentOf, DiskOf
<1>4. /\ OnDisk(n) \in Seq(Unit) /\ Len(OnDisk(n)) = size
      /\ \A p \in Nat : p < size => OnDisk(n)[p + 1] = OnCard(n, p)
  BY <1>1, <1>3, FoundUnits DEF OnCard, Addr
<1>5. ASSUME NEW p \in Nat, p < size
      PROVE  OnDisk(n)[p + 1] = s[p + 1]
  <2>1. p < Len(s) /\ p < End(n) /\ p < Dir[n].size
    BY <1>1, <1>2, <1>5
  <2>2. OnCard(n, p) = UnitAt(n, p)
    BY <1>1, <2>1 DEF ContentOf, DataOf
  <2> QED
    BY <1>4, <1>5, <2>1, <2>2 DEF UnitAt
<1>6. size <= Len(s)
  BY <1>1, <1>2
<1> DEFINE d == OnDisk(n)
<1>7. d \in Seq(Unit) /\ Len(d) = size /\ \A i \in 1 .. size : d[i] = s[i]
  <2>1. \A i \in 1 .. size : i - 1 \in Nat /\ i - 1 < size /\ (i - 1) + 1 = i
    BY <1>1
  <2> QED
    BY <1>4, <1>5, <2>1
<1> HIDE DEF d, s, size
<1>8. SubSeq(s, 1, size) \in Seq(Unit) /\ Len(SubSeq(s, 1, size)) = size
      /\ \A i \in 1 .. size : SubSeq(s, 1, size)[i] = s[i]
  BY <1>1, <1>6
<1>9. d = SubSeq(s, 1, size)
  <2>1. \A a, b \in Seq(Unit) : Len(a) = Len(b) /\ (\A m \in 1 .. Len(a) : a[m] = b[m]) => a = b
    OBVIOUS
  <2> QED
    BY <1>7, <1>8, <2>1
<1> QED
  BY <1>1, <1>6, <1>9 DEF d, s, size

\* and does so after a step.
LEMMA OnDiskNext == OnDiskFact'
BY OnDiskIs, PTL

(***************************************************************************)
(* The theorems.                                                           *)
(***************************************************************************)
\* An open log is as long as what was written to it (f_write() sets fsize at
\* its end; f_open() takes it from the entry, which f_sync() has set).
THEOREM SizeAlwaysWritten == Spec => []SizeIsWritten
<1>1. FInv => SizeIsWritten
  BY FilesNamed DEF FInv, Sizes, SizeInv, SizeOf, SizeIsWritten, Logs, Log
<1> QED
  BY <1>1, FilesInvariant, PTL

\* When f_sync() has written the window back, the card holds what was written.
THEOREM SyncAlwaysDurable == Spec => SyncIsDurable
<1>1. ASSUME FInv, [Next]_vars, op.at = "sync", op'.at = "synced"
      PROVE  OnDisk(file)' = stream[file]
  <2>1. InCall
    <3>1. ~UNCHANGED vars
      BY <1>1 DEF vars, fileVars
    <3>2. ~CallBegins /\ ~HeaderSkipped /\ ~CallReturns /\ ~Remount
      BY <1>1 DEF CallBegins, HeaderSkipped, CallReturns, Remount
    <3>3. ~Wake /\ ~PowerLoss
      BY <1>1 DEF Wake, PowerLoss, Idle, fileVars
    <3> QED
      BY <1>1, <3>1, <3>2, <3>3 DEF Next, Caller
  <2>2. CallStep /\ FInv' /\ IInv /\ file' = file /\ file \in Files /\ Types /\ Control /\ op.at # "out"
        /\ fp[file].fs /\ WindowInv
    BY <1>1, <2>1, CallKeepsFInv, InStep DEF InCall, FInv, Control, CallInv, AtFile
  <2>3. SyncFs
    <3>1. SyncWindow \/ MoveWindow => op' = op \/ op'.at = "ret"
      BY <1>1, <2>2, WindowEffect, LeaveEffect
    <3> QED
      BY <1>1, <2>2, <3>1 DEF CallStep, Check, MountVolume, Root, OpenExisting, Truncate, RemoveChain, OpenCreated,
         Follow, Scan, Allocate, Link, WriteBack, Place, NextChunk, CopyIn, WriteEnds, SeekTop, Seek,
         SeekEnds, NextByte, CopyOut, GetsEnds, Flushed, UpdateEntry, SyncEnds
  <2>4. UNCHANGED <<fp, stream>> /\ disk'.dir = disk.dir /\ disk.dir = Dir
    BY <2>2, <2>3, ViewTypes DEF SyncFs, DiskWrite, WindowInv, CardState
  <2>5. PICK n \in Files : n = file
    BY <2>2
  <2>6. disk'.dir[n].size = Len(stream'[n]) /\ stream'[n] = stream[n] /\ stream[n] \in Seq(Unit)
    BY <1>1, <2>2, <2>4, <2>5 DEF FInv, Sizes, SizeInv, SizeOf, Fp, StreamType
  <2>7. ~Old(n)'
    <3>1. Dir' = Dir
      BY <2>2, <2>3, WindowView DEF SameView, IInv, Volume
    <3> QED
      BY <2>2, <2>4, <3>1, ViewTypes DEF Old, Entry
  <2>8. OnDisk(n)' = SubSeq(stream'[n], 1, disk'.dir[n].size)
    BY <2>2, <2>7, OnDiskNext DEF OnDiskFact
  <2>9. SubSeq(stream[n], 1, Len(stream[n])) = stream[n]
    BY <2>6
  <2>10. OnDisk(n)' = stream[n]
    BY <2>6, <2>8, <2>9
  <2> QED
    BY <2>2, <2>5, <2>10
<1>2. FInv /\ [Next]_vars => [op.at = "sync" /\ op'.at = "synced" => OnDisk(file)' = stream[file]]_vars
  BY <1>1
<1> QED
  BY <1>2, FilesInvariant, PTL DEF Spec, SyncIsDurable

\* The entries on the card are only changed by writing the window.
LEMMA CardEntries ==
  ASSUME IInv, CallStep
  PROVE  disk'.dir = disk.dir \/ disk'.dir = Dir
<1>0. Types /\ Control
  BY DEF IInv
<1>1. CASE SyncWindow
  BY <1>0, <1>1, ViewTypes, WindowTypes DEF SyncWindow, DiskWrite, WindowWritten, Dir, CardState
<1>2. CASE MoveWindow
  BY <1>2 DEF MoveWindow, DiskRead
<1>3. CASE SyncFs
  BY <1>0, <1>3, ViewTypes DEF SyncFs, DiskWrite, CardState
<1>4. CASE TableStep
  BY <1>0, <1>4, TruncateEffect, RemoveEffect, AllocateEffect, LinkEffect, UpdateEffect DEF TableStep
<1>5. CASE ~(SyncWindow \/ MoveWindow \/ SyncFs) /\ ~TableStep
  BY <1>5, StepView
<1> QED
  BY <1>1, <1>2, <1>3, <1>4, <1>5

\* What a step does to a log and to what the card has of it.
LEMMA LogStep ==
  ASSUME FInv, [Next]_vars, NEW l \in Logs
  PROVE  LET d == OnDisk(l)
             w == stream[l]
         IN \/ IsPrefix(d, w) /\ IsPrefix(w, w') /\ d' = d
            \/ w' = <<>> /\ d' = d
            \/ w = <<>> /\ d' = <<>> /\ w' = <<>>
            \/ IsPrefix(d, d') /\ IsPrefix(d', w) /\ w' = w
            \/ w' = d /\ d' = d
<1> DEFINE d == OnDisk(l)
           w == stream[l]
<1>0. IInv /\ l \in Files /\ Types /\ OldInv /\ StreamType
  BY FilesNamed DEF Logs, Log, FInv, Flow, IInv, Sizes
<1>1. w \in Seq(Unit) /\ Len(w) \in Nat
  BY <1>0 DEF StreamType
<1>2. ~Old(l) => IsPrefix(d, w)
  <2> SUFFICES ASSUME ~Old(l)
               PROVE  IsPrefix(d, w)
    OBVIOUS
  <2>1. disk.dir[l].size \in Nat /\ disk.dir[l].size <= Len(w) /\ d = SubSeq(w, 1, disk.dir[l].size)
    BY <1>0, OnDiskIs DEF OnDiskFact
  <2> HIDE DEF d, w
  <2> QED
    BY <1>1, <2>1, Beginnings
<1>3. IsPrefix(w, w)
  BY <1>1, Beginnings
<1>4. ASSUME disk' = disk
      PROVE  d' = d
  BY <1>4 DEF OnDisk, Chain
<1>5. Old(l) => w = <<>>
  BY <1>0 DEF OldInv
<1>6. CASE disk' = disk /\ w' = w
  <2>1. d' = d
    BY <1>4, <1>6
  <2> QED
    BY <1>2, <1>3, <1>5, <1>6, <2>1
<1>7. CASE PowerLoss \/ Remount
  <2>1. disk' = disk /\ stream' = Found
    BY <1>7 DEF PowerLoss, Remount, Restart
  <2>2. w' = OnDisk(l)
    BY <1>0, <2>1 DEF Found
  <2>3. d' = d
    BY <1>4, <2>1
  <2> QED
    BY <2>2, <2>3
<1>8. CASE Caller \/ UNCHANGED vars
  <2>1. UNCHANGED <<disk, stream>>
    BY <1>8 DEF Caller, CallBegins, HeaderSkipped, CallReturns, Wake, vars, fileVars
  <2> QED
    BY <1>6, <2>1
<1>9. CASE InCall
  <2>1. /\ CallStep /\ FInv' /\ Types /\ Control /\ op.at # "out" /\ file \in Files
        /\ \A n \in Files : n # file => OtherKept(n)
    <3>1. Types'
      BY <1>0, <1>9, CallKeepsIInv DEF InCall, IInv
    <3> QED
      BY <1>0, <1>9, <3>1, CallKeepsFInv, InStep, OthersKept DEF InCall
  <2>2. CASE TableStep /\ ~Truncate
    <3>1. UNCHANGED <<disk, stream>>
      BY <2>1, <2>2, RemoveEffect, AllocateEffect, LinkEffect, UpdateEffect DEF TableStep
    <3> QED
      BY <1>6, <3>1
  <2>3. CASE Truncate
    <3>1. disk' = disk /\ stream' = [stream EXCEPT ![file] = <<>>]
      BY <2>1, <2>3, TruncateEffect
    <3>2. CASE l = file
      <4>1. w' = <<>> /\ d' = d
        BY <1>0, <1>4, <3>1, <3>2 DEF StreamType
      <4> QED
        BY <4>1
    <3>3. CASE l # file
      BY <1>0, <1>6, <2>1, <3>1, <3>3 DEF OtherKept
    <3> QED
      BY <3>2, <3>3
  <2>4. CASE WriteEnds
    <3>1. disk' = disk
      BY <2>4 DEF WriteEnds
    <3>2. CASE l = file
      <4>1. SubSeq(stream'[l], 1, Len(w)) = w /\ Len(stream'[l]) = fp[l].fptr /\ Len(w) <= fp[l].fptr /\ Pending
            /\ stream'[l] \in Seq(Unit)
        BY <1>0, <2>4, <3>2, StreamGrows
      <4>2. IsPrefix(w, w')
        <5>1. SubSeq(w, 1, Len(w)) = w
          BY <1>1, Beginnings
        <5>2. Len(w) <= Len(stream'[l])
          BY <4>1
        <5> QED
          BY <4>1, <5>1, <5>2 DEF IsPrefix
      <4>3. ~Old(l)
        BY <1>0, <2>1, <4>1 DEF OldInv, Pending
      <4>4. d' = d
        BY <1>4, <3>1
      <4> QED
        BY <1>2, <4>2, <4>3, <4>4
    <3>3. CASE l # file
      BY <1>0, <1>6, <2>1, <3>1, <3>3 DEF OtherKept
    <3> QED
      BY <3>2, <3>3
  <2>5. CASE ~TableStep /\ ~WriteEnds
    <3>1. UNCHANGED stream
      BY <2>1, <2>5 DEF TableStep, CallStep, Check, MountVolume, Root, OpenExisting, OpenCreated,
         Follow, Scan, WriteBack, Place, NextChunk, CopyIn, SeekTop, Seek,
         SeekEnds, NextByte, CopyOut, GetsEnds, Flushed, SyncFs, SyncEnds, SyncWindow, MoveWindow
    <3>2. Dir' = Dir /\ disk' \in CardState
      <4>1. Types'
        BY <2>1 DEF FInv, IInv
      <4> QED
        BY <1>0, <2>1, <2>5, <4>1, StepView DEF SameView, Types, DiskType, CardState
    <3>3. disk'.dir = disk.dir \/ disk'.dir = Dir
      BY <1>0, <2>1, CardEntries
    <3>4. Dir[l].size \in Nat /\ disk.dir[l].size \in Nat /\ w' = w
      BY <1>0, <3>1, ViewTypes DEF Entry
    <3>5. CASE disk' = disk
      BY <1>6, <3>4, <3>5
    <3>6. CASE disk' # disk /\ Old(l)
      <4>1. op.at = "remove"
        BY <1>0, <2>1, <3>6, InStep DEF OldInv
      <4>2. SyncWindow
        BY <2>1, <2>5, <3>6, <4>1 DEF TableStep, CallStep, Check, MountVolume, Root, OpenExisting, OpenCreated,
         Follow, Scan, WriteBack, Place, NextChunk, CopyIn, SeekTop, Seek, MoveWindow, DiskRead,
         SeekEnds, NextByte, CopyOut, GetsEnds, Flushed, SyncFs, SyncEnds
      <4>3. disk' = WindowWritten
        BY <3>6, <4>2 DEF SyncWindow, DiskWrite
      <4>4. disk'.dir = Dir
        BY <1>0, <4>3, ViewTypes, WindowTypes DEF WindowWritten, Dir, CardState
      <4>5. ~Old(l)'
        BY <3>2, <3>4, <4>4 DEF Old
      <4>6. OnDisk(l)' = SubSeq(stream'[l], 1, disk'.dir[l].size) /\ disk'.dir[l].size <= Len(stream'[l])
            /\ disk'.dir[l].size \in Nat
        BY <1>0, <2>1, <4>5, OnDiskNext DEF OnDiskFact
      <4>7. w = <<>>
        BY <1>5, <3>6
      <4>8. disk'.dir[l].size = 0
        BY <3>4, <4>6, <4>7
      <4>9. OnDisk(l)' = <<>>
        BY <3>4, <4>6, <4>7, <4>8
      <4> QED
        BY <3>4, <4>7, <4>9
    <3>7. CASE ~Old(l)
      <4>1. disk'.dir[l].size \in Nat /\ disk.dir[l].size <= disk'.dir[l].size /\ ~Old(l)'
        BY <3>2, <3>3, <3>4, <3>7 DEF Old
      <4>2. OnDisk(l)' = SubSeq(w', 1, disk'.dir[l].size) /\ disk'.dir[l].size <= Len(w')
        BY <1>0, <2>1, <4>1, OnDiskNext DEF OnDiskFact
      <4>3. d = SubSeq(w, 1, disk.dir[l].size)
        BY <1>0, <3>7, OnDiskIs DEF OnDiskFact
      <4>4. IsPrefix(d, d') /\ IsPrefix(d', w)
        <5> DEFINE j == disk.dir[l].size
                   k == disk'.dir[l].size
                   s == stream[l]
        <5>1. j \in Nat /\ k \in Nat /\ j <= k /\ k <= Len(s) /\ s \in Seq(Unit)
          BY <1>1, <3>4, <4>1, <4>2
        <5>2. OnDisk(l)' = SubSeq(s, 1, k) /\ OnDisk(l) = SubSeq(s, 1, j)
          BY <3>4, <4>2, <4>3
        <5> HIDE DEF j, k, s
        <5>3. IsPrefix(SubSeq(s, 1, j), SubSeq(s, 1, k)) /\ IsPrefix(SubSeq(s, 1, k), s)
          BY <5>1, Beginnings
        <5> QED
          BY <5>2, <5>3 DEF s
      <4> QED
        BY <3>4, <4>4
    <3> QED
      BY <3>5, <3>6, <3>7
  <2> QED
    BY <2>2, <2>3, <2>4, <2>5 DEF TableStep
<1> QED
  BY <1>7, <1>8, <1>9 DEF Next

\* The card has nothing of the logs at first.
LEMMA InitDurable == Init => Durable!Init
<1> SUFFICES ASSUME Init
             PROVE  Durable!Init
  OBVIOUS
<1>1. \A l \in Logs : l \in Files /\ l # "config"
  BY FilesNamed DEF Logs, Log
<1>2. stream = Found /\ \A n \in Files : n # "config" => disk.dir[n].size = 0
  BY DEF Init, NoEntry
<1>3. \A l \in Logs : OnDisk(l) = <<>> /\ stream[l] = OnDisk(l)
  BY <1>1, <1>2 DEF OnDisk, Found
<1> QED
  BY <1>3 DEF Durable!Init

\* What is on the card of a log is what was written of it up to a point, which
\* only moves forward until the file is created anew, and a program that starts
\* again goes on with what is there (f_sync(), f_write(), f_open() and the order in
\* which the data, the FAT and the entry are written).
THEOREM LogsAlwaysDurable == Spec => LogsAreDurable
<1>1. Init => Durable!Init
  BY InitDurable
<1>2. FInv /\ [Next]_vars => [Durable!Next]_(Durable!vars)
  <2> SUFFICES ASSUME FInv, [Next]_vars
               PROVE  Durable!Next
    OBVIOUS
  <2> QED
    BY LogStep DEF Durable!Next, Durable!Append_, Durable!Recreate, Durable!Truncate, Durable!Commit,
                   Durable!Lose, Durable!IsPrefix, IsPrefix
<1> QED
  BY <1>1, <1>2, FilesInvariant, PTL DEF Spec, LogsAreDurable, Durable!Spec

(***************************************************************************)
(* The configuration, and what f_gets() has read of it.                    *)
(***************************************************************************)
ConfigEntry   == [there |-> TRUE, clust |-> 2, size |-> ConfigUnits]
ConfigContent == [i \in 1 .. ConfigUnits |-> <<"config", 0, i - 1>>]

\* Where a line can end.
LineEnds == {i \in 1 .. ConfigUnits : ConfigContent[i] \in Newlines \/ i = LineUnits - 1 \/ i = ConfigUnits}

\* k units were read, none behind the end of the first line.
ReadTo(k) == /\ k \in 0 .. ConfigUnits /\ line = SubSeq(ConfigContent, 1, k)
             /\ \A i \in LineEnds : k <= i

Cfg == fp["config"]

\* Nothing writes the configuration.
ConfigKept ==
  /\ disk.dir["config"] \in {NoEntry, ConfigEntry} /\ Dir["config"] = disk.dir["config"]
  /\ stream["config"] = IF disk.dir["config"].there THEN ConfigContent ELSE <<>>
  /\ Cfg.fs => disk.dir["config"].there /\ ~Cfg.written
  /\ op.at \in {"flush", "entry", "sync"} => file # "config"

LineInv ==
  /\ \E k \in Nat : ReadTo(k)
  /\ step = "cfg_open" /\ op.at = "ret" /\ op.res = "FR_OK" => Cfg.fs /\ ~Cfg.err /\ Cfg.fptr = 0
  /\ step = "cfg_gets" =>
       /\ Cfg.fs
       /\ op.at \in {"out", "check"} => ~Cfg.err /\ Cfg.fptr = 0
       /\ op.at = "check" => line = <<>> /\ op.left = LineUnits - 1
       /\ op.at \in {"byte", "follow", "place", "copy"} =>
            /\ ReadTo(Cfg.fptr)
            /\ op.left = 0 => Cfg.fptr \in LineEnds
            /\ op.left # 0 => op.left = LineUnits - 1 - Cfg.fptr /\ Cfg.fptr \notin LineEnds \ {ConfigUnits}
       /\ op.at = "ret" /\ ~Cfg.err => \E k \in LineEnds : ReadTo(k)

ConfigInv == ConfigKept /\ LineInv

\* The configuration, and where its first line can end.
LEMMA ConfigKnown ==
  /\ "config" \in Files /\ "config" \notin Logs
  /\ ConfigUnits \in Nat \ {0} /\ LineUnits - 1 \in Nat \ {0}
  /\ ConfigContent \in Seq(Unit) /\ Len(ConfigContent) = ConfigUnits
  /\ NoEntry.size = 0 /\ ~NoEntry.there /\ ConfigEntry.size = ConfigUnits /\ ConfigEntry.there
  /\ LineEnds \subseteq 1 .. ConfigUnits /\ ConfigUnits \in LineEnds
  /\ SubSeq(ConfigContent, 1, 0) = <<>>
<1>1. "config" \in Files /\ "config" \notin Logs
  BY FilesNamed DEF Logs, Log
<1>2. ConfigUnits \in Nat \ {0} /\ LineUnits - 1 \in Nat \ {0}
  <2>1. ClusterCount \in Nat /\ BCS \in Nat
    BY FatFileAssumption, Constants
  <2>2. \A a, b \in Nat : a * b \in Nat
    OBVIOUS
  <2>3. ClusterCount * BCS \in Nat
    BY <2>1, <2>2
  <2> QED
    BY <2>3, LogFilesAssumption
<1>3. \A i \in 1 .. ConfigUnits : <<"config", 0, i - 1>> \in Unit
  <2>1. \A i \in 1 .. ConfigUnits : i - 1 \in Nat
    BY <1>2
  <2> QED
    BY <1>1, <2>1 DEF Unit
<1>4. ConfigContent \in Seq(Unit) /\ Len(ConfigContent) = ConfigUnits
  BY <1>2, <1>3 DEF ConfigContent
<1>5. SubSeq(ConfigContent, 1, 0) = <<>>
  BY <1>2, <1>4, Beginnings
<1>6. LineEnds \subseteq 1 .. ConfigUnits /\ ConfigUnits \in LineEnds
  BY <1>2 DEF LineEnds
<1> QED
  BY <1>1, <1>2, <1>4, <1>5, <1>6 DEF NoEntry, ConfigEntry

\* The calls that reach the configuration.
LEMMA ConfigCalls ==
  ASSUME IInv, StepInv, op.at # "out"
  PROVE  /\ file = "config" => op.call \in {"open", "gets", "close"}
         /\ (file = "config" /\ op.call = "open") <=> step = "cfg_open"
         /\ (file = "config" /\ op.call = "gets") <=> step = "cfg_gets"
         /\ op.call = "gets" => file = "config"
<1>1. op.call = CallOf[step][1] /\ file = CallOf[step][2] /\ step \in Steps
  BY DEF StepInv, IInv, Control, CallInv
<1> QED
  BY <1>1 DEF CallOf, Steps, Log

\* A step of a call that leaves the line, and the object but for its buffer, alone.
LEMMA LineStays ==
  ASSUME ConfigInv, UNCHANGED <<line, step>>, Cfg'.fptr = Cfg.fptr, Cfg'.err <=> Cfg.err, Cfg'.fs <=> Cfg.fs,
         op'.left = op.left,
         \/ op'.at = op.at /\ op'.res = op.res
         \/ /\ op'.at \notin {"out", "check", "ret"}
            /\ op'.at \in {"byte", "follow", "place", "copy"} /\ step = "cfg_gets"
                 => op.at \in {"byte", "follow", "place", "copy"}
  PROVE  LineInv'
<1>1. \A k : ReadTo(k)' <=> ReadTo(k)
  BY DEF ReadTo, LineEnds, ConfigContent
<1>2. LineEnds' = LineEnds
  BY DEF LineEnds, ConfigContent
<1> QED
  BY <1>1, <1>2 DEF ConfigInv, LineInv

\* A call on the configuration that fails.
LEMMA LineFails ==
  ASSUME ConfigInv, UNCHANGED <<line, step>>, op'.at = "ret", op'.res # "FR_OK",
         step = "cfg_gets" => Cfg'.err /\ Cfg'.fs
  PROVE  LineInv'
<1>1. \A k : ReadTo(k)' <=> ReadTo(k)
  BY DEF ReadTo, LineEnds, ConfigContent
<1> QED
  BY <1>1 DEF ConfigInv, LineInv

\* Calls on other files.
LEMMA OtherConfig ==
  ASSUME FInv, Types', ConfigInv, CallStep, UNCHANGED step, file # "config"
  PROVE  ConfigInv'
<1>0. /\ IInv /\ StepInv /\ op.at \notin {"out", "ret"} /\ op'.at \notin {"out", "check"} /\ file' = file
      /\ Types /\ Control
  BY InStep DEF FInv, Flow
<1>1. OtherKept("config")
  BY ConfigKnown, OthersKept
<1>2. step \notin {"cfg_open", "cfg_gets"} /\ op.call # "gets"
  BY <1>0, ConfigCalls
<1>3. line' = line
  BY <1>2 DEF CallStep, Check, MountVolume, Root, OpenExisting, Truncate, RemoveChain, OpenCreated,
     Follow, Scan, Allocate, Link, WriteBack, Place, NextChunk, CopyIn, WriteEnds, SeekTop, Seek,
     SeekEnds, NextByte, CopyOut, GetsEnds, Flushed, UpdateEntry, SyncFs, SyncEnds,
     SyncWindow, MoveWindow
<1>4. disk'.dir["config"] = disk.dir["config"]
  BY <1>0, CardEntries DEF ConfigInv, ConfigKept
<1>5. ConfigKept'
  BY <1>0, <1>1, <1>4 DEF OtherKept, ConfigInv, ConfigKept, Cfg
<1>6. LineInv'
  <2>1. \A k : ReadTo(k)' <=> ReadTo(k)
    BY <1>3 DEF ReadTo, LineEnds, ConfigContent
  <2> QED
    BY <1>2, <2>1 DEF ConfigInv, LineInv
<1> QED
  BY <1>5, <1>6 DEF ConfigInv

\* The steps of the calls on the configuration.
LEMMA ConfigSteps ==
  ASSUME FInv, ConfigInv, CallStep, file = "config"
  PROVE  /\ ~TableStep
         /\ \/ Check \/ SyncWindow \/ MoveWindow \/ MountVolume \/ Root \/ OpenExisting
            \/ Follow \/ WriteBack \/ Place \/ NextByte \/ CopyOut \/ GetsEnds \/ SyncEnds
<1>0. /\ IInv /\ StepInv /\ CallInv /\ CallPlace /\ op.at \notin {"out", "ret", "flush", "entry", "sync"}
  BY InStep DEF FInv, Flow, Control, IInv, ConfigInv, ConfigKept
<1>1. op.call \in {"open", "gets", "close"}
  BY <1>0, ConfigCalls
<1>2. op.at \notin {"remove", "back", "scan", "link", "full", "top", "seek"}
  BY <1>0, <1>1 DEF StepInv, CallInv, CallPlace
<1>3. ~(Truncate \/ RemoveChain \/ OpenCreated \/ Scan \/ Allocate \/ Link \/ NextChunk \/ CopyIn \/ WriteEnds
        \/ SeekTop \/ Seek \/ SeekEnds \/ Flushed \/ UpdateEntry \/ SyncFs)
  BY <1>0, <1>1, <1>2 DEF Truncate, RemoveChain, OpenCreated, Scan, Allocate, Link, NextChunk, CopyIn, WriteEnds,
     SeekTop, Seek, SeekEnds, Flushed, UpdateEntry, SyncFs
<1> QED
  BY <1>3 DEF CallStep, TableStep

\* A call on the configuration does not write it.
LEMMA OwnConfigKept ==
  ASSUME FInv, ConfigInv, CallStep, file = "config", line' = line \/ CopyOut,
         Cfg'.fs => \/ Cfg.fs /\ (Cfg'.written <=> Cfg.written)
                    \/ disk.dir["config"].there /\ ~Cfg'.written,
         op'.at \notin {"flush", "entry", "sync"}
  PROVE  ConfigKept'
<1>0. /\ IInv /\ ~TableStep /\ Dir' = Dir /\ ConfigKept
  BY ConfigSteps, StepView DEF FInv, SameView, ConfigInv
<1>1. disk'.dir["config"] = disk.dir["config"]
  BY <1>0, CardEntries DEF ConfigKept
<1>2. stream' = stream
  BY ConfigSteps DEF Check, SyncWindow, MoveWindow, MountVolume, Root, OpenExisting, Follow, WriteBack, Place,
    NextByte, CopyOut, GetsEnds, SyncEnds
<1> QED
  BY <1>0, <1>1, <1>2 DEF ConfigKept

\* What is known at a step of a call on the configuration.
LEMMA ConfigFacts ==
  ASSUME FInv, ConfigInv, CallStep, file = "config"
  PROVE  /\ IInv /\ Types /\ Control /\ op.at \notin {"out", "ret"} /\ op'.at \notin {"out", "check"}
         /\ Cfg = fp[file] /\ Cfg \in FileObject /\ file' = file /\ Cfg' = fp'[file] /\ OpType
         /\ op.call \in {"open", "gets", "close"} /\ fptr = Cfg.fptr /\ Cfg.fptr \in Nat
         /\ op.call = "open" <=> step = "cfg_open"
         /\ op.call = "gets" <=> step = "cfg_gets"
         /\ op.at \in AtFile => Cfg.fs /\ op.call # "open"
         /\ op.at \in {"byte", "follow", "place", "copy"} => step = "cfg_gets" /\ ~Cfg.err
         /\ Cfg.fs => Cfg.fsize = ConfigUnits /\ Len(stream["config"]) = ConfigUnits /\ Cfg.fptr <= ConfigUnits
                      /\ stream["config"] = ConfigContent
<1>0. /\ IInv /\ StepInv /\ CallInv /\ OpType /\ Types /\ Control /\ op.at \notin {"out", "ret"}
      /\ op'.at \notin {"out", "check"} /\ file' = file /\ fp[file] \in FileObject /\ fptr = fp[file].fptr
  BY InStep DEF FInv, Flow, Control
<1>1. /\ op.call \in {"open", "gets", "close"} /\ (op.call = "open" <=> step = "cfg_open")
      /\ (op.call = "gets" <=> step = "cfg_gets")
  BY <1>0, ConfigCalls
<1>2. Cfg = fp[file] /\ Cfg' = fp'[file] /\ Fp = Cfg
  BY <1>0 DEF Cfg, Fp
<1>3. op.at \in AtFile => Cfg.fs /\ op.call # "open"
  BY <1>0, <1>2 DEF CallInv, Opening
<1>4. op.at \in {"byte", "follow", "place", "copy"} => step = "cfg_gets" /\ ~Cfg.err
  BY <1>0, <1>1, <1>2 DEF CallInv, StepInv, AtFile, InSync
<1>5. Cfg.fs => Cfg.fsize = ConfigUnits /\ Len(stream["config"]) = ConfigUnits /\ Cfg.fptr <= ConfigUnits
                /\ stream["config"] = ConfigContent
  BY ConfigKnown DEF Cfg, FInv, Sizes, SizeInv, SizeOf, EndInv, SoughtInv, ConfigInv, ConfigKept
<1>6. Cfg.fptr \in Nat
  BY <1>0, <1>2 DEF FileObject
<1> QED
  BY <1>0, <1>1, <1>2, <1>3, <1>4, <1>5, <1>6

\* f_gets() takes the next unit of the configuration.
LEMMA ReadNext ==
  ASSUME FInv, ConfigInv, CallStep, CopyOut, file = "config"
  PROVE  ConfigInv'
<1>k. PICK k \in Nat : k = Cfg.fptr
  BY ConfigFacts DEF CopyOut
<1> DEFINE u == ConfigContent[k + 1]
<1>0. /\ IInv /\ Types /\ Control /\ op.at = "copy" /\ op.at # "out" /\ Cfg = fp[file] /\ Cfg' = fp'[file] /\ k \in Nat
      /\ step = "cfg_gets" /\ Cfg.fs /\ ~Cfg.err /\ stream["config"] = ConfigContent /\ fptr = k /\ op.left \in Nat
      /\ Len(stream["config"]) = ConfigUnits /\ Cfg.fsize = ConfigUnits /\ op.call = "gets"
  BY <1>k, ConfigFacts, InStep DEF CopyOut, AtFile
<1>1. /\ op'.at = "byte" /\ op'.left = IF fp[file].buf[k % SS] \in Newlines THEN 0 ELSE op.left - 1
      /\ line' = Append(line, fp[file].buf[k % SS]) /\ UNCHANGED <<disk, fs, mounts, stream>>
      /\ AllBut(Cfg', Cfg, {"fptr"}) /\ Cfg'.fptr = k + 1
  BY <1>0, <1>k, CopyOutEffect
<1>2. k < ConfigUnits /\ op.left > 0
  BY <1>0, <1>k DEF FInv, Sizes, CallEnd, Fp, Control, LeftInv
<1>3. fp[file].buf[k % SS] = u
  <2>1. "config" \in Files /\ ContentOf("config")
    BY ConfigKnown DEF FInv, Content
  <2>2. k < End("config")
    BY <1>0, <1>2, <2>1, EndBound
  <2>3. Cfg.dsect = Addr("config", k)
    BY <1>0, <1>k DEF FInv, CallPlace, Fp
  <2>4. Cfg.buf[k % SS] = UnitAt("config", k)
    BY <1>0, <2>1, <2>2, <2>3 DEF ContentOf, DataOf, Cfg
  <2> QED
    BY <1>0, <1>2, <2>4 DEF UnitAt
<1>4. ReadTo(k) /\ op.left = LineUnits - 1 - k /\ k \notin LineEnds \ {ConfigUnits}
  BY <1>0, <1>2, <1>k DEF ConfigInv, LineInv
<1>5. line' = SubSeq(ConfigContent, 1, k + 1)
  <2>1. \A s \in Seq(Unit) : \A j \in Nat : j < Len(s) => SubSeq(s, 1, j + 1) = Append(SubSeq(s, 1, j), s[j + 1])
    OBVIOUS
  <2>2. line = SubSeq(ConfigContent, 1, k)
    BY <1>4 DEF ReadTo
  <2> QED
    BY <1>0, <1>1, <1>2, <1>3, <2>1, <2>2, ConfigKnown
<1>6. \A i \in LineEnds : k + 1 <= i
  <2> SUFFICES ASSUME NEW i \in LineEnds
               PROVE  k + 1 <= i
    OBVIOUS
  <2>1. i \in 1 .. ConfigUnits /\ k <= i /\ i # k
    BY <1>2, <1>4, ConfigKnown DEF ReadTo
  <2> QED
    BY <1>0, <2>1
<1>7. ReadTo(k + 1)'
  <2>1. LineEnds' = LineEnds /\ ConfigContent' = ConfigContent
    BY DEF LineEnds, ConfigContent
  <2>2. k + 1 \in 0 .. ConfigUnits
    BY <1>0, <1>2, ConfigKnown
  <2> QED
    BY <1>5, <1>6, <2>1, <2>2 DEF ReadTo
<1>8. op'.left = 0 => k + 1 \in LineEnds
  <2>1. k + 1 \in 1 .. ConfigUnits
    BY <1>0, <1>2, ConfigKnown
  <2>2. u \in Newlines => k + 1 \in LineEnds
    BY <2>1 DEF LineEnds
  <2>3. u \notin Newlines /\ op'.left = 0 => k + 1 = LineUnits - 1
    BY <1>0, <1>1, <1>3, <1>4, ConfigKnown
  <2> QED
    BY <2>1, <2>2, <2>3 DEF LineEnds
<1>9. op'.left # 0 => op'.left = LineUnits - 1 - (k + 1) /\ k + 1 \notin LineEnds \ {ConfigUnits}
  <2> SUFFICES ASSUME op'.left # 0
               PROVE  op'.left = LineUnits - 1 - (k + 1) /\ k + 1 \notin LineEnds \ {ConfigUnits}
    OBVIOUS
  <2>1. u \notin Newlines /\ op'.left = op.left - 1
    BY <1>1, <1>3
  <2>2. op'.left = LineUnits - 1 - (k + 1) /\ k + 1 # LineUnits - 1
    BY <1>0, <1>4, <2>1, ConfigKnown
  <2> QED
    BY <2>1, <2>2 DEF LineEnds
<1>10. LineInv'
  <2>2. LineEnds' = LineEnds
    BY DEF LineEnds, ConfigContent
  <2>3. \E j \in Nat : ReadTo(j)'
    BY <1>0, <1>7
  <2>4. Cfg'.fs /\ ReadTo(Cfg.fptr)' /\ op'.left \in Nat
    BY <1>0, <1>1, <1>2, <1>7 DEF AllBut, ReadTo
  <2> QED
    BY <1>1, <1>8, <1>9, <2>2, <2>3, <2>4 DEF LineInv
<1>11. ConfigKept'
  <2>1. Cfg'.fs => Cfg.fs /\ (Cfg'.written <=> Cfg.written)
    BY <1>1 DEF AllBut
  <2> QED
    BY <1>1, <2>1, OwnConfigKept
<1> QED
  BY <1>10, <1>11 DEF ConfigInv

\* A step of a call on the configuration that reads nothing of it.
LEMMA ConfigQuiet ==
  ASSUME FInv, ConfigInv, CallStep, ~CopyOut, file = "config", UNCHANGED <<line, step>>,
         Cfg'.fptr = Cfg.fptr, Cfg'.err <=> Cfg.err, Cfg'.fs <=> Cfg.fs, Cfg'.written <=> Cfg.written,
         op'.left = op.left, op'.at \notin {"flush", "entry", "sync"},
         \/ op'.at = op.at /\ op'.res = op.res
         \/ /\ op'.at \notin {"out", "check", "ret"}
            /\ op'.at \in {"byte", "follow", "place", "copy"} /\ step = "cfg_gets"
                 => op.at \in {"byte", "follow", "place", "copy"}
  PROVE  ConfigInv'
<1>1. LineInv'
  BY LineStays
<1>2. ConfigKept'
  BY OwnConfigKept
<1> QED
  BY <1>1, <1>2 DEF ConfigInv

\* A call on the configuration that fails.
LEMMA ConfigFails ==
  ASSUME FInv, ConfigInv, CallStep, ~CopyOut, file = "config", UNCHANGED <<line, step>>,
         op'.at = "ret", op'.res # "FR_OK",
         AllBut(fp'[file], fp[file], {"err"}), op.call = "gets" => Cfg.fs /\ Cfg'.err
  PROVE  ConfigInv'
<1>0. /\ Cfg = fp[file] /\ Cfg' = fp'[file] /\ (step = "cfg_gets" => op.call = "gets")
  BY ConfigFacts
<1>1. (Cfg'.fs <=> Cfg.fs) /\ (Cfg'.written <=> Cfg.written)
  BY <1>0 DEF AllBut
<1>2. LineInv'
  BY <1>0, <1>1, LineFails
<1>3. ConfigKept'
  BY <1>1, OwnConfigKept
<1> QED
  BY <1>2, <1>3 DEF ConfigInv

\* An access of a call on the configuration fails.
LEMMA ConfigFailCall ==
  ASSUME FInv, ConfigInv, CallStep, ~CopyOut, file = "config", UNCHANGED <<line, step>>,
         NEW r \in {"FR_DISK_ERR", "FR_INT_ERR"}, FailCall(r), op.call = "gets" => Cfg.fs
  PROVE  ConfigInv'
<1>0. /\ Types /\ Control /\ op.at # "out" /\ Cfg = fp[file] /\ Cfg' = fp'[file]
  BY ConfigFacts
<1>1. /\ op'.at = "ret" /\ op'.res = r /\ AllBut(fp'[file], fp[file], {"err"})
      /\ op.call = "gets" => Cfg'.err
  BY <1>0, LeaveEffect
<1> QED
  BY <1>1, ConfigFails

\* A call on the configuration begins.
LEMMA ConfigCheck ==
  ASSUME FInv, ConfigInv, CallStep, Check, file = "config", UNCHANGED step
  PROVE  ConfigInv'
<1>0. /\ Types /\ Control /\ op.at = "check" /\ Cfg = fp[file] /\ Cfg' = fp'[file] /\ ~CopyOut
      /\ op.call \in {"open", "gets", "close"} /\ (op.call = "open" <=> step = "cfg_open")
      /\ (op.call = "gets" <=> step = "cfg_gets")
  BY ConfigFacts DEF Check, CopyOut
<1>1. line' = line /\ op'.left = op.left
  BY <1>0, CheckEffect
<1>2. step = "cfg_gets" => Cfg.fs /\ ~Cfg.err /\ Cfg.fptr = 0 /\ line = <<>> /\ op.left = LineUnits - 1
  BY <1>0 DEF ConfigInv, LineInv
<1>3. Cfg.fs => ~Cfg.written
  BY DEF ConfigInv, ConfigKept
<1>4. \A k : ReadTo(k)' <=> ReadTo(k)
  BY <1>1 DEF ReadTo, LineEnds, ConfigContent
<1>5. LineEnds' = LineEnds
  BY DEF LineEnds, ConfigContent
<1>6. CASE /\ op.call \in Opening /\ op'.at \in {"root", "mount"}
           /\ AllBut(fp'[file], fp[file], {"fs"}) /\ ~fp'[file].fs
  <2>1. step = "cfg_open"
    BY <1>0, <1>6 DEF Opening
  <2>2. LineInv'
    BY <1>4, <1>5, <1>6, <2>1 DEF ConfigInv, LineInv
  <2>3. ConfigKept'
    BY <1>0, <1>1, <1>6, OwnConfigKept
  <2> QED
    BY <2>2, <2>3 DEF ConfigInv
<1>7. CASE op.call \notin Opening /\ UNCHANGED fp /\ op'.at = "ret" /\ (fp[file].fs => fp[file].err)
  <2>1. op.call = "close"
    BY <1>0, <1>2, <1>7 DEF Opening
  <2>2. step \notin {"cfg_open", "cfg_gets"}
    BY <1>0, <2>1
  <2>3. LineInv'
    BY <1>4, <1>5, <2>2 DEF ConfigInv, LineInv
  <2>4. ConfigKept'
    BY <1>0, <1>1, <1>3, <1>7, OwnConfigKept DEF ConfigInv, ConfigKept
  <2> QED
    BY <2>3, <2>4 DEF ConfigInv
<1>8. CASE /\ op.call \in {"sync", "close"} /\ UNCHANGED fp /\ fp[file].fs
           /\ op'.at = IF fp[file].written THEN "flush" ELSE "synced"
  <2>1. op'.at = "synced"
    BY <1>0, <1>3, <1>8
  <2>2. Cfg' = Cfg
    BY <1>0, <1>8
  <2> QED
    BY <1>0, <1>1, <2>1, <2>2, ConfigQuiet
<1>9. CASE op.call = "gets" /\ UNCHANGED fp /\ op'.at = "byte"
  <2>1. Cfg' = Cfg /\ step = "cfg_gets"
    BY <1>0, <1>9
  <2>2. ReadTo(0) /\ LineUnits - 1 # 0 /\ 0 \notin LineEnds /\ LineUnits - 1 = LineUnits - 1 - 0
    <3>1. \A i \in LineEnds : 0 <= i /\ i # 0
      BY ConfigKnown
    <3>2. 0 \in 0 .. ConfigUnits
      BY ConfigKnown
    <3>3. line = SubSeq(ConfigContent, 1, 0)
      BY <1>2, <2>1, ConfigKnown
    <3>4. LineUnits \in Nat
      BY LogFilesAssumption
    <3> QED
      BY <3>1, <3>2, <3>3, <3>4, ConfigKnown DEF ReadTo
  <2>3. LineInv'
    BY <1>1, <1>2, <1>4, <1>5, <1>9, <2>1, <2>2 DEF ConfigInv, LineInv
  <2>4. ConfigKept'
    BY <1>0, <1>1, <1>3, <1>9, OwnConfigKept DEF ConfigInv, ConfigKept
  <2> QED
    BY <2>3, <2>4 DEF ConfigInv
<1> QED
  BY <1>0, <1>6, <1>7, <1>8, <1>9, CheckEffect

\* The chain of the configuration is followed by a cluster.
LEMMA ConfigGot ==
  ASSUME FInv, ConfigInv, CallStep, ~CopyOut, file = "config", UNCHANGED <<line, step>>,
         op.at \in {"byte", "follow"}, op.call = "gets", NEW c, GotCluster(c)
  PROVE  ConfigInv'
<1>0. /\ Types /\ Control /\ op.at # "out" /\ Cfg = fp[file] /\ Cfg' = fp'[file]
  BY ConfigFacts
<1>1. /\ AllBut(fp'[file], fp[file], {"clust", "sclust"}) /\ op'.at = "place" /\ op'.left = op.left
  BY <1>0, GotEffect
<1>2. Cfg'.fptr = Cfg.fptr /\ (Cfg'.err <=> Cfg.err) /\ (Cfg'.fs <=> Cfg.fs) /\ (Cfg'.written <=> Cfg.written)
  BY <1>0, <1>1 DEF AllBut
<1> QED
  BY <1>1, <1>2, ConfigQuiet

\* A step that only moves the call.
LEMMA ConfigMoves ==
  ASSUME FInv, ConfigInv, CallStep, ~CopyOut, file = "config", UNCHANGED <<line, step, fp>>,
         op'.left = op.left, op'.at \notin {"flush", "entry", "sync", "out", "check", "ret"},
         /\ op'.at \in {"byte", "follow", "place", "copy"} /\ step = "cfg_gets"
                 => op.at \in {"byte", "follow", "place", "copy"}
  PROVE  ConfigInv'
<1>1. Cfg' = Cfg
  BY DEF Cfg
<1> QED
  BY <1>1, ConfigQuiet

\* The window moves, for the configuration.
LEMMA ConfigWindow ==
  ASSUME FInv, ConfigInv, CallStep, SyncWindow \/ MoveWindow, file = "config", UNCHANGED step
  PROVE  ConfigInv'
<1>0. /\ Types /\ Control /\ op.at # "out" /\ Cfg = fp[file] /\ Cfg' = fp'[file]
      /\ op.at \in AtFile => Cfg.fs
  BY ConfigFacts
<1>1. /\ UNCHANGED line /\ (UNCHANGED <<op, fp>> \/ FailCall("FR_DISK_ERR"))
  BY <1>0, WindowEffect
<1>2. op.call = "gets" => Cfg.fs
  BY <1>0, ConfigFacts DEF ConfigInv, LineInv
<1>3. ~CopyOut
  BY DEF SyncWindow, MoveWindow, CopyOut, InWindow, Need
<1>4. CASE UNCHANGED <<op, fp>>
  <2>1. Cfg' = Cfg /\ op.at \notin {"flush", "entry", "sync"}
    BY <1>4 DEF Cfg, ConfigInv, ConfigKept
  <2> QED
    BY <1>1, <1>3, <1>4, <2>1, ConfigQuiet
<1> QED
  BY <1>1, <1>2, <1>3, <1>4, ConfigFailCall

\* The volume is mounted and its root read, for the configuration.
LEMMA ConfigVolume ==
  ASSUME FInv, ConfigInv, CallStep, MountVolume \/ Root, file = "config", UNCHANGED step
  PROVE  ConfigInv'
<1>0. /\ Types /\ Control /\ op.at # "out" /\ Cfg = fp[file] /\ Cfg' = fp'[file] /\ op.call \in Opening
      /\ step = "cfg_open" /\ ~CopyOut /\ UNCHANGED <<line, fp>>
  <2>1. op.at \in AtOpen
    BY DEF MountVolume, Root, AtOpen
  <2>2. op.call \in Opening
    BY <2>1 DEF FInv, IInv, Control, CallInv
  <2> QED
    BY <2>1, <2>2, ConfigFacts DEF CopyOut, MountVolume, Root, DiskRead, AtOpen, Opening
<1>1. \/ Leave("FR_DISK_ERR") \/ At("root") \/ At("path")
  BY DEF MountVolume, Root, DiskRead
<1>2. CASE Leave("FR_DISK_ERR")
  <2>1. op'.at = "ret" /\ op'.res = "FR_DISK_ERR"
    BY <1>0, <1>2, LeaveEffect
  <2>2. AllBut(fp'[file], fp[file], {"err"})
    BY <1>0 DEF AllBut
  <2>3. op.call # "gets"
    BY <1>0 DEF Opening
  <2> QED
    BY <1>0, <2>1, <2>2, <2>3, ConfigFails
<1>3. CASE At("root") \/ At("path")
  <2>1. op'.at \in {"root", "path"} /\ op'.left = op.left
    BY <1>0, <1>3, AtEffect
  <2> QED
    BY <1>0, <2>1, ConfigMoves
<1> QED
  BY <1>1, <1>2, <1>3

\* The configuration is opened, at its first unit.
LEMMA ConfigOpens ==
  ASSUME FInv, ConfigInv, CallStep, OpenExisting, file = "config", UNCHANGED step
  PROVE  ConfigInv'
<1>0. /\ Types /\ Control /\ Cfg = fp[file] /\ Cfg' = fp'[file] /\ op.call = "open" /\ op.at = "path"
      /\ ~CopyOut /\ step = "cfg_open" /\ file \in Files
  BY ConfigFacts, ConfigKnown DEF OpenExisting, CopyOut
<1>1. UNCHANGED <<disk, fs, stream, line>> /\ op'.at = "ret"
  BY <1>0, OpenEffect
<1>2. \A k : ReadTo(k)' <=> ReadTo(k)
  BY <1>1 DEF ReadTo, LineEnds, ConfigContent
<1>3. CASE fs.dir[file].there
  <2>1. fs.winsect = DirSect
    BY <1>0 DEF OpenExisting, InWindow, Need
  <2>2. disk.dir["config"].there
    BY <1>3, <2>1 DEF ConfigInv, ConfigKept, Dir
  <2>3. fp'[file] = Object
    BY <1>0, <1>3 DEF OpenExisting, Types
  <2>4. Cfg'.fs /\ ~Cfg'.err /\ Cfg'.fptr = 0 /\ ~Cfg'.written
    BY <1>0, <2>3 DEF Object, Closed
  <2>5. LineInv'
    BY <1>0, <1>1, <1>2, <2>4 DEF ConfigInv, LineInv
  <2>6. ConfigKept'
    BY <1>1, <2>2, <2>4, OwnConfigKept
  <2> QED
    BY <2>5, <2>6 DEF ConfigInv
<1>4. CASE ~fs.dir[file].there
  <2>1. Leave("FR_NO_FILE") /\ UNCHANGED fp
    BY <1>4 DEF OpenExisting
  <2>2. op'.at = "ret" /\ op'.res = "FR_NO_FILE" /\ AllBut(fp'[file], fp[file], {"err"})
    BY <1>0, <2>1, LeaveEffect DEF AllBut
  <2> QED
    BY <1>0, <1>1, <2>2, ConfigFails
<1> QED
  BY <1>3, <1>4

\* f_gets() goes to the sector of the next unit.
LEMMA ConfigFollows ==
  ASSUME FInv, ConfigInv, CallStep, Follow \/ NextByte, file = "config", UNCHANGED step
  PROVE  ConfigInv'
<1>0. /\ Types /\ Control /\ op.at \in {"byte", "follow"} /\ op.at # "out" /\ Cfg = fp[file] /\ Cfg' = fp'[file]
      /\ ~CopyOut /\ step = "cfg_gets" /\ op.call = "gets" /\ Cfg.fs /\ UNCHANGED line
  BY ConfigFacts DEF Follow, NextByte, CopyOut, AtFile
<1>1. \/ Abort("FR_INT_ERR")
      \/ \E c : GotCluster(c)
      \/ /\ UNCHANGED fp /\ op'.left = op.left /\ op'.at \in {"follow", "place", "copy"}
  <2>1. ASSUME Follow PROVE Abort("FR_INT_ERR") \/ \E c : GotCluster(c)
    BY <1>0, <2>1, FollowEffect
  <2>2. ASSUME NextByte, At("copy") \/ At("place") PROVE op'.left = op.left /\ op'.at \in {"place", "copy"}
    BY <1>0, <2>2, AtEffect
  <2>3. ASSUME NextByte
        PROVE  \/ Abort("FR_INT_ERR")
               \/ GotCluster(fp[file].sclust)
               \/ UNCHANGED fp /\ (At("copy") \/ At("place"))
               \/ UNCHANGED fp /\ op'.at = "follow" /\ op'.left = op.left
    BY <1>0, <2>3, NextEffect
  <2> QED
    BY <2>1, <2>2, <2>3
<1>2. CASE Abort("FR_INT_ERR")
  <2>1. FailCall("FR_INT_ERR")
    BY <1>0, <1>2 DEF FailCall
  <2> QED
    BY <1>0, <2>1, ConfigFailCall
<1>3. CASE \E c : GotCluster(c)
  BY <1>0, <1>3, ConfigGot
<1>4. CASE UNCHANGED fp /\ op'.left = op.left /\ op'.at \in {"follow", "place", "copy"}
  BY <1>0, <1>4, ConfigMoves
<1> QED
  BY <1>1, <1>2, <1>3, <1>4

\* The buffer of the configuration gets another sector.
LEMMA ConfigBuffer ==
  ASSUME FInv, ConfigInv, CallStep, WriteBack \/ Place, file = "config", UNCHANGED step
  PROVE  ConfigInv'
<1>0. /\ Types /\ Control /\ op.at # "out" /\ op.at = "place" /\ Cfg = fp[file] /\ Cfg' = fp'[file] /\ Cfg.fs
      /\ ~CopyOut /\ UNCHANGED line /\ op.call = "gets"
  <2>1. op.at \in {"place", "flush"}
    BY DEF WriteBack, Place
  <2>2. op.at = "place"
    BY <2>1 DEF ConfigInv, ConfigKept
  <2> QED
    BY <2>2, ConfigFacts DEF WriteBack, Place, CopyOut, AtFile
<1>1. \/ FailCall("FR_DISK_ERR")
      \/ /\ AllBut(fp'[file], fp[file], {"dirty"}) \/ AllBut(fp'[file], fp[file], {"dsect", "buf"})
         /\ UNCHANGED op \/ At("copy")
  BY <1>0, WriteBackEffect, PlaceEffect
<1>2. CASE FailCall("FR_DISK_ERR")
  BY <1>0, <1>2, ConfigFailCall
<1>3. CASE /\ AllBut(fp'[file], fp[file], {"dirty"}) \/ AllBut(fp'[file], fp[file], {"dsect", "buf"})
           /\ UNCHANGED op \/ At("copy")
  <2>1. Cfg'.fptr = Cfg.fptr /\ (Cfg'.err <=> Cfg.err) /\ (Cfg'.fs <=> Cfg.fs) /\ (Cfg'.written <=> Cfg.written)
    BY <1>0, <1>3 DEF AllBut
  <2>2. op'.at \in {"place", "copy"} /\ op'.left = op.left
    BY <1>0, <1>3, AtEffect
  <2> QED
    BY <1>0, <2>1, <2>2, ConfigQuiet
<1> QED
  BY <1>1, <1>2, <1>3

\* f_gets() ends at the end of a line, f_close() ends.
LEMMA ConfigEnds ==
  ASSUME FInv, ConfigInv, CallStep, GetsEnds \/ SyncEnds, file = "config", UNCHANGED step
  PROVE  ConfigInv'
<1>0. /\ Types /\ Control /\ op.at # "out" /\ Cfg = fp[file] /\ Cfg' = fp'[file] /\ ~CopyOut /\ UNCHANGED line
      /\ op.call = "gets" <=> step = "cfg_gets"
      /\ op.call = "open" <=> step = "cfg_open"
      /\ op.at \in {"byte", "follow", "place", "copy"} => step = "cfg_gets" /\ ~Cfg.err
  BY ConfigFacts DEF GetsEnds, SyncEnds, CopyOut
<1>1. op'.at = "ret"
  BY <1>0, LeaveEffect DEF GetsEnds, SyncEnds
<1>2. \A k : ReadTo(k)' <=> ReadTo(k)
  BY <1>0 DEF ReadTo, LineEnds, ConfigContent
<1>3. LineEnds' = LineEnds
  BY DEF LineEnds, ConfigContent
<1>4. CASE GetsEnds
  <2>1. step = "cfg_gets" /\ Cfg.fs /\ fptr = Cfg.fptr /\ Cfg.fptr <= ConfigUnits /\ Cfg.fsize = ConfigUnits
        /\ Cfg' = Cfg /\ Cfg.fptr \in Nat
    BY <1>0, <1>4, ConfigFacts DEF GetsEnds, ConfigInv, LineInv
  <2>2. ReadTo(Cfg.fptr) /\ (op.left = 0 => Cfg.fptr \in LineEnds)
    BY <1>4, <2>1 DEF GetsEnds, ConfigInv, LineInv
  <2>3. Cfg.fptr \in LineEnds
    BY <1>0, <1>4, <2>1, <2>2, ConfigKnown DEF GetsEnds
  <2>4. LineInv'
    BY <1>1, <1>2, <1>3, <2>1, <2>2, <2>3 DEF ConfigInv, LineInv
  <2>5. ConfigKept'
    BY <1>0, <1>1, <2>1, OwnConfigKept
  <2> QED
    BY <2>4, <2>5 DEF ConfigInv
<1>5. CASE SyncEnds
  <2>1. op.call \notin {"gets", "open"}
    BY <1>5 DEF SyncEnds, FInv, Flow, StepInv, InSync
  <2>2. LineInv'
    BY <1>0, <1>1, <1>2, <1>3, <2>1 DEF ConfigInv, LineInv
  <2>3. Cfg'.fs => Cfg.fs /\ (Cfg'.written <=> Cfg.written)
    <3>1. Cfg.fs
      BY <1>5, ConfigFacts DEF SyncEnds, AtFile
    <3> QED
      BY <1>0, <1>5, <3>1, SyncEndsEffect DEF AllBut
  <2>4. ConfigKept'
    BY <1>0, <1>1, <2>3, OwnConfigKept
  <2> QED
    BY <2>2, <2>4 DEF ConfigInv
<1> QED
  BY <1>4, <1>5

\* Every step of a call keeps what is known of the configuration,
LEMMA CallConfig ==
  ASSUME FInv, Types', ConfigInv, CallStep, UNCHANGED step
  PROVE  ConfigInv'
<1>1. CASE file # "config"
  BY <1>1, OtherConfig
<1>2. CASE file = "config"
  <2>1. \/ Check \/ SyncWindow \/ MoveWindow \/ MountVolume \/ Root \/ OpenExisting
        \/ Follow \/ WriteBack \/ Place \/ NextByte \/ CopyOut \/ GetsEnds \/ SyncEnds
    BY <1>2, ConfigSteps
  <2> QED
    BY <1>2, <2>1, ConfigCheck, ConfigWindow, ConfigVolume, ConfigOpens, ConfigFollows, ConfigBuffer,
       ConfigEnds, ReadNext
<1> QED
  BY <1>1, <1>2

\* The caller's steps, and a card that is not mounted.
LEMMA ConfigSame ==
  ASSUME ConfigInv, UNCHANGED <<disk, fs, fp, stream>>, op'.at \in {"out", "check"}
  PROVE  /\ ConfigKept' /\ Cfg' = Cfg /\ LineEnds' = LineEnds
         /\ line' = line => \A k : ReadTo(k)' <=> ReadTo(k)
<1>1. Dir' = Dir /\ Cfg' = Cfg /\ ConfigContent' = ConfigContent /\ ConfigEntry' = ConfigEntry
  BY DEF Dir, Cfg, ConfigContent, ConfigEntry
<1>2. LineEnds' = LineEnds
  BY DEF LineEnds, ConfigContent
<1>3. ConfigKept'
  BY <1>1 DEF ConfigInv, ConfigKept
<1> QED
  BY <1>1, <1>2, <1>3 DEF ReadTo

\* so does the caller,
LEMMA CallerConfig ==
  ASSUME FInv, ConfigInv, Caller
  PROVE  ConfigInv'
<1>0. /\ IInv /\ StepInv
  BY DEF FInv, Flow
<1>1. CASE CallBegins
  <2>1. /\ UNCHANGED <<disk, fs, fp, stream, step>> /\ op'.at = "check" /\ op.at = "out"
        /\ op'.left = CallOf[step][3] /\ line' = IF step = "cfg_gets" THEN <<>> ELSE line
    BY <1>1 DEF CallBegins, Begin, Idle
  <2>2. /\ ConfigKept' /\ Cfg' = Cfg /\ LineEnds' = LineEnds
        /\ line' = line => \A k : ReadTo(k)' <=> ReadTo(k)
    BY <2>1, ConfigSame
  <2>3. step = "cfg_gets" => op'.left = LineUnits - 1
    BY <2>1 DEF CallOf
  <2>4. line' = <<>> => ReadTo(0)'
    <3>1. \A i \in LineEnds : 0 <= i
      BY ConfigKnown
    <3>2. ConfigContent' = ConfigContent
      BY DEF ConfigContent
    <3> QED
      BY <2>2, <3>1, <3>2, ConfigKnown DEF ReadTo
  <2>5. \E k \in Nat : ReadTo(k)'
    BY <2>1, <2>2, <2>4 DEF ConfigInv, LineInv
  <2>6. LineInv'
    BY <2>1, <2>2, <2>3, <2>5 DEF ConfigInv, LineInv
  <2> QED
    BY <2>2, <2>6 DEF ConfigInv
<1>2. CASE HeaderSkipped \/ Wake
  <2>1. /\ UNCHANGED <<disk, fs, fp, stream, op, line>> /\ op.at = "out"
        /\ step' \notin {"cfg_open", "cfg_gets"}
    <3>1. ASSUME Wake PROVE /\ UNCHANGED <<disk, fs, fp, stream, op, line>> /\ op.at = "out"
                            /\ step' \notin {"cfg_open", "cfg_gets"}
      BY <1>0, <3>1 DEF Wake, fileVars, IInv, Control, CallInv, Steps
    <3>2. ASSUME HeaderSkipped PROVE /\ UNCHANGED <<disk, fs, fp, stream, op, line>> /\ op.at = "out"
                            /\ step' \notin {"cfg_open", "cfg_gets"}
      BY <3>2 DEF HeaderSkipped, fileVars, Headers, After
    <3> QED
      BY <1>2, <3>1, <3>2
  <2>2. /\ ConfigKept' /\ Cfg' = Cfg /\ LineEnds' = LineEnds /\ \A k : ReadTo(k)' <=> ReadTo(k)
    BY <2>1, ConfigSame
  <2>3. LineInv'
    BY <2>1, <2>2 DEF ConfigInv, LineInv
  <2> QED
    BY <2>2, <2>3 DEF ConfigInv
<1>3. CASE CallReturns
  <2>1. op.at = "ret" /\ op' = Idle /\ UNCHANGED <<disk, fs, fp, stream, line>> /\ op'.at = "out"
    BY <1>3 DEF CallReturns, Idle
  <2>2. step \in Steps
    BY <1>0, <2>1 DEF IInv, Control, CallInv
  <2>3. /\ ConfigKept' /\ Cfg' = Cfg /\ LineEnds' = LineEnds /\ \A k : ReadTo(k)' <=> ReadTo(k)
    BY <2>1, ConfigSame
  <2>4. step' = "cfg_gets" => step = "cfg_open" /\ op.res = "FR_OK"
    <3>1. step' = "cfg_gets" => step = "cfg_open"
      BY <1>3, <2>2, Returned
    <3>2. step = "cfg_open" /\ op.res # "FR_OK" => step' = "version_open"
      BY <1>3 DEF CallReturns
    <3> QED
      BY <3>1, <3>2
  <2>5. step' # "cfg_open"
    BY <1>3, <2>2, Returned
  <2>6. LineInv'
    BY <2>1, <2>3, <2>4, <2>5 DEF ConfigInv, LineInv
  <2> QED
    BY <2>3, <2>6 DEF ConfigInv
<1> QED
  BY <1>1, <1>2, <1>3 DEF Caller

\* and so does a power failure or an unmount.
LEMMA RestartConfig ==
  ASSUME FInv, ConfigInv, PowerLoss \/ Remount
  PROVE  ConfigInv'
<1>1. /\ UNCHANGED disk /\ fs' = Unmounted /\ fp' = [n \in Files |-> Closed] /\ stream' = Found
      /\ op' = Idle /\ Fresh'
  BY RestartFresh DEF PowerLoss, Remount, Restart, Fresh
<1>2. /\ Dir' = disk.dir /\ ~Cfg'.fs /\ op'.at = "out"
  BY <1>1, UnmountedTypes, ConfigKnown DEF Dir, Cfg, Closed, Idle, Unmounted, NoSect, DirSect
<1>3. ConfigContent' = ConfigContent /\ ConfigEntry' = ConfigEntry /\ LineEnds' = LineEnds
  BY DEF ConfigContent, ConfigEntry, LineEnds
<1>4. stream'["config"] = IF disk.dir["config"].there THEN ConfigContent ELSE <<>>
  <2>1. stream'["config"] = OnDisk("config")
    BY <1>1, ConfigKnown DEF Found
  <2>2. ~Old("config")
    <3>1. disk.dir["config"].size \in {0, ConfigUnits} /\ Dir["config"] = disk.dir["config"]
      BY ConfigKnown DEF ConfigInv, ConfigKept
    <3> QED
      BY <3>1, ConfigKnown DEF Old
  <2>3. OnDisk("config") = SubSeq(stream["config"], 1, disk.dir["config"].size)
    BY <2>2, OnDiskIs, ConfigKnown DEF OnDiskFact
  <2>4. CASE disk.dir["config"].there
    <3>1. stream["config"] = ConfigContent /\ disk.dir["config"].size = ConfigUnits
      BY <2>4, ConfigKnown DEF ConfigInv, ConfigKept
    <3>2. SubSeq(ConfigContent, 1, ConfigUnits) = ConfigContent
      BY ConfigKnown
    <3> QED
      BY <2>1, <2>3, <2>4, <3>1, <3>2
  <2>5. CASE ~disk.dir["config"].there
    <3>1. stream["config"] = <<>> /\ disk.dir["config"].size = 0
      BY <2>5, ConfigKnown DEF ConfigInv, ConfigKept
    <3>2. SubSeq(<<>>, 1, 0) = <<>>
      OBVIOUS
    <3> QED
      BY <2>1, <2>3, <2>5, <3>1, <3>2
  <2> QED
    BY <2>4, <2>5
<1>5. ConfigKept'
  BY <1>1, <1>2, <1>3, <1>4 DEF ConfigInv, ConfigKept
<1>6. \E k \in Nat : ReadTo(k)'
  <2>1. line' = line \/ line' = <<>>
    BY DEF PowerLoss, Remount
  <2>2. line' = line => \A k : ReadTo(k)' <=> ReadTo(k)
    BY <1>3 DEF ReadTo
  <2>3. line' = <<>> => ReadTo(0)'
    <3>1. \A i \in LineEnds : 0 <= i
      BY ConfigKnown
    <3> QED
      BY <1>3, <3>1, ConfigKnown DEF ReadTo
  <2> QED
    BY <2>1, <2>2, <2>3 DEF ConfigInv, LineInv
<1>7. step' # "cfg_gets"
  BY DEF PowerLoss, Remount
<1>8. LineInv'
  BY <1>2, <1>6, <1>7 DEF LineInv
<1> QED
  BY <1>5, <1>8 DEF ConfigInv

\* The configuration that is on the card at first.
LEMMA InitConfig ==
  ASSUME Init
  PROVE  ConfigInv
<1>0. /\ Fresh /\ IInv /\ Types /\ line = <<>> /\ step = "cfg_open" /\ stream = Found
  BY InitFresh, InitIInv DEF IInv, Init
<1>1. /\ Dir = disk.dir /\ ~Cfg.fs /\ op.at = "out"
  BY <1>0, UnmountedTypes, ConfigKnown DEF Dir, Cfg, Closed, Idle, Unmounted, NoSect, DirSect, Fresh
<1>2. disk.dir["config"] \in {NoEntry, ConfigEntry}
  BY ConfigKnown DEF Init, ConfigEntry
<1>3. stream["config"] = OnDisk("config")
  BY <1>0, ConfigKnown DEF Found
<1>4. ASSUME disk.dir["config"].there
      PROVE  stream["config"] = ConfigContent
  <2> DEFINE size == disk.dir["config"].size
  <2>0. size = ConfigUnits
    BY <1>2, <1>4, ConfigKnown
  <2>1. ASSUME NEW p \in Nat, p < size
        PROVE  disk.data[SectOf(DiskWay["config"][p \div BCS], p)][p % SS] = <<"config", 0, p>>
    <3> DEFINE c == 2 + p \div BCS
               s == SectOf(c, p)
    <3>1. DiskWay["config"][p \div BCS] = c /\ c \in ConfigClusters /\ c \in Clusters
      BY <2>1, InitChain, ConfigKnown
    <3>2. s \in DataSectors /\ s \div CSize = c /\ SS \in Nat \ {0} /\ CSize \in Nat \ {0}
      BY <3>1, SectorsApart, FatFileAssumption
    <3>3. disk.data = [t \in DataSectors |-> [i \in 0 .. SS - 1 |->
                         IF t \div CSize \in ConfigClusters
                           THEN <<"config", 0, (t - 2 * CSize) * SS + i>> ELSE Blank]]
      BY DEF Init
    <3>4. p % SS \in 0 .. SS - 1 /\ p = (p \div SS) * SS + (p % SS) /\ p \div SS \in Nat
      BY <3>2, Splits
    <3>5. disk.data[s][p % SS] = <<"config", 0, (s - 2 * CSize) * SS + (p % SS)>>
      BY <3>1, <3>2, <3>3, <3>4
    <3>6. s - 2 * CSize = p \div SS
      <4> DEFINE q == p \div SS
      <4>1. q \in Nat /\ q \div CSize = p \div BCS
        BY SectorOfPlace
      <4>2. q = (q \div CSize) * CSize + (q % CSize) /\ q \div CSize \in Nat /\ q % CSize \in Nat
        BY <3>2, <4>1, Splits
      <4>3. s = (2 + q \div CSize) * CSize + (q % CSize)
        BY <4>1 DEF SectOf, Clust2Sect
      <4>4. \A a, b, k \in Nat : (2 + a) * k + b - 2 * k = a * k + b
        OBVIOUS
      <4> HIDE DEF s, q
      <4> QED
        BY <3>2, <4>2, <4>3, <4>4 DEF q
    <3> HIDE DEF s, c
    <3> QED
      BY <3>1, <3>4, <3>5, <3>6 DEF s
  <2>2. /\ OnDisk("config") \in Seq(Unit) /\ Len(OnDisk("config")) = size
        /\ \A p \in Nat : p < size =>
             OnDisk("config")[p + 1] = disk.data[SectOf(DiskWay["config"][p \div BCS], p)][p % SS]
    BY <1>0, ConfigKnown, FoundUnits DEF Fresh
  <2>3. \A i \in 1 .. ConfigUnits : OnDisk("config")[i] = ConfigContent[i]
    <3> TAKE i \in 1 .. ConfigUnits
    <3>1. i - 1 \in Nat /\ i - 1 < size /\ (i - 1) + 1 = i
      BY <2>0, ConfigKnown
    <3>2. OnDisk("config")[i] = <<"config", 0, i - 1>>
      BY <2>1, <2>2, <3>1
    <3> QED
      BY <3>2 DEF ConfigContent
  <2>4. \A a, b \in Seq(Unit) : Len(a) = Len(b) /\ (\A i \in 1 .. Len(a) : a[i] = b[i]) => a = b
    OBVIOUS
  <2>5. OnDisk("config") = ConfigContent
    BY <2>0, <2>2, <2>3, <2>4, ConfigKnown
  <2> QED
    BY <1>3, <2>5
<1>5. ASSUME ~disk.dir["config"].there
      PROVE  stream["config"] = <<>>
  <2>1. disk.dir["config"].size = 0
    BY <1>2, <1>5, ConfigKnown
  <2>2. OnDisk("config") = <<>>
    BY <2>1 DEF OnDisk
  <2> QED
    BY <1>3, <2>2
<1>6. ConfigKept
  BY <1>0, <1>1, <1>2, <1>3, <1>4, <1>5 DEF ConfigKept
<1>7. ReadTo(0)
  <2>1. \A i \in LineEnds : 0 <= i
    BY ConfigKnown
  <2> QED
    BY <1>0, <2>1, ConfigKnown DEF ReadTo
<1>8. LineInv
  BY <1>0, <1>1, <1>7 DEF LineInv
<1> QED
  BY <1>6, <1>8 DEF ConfigInv

\* A set of numbers has a least one.
LEMMA LeastNumber ==
  ASSUME NEW n \in Nat, NEW S \in SUBSET (1 .. n), n \in S
  PROVE  \E i \in S : \A j \in S : i <= j
<1> SUFFICES ASSUME \A i \in S : \E j \in S : j < i
             PROVE  FALSE
  OBVIOUS
<1> DEFINE T == {k \in Nat : \A j \in S : k < j}
<1>1. \A k \in Nat : k \in T => k + 1 \in T
  <2> SUFFICES ASSUME NEW k \in T, NEW j \in S
               PROVE  k + 1 < j
    OBVIOUS
  <2>1. PICK i \in S : i < j
    OBVIOUS
  <2> QED
    BY <2>1
<1>2. 0 \in T
  OBVIOUS
<1>3. Nat \subseteq T
  BY <1>1, <1>2, SetInduction
<1> QED
  BY <1>3

\* Every step keeps what is known of the configuration.
LEMMA ConfigNext ==
  ASSUME FInv, FInv' \/ (Fresh' /\ IInv'), ConfigInv, [Next]_vars
  PROVE  ConfigInv'
<1>0. Types'
  BY DEF FInv, IInv
<1>1. CASE InCall
  BY <1>0, <1>1, CallConfig DEF InCall
<1>2. CASE Caller
  BY <1>2, CallerConfig
<1>3. CASE PowerLoss \/ Remount
  BY <1>3, RestartConfig
<1>4. CASE UNCHANGED vars
  <2>1. UNCHANGED <<disk, fs, fp, op, stream, line, step>>
    BY <1>4 DEF vars, fileVars
  <2>2. UNCHANGED <<Dir, file, Cfg, LineEnds, ConfigContent, ConfigEntry>>
    BY <2>1 DEF Dir, file, Cfg, LineEnds, ConfigContent, ConfigEntry
  <2>3. \A k : ReadTo(k)' <=> ReadTo(k)
    BY <2>1, <2>2 DEF ReadTo
  <2> QED
    BY <2>1, <2>2, <2>3 DEF ConfigInv, ConfigKept, LineInv
<1> QED
  BY <1>1, <1>2, <1>3, <1>4 DEF Next

\* The least end of a line is where the line ends.
LEMMA ConfigReadInv ==
  ASSUME ConfigInv
  PROVE  ConfigRead
<1> DEFINE first == CHOOSE i \in LineEnds : \A j \in LineEnds : i <= j
<1>1. first \in LineEnds /\ \A j \in LineEnds : first <= j
  <2>1. \E i \in LineEnds : \A j \in LineEnds : i <= j
    BY ConfigKnown, LeastNumber
  <2> QED
    BY <2>1
<1>2. first \in 1 .. ConfigUnits
  BY <1>1, ConfigKnown
<1>3. PICK k \in Nat : ReadTo(k)
  BY DEF ConfigInv, LineInv
<1> HIDE DEF first
<1>4. k <= first /\ line = SubSeq(ConfigContent, 1, k) /\ first \in Nat
  BY <1>1, <1>2, <1>3, ConfigKnown DEF ReadTo
<1>5. IsPrefix(line, SubSeq(ConfigContent, 1, first))
  BY <1>2, <1>4, ConfigKnown, Beginnings
<1>6. ASSUME step = "cfg_gets", op.at = "ret", ~Cfg.err
      PROVE  Len(line) = first
  <2>1. PICK i \in LineEnds : ReadTo(i)
    BY <1>6 DEF ConfigInv, LineInv
  <2>2. i = first
    BY <1>1, <1>2, <2>1, ConfigKnown DEF ReadTo
  <2> QED
    BY <1>2, <2>1, <2>2, ConfigKnown, Beginnings DEF ReadTo
<1> QED
  BY <1>5, <1>6 DEF ConfigRead, Cfg, first, LineEnds, ConfigContent

\* The configuration is read to the end of its first line, the room in the buffer or
\* the end of the file, whichever is first, or a piece of that when an access failed
\* (sdcard.c reads it with f_gets()).
THEOREM ConfigAlwaysRead == Spec => []ConfigRead
<1>1. Init => ConfigInv
  BY InitConfig
<1>2. FInv /\ ConfigInv /\ [Next]_vars => ConfigInv'
  BY NextFInv, ConfigNext
<1>3. ConfigInv => ConfigRead
  BY ConfigReadInv
<1> QED
  BY <1>1, <1>2, <1>3, FilesInvariant, PTL DEF Spec
=============================================================================
