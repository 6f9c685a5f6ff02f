--------------------------- MODULE SdSourceProofs ---------------------------
(***************************************************************************)
(* Proofs about SdSource, for every set of cards, FATs, files and sizes:   *)
(* each stream is given its own file in order, an error is told for a      *)
(* reason, and a chain that loops is left in time.                         *)
(***************************************************************************)
EXTENDS SdSource, FiniteSetTheorems, WellFoundedInduction, TLAPS

-----------------------------------------------------------------------------
(* Induction over the natural numbers, on a set.                           *)

Less == OpToRel(<, Nat)

LEMMA LessWellFounded == IsWellFoundedOn(Less, Nat)
  BY NatLessThanWellFounded DEF Less

LEMMA LessThan == \A m, n \in Nat : m < n <=> <<m, n>> \in Less
  BY DEF Less, OpToRel

\* A non-empty set of numbers has a least one.
LEMMA LeastNumber ==
  ASSUME NEW S, S \subseteq Nat, S # {}
  PROVE  \E n \in S : \A k \in S : n <= k
<1>1. PICK n \in S : \A k \in S : ~(<<k, n>> \in Less)
  BY LessWellFounded, WFMin, Zenon
<1>2. \A k \in S : ~(k < n)
  BY <1>1, LessThan
<1>3. QED
  BY <1>2

\* A set that holds 0 and the successor of every number it holds.
LEMMA Induction ==
  ASSUME NEW S, 0 \in S, \A n \in Nat : n \in S => n + 1 \in S
  PROVE  Nat \subseteq S
<1>1. SUFFICES ASSUME Nat \ S # {} PROVE FALSE
  OBVIOUS
<1>2. PICK x \in Nat \ S : \A k \in Nat \ S : x <= k
  <2>1. Nat \ S \subseteq Nat
    OBVIOUS
  <2>2. QED
    BY <1>1, <2>1, LeastNumber
<1>3. x - 1 \in Nat /\ (x - 1) + 1 = x /\ ~(x <= x - 1)
  BY <1>2
<1>4. x - 1 \in S
  BY <1>2, <1>3
<1>5. QED
  BY <1>2, <1>3, <1>4

-----------------------------------------------------------------------------
(* The chain of a file.                                                    *)

Count == Cardinality(Clusters)

LEMMA CountType == Count \in Nat /\ ClusterUnits \in Nat \ {0}
<1>1. Count \in Nat
  BY CardAssumption, FS_CardinalityType DEF Count
<1>2. \A m, n \in Nat \ {0} : m * n \in Nat \ {0}
  OBVIOUS
<1>3. QED
  BY <1>1, <1>2, SectorAssumption DEF ClusterUnits

\* The k-th cluster, after those of f.
After(c, s, k, f) ==
  IF k = 0 THEN File[c][s].first ELSE IF f[k - 1] \in Clusters THEN Fat[c][f[k - 1]] ELSE 0

ChainUpTo(c, s, n, f) == f = [k \in 0 .. n |-> After(c, s, k, f)]

LEMMA ChainExists ==
  ASSUME NEW c, NEW s, NEW n \in Nat
  PROVE  \E f : ChainUpTo(c, s, n, f)
<1> DEFINE S == {i \in Nat : \E f : ChainUpTo(c, s, i, f)}
<1>1. 0 \in S
  <2> DEFINE f == [k \in 0 .. 0 |-> File[c][s].first]
  <2>1. \A k \in 0 .. 0 : After(c, s, k, f) = File[c][s].first
    BY DEF After
  <2>2. f = [k \in 0 .. 0 |-> After(c, s, k, f)]
    BY <2>1
  <2>3. QED
    BY <2>2 DEF ChainUpTo
<1>2. ASSUME NEW i \in Nat, i \in S PROVE i + 1 \in S
  <2>1. PICK f : f = [k \in 0 .. i |-> After(c, s, k, f)]
    BY <1>2 DEF ChainUpTo
  <2> DEFINE g == [k \in 0 .. i + 1 |-> IF k <= i THEN f[k] ELSE After(c, s, k, f)]
  <2>2. \A k \in 0 .. i + 1 : g[k] = After(c, s, k, g)
    <3> TAKE k \in 0 .. i + 1
    <3>1. k # 0 => g[k - 1] = f[k - 1]
      OBVIOUS
    <3>2. After(c, s, k, g) = After(c, s, k, f)
      BY <3>1 DEF After
    <3>3. k <= i => f[k] = After(c, s, k, f)
      BY <2>1
    <3>4. QED
      BY <3>2, <3>3
  <2>3. g = [k \in 0 .. i + 1 |-> After(c, s, k, g)]
    BY <2>2
  <2>4. ChainUpTo(c, s, i + 1, g)
    BY <2>3 DEF ChainUpTo
  <2>5. QED
    BY <2>4
<1>3. Nat \subseteq S
  BY <1>1, <1>2, Induction
<1>4. QED
  BY <1>3

LEMMA ChainFunction ==
  ASSUME NEW c, NEW s
  PROVE  Chain(c, s) = [k \in 0 .. Count |-> After(c, s, k, Chain(c, s))]
<1>1. PICK f : ChainUpTo(c, s, Count, f)
  BY ChainExists, CountType
<1>2. f = [k \in 0 .. Count |-> After(c, s, k, f)]
  BY <1>1 DEF ChainUpTo
<1>3. QED
  BY <1>2, Zenon DEF Chain, After, Count

\* A chain starts at the file's first cluster and follows the FAT.
LEMMA ChainLinks ==
  ASSUME NEW c, NEW s
  PROVE  /\ DOMAIN Chain(c, s) = 0 .. Count
         /\ Chain(c, s)[0] = File[c][s].first
         /\ \A k \in 0 .. Count - 1 : Chain(c, s)[k] \in Clusters
              => Chain(c, s)[k + 1] = Fat[c][Chain(c, s)[k]]
<1>1. \A k \in 0 .. Count : Chain(c, s)[k] = After(c, s, k, Chain(c, s))
  BY ChainFunction
<1>2. \A k \in 0 .. Count - 1 : k + 1 \in 0 .. Count /\ k + 1 # 0 /\ (k + 1) - 1 = k
  BY CountType
<1>3. 0 \in 0 .. Count
  BY CountType
<1>4. Chain(c, s)[0] = File[c][s].first
  BY <1>1, <1>3 DEF After
<1>5. \A k \in 0 .. Count - 1 : Chain(c, s)[k] \in Clusters
              => Chain(c, s)[k + 1] = Fat[c][Chain(c, s)[k]]
  BY <1>1, <1>2 DEF After
<1>6. DOMAIN Chain(c, s) = 0 .. Count
  BY ChainFunction
<1>7. QED
  BY <1>4, <1>5, <1>6

-----------------------------------------------------------------------------
(* Brent's algorithm.                                                      *)

\* No two of the places 0 .. n of f are the same.
Distinct(f, n) == \A i, j \in 0 .. n : f[i] = f[j] => i = j

LEMMA DistinctCount ==
  ASSUME NEW T, IsFiniteSet(T), NEW n \in Nat, NEW f, \A k \in 0 .. n : f[k] \in T,
         Distinct(f, n)
  PROVE  n + 1 <= Cardinality(T)
<1> DEFINE g == [k \in 0 .. n |-> f[k]]
<1>1. g \in Injection(0 .. n, T)
  BY DEF Distinct, Injection, IsInjective
<1>2. Cardinality(0 .. n) <= Cardinality(T)
  BY <1>1, FS_Injection
<1>3. Cardinality(0 .. n) = n + 1
  BY FS_Interval
<1>4. QED
  BY <1>2, <1>3

\* What comes after a place of f depends on the place alone.
Walk(f, m) == \A i, j \in 0 .. m - 1 : f[i] = f[j] => f[i + 1] = f[j + 1]

\* A walk that came by a place twice goes on in a circle.
LEMMA Circle ==
  ASSUME NEW f, NEW m \in Nat,
         Walk(f, m),
         NEW i \in Nat, NEW p \in Nat, i + p <= m, f[i] = f[i + p]
  PROVE  \A n \in Nat : i + n + p <= m => f[i + n] = f[i + n + p]
<1> DEFINE S == {n \in Nat : i + n + p <= m => f[i + n] = f[i + n + p]}
<1>1. 0 \in S
  <2>1. i + 0 = i /\ i + 0 + p = i + p
    OBVIOUS
  <2>2. QED
    BY <2>1
<1>2. ASSUME NEW n \in Nat, n \in S PROVE n + 1 \in S
  <2>1. SUFFICES ASSUME i + (n + 1) + p <= m PROVE f[i + (n + 1)] = f[i + (n + 1) + p]
    OBVIOUS
  <2>2. i + n \in 0 .. m - 1 /\ i + n + p \in 0 .. m - 1 /\ i + n + p <= m
    BY <2>1
  <2>3. f[i + n] = f[i + n + p]
    BY <1>2, <2>2
  <2>4. f[(i + n) + 1] = f[(i + n + p) + 1]
    BY <2>2, <2>3 DEF Walk
  <2>5. (i + n) + 1 = i + (n + 1) /\ (i + n + p) + 1 = i + (n + 1) + p
    OBVIOUS
  <2>6. QED
    BY <2>4, <2>5
<1>3. Nat \subseteq S
  BY <1>1, <1>2, Induction
<1>4. QED
  BY <1>3

\* A walk that has not come by its place a again has met enough places: more
\* than a before it, or as many as it has made steps since.
LEMMA NoMeeting ==
  ASSUME NEW T, IsFiniteSet(T), NEW f, NEW m \in Nat, NEW a \in 0 .. m,
         \A k \in 0 .. m : f[k] \in T,
         Walk(f, m),
         \A k \in a + 1 .. m : f[k] # f[a]
  PROVE  a + 1 <= Cardinality(T) \/ (m - a) + 1 <= Cardinality(T)
<1>1. CASE Distinct(f, a)
  BY <1>1, DistinctCount
<1>2. CASE ~Distinct(f, a)
  <2> DEFINE R == {j \in 0 .. a : \E i \in 0 .. j - 1 : f[i] = f[j]}
  <2>1. R # {}
    <3>1. PICK x, y \in 0 .. a : f[x] = f[y] /\ x # y
      BY <1>2 DEF Distinct
    <3>2. CASE x < y
      <4>1. x \in 0 .. y - 1
        BY <3>2
      <4>2. y \in R
        BY <3>1, <4>1
      <4>3. QED
        BY <4>2
    <3>3. CASE y < x
      <4>1. y \in 0 .. x - 1
        BY <3>3
      <4>2. x \in R
        BY <3>1, <4>1
      <4>3. QED
        BY <4>2
    <3>4. QED
      BY <3>1, <3>2, <3>3
  <2>2. PICK j \in R : \A k \in R : j <= k
    <3>1. R \subseteq Nat
      OBVIOUS
    <3>2. QED
      BY <2>1, <3>1, LeastNumber
  <2>3. PICK i \in 0 .. j - 1 : f[i] = f[j]
    OBVIOUS
  <2>4. j \in 0 .. a /\ j - 1 \in Nat /\ j \in Nat /\ i \in Nat /\ i < j
    BY <2>3
  <2>5. Distinct(f, j - 1)
    <3>1. ASSUME NEW x \in 0 .. j - 1, NEW y \in 0 .. j - 1, f[x] = f[y], x < y PROVE FALSE
      <4>1. x \in 0 .. y - 1 /\ y \in 0 .. a /\ ~(j <= y)
        BY <2>4, <3>1
      <4>2. y \in R
        BY <3>1, <4>1
      <4>3. QED
        BY <2>2, <4>1, <4>2
    <3>2. QED
      BY <3>1, <2>4 DEF Distinct
  <2>6. j <= Cardinality(T)
    <3>1. \A k \in 0 .. j - 1 : f[k] \in T
      BY <2>4
    <3>2. (j - 1) + 1 <= Cardinality(T)
      BY <2>4, <2>5, <3>1, DistinctCount
    <3>3. QED
      BY <2>4, <3>2
  <2> DEFINE p == j - i
  <2>7. p \in Nat /\ i + p = j /\ p <= j /\ i + p <= m /\ p # 0
    BY <2>4
  <2> HIDE DEF p, R
  <2>8. \A n \in Nat : i + n + p <= m => f[i + n] = f[i + n + p]
    <3>1. f[i] = f[i + p]
      BY <2>3, <2>7
    <3>2. i + p <= m /\ i \in Nat /\ p \in Nat
      BY <2>4, <2>7
    <3>3. QED
      BY <3>1, <3>2, Circle, SMTT(30)
  <2>9. ~(a + p <= m)
    <3>1. SUFFICES ASSUME a + p <= m PROVE FALSE
      OBVIOUS
    <3>2. a - i \in Nat /\ i + (a - i) = a
      BY <2>4
    <3>3. f[a] = f[a + p]
      BY <2>8, <3>1, <3>2
    <3>4. a + p \in a + 1 .. m
      BY <2>7, <3>1
    <3>5. QED
      BY <3>3, <3>4
  <2>10. (m - a) + 1 <= p
    BY <2>7, <2>9
  <2>11. QED
    <3>1. Cardinality(T) \in Nat
      BY FS_CardinalityType
    <3>2. QED
      BY <2>4, <2>6, <2>7, <2>10, <3>1
<1>3. QED
  BY <1>1, <1>2

-----------------------------------------------------------------------------
(* The inductive invariant.                                                *)

Places == Clusters \union {0} \union {File[c][s].first : c \in Cards, s \in Streams}
FileRecords == [cluster : Places, size : Nat, position : Nat, offset : Nat,
                anchor : Places, power : Nat \ {0}, steps : Nat]
Calls == [at : {"idle", "mount", "root", "dir", "read"}, stream : Streams,
          want : Nat, copied : Nat]

Results == {"none", "failed", "opened", "data", "retry", "error", "eof"}

Types ==
  /\ card \in Cards \union {NoCard} /\ ready \in BOOLEAN /\ mounted \in BOOLEAN
  /\ open \in [Streams -> BOOLEAN] /\ using \in [Streams -> BOOLEAN]
  /\ hurt \in [Streams -> BOOLEAN] /\ origin \in [Streams -> Cards]
  /\ file \in [Streams -> FileRecords] /\ \A s \in Streams : ~using[s] => file[s] = Closed
  /\ errors \in 0 .. 3
  /\ call \in Calls /\ call.copied <= call.want
  /\ result \in [Streams -> Results] /\ DOMAIN chunk = Streams

\* A call past its mount has a volume, and a read a file.
Control ==
  /\ call.at \in {"root", "dir", "read"} => mounted
  /\ call.at = "read" => open[call.stream]
  /\ call.at = "mount" => ~mounted /\ \A s \in Streams : ~open[s]
  /\ call.at \in {"mount", "root", "dir"} => ~using[call.stream]
  /\ \A s \in Streams : open[s] => using[s]

\* The buffer holds the sector it is said to hold, from the card that is
\* initialised; while a file is open, that card is the file's.
Cached ==
  /\ cached # NoSector => \E c \in Cards : buffer = <<c, cached>>
  /\ ready => card \in Cards /\ (cached # NoSector => buffer[1] = card)
  /\ \A s \in Streams : mounted /\ open[s] =>
       /\ ready => card = origin[s]
       /\ cached # NoSector => buffer[1] = origin[s]

\* The place of f's cluster in its chain, and the clusters of the chain.
Index(f) == f.power + f.steps - 1
Met(c, s) == {Chain(c, s)[k] : k \in DOMAIN Chain(c, s)} \cap Clusters

\* The record f of a file of stream s on card c: its cluster is the one its
\* position lies in, it has come there along the chain, and it has not met the
\* cluster it remembers again.
Follows(c, s, f) ==
  /\ c \in Cards /\ File[c][s] # Missing /\ f.size = File[c][s].size
  /\ f.position <= f.size /\ f.offset <= ClusterUnits
  /\ Index(f) \in 0 .. Count /\ f.steps < f.power
  /\ f.position = Index(f) * ClusterUnits + f.offset
  /\ f.cluster = Chain(c, s)[Index(f)] /\ f.anchor = Chain(c, s)[f.power - 1]
  /\ f.size > 0 => \A k \in 0 .. Index(f) : Chain(c, s)[k] \in Clusters
  /\ \A k \in f.power .. Index(f) : Chain(c, s)[k] # f.anchor
  /\ f.power = 1 \/ f.power <= 2 * Cardinality(Met(c, s))

Tracks == \A s \in Streams : using[s] => Follows(origin[s], s, file[s])

\* A file is lost only with its card, or to a chain that is broken.
Verdicts == \A s \in Streams :
  using[s] /\ (~mounted \/ ~open[s] \/ result[s] = "error")
    => hurt[s] \/ ~Sound(origin[s], s)

SInv == Types /\ buffer[1] \in Cards \union {NoCard} /\ Control /\ Cached /\ Tracks /\ Verdicts /\ BytesInOrder

-----------------------------------------------------------------------------
(* Arithmetic of the positions.                                            *)

LEMMA Division ==
  ASSUME NEW a \in Nat, NEW u \in Nat \ {0}
  PROVE  /\ a \div u \in Nat /\ a % u \in 0 .. u - 1
         /\ a = (a \div u) * u + (a % u)
OBVIOUS

LEMMA Scaled ==
  ASSUME NEW m \in Nat, NEW n \in Nat, NEW u \in Nat \ {0}
  PROVE  /\ m * u \in Nat
         /\ m * u < n * u => m < n
         /\ m <= n => m * u <= n * u
         /\ (m + 1) * u = m * u + u
<1>1. ASSUME m <= n PROVE m * u <= n * u
  <2>1. n * u = m * u + (n - m) * u
    OBVIOUS
  <2>2. (n - m) * u >= 0
    <3>1. \A x, y \in Nat : x * y >= 0
      OBVIOUS
    <3>2. n - m \in Nat
      BY <1>1
    <3>3. QED
      BY <3>1, <3>2
  <2>3. m * u \in Int /\ (n - m) * u \in Int
    OBVIOUS
  <2>4. QED
    BY <2>1, <2>2, <2>3
<1>2. ASSUME m * u < n * u, ~(m < n) PROVE FALSE
  <2>1. m * u >= n * u
    <3>1. m * u = n * u + (m - n) * u
      OBVIOUS
    <3>2. (m - n) * u >= 0
      <4>1. \A x, y \in Nat : x * y >= 0
        OBVIOUS
      <4>2. m - n \in Nat
        BY <1>2
      <4>3. QED
        BY <4>1, <4>2
    <3>3. n * u \in Int /\ (m - n) * u \in Int
      OBVIOUS
    <3>4. QED
      BY <3>1, <3>2, <3>3
  <2>2. QED
    BY <1>2, <2>1
<1>3. m * u \in Nat /\ (m + 1) * u = m * u + u
  OBVIOUS
<1>4. QED
  BY <1>1, <1>2, <1>3

LEMMA DivMod ==
  ASSUME NEW u \in Nat \ {0}, NEW q \in Nat, NEW r \in 0 .. u - 1
  PROVE  (q * u + r) \div u = q /\ (q * u + r) % u = r
<1> DEFINE a == q * u + r
           d == a \div u
           e == a % u
<1>1. a \in Nat /\ q * u \in Nat
  BY Scaled
<1>2. d \in Nat /\ e \in 0 .. u - 1 /\ a = d * u + e
  BY <1>1, Division
<1>3. d * u + e = q * u + r
  BY <1>2
<1>4. d = q
  <2> HIDE DEF d, e, a
  <2>1. ~(d < q)
    <3>1. SUFFICES ASSUME d < q PROVE FALSE
      OBVIOUS
    <3>2. (d + 1) * u <= q * u /\ (d + 1) * u = d * u + u /\ d * u \in Nat
      BY <1>2, <3>1, Scaled
    <3>3. QED
      BY <1>1, <1>2, <1>3, <3>2
  <2>2. ~(q < d)
    <3>1. SUFFICES ASSUME q < d PROVE FALSE
      OBVIOUS
    <3>2. (q + 1) * u <= d * u /\ (q + 1) * u = q * u + u /\ d * u \in Nat
      BY <1>2, <3>1, Scaled
    <3>3. QED
      BY <1>1, <1>2, <1>3, <3>2
  <2>3. QED
    BY <1>2, <2>1, <2>2
<1>5. e = r
  <2> HIDE DEF d, e, a
  <2>1. d * u = q * u
    BY <1>4
  <2>2. QED
    BY <1>1, <1>2, <1>3, <2>1
<1>6. QED
  BY <1>4, <1>5

\* A position in the m-th cluster is a unit in a sector of it.
LEMMA UnitOf ==
  ASSUME NEW m \in Nat, NEW o \in 0 .. ClusterUnits - 1, NEW i \in Nat,
         (o % SectorUnits) + i < SectorUnits
  PROVE  LET p == m * ClusterUnits + (o + i) IN
         /\ p \in Nat /\ o + i < ClusterUnits
         /\ p \div ClusterUnits = m
         /\ (p % ClusterUnits) \div SectorUnits = o \div SectorUnits
         /\ p % SectorUnits = (o % SectorUnits) + i
<1> DEFINE S == SectorUnits
           k == o \div S
           r == o % S
<1>0. S \in Nat \ {0} /\ ClusterSectors \in Nat \ {0} /\ ClusterUnits \in Nat \ {0} /\ o \in Nat
  BY SectorAssumption, CountType
<1>1. k \in Nat /\ r \in 0 .. S - 1 /\ o = k * S + r /\ k * S \in Nat
  BY <1>0, Division, Scaled
<1>2. k < ClusterSectors
  <2> HIDE DEF k, r, S
  <2>1. ClusterUnits = ClusterSectors * S
    BY DEF ClusterUnits, S
  <2>2. k * S < ClusterSectors * S
    BY <1>0, <1>1, <2>1
  <2>3. QED
    BY <1>0, <1>1, <2>2, Scaled
<1>3. o + i < ClusterUnits
  <2> HIDE DEF k, r, S
  <2>0. r + i < S
    BY DEF r, S
  <2>1. ClusterUnits = ClusterSectors * S
    BY DEF ClusterUnits, S
  <2>2. (k + 1) * S <= ClusterSectors * S /\ (k + 1) * S = k * S + S
    BY <1>0, <1>1, <1>2, Scaled
  <2>3. ClusterSectors * S \in Nat
    BY <1>0, Scaled
  <2>4. QED
    BY <1>0, <1>1, <2>0, <2>1, <2>2, <2>3
<1>4. r + i \in 0 .. S - 1
  BY <1>0, <1>1
<1>5. o + i = k * S + (r + i)
  <2> HIDE DEF k, r, S
  <2> QED
    BY <1>0, <1>1
<1>6. (o + i) \div S = k /\ (o + i) % S = r + i
  <2> HIDE DEF k, r, S
  <2>1. (k * S + (r + i)) \div S = k /\ (k * S + (r + i)) % S = r + i
    BY <1>0, <1>1, <1>4, DivMod
  <2>2. QED
    BY <1>5, <2>1
<1> DEFINE p == m * ClusterUnits + (o + i)
<1>7. p \div ClusterUnits = m /\ p % ClusterUnits = o + i
  <2>1. o + i \in 0 .. ClusterUnits - 1
    BY <1>0, <1>3
  <2>2. QED
    BY <1>0, <2>1, DivMod
<1>8. p \in Nat
  BY <1>0, Scaled
<1>9. p = (m * ClusterSectors + k) * S + (r + i)
  <2> HIDE DEF k, r, S
  <2>1. m * ClusterUnits = (m * ClusterSectors) * S
    BY <1>0 DEF ClusterUnits, S
  <2>2. m * ClusterSectors \in Nat
    BY <1>0, Scaled
  <2>3. \A x, y, z \in Nat : (x + y) * z = x * z + y * z
    OBVIOUS
  <2>4. (m * ClusterSectors + k) * S = (m * ClusterSectors) * S + k * S
    BY <1>0, <1>1, <2>2, <2>3
  <2>5. m * ClusterUnits \in Nat
    BY <1>0, Scaled
  <2>6. QED
    BY <1>0, <1>1, <1>5, <2>1, <2>4, <2>5
<1>10. p % S = r + i
  <2> HIDE DEF k, r, S, p
  <2>1. m * ClusterSectors + k \in Nat
    BY <1>0, <1>1, Scaled
  <2>2. QED
    BY <1>0, <1>4, <1>9, <2>1, DivMod
<1>11. QED
  BY <1>3, <1>6, <1>7, <1>8, <1>10

-----------------------------------------------------------------------------
(* What a file's record keeps.                                             *)

LEMMA MetType ==
  ASSUME NEW c, NEW s
  PROVE  /\ IsFiniteSet(Met(c, s)) /\ Cardinality(Met(c, s)) \in Nat
         /\ \A k \in 0 .. Count : Chain(c, s)[k] \in Clusters => Chain(c, s)[k] \in Met(c, s)
<1>1. Met(c, s) \in SUBSET Clusters
  BY DEF Met
<1>2. IsFiniteSet(Met(c, s))
  BY <1>1, CardAssumption, FS_Subset
<1>3. Cardinality(Met(c, s)) \in Nat
  BY <1>2, FS_CardinalityType
<1>4. DOMAIN Chain(c, s) = 0 .. Count
  BY ChainLinks
<1>5. QED
  BY <1>2, <1>3, <1>4 DEF Met

\* The size of a file is that of the clusters it may have.
LEMMA SizeType ==
  ASSUME NEW c \in Cards, NEW s \in Streams, File[c][s] # Missing
  PROVE  /\ File[c][s].size \in Nat /\ File[c][s].size <= Count * ClusterUnits
         /\ File[c][s].size > 0 => File[c][s].first \in Clusters
<1>1. Count * ClusterUnits \in Nat
  BY CountType, Scaled
<1>2. File[c][s].size \in 0 .. Count * ClusterUnits
  BY FileAssumption DEF Count
<1>3. QED
  BY <1>1, <1>2, FileAssumption

\* The record that find_entry makes.
LEMMA FollowsOpened ==
  ASSUME NEW c \in Cards, NEW s \in Streams, File[c][s] # Missing
  PROVE  LET f == [Closed EXCEPT !.cluster = File[c][s].first, !.size = File[c][s].size,
                                 !.anchor = File[c][s].first]
         IN  f \in FileRecords /\ Follows(c, s, f)
<1> DEFINE f == [Closed EXCEPT !.cluster = File[c][s].first, !.size = File[c][s].size,
                               !.anchor = File[c][s].first]
<1>1. Closed \in FileRecords /\ Closed.position = 0 /\ Closed.offset = 0
      /\ Closed.power = 1 /\ Closed.steps = 0
  BY DEF Closed, FileRecords, Places
<1>2. File[c][s].first \in Places
  BY DEF Places
<1>3. File[c][s].size \in Nat
  BY SizeType
<1>4. f \in FileRecords
  BY <1>1, <1>2, <1>3 DEF FileRecords
<1>5. f.cluster = File[c][s].first /\ f.size = File[c][s].size /\ f.position = 0 /\ f.offset = 0
      /\ f.anchor = File[c][s].first /\ f.power = 1 /\ f.steps = 0
  BY <1>1 DEF FileRecords
<1> HIDE DEF f
<1>6. Index(f) = 0 /\ 0 \in 0 .. Count
  BY <1>5, CountType DEF Index
<1>7. Chain(c, s)[0] = File[c][s].first
  BY ChainLinks
<1>8. 0 * ClusterUnits = 0 /\ 0 <= ClusterUnits
  BY CountType
<1>9. f.size > 0 => \A k \in 0 .. Index(f) : Chain(c, s)[k] \in Clusters
  BY <1>5, <1>6, <1>7, SizeType
<1>10. Follows(c, s, f)
  BY <1>3, <1>5, <1>6, <1>7, <1>8, <1>9 DEF Follows
<1>11. QED
  BY <1>4, <1>10 DEF f

\* A file at the end of a cluster, and not at its own, has another cluster to
\* come.
LEMMA AnotherCluster ==
  ASSUME NEW c, NEW s \in Streams, NEW f \in FileRecords, Follows(c, s, f),
         f.offset = ClusterUnits, f.position < f.size
  PROVE  /\ Index(f) \in Nat /\ Index(f) + 1 <= Count - 1
         /\ f.position = (Index(f) + 1) * ClusterUnits
         /\ Index(f) + 1 <= NeededClusters(c, s) - 1
         /\ f.cluster \in Clusters /\ f.anchor \in Clusters
<1> DEFINE m == Index(f)
           u == ClusterUnits
<1>1. m \in Nat /\ u \in Nat \ {0} /\ Count \in Nat /\ f.position = m * u + u /\ f.size \in Nat
  BY CountType DEF Follows, FileRecords
<1>2. c \in Cards /\ f.size = File[c][s].size /\ f.size <= Count * u
  BY SizeType DEF Follows
<1>3. f.position = (m + 1) * u /\ f.position \in Nat
  BY <1>1, Scaled DEF FileRecords
<1>4. m + 1 < Count
  <2> HIDE DEF m, u
  <2>1. (m + 1) * u < Count * u
    <3>1. Count * u \in Nat
      BY <1>1, Scaled
    <3>2. QED
      BY <1>1, <1>2, <1>3, <3>1
  <2>2. QED
    BY <1>1, <2>1, Scaled
<1>5. m + 1 <= NeededClusters(c, s) - 1
  <2> DEFINE a == f.size + u - 1
             d == a \div u
             e == a % u
  <2> HIDE DEF m, u
  <2>1. a \in Nat /\ a >= (m + 1) * u + u
    BY <1>1, <1>3
  <2>2. d \in Nat /\ e \in 0 .. u - 1 /\ a = d * u + e
    BY <1>1, <2>1, Division
  <2>3. (m + 2) * u = (m + 1) * u + u
    BY <1>1
  <2> HIDE DEF d, e, a
  <2>4. (m + 2) * u < (d + 1) * u
    <3>1. (d + 1) * u = d * u + u /\ d * u \in Nat
      BY <1>1, <2>2, Scaled
    <3>2. (m + 2) * u \in Nat
      BY <1>1, Scaled
    <3>3. QED
      BY <1>1, <2>1, <2>2, <2>3, <3>1, <3>2
  <2>5. m + 2 < d + 1
    BY <1>1, <2>2, <2>4, Scaled
  <2>6. NeededClusters(c, s) = d
    BY <1>2 DEF NeededClusters, d, a, u
  <2>7. QED
    BY <1>1, <2>2, <2>5, <2>6
<1>6. \A k \in 0 .. m : Chain(c, s)[k] \in Clusters
  BY <1>1 DEF Follows, FileRecords
<1>7. m \in 0 .. m /\ f.power - 1 \in 0 .. m
  BY <1>1 DEF FileRecords, Index
<1>8. f.cluster \in Clusters /\ f.anchor \in Clusters
  BY <1>6, <1>7 DEF Follows
<1>9. QED
  BY <1>1, <1>3, <1>4, <1>5, <1>8

\* The clusters a file has met: as many as the number after which it remembered
\* one, or more than it has passed since.
LEMMA EnoughMet ==
  ASSUME NEW c, NEW s \in Streams, NEW f \in FileRecords, Follows(c, s, f), f.size > 0
  PROVE  f.power <= Cardinality(Met(c, s)) \/ f.steps + 1 <= Cardinality(Met(c, s))
<1> DEFINE m == Index(f)
           a == f.power - 1
<1>0. m \in 0 .. Count /\ f.power \in Nat \ {0} /\ f.steps \in Nat
  BY DEF Follows, FileRecords
<1>1. m \in Nat /\ m <= Count /\ a \in 0 .. m /\ Count \in Nat /\ m - a = f.steps
      /\ f.power = a + 1
  BY <1>0, CountType DEF Index
<1>2. \A k \in 0 .. m : Chain(c, s)[k] \in Clusters
  BY DEF Follows
<1>3. \A k \in 0 .. m : Chain(c, s)[k] \in Met(c, s)
  BY <1>1, <1>2, MetType
<1>4. Walk(Chain(c, s), m)
  <2>1. \A i \in 0 .. m - 1 : Chain(c, s)[i + 1] = Fat[c][Chain(c, s)[i]]
    <3>1. \A k \in 0 .. Count - 1 : Chain(c, s)[k] \in Clusters
            => Chain(c, s)[k + 1] = Fat[c][Chain(c, s)[k]]
      BY ChainLinks
    <3> HIDE DEF m
    <3>2. \A k \in 0 .. m - 1 : k \in 0 .. Count - 1 /\ k \in 0 .. m
      BY <1>1
    <3>3. QED
      BY <1>2, <3>1, <3>2
  <2>2. QED
    BY <2>1 DEF Walk
<1>5. \A k \in a + 1 .. m : Chain(c, s)[k] # Chain(c, s)[a]
  BY <1>1 DEF Follows
<1>6. IsFiniteSet(Met(c, s))
  BY MetType
<1> HIDE DEF m, a
<1>7. a + 1 <= Cardinality(Met(c, s)) \/ (m - a) + 1 <= Cardinality(Met(c, s))
  BY <1>1, <1>3, <1>4, <1>5, <1>6, NoMeeting
<1>8. QED
  BY <1>1, <1>7

\* A position is within three times the clusters the file has met.
LEMMA FollowsBound ==
  ASSUME NEW c, NEW s \in Streams, NEW f \in FileRecords, Follows(c, s, f)
  PROVE  f.position <= 3 * ClusterUnits * Cardinality(Met(c, s))
<1> DEFINE d == Cardinality(Met(c, s))
           u == ClusterUnits
           m == Index(f)
<1>0. d \in Nat /\ u \in Nat \ {0}
  BY MetType, CountType
<1>1. f.position \in Nat /\ f.size \in Nat /\ f.position <= f.size /\ f.power \in Nat \ {0}
      /\ f.steps \in Nat /\ f.offset \in Nat
  BY DEF FileRecords, Follows
<1>2. 3 * u * d = (3 * d) * u /\ (3 * d) * u \in Nat /\ 3 * d \in Nat
  BY <1>0
<1>3. CASE f.size = 0
  BY <1>1, <1>2, <1>3
<1>4. CASE f.size > 0
  <2>1. f.steps < f.power /\ (f.power = 1 \/ f.power <= 2 * d)
        /\ f.position = m * u + f.offset /\ f.offset <= u /\ m \in Nat
    BY CountType DEF Follows
  <2>2. f.power <= d \/ f.steps + 1 <= d
    BY <1>4, EnoughMet
  <2>3. m + 1 <= 3 * d
    BY <1>0, <1>1, <2>1, <2>2 DEF Index
  <2> HIDE DEF d, u, m
  <2>4. (m + 1) * u <= (3 * d) * u /\ (m + 1) * u = m * u + u /\ m * u \in Nat
    <3>1. m + 1 \in Nat
      BY <2>1
    <3>2. QED
      BY <1>0, <1>2, <2>1, <2>3, <3>1, Scaled
  <2>5. f.position <= (3 * d) * u
    BY <1>0, <1>1, <1>2, <2>1, <2>4
  <2>6. QED
    BY <1>2, <2>5 DEF d, u
<1>5. QED
  BY <1>1, <1>3, <1>4

\* A file goes on to the next cluster of its chain.
LEMMA FollowsNext ==
  ASSUME NEW c, NEW s \in Streams, NEW f \in FileRecords, Follows(c, s, f),
         f.offset = ClusterUnits, f.position < f.size,
         NEW next \in Clusters \ {f.cluster, f.anchor}, next = Fat[c][f.cluster]
  PROVE  Advanced(f, next) \in FileRecords /\ Follows(c, s, Advanced(f, next))
<1> DEFINE g == Advanced(f, next)
           m == Index(f)
           d == Cardinality(Met(c, s))
<1>1. m \in Nat /\ m + 1 <= Count - 1 /\ f.position = (m + 1) * ClusterUnits
      /\ f.cluster \in Clusters
  BY AnotherCluster
<1>2. f.size \in Nat /\ f.position \in Nat /\ f.power \in Nat \ {0} /\ f.steps \in Nat
      /\ f.anchor \in Places /\ f.steps < f.power /\ d \in Nat /\ Count \in Nat
      /\ ClusterUnits \in Nat
  BY MetType, CountType DEF FileRecords, Follows
<1>3. Chain(c, s)[m + 1] = next
  <2>1. f.cluster = Chain(c, s)[m]
    BY DEF Follows
  <2>2. m \in 0 .. Count - 1
    BY <1>1, <1>2
  <2>3. Chain(c, s)[m] \in Clusters => Chain(c, s)[m + 1] = Fat[c][Chain(c, s)[m]]
    BY <2>2, ChainLinks
  <2>4. QED
    BY <1>1, <2>1, <2>3
<1>4. next \in Places
  BY DEF Places
<1>5. g \in FileRecords /\ g.cluster = next /\ g.offset = 0 /\ g.size = f.size
      /\ g.position = f.position
  <2>1. CASE f.steps + 1 = f.power
    <3>1. g = [f EXCEPT !.cluster = next, !.offset = 0, !.anchor = next, !.steps = 0,
                        !.power = 2 * f.power]
      BY <2>1 DEF Advanced
    <3> HIDE DEF g
    <3>2. 2 * f.power \in Nat \ {0}
      BY <1>2
    <3>3. QED
      BY <1>2, <1>4, <3>1, <3>2 DEF FileRecords
  <2>2. CASE f.steps + 1 # f.power
    <3>1. g = [f EXCEPT !.cluster = next, !.offset = 0, !.steps = f.steps + 1]
      BY <2>2 DEF Advanced
    <3> HIDE DEF g
    <3>2. f.steps + 1 \in Nat
      BY <1>2
    <3>3. QED
      BY <1>2, <1>4, <3>1, <3>2 DEF FileRecords
  <2>3. QED
    BY <2>1, <2>2
<1>6. IF f.steps + 1 = f.power
      THEN g.anchor = next /\ g.steps = 0 /\ g.power = 2 * f.power
      ELSE g.anchor = f.anchor /\ g.steps = f.steps + 1 /\ g.power = f.power
  BY DEF Advanced, FileRecords
<1>7. Index(g) = m + 1 /\ g.steps < g.power
  BY <1>2, <1>6 DEF Index
<1> HIDE DEF g
<1>8. \A k \in 0 .. m + 1 : Chain(c, s)[k] \in Clusters
  <2>1. \A k \in 0 .. m : Chain(c, s)[k] \in Clusters
    BY <1>1, <1>2 DEF Follows
  <2> HIDE DEF m
  <2>2. \A k \in 0 .. m + 1 : k \in 0 .. m \/ k = m + 1
    BY <1>1
  <2>3. QED
    BY <1>3, <2>1, <2>2
<1>9. g.anchor = Chain(c, s)[g.power - 1]
  <2>1. f.anchor = Chain(c, s)[f.power - 1]
    BY DEF Follows
  <2>2. f.steps + 1 = f.power => 2 * f.power - 1 = m + 1
    BY <1>2 DEF Index
  <2>3. QED
    BY <1>3, <1>6, <2>1, <2>2
<1>10. \A k \in g.power .. m + 1 : Chain(c, s)[k] # g.anchor
  <2>1. \A k \in f.power .. m : Chain(c, s)[k] # f.anchor
    BY DEF Follows
  <2>2. CASE f.steps + 1 = f.power
    BY <1>2, <1>6, <2>2 DEF Index
  <2>3. CASE f.steps + 1 # f.power
    <3>1. g.power = f.power /\ g.anchor = f.anchor
      BY <1>6, <2>3
    <3> HIDE DEF m
    <3>2. \A k \in f.power .. m + 1 : k \in f.power .. m \/ k = m + 1
      BY <1>1, <1>2
    <3>3. QED
      BY <1>3, <2>1, <3>1, <3>2
  <2>4. QED
    BY <2>2, <2>3
<1>11. g.power = 1 \/ g.power <= 2 * d
  <2>1. f.power = 1 \/ f.power <= 2 * d
    BY DEF Follows
  <2>2. f.power <= d \/ f.steps + 1 <= d
    BY <1>2, EnoughMet
  <2>3. QED
    BY <1>2, <1>6, <2>1, <2>2
<1>12. /\ c \in Cards /\ File[c][s] # Missing /\ g.size = File[c][s].size
       /\ g.position <= g.size /\ g.offset <= ClusterUnits
  BY <1>2, <1>5 DEF Follows
<1>13. m + 1 \in 0 .. Count /\ g.position = (m + 1) * ClusterUnits + g.offset
  BY <1>1, <1>2, <1>5
<1> HIDE DEF m, d
<1>14. Follows(c, s, g)
  BY <1>3, <1>5, <1>7, <1>8, <1>9, <1>10, <1>11, <1>12, <1>13 DEF Follows, d
<1>15. QED
  BY <1>5, <1>14 DEF g

\* A file whose next cluster is none, or one that it remembers, is not sound.
LEMMA BrokenChain ==
  ASSUME NEW c, NEW s \in Streams, NEW f \in FileRecords, Follows(c, s, f),
         f.offset = ClusterUnits, f.position < f.size,
         Fat[c][f.cluster] \notin Clusters \ {f.cluster, f.anchor}
  PROVE  ~Sound(c, s)
<1> DEFINE m == Index(f)
<1>1. m \in Nat /\ m + 1 <= Count - 1 /\ m + 1 <= NeededClusters(c, s) - 1
      /\ f.cluster \in Clusters
  BY AnotherCluster
<1>2. f.power \in Nat \ {0} /\ f.steps \in Nat /\ Count \in Nat
  BY CountType DEF FileRecords
<1>3. Chain(c, s)[m + 1] = Fat[c][f.cluster]
  <2>1. f.cluster = Chain(c, s)[m]
    BY DEF Follows
  <2>2. m \in 0 .. Count - 1
    BY <1>1, <1>2
  <2>3. Chain(c, s)[m] \in Clusters => Chain(c, s)[m + 1] = Fat[c][Chain(c, s)[m]]
    BY <2>2, ChainLinks
  <2>4. QED
    BY <1>1, <2>1, <2>3
<1>4. m \in 0 .. m /\ f.power - 1 \in 0 .. m
  BY <1>1, <1>2 DEF Index
<1>5. f.cluster = Chain(c, s)[m] /\ f.anchor = Chain(c, s)[f.power - 1]
  BY DEF Follows
<1>6. NeededClusters(c, s) \in Int
  <2>1. File[c][s].size \in Nat
    BY SizeType DEF Follows
  <2>2. File[c][s].size + ClusterUnits - 1 \in Nat
    BY <2>1, CountType
  <2>3. QED
    BY <2>2, CountType, Division DEF NeededClusters
<1> HIDE DEF m
<1>7. m + 1 \in 0 .. NeededClusters(c, s) - 1 /\ (m + 1) - 1 = m
  BY <1>1, <1>6
<1>8. SUFFICES ASSUME Sound(c, s) PROVE FALSE
  OBVIOUS
<1>9. Chain(c, s)[m + 1] \in Clusters /\ \A j \in 0 .. m : Chain(c, s)[j] # Chain(c, s)[m + 1]
  BY <1>7, <1>8 DEF Sound
<1>10. QED
  BY <1>3, <1>4, <1>5, <1>9

\* f becomes g by n units of the sector it is at.
ReadsOn(f, g, n) ==
  /\ f.offset # ClusterUnits /\ f.position + n <= f.size
  /\ (f.offset % SectorUnits) + n <= SectorUnits
  /\ g.position = f.position + n /\ g.offset = f.offset + n /\ g.cluster = f.cluster
  /\ g.size = f.size /\ g.anchor = f.anchor /\ g.power = f.power /\ g.steps = f.steps

\* A file that is read within a sector: its position moves on, and the units of
\* the sector are those of the file.
LEMMA FollowsCopy ==
  ASSUME NEW c, NEW s \in Streams, NEW f \in FileRecords, Follows(c, s, f),
         NEW n \in Nat, NEW g \in FileRecords, ReadsOn(f, g, n)
  PROVE  /\ Follows(c, s, g)
         /\ \A i \in 1 .. n :
              << <<c, DataSector(f.cluster, f.offset \div SectorUnits)>>,
                 (f.offset % SectorUnits) + i - 1 >>
                = UnitAt(c, s, g.position - n + i - 1)
<1> DEFINE m == Index(f)
           u == ClusterUnits
           o == f.offset
<1>r. /\ f.offset # ClusterUnits /\ f.position + n <= f.size
      /\ (f.offset % SectorUnits) + n <= SectorUnits
      /\ g.position = f.position + n /\ g.offset = f.offset + n /\ g.cluster = f.cluster
      /\ g.size = f.size /\ g.anchor = f.anchor /\ g.power = f.power /\ g.steps = f.steps
  BY DEF ReadsOn
<1>0. m \in 0 .. Count /\ f.position = m * u + o /\ o <= u
  BY DEF Follows
<1>3. Index(g) = m
  BY <1>r DEF Index
<1>1. m \in Nat /\ u \in Nat \ {0} /\ o \in 0 .. u - 1 /\ f.position = m * u + o /\ f.position \in Nat
  <2>1. f.offset \in Nat /\ f.position \in Nat
    BY DEF FileRecords
  <2> HIDE DEF m
  <2>2. QED
    BY <1>r, <1>0, <2>1, CountType
<1> HIDE DEF m, u, o
<1>2. m * u \in Nat /\ SectorUnits \in Nat \ {0} /\ o % SectorUnits \in 0 .. SectorUnits - 1
  <2>1. o \in Nat /\ SectorUnits \in Nat \ {0}
    BY <1>1, SectorAssumption
  <2>2. o % SectorUnits \in 0 .. SectorUnits - 1
    BY <2>1, Division
  <2>3. QED
    BY <1>1, <2>1, <2>2, Scaled
<1>4. \A j \in 0 .. n - 1 : LET p == m * u + (o + j) IN
         /\ p \in Nat /\ o + j < u
         /\ p \div u = m
         /\ (p % u) \div SectorUnits = o \div SectorUnits
         /\ p % SectorUnits = (o % SectorUnits) + j
  <2> TAKE j \in 0 .. n - 1
  <2>1. (o % SectorUnits) + j < SectorUnits /\ j \in Nat
    BY <1>r, <1>2 DEF o
  <2>2. QED
    BY <1>1, <2>1, UnitOf DEF u
<1>5. o + n <= u
  <2>1. CASE n = 0
    BY <1>1, <2>1
  <2>2. CASE n # 0
    <3>1. n - 1 \in 0 .. n - 1
      BY <2>2
    <3>2. o + (n - 1) < u
      BY <1>4, <3>1
    <3>3. QED
      BY <1>1, <3>2
  <2>3. QED
    BY <2>1, <2>2
<1>6. g.position = m * u + g.offset /\ g.offset <= ClusterUnits /\ g.position <= g.size
  BY <1>r, <1>1, <1>2, <1>5 DEF o, u
<1>7. Follows(c, s, g)
  BY <1>r, <1>3, <1>6 DEF Follows, m, u
<1>8. ASSUME NEW i \in 1 .. n
      PROVE  << <<c, DataSector(f.cluster, f.offset \div SectorUnits)>>,
                 (f.offset % SectorUnits) + i - 1 >>
                = UnitAt(c, s, g.position - n + i - 1)
  <2> DEFINE p == m * u + (o + (i - 1))
  <2>1. g.position - n + i - 1 = p
    BY <1>r, <1>1, <1>2 DEF o
  <2>2. /\ p \div u = m
        /\ (p % u) \div SectorUnits = o \div SectorUnits
        /\ p % SectorUnits = (o % SectorUnits) + (i - 1)
    <3>1. i - 1 \in 0 .. n - 1
      OBVIOUS
    <3>2. QED
      BY <1>4, <3>1
  <2> HIDE DEF p
  <2>3. (o % SectorUnits) + (i - 1) = (f.offset % SectorUnits) + i - 1
    BY <1>2 DEF o
  <2>4. f.cluster = Chain(c, s)[m]
    BY DEF Follows, m
  <2>5. UnitAt(c, s, p) = << <<c, DataSector(Chain(c, s)[m], o \div SectorUnits)>>,
                             (o % SectorUnits) + (i - 1) >>
    BY <2>2 DEF UnitAt, u
  <2>6. QED
    BY <2>1, <2>3, <2>4, <2>5 DEF o
<1>9. QED
  BY <1>7, <1>8

-----------------------------------------------------------------------------
(* The initial states, and the types.                                      *)

LEMMA ClosedType == Closed \in FileRecords /\ Idle \in Calls /\ Idle.copied <= Idle.want
  BY DEF Closed, FileRecords, Places, Idle, Calls, Streams

LEMMA InitSInv == Init => SInv
<1>1. SUFFICES ASSUME Init PROVE SInv
  OBVIOUS
<1>2. Types
  <2>1. origin \in [Streams -> Cards] /\ result \in [Streams -> Results]
    BY <1>1 DEF Init, Results
  <2>2. file \in [Streams -> FileRecords] /\ call \in Calls /\ call.copied <= call.want
    BY <1>1, ClosedType DEF Init
  <2>3. \A s \in Streams : ~using[s] => file[s] = Closed
    BY <1>1 DEF Init
  <2>4. /\ card \in Cards \union {NoCard} /\ ready \in BOOLEAN /\ mounted \in BOOLEAN
        /\ errors \in 0 .. 3
    <3>1. card \in Cards /\ ready = FALSE /\ mounted = FALSE /\ errors = 0
      BY <1>1 DEF Init
    <3>2. card \in Cards \union {NoCard} /\ ready \in BOOLEAN /\ mounted \in BOOLEAN
      BY <3>1, Zenon
    <3>3. errors \in 0 .. 3
      BY <3>1
    <3>4. QED
      BY <3>2, <3>3, Zenon
  <2>5. open \in [Streams -> BOOLEAN] /\ using \in [Streams -> BOOLEAN]
        /\ hurt \in [Streams -> BOOLEAN]
    BY <1>1 DEF Init
  <2>6. DOMAIN chunk = Streams
    BY <1>1 DEF Init
  <2>7. QED
    BY <2>1, <2>2, <2>3, <2>4, <2>5, <2>6 DEF Types
<1>3. Control /\ Cached
  BY <1>1 DEF Init, Control, Cached, Idle
<1>4. Tracks /\ Verdicts /\ BytesInOrder
  BY <1>1 DEF Init, Tracks, Verdicts, BytesInOrder
<1>5. buffer[1] \in Cards \union {NoCard}
  BY <1>1 DEF Init
<1>6. QED
  BY <1>2, <1>3, <1>4, <1>5 DEF SInv

\* A copy takes what is left of the sector, of the request and of the file.
CopySize(f, c) == Least(SectorUnits - (f.offset % SectorUnits),
                        Least(c.want - c.copied, f.size - f.position))

LEMMA CopySizeType ==
  ASSUME NEW f \in FileRecords, NEW c \in Calls, c.copied < c.want, f.position < f.size
  PROVE  LET n == CopySize(f, c) IN
         /\ n \in Nat /\ c.copied + n <= c.want /\ f.position + n <= f.size
         /\ (f.offset % SectorUnits) + n <= SectorUnits
<1>1. f.offset % SectorUnits \in 0 .. SectorUnits - 1 /\ SectorUnits \in Nat
  <2>1. f.offset \in Nat /\ SectorUnits \in Nat \ {0}
    BY SectorAssumption DEF FileRecords
  <2>2. QED
    BY <2>1, Division
<1> DEFINE a == f.offset % SectorUnits
<1>2. c.want \in Nat /\ c.copied \in Nat /\ f.size \in Nat /\ f.position \in Nat
  BY DEF Calls, FileRecords
<1> HIDE DEF a
<1>3. a \in 0 .. SectorUnits - 1
  BY <1>1 DEF a
<1>4. CopySize(f, c) = Least(SectorUnits - a, Least(c.want - c.copied, f.size - f.position))
  BY DEF CopySize, a
<1>5. QED
  BY <1>1, <1>2, <1>3, <1>4 DEF Least, a

\* What a call does to its stream's record while it reads.
LEMMA CopyStep ==
  ASSUME Types, CopyData
  PROVE  LET s == call.stream
             f == file[s]
             n == CopySize(f, call)
             g == [f EXCEPT !.position = @ + n, !.offset = @ + n]
         IN  /\ s \in Streams /\ f \in FileRecords /\ f.offset # ClusterUnits
             /\ call.at = "read" /\ cached = Needed /\ f.position < f.size
             /\ n \in Nat /\ call.copied + n <= call.want /\ f.position + n <= f.size
             /\ (f.offset % SectorUnits) + n <= SectorUnits
             /\ g \in FileRecords /\ file' = [file EXCEPT ![s] = g]
             /\ call' = [call EXCEPT !.copied = @ + n]
             /\ chunk' = [chunk EXCEPT ![s] =
                            [i \in 1 .. n |-> <<buffer, (f.offset % SectorUnits) + i - 1>>]]
<1> DEFINE s == call.stream
           f == file[s]
           n == CopySize(f, call)
           g == [f EXCEPT !.position = @ + n, !.offset = @ + n]
<1>1. s \in Streams /\ f \in FileRecords /\ call \in Calls
  BY DEF Types, Calls
<1>2. call.at = "read" /\ ReadOn /\ cached = Needed /\ f.offset # ClusterUnits
  BY DEF CopyData, Has, Fetching, Current
<1>3. call.copied < call.want /\ f.position < f.size
  BY <1>2 DEF ReadOn, Current
<1>4. /\ n \in Nat /\ call.copied + n <= call.want /\ f.position + n <= f.size
      /\ (f.offset % SectorUnits) + n <= SectorUnits
  BY <1>1, <1>3, CopySizeType
<1>5. /\ file' = [file EXCEPT ![s].position = @ + n, ![s].offset = @ + n]
      /\ call' = [call EXCEPT !.copied = @ + n]
      /\ chunk' = [chunk EXCEPT ![s] =
                     [i \in 1 .. n |-> <<buffer, (f.offset % SectorUnits) + i - 1>>]]
  BY DEF CopyData, CopySize, Current
<1> HIDE DEF n
<1>6. g \in FileRecords
  <2>1. f.position + n \in Nat /\ f.offset + n \in Nat
    BY <1>1, <1>4 DEF FileRecords
  <2>2. g = [f EXCEPT !.position = f.position + n, !.offset = f.offset + n]
    BY <1>1 DEF FileRecords
  <2> HIDE DEF g
  <2>3. QED
    BY <1>1, <2>1, <2>2 DEF FileRecords
<1>7. file' = [file EXCEPT ![s] = g]
  BY <1>1, <1>5 DEF Types
<1>8. QED
  BY <1>1, <1>2, <1>3, <1>4, <1>5, <1>6, <1>7 DEF n

-----------------------------------------------------------------------------
(* The end of a call without its sector.                                   *)

Ending == PutOff \/ Failed \/ Refused \/ ChainBroken

\* What Ending changes: the answer is an error, and the file is lost, only with
\* the card or with the chain.
LEMMA GivenUp ==
  ASSUME Types, Ending
  PROVE  /\ call' = Idle /\ UNCHANGED <<card, ready, file, using, chunk, origin>>
         /\ \E r \in Results : /\ result' = [result EXCEPT ![call.stream] = r]
                               /\ r = "error" => hurt' = AllHurt \/ ChainBroken
         /\ \/ mounted' = mounted /\ open' = open
            \/ /\ mounted' = FALSE /\ open' = [open EXCEPT ![call.stream] = FALSE]
               /\ hurt' = AllHurt \/ ChainBroken
<1>1. CASE PutOff
  <2>1. GiveUp(FALSE) /\ UNCHANGED <<card, ready, file, using, chunk, origin>>
    BY <1>1 DEF PutOff, cardVars, history
  <2>2. mounted' = mounted /\ open' = open
    BY <2>1 DEF GiveUp
  <2>3. call' = Idle /\ \E r \in {"failed", "data", "retry"} :
                          result' = [result EXCEPT ![call.stream] = r]
    BY <2>1, Zenon DEF GiveUp, Return
  <2>4. {"failed", "data", "retry"} \subseteq Results /\ "error" \notin {"failed", "data", "retry"}
    BY DEF Results
  <2>5. QED
    BY <2>1, <2>2, <2>3, <2>4, Zenon
<1>2. ASSUME NEW e \in BOOLEAN, Refused \/ Failed, e => hurt' = AllHurt,
             IF call.at # "read"
             THEN Return(call.stream, "failed") /\ UNCHANGED <<mounted, open>>
             ELSE /\ IF e THEN mounted' = FALSE /\ open' = [open EXCEPT ![call.stream] = FALSE]
                          ELSE UNCHANGED <<mounted, open>>
                  /\ Return(call.stream, IF call.copied > 0 THEN "data"
                                         ELSE IF e THEN "error" ELSE "retry")
      PROVE  /\ call' = Idle
             /\ \E r \in Results : /\ result' = [result EXCEPT ![call.stream] = r]
                                   /\ r = "error" => hurt' = AllHurt
             /\ \/ mounted' = mounted /\ open' = open
                \/ /\ mounted' = FALSE /\ open' = [open EXCEPT ![call.stream] = FALSE]
                   /\ hurt' = AllHurt
  <2>1. {"failed", "data", "retry", "error"} \subseteq Results
        /\ "error" \notin {"failed", "data", "retry"}
    BY DEF Results
  <2>2. CASE call.at # "read"
    BY <1>2, <2>1, <2>2, Zenon DEF Return
  <2>3. CASE call.at = "read" /\ e
    BY <1>2, <2>1, <2>3, Zenon DEF Return
  <2>4. CASE call.at = "read" /\ ~e
    <3>1. call' = Idle /\ \E r \in {"data", "retry"} :
                            result' = [result EXCEPT ![call.stream] = r]
      BY <1>2, <2>4, Zenon DEF Return
    <3>2. mounted' = mounted /\ open' = open
      BY <1>2, <2>4
    <3>3. QED
      BY <2>1, <3>1, <3>2, Zenon
  <2>5. QED
    BY <1>2, <2>2, <2>3, <2>4, Zenon
<1>3. CASE Failed
  <2>1. UNCHANGED <<card, ready, file, using, chunk, origin>>
    BY <1>3 DEF Failed, cardVars
  <2>2. (errors' = 3) \in BOOLEAN /\ (errors' = 3 => hurt' = AllHurt)
    BY <1>3, Zenon DEF Failed
  <2>3. GiveUp(errors' = 3)
    BY <1>3 DEF Failed
  <2>4. QED
    BY <1>2, <1>3, <2>1, <2>2, <2>3, Zenon DEF GiveUp
<1>4. CASE Refused
  <2>1. UNCHANGED <<card, ready, file, using, chunk, origin>>
    BY <1>4 DEF Refused, cardVars
  <2>2. hurt' = AllHurt /\ GiveUp(TRUE)
    BY <1>4 DEF Refused
  <2>3. QED
    BY <1>2, <1>4, <2>1, <2>2, Zenon DEF GiveUp
<1>5. CASE ChainBroken
  <2>1. UNCHANGED <<card, ready, file, using, chunk, origin>> /\ GiveUp(TRUE)
    BY <1>5 DEF ChainBroken, cardVars
  <2>2. call.at = "read"
    BY <1>5 DEF ChainBroken, AtCluster, Has
  <2>3. mounted' = FALSE /\ open' = [open EXCEPT ![call.stream] = FALSE]
    BY <2>1, <2>2, Zenon DEF GiveUp
  <2>4. call' = Idle /\ \E r \in {"data", "error"} :
                          result' = [result EXCEPT ![call.stream] = r]
    BY <2>1, <2>2, Zenon DEF GiveUp, Return
  <2>5. {"data", "error"} \subseteq Results
    BY DEF Results
  <2>6. QED
    BY <1>5, <2>1, <2>3, <2>4, <2>5, Zenon
<1>6. QED
  BY <1>1, <1>3, <1>4, <1>5 DEF Ending

LEMMA GivenUpMarks ==
  ASSUME Types, Ending
  PROVE  /\ hurt' \in [Streams -> BOOLEAN] /\ errors' \in 0 .. 3
         /\ \A s \in Streams : hurt[s] => hurt'[s]
         /\ ChainBroken => hurt'[Other(call.stream)]
         /\ cached' = NoSector \/ (cached' = cached /\ buffer' = buffer)
<1>1. hurt \in [Streams -> BOOLEAN] /\ call.stream \in Streams /\ errors \in 0 .. 3
  BY DEF Types, Calls
<1>2. AllHurt \in [Streams -> BOOLEAN] /\ \A s \in Streams : AllHurt[s]
  BY DEF AllHurt
<1>3. Other(call.stream) \in Streams
  BY DEF Other, Streams
<1>4. CASE PutOff
  <2>1. UNCHANGED <<hurt, errors>> /\ cached' = NoSector
    BY <1>4 DEF PutOff, Spoiled, history
  <2>2. ~ChainBroken
    BY <1>4 DEF PutOff, Missed, ChainBroken, AtCluster, Has
  <2>3. QED
    BY <1>1, <2>1, <2>2
<1>5. CASE Failed
  <2>1. hurt' \in {hurt, AllHurt} /\ cached' = NoSector
    BY <1>5 DEF Failed, Spoiled
  <2>2. ~ChainBroken
    BY <1>5 DEF Failed, Missed, ChainBroken, AtCluster, Has
  <2>3. errors' = (IF errors < 3 THEN errors + 1 ELSE 3)
    BY <1>5 DEF Failed
  <2>4. errors' \in 0 .. 3
    BY <1>1, <2>3
  <2>5. QED
    BY <1>1, <1>2, <2>1, <2>2, <2>4
<1>6. CASE Refused
  <2>1. hurt' = AllHurt /\ UNCHANGED errors /\ cached' = NoSector
    BY <1>6 DEF Refused, Spoiled
  <2>2. ~ChainBroken
    BY <1>6 DEF Refused, Missed, ChainBroken, AtCluster, Has
  <2>3. QED
    BY <1>1, <1>2, <2>1, <2>2
<1>7. CASE ChainBroken
  <2>1. hurt' = [hurt EXCEPT ![Other(call.stream)] = TRUE] /\ UNCHANGED <<cached, buffer, errors>>
    BY <1>7 DEF ChainBroken, cache
  <2>2. QED
    BY <1>1, <1>3, <2>1
<1>8. QED
  BY <1>4, <1>5, <1>6, <1>7 DEF Ending

-----------------------------------------------------------------------------
(* The steps keep the types.                                               *)

LEMMA FollowStep ==
  ASSUME Types, Tracks, Control, Cached, FollowChain
  PROVE  LET s == call.stream
             f == file[s]
             next == Fat[origin[s]][f.cluster]
         IN  /\ s \in Streams /\ using[s] /\ f \in FileRecords /\ Follows(origin[s], s, f)
             /\ f.offset = ClusterUnits /\ f.position < f.size
             /\ next \in Clusters \ {f.cluster, f.anchor}
             /\ file' = [file EXCEPT ![s] = Advanced(f, next)]
<1> DEFINE s == call.stream
           f == file[s]
<1>1. s \in Streams /\ f \in FileRecords
  BY DEF Types, Calls
<1>2. call.at = "read" /\ ReadOn /\ cached = Needed /\ f.offset = ClusterUnits
  BY DEF FollowChain, AtCluster, Has, Fetching, Current
<1>3. mounted /\ open[s] /\ using[s]
  BY <1>1, <1>2 DEF Control
<1>4. cached # NoSector
  BY <1>2 DEF Needed, NoSector, FatSector, Current
<1>5. buffer[1] = origin[s]
  BY <1>1, <1>3, <1>4 DEF Cached
<1>6. NextCluster \in Clusters \ {f.cluster, f.anchor} /\ NextCluster = Fat[origin[s]][f.cluster]
      /\ file' = [file EXCEPT ![s] = Advanced(f, NextCluster)]
  BY <1>5 DEF FollowChain, NextCluster, Current
<1>7. f.position < f.size
  BY <1>2 DEF ReadOn, Current
<1>8. QED
  BY <1>1, <1>2, <1>3, <1>6, <1>7 DEF Tracks

\* The file that find_entry opens.
Opened(c, s) == [Closed EXCEPT !.cluster = File[c][s].first, !.size = File[c][s].size,
                               !.anchor = File[c][s].first]

LEMMA OpenStep ==
  ASSUME Types, Control, Cached, FileFound
  PROVE  LET s == call.stream
             c == buffer[1]
         IN  /\ s \in Streams /\ c \in Cards /\ mounted /\ ready \in BOOLEAN
             /\ cached # NoSector /\ ~using[s]
             /\ Opened(c, s) \in FileRecords /\ Follows(c, s, Opened(c, s))
             /\ file' = [file EXCEPT ![s] = Opened(c, s)]
             /\ open' = [open EXCEPT ![s] = TRUE] /\ using' = [using EXCEPT ![s] = TRUE]
             /\ call' = Idle /\ result' = [result EXCEPT ![s] = "opened"]
             /\ chunk' = [chunk EXCEPT ![s] = <<>>] /\ origin' = [origin EXCEPT ![s] = c]
             /\ hurt' = [hurt EXCEPT ![s] = card # c \/ ~ready]
             /\ UNCHANGED <<card, ready, mounted, cached, buffer, errors>>
<1> DEFINE s == call.stream
           c == buffer[1]
<1>1. s \in Streams /\ ready \in BOOLEAN
  BY DEF Types, Calls
<1>2. call.at = "dir" /\ cached = Needed
  BY DEF FileFound, Has
<1>3. cached # NoSector
  BY <1>2 DEF Needed, NoSector, DirSector
<1>4. c \in Cards
  BY <1>3 DEF Cached
<1>5. mounted /\ ~using[s]
  BY <1>1, <1>2 DEF Control
<1>6. File[c][s] # Missing
  BY DEF FileFound
<1>7. Opened(c, s) \in FileRecords /\ Follows(c, s, Opened(c, s))
  BY <1>1, <1>4, <1>6, FollowsOpened DEF Opened
<1>8. /\ file' = [file EXCEPT ![s] = Opened(c, s)]
      /\ open' = [open EXCEPT ![s] = TRUE] /\ using' = [using EXCEPT ![s] = TRUE]
      /\ call' = Idle /\ result' = [result EXCEPT ![s] = "opened"]
      /\ chunk' = [chunk EXCEPT ![s] = <<>>] /\ origin' = [origin EXCEPT ![s] = c]
      /\ hurt' = [hurt EXCEPT ![s] = card # c \/ ~ready]
      /\ UNCHANGED <<card, ready, mounted, cached, buffer, errors>>
  BY DEF FileFound, Opened, Return, cardVars, cache
<1>9. QED
  BY <1>1, <1>3, <1>4, <1>5, <1>7, <1>8

\* Calls that only move on.
LEMMA CallType ==
  ASSUME Types
  PROVE  \A a \in {"mount", "root", "dir", "read"}, s \in Streams :
           /\ [call EXCEPT !.at = a] \in Calls
           /\ [call EXCEPT !.at = a].copied <= [call EXCEPT !.at = a].want
           /\ [Idle EXCEPT !.at = a, !.stream = s] \in Calls
           /\ [Idle EXCEPT !.at = a, !.stream = s].copied <= [Idle EXCEPT !.at = a, !.stream = s].want
<1>1. TAKE a \in {"mount", "root", "dir", "read"}, s \in Streams
<1>2. call \in Calls /\ call.copied <= call.want /\ Idle \in Calls /\ Idle.copied <= Idle.want
  BY ClosedType DEF Types
<1>3. [call EXCEPT !.at = a] \in Calls /\ [call EXCEPT !.at = a].copied = call.copied
      /\ [call EXCEPT !.at = a].want = call.want
  BY <1>2 DEF Calls
<1>4. [Idle EXCEPT !.at = a, !.stream = s] \in Calls
      /\ [Idle EXCEPT !.at = a, !.stream = s].copied = Idle.copied
      /\ [Idle EXCEPT !.at = a, !.stream = s].want = Idle.want
  BY <1>2 DEF Calls
<1>5. QED
  BY <1>2, <1>3, <1>4

LEMMA TypesStep == SInv /\ [Next]_vars => Types'
<1> SUFFICES ASSUME SInv, [Next]_vars PROVE Types'
  OBVIOUS
<1>0. Types /\ Control /\ Cached /\ Tracks
  BY DEF SInv
<1>t. /\ card \in Cards \union {NoCard} /\ ready \in BOOLEAN /\ mounted \in BOOLEAN
      /\ open \in [Streams -> BOOLEAN] /\ using \in [Streams -> BOOLEAN]
      /\ hurt \in [Streams -> BOOLEAN] /\ origin \in [Streams -> Cards]
      /\ file \in [Streams -> FileRecords] /\ \A s \in Streams : ~using[s] => file[s] = Closed
      /\ errors \in 0 .. 3 /\ call \in Calls /\ call.copied <= call.want
      /\ result \in [Streams -> Results] /\ DOMAIN chunk = Streams /\ call.stream \in Streams
  BY <1>0 DEF Types, Calls
<1>i. Idle \in Calls /\ Idle.copied <= Idle.want
  BY ClosedType
<1>r. \A r \in Results, s \in Streams : [result EXCEPT ![s] = r] \in [Streams -> Results]
  BY <1>t
<1>1. CASE ChangeCard
  <2>1. card' \in Cards \union {NoCard} /\ ready' = FALSE /\ hurt' = AllHurt
        /\ UNCHANGED <<mounted, open, file, errors, call, using, result, chunk, origin>>
    BY <1>1 DEF ChangeCard, cache
  <2>2. AllHurt \in [Streams -> BOOLEAN]
    BY DEF AllHurt
  <2>3. QED
    BY <1>t, <2>1, <2>2, Zenon DEF Types
<1>2. CASE Mount
  <2>1. ready' = TRUE /\ mounted' = TRUE /\ errors' = 0 /\ call' = [call EXCEPT !.at = "root"]
        /\ UNCHANGED <<card, open, file, using, result, chunk, origin, hurt>>
    BY <1>2 DEF Mount, history
  <2>2. call' \in Calls /\ call'.copied <= call'.want
    BY <1>0, <1>t, <2>1, CallType
  <2>3. errors' \in 0 .. 3
    BY <2>1
  <2>4. ready' \in BOOLEAN /\ mounted' \in BOOLEAN
    BY <2>1, Zenon
  <2>5. QED
    BY <1>t, <2>1, <2>2, <2>3, <2>4, Zenon DEF Types
<1>3. CASE MountFails
  <2>1. ready' = FALSE /\ call' = Idle /\ result' = [result EXCEPT ![call.stream] = "failed"]
        /\ UNCHANGED <<card, mounted, open, file, errors, using, chunk, origin, hurt>>
    BY <1>3 DEF MountFails, Return, cache, history
  <2>2. result' \in [Streams -> Results]
    BY <1>t, <2>1 DEF Results
  <2>3. QED
    BY <1>t, <1>i, <2>1, <2>2, Zenon DEF Types
<1>4. CASE RootFound
  <2>1. call' = [call EXCEPT !.at = "dir"]
        /\ UNCHANGED <<card, ready, mounted, open, file, errors, using, result, chunk, origin, hurt>>
    BY <1>4 DEF RootFound, cardVars, cache, history
  <2>2. call' \in Calls /\ call'.copied <= call'.want
    BY <1>0, <1>t, <2>1, CallType
  <2>3. QED
    BY <1>t, <2>1, <2>2, Zenon DEF Types
<1>5. CASE FileFound
  <2> DEFINE s == call.stream
             c == buffer[1]
  <2>1. /\ s \in Streams /\ c \in Cards
        /\ Opened(c, s) \in FileRecords
        /\ file' = [file EXCEPT ![s] = Opened(c, s)]
        /\ open' = [open EXCEPT ![s] = TRUE] /\ using' = [using EXCEPT ![s] = TRUE]
        /\ call' = Idle /\ result' = [result EXCEPT ![s] = "opened"]
        /\ chunk' = [chunk EXCEPT ![s] = <<>>] /\ origin' = [origin EXCEPT ![s] = c]
        /\ hurt' = [hurt EXCEPT ![s] = card # c \/ ~ready]
        /\ UNCHANGED <<card, ready, mounted, cached, buffer, errors>>
    BY <1>0, <1>5, OpenStep
  <2> HIDE DEF c, s
  <2>2. open' \in [Streams -> BOOLEAN] /\ using' \in [Streams -> BOOLEAN]
    BY <1>t, <2>1
  <2>3. hurt' \in [Streams -> BOOLEAN]
    <3>1. (card # c \/ ~ready) \in BOOLEAN
      BY Zenon
    <3>2. QED
      BY <1>t, <2>1, <3>1
  <2>4. file' \in [Streams -> FileRecords] /\ origin' \in [Streams -> Cards]
    BY <1>t, <2>1
  <2>5. \A t \in Streams : ~using'[t] => file'[t] = Closed
    BY <1>t, <2>1
  <2>6. result' \in [Streams -> Results]
    BY <1>t, <2>1 DEF Results
  <2>7. DOMAIN chunk' = Streams
    BY <1>t, <2>1
  <2>8. QED
    BY <1>t, <1>i, <2>1, <2>2, <2>3, <2>4, <2>5, <2>6, <2>7, Zenon DEF Types
<1>6. CASE FileMissing
  <2>1. call' = Idle /\ result' = [result EXCEPT ![call.stream] = "failed"]
        /\ UNCHANGED <<card, ready, mounted, open, file, errors, using, chunk, origin, hurt>>
    BY <1>6 DEF FileMissing, Return, cardVars, cache, history
  <2>2. result' \in [Streams -> Results]
    BY <1>t, <2>1 DEF Results
  <2>3. QED
    BY <1>t, <1>i, <2>1, <2>2, Zenon DEF Types
<1>7. CASE ReadDone
  <2>1. call' = Idle
        /\ result' = [result EXCEPT ![call.stream] = IF call.copied = 0 THEN "eof" ELSE "data"]
        /\ UNCHANGED <<card, ready, mounted, open, file, errors, using, chunk, origin, hurt>>
    BY <1>7 DEF ReadDone, Return, cardVars, cache, history
  <2>2. result' \in [Streams -> Results]
    BY <1>t, <2>1 DEF Results
  <2>3. QED
    BY <1>t, <1>i, <2>1, <2>2, Zenon DEF Types
<1>8. CASE FollowChain
  <2> DEFINE s == call.stream
             f == file[s]
             next == Fat[origin[s]][f.cluster]
  <2>1. /\ s \in Streams /\ using[s] /\ f \in FileRecords /\ Follows(origin[s], s, f)
        /\ f.offset = ClusterUnits /\ f.position < f.size
        /\ next \in Clusters \ {f.cluster, f.anchor}
        /\ file' = [file EXCEPT ![s] = Advanced(f, next)]
    BY <1>0, <1>8, FollowStep
  <2>2. Advanced(f, next) \in FileRecords
    BY <2>1, FollowsNext
  <2>3. UNCHANGED <<card, ready, mounted, open, errors, call, using, result, chunk, origin, hurt>>
    BY <1>8 DEF FollowChain, cardVars, cache, history
  <2> HIDE DEF next, f, s
  <2>4. file' \in [Streams -> FileRecords] /\ \A t \in Streams : ~using'[t] => file'[t] = Closed
    BY <1>t, <2>1, <2>2, <2>3
  <2>5. QED
    BY <1>t, <2>3, <2>4, Zenon DEF Types
<1>9. CASE CopyData
  <2> DEFINE s == call.stream
             f == file[s]
             n == CopySize(f, call)
             g == [f EXCEPT !.position = @ + n, !.offset = @ + n]
  <2>1. /\ s \in Streams /\ n \in Nat /\ call.copied + n <= call.want
        /\ g \in FileRecords /\ file' = [file EXCEPT ![s] = g] /\ call.at = "read"
        /\ call' = [call EXCEPT !.copied = @ + n]
        /\ DOMAIN chunk' = DOMAIN chunk
    <3>1. CopyData /\ Types
      BY <1>0, <1>9
    <3>2. QED
      BY <3>1, CopyStep
  <2>2. UNCHANGED <<card, ready, mounted, open, errors, using, result, origin, hurt>>
    BY <1>9 DEF CopyData, cardVars, cache
  <2>3. using[s]
    BY <1>0, <2>1 DEF Control
  <2> HIDE DEF n, g
  <2>4. file' \in [Streams -> FileRecords] /\ \A t \in Streams : ~using'[t] => file'[t] = Closed
    BY <1>t, <2>1, <2>2, <2>3
  <2>5. call' \in Calls /\ call'.copied <= call'.want
    BY <1>t, <2>1 DEF Calls
  <2>6. QED
    BY <1>t, <2>1, <2>2, <2>4, <2>5, Zenon DEF Types
<1>10. CASE Fetched
  <2>1. errors' = 0
        /\ UNCHANGED <<card, ready, mounted, open, file, call, using, result, chunk, origin, hurt>>
    BY <1>10 DEF Fetched, cardVars, history
  <2>2. errors' \in 0 .. 3
    BY <2>1
  <2>3. QED
    BY <1>t, <2>1, <2>2, Zenon DEF Types
<1>11. CASE Ending
  <2>1. /\ call' = Idle /\ UNCHANGED <<card, ready, file, using, chunk, origin>>
        /\ \E r \in Results : result' = [result EXCEPT ![call.stream] = r]
        /\ \/ mounted' = mounted /\ open' = open
           \/ mounted' = FALSE /\ open' = [open EXCEPT ![call.stream] = FALSE]
    BY <1>0, <1>11, GivenUp, Zenon
  <2>2. hurt' \in [Streams -> BOOLEAN] /\ errors' \in 0 .. 3
    BY <1>0, <1>11, GivenUpMarks
  <2>3. result' \in [Streams -> Results]
    BY <1>t, <2>1
  <2>4. mounted' \in BOOLEAN /\ open' \in [Streams -> BOOLEAN]
    BY <1>t, <2>1
  <2>5. QED
    BY <1>t, <1>i, <2>1, <2>2, <2>3, <2>4, Zenon DEF Types
<1>12. ASSUME NEW s \in Streams, OpenBegin(s) PROVE Types'
  <2>1. /\ UNCHANGED <<card, ready, file, using, result, chunk, origin, hurt>>
        /\ \E a \in {"mount", "root"} : call' = [Idle EXCEPT !.at = a, !.stream = s]
    BY <1>12, Zenon DEF OpenBegin, cardVars, history
  <2>2. errors' \in 0 .. 3 /\ mounted' \in BOOLEAN /\ open' \in [Streams -> BOOLEAN]
    <3>1. CASE InUse(s)
      <4>1. open' = [open EXCEPT ![s] = FALSE] /\ UNCHANGED <<mounted, errors>>
        BY <1>12, <3>1 DEF OpenBegin, cache
      <4>2. QED
        BY <1>t, <4>1
    <3>2. CASE ~InUse(s)
      <4>1. mounted' = FALSE /\ open' = [t \in Streams |-> FALSE] /\ errors' = 0
        BY <1>12, <3>2 DEF OpenBegin
      <4>2. mounted' \in BOOLEAN /\ open' \in [Streams -> BOOLEAN]
        <5>1. mounted' \in BOOLEAN
          BY <4>1, Zenon
        <5>2. open' \in [Streams -> BOOLEAN]
          BY <4>1
        <5>3. QED
          BY <5>1, <5>2
      <4>3. errors' \in 0 .. 3
        BY <4>1
      <4>4. QED
        BY <4>2, <4>3
    <3>3. QED
      BY <3>1, <3>2
  <2>3. call' \in Calls /\ call'.copied <= call'.want
    BY <1>0, <2>1, CallType, ZenonT(60)
  <2>4. QED
    BY <1>t, <2>1, <2>2, <2>3, Zenon DEF Types
<1>13. ASSUME NEW s \in Streams, Close(s) PROVE Types'
  <2>1. /\ open' = [open EXCEPT ![s] = FALSE] /\ using' = [using EXCEPT ![s] = FALSE]
        /\ result' = [result EXCEPT ![s] = "none"] /\ file' = [file EXCEPT ![s] = Closed]
        /\ chunk' = [chunk EXCEPT ![s] = <<>>]
        /\ UNCHANGED <<card, ready, mounted, errors, call, origin, hurt>>
    BY <1>13 DEF Close, cardVars
  <2>2. open' \in [Streams -> BOOLEAN] /\ using' \in [Streams -> BOOLEAN]
    BY <1>t, <2>1
  <2>3. file' \in [Streams -> FileRecords] /\ \A t \in Streams : ~using'[t] => file'[t] = Closed
    BY <1>t, <2>1, ClosedType
  <2>4. result' \in [Streams -> Results]
    BY <1>t, <2>1 DEF Results
  <2>5. DOMAIN chunk' = Streams
    BY <1>t, <2>1
  <2>6. QED
    BY <1>t, <2>1, <2>2, <2>3, <2>4, <2>5, Zenon DEF Types
<1>14. ASSUME NEW s \in Streams, NEW n \in Requests, ReadBegin(s, n) PROVE Types'
  <2>1. UNCHANGED <<card, ready, mounted, open, file, errors, using, chunk, origin, hurt>>
    BY <1>14 DEF ReadBegin, cardVars, cache, history
  <2>2. CASE mounted /\ open[s]
    <3>1. call' = [at |-> "read", stream |-> s, want |-> n, copied |-> 0] /\ result' = result
      BY <1>14, <2>2 DEF ReadBegin
    <3>2. n \in Nat
      BY SectorAssumption
    <3>3. call' \in Calls /\ call'.copied <= call'.want
      BY <3>1, <3>2 DEF Calls
    <3>4. QED
      BY <1>t, <2>1, <3>1, <3>3, Zenon DEF Types
  <2>3. CASE ~(mounted /\ open[s])
    <3>1. call' = Idle /\ result' = [result EXCEPT ![s] = "error"]
      BY <1>14, <2>3 DEF ReadBegin, Return
    <3>2. result' \in [Streams -> Results]
      BY <1>t, <3>1 DEF Results
    <3>3. QED
      BY <1>t, <1>i, <2>1, <3>1, <3>2, Zenon DEF Types
  <2>4. QED
    BY <2>2, <2>3
<1>15. CASE UNCHANGED vars
  <2>1. UNCHANGED <<card, ready, mounted, open, file, errors, call, using, result, chunk, origin, hurt>>
    BY <1>15 DEF vars, cardVars, cache, history
  <2>2. QED
    BY <1>t, <2>1, Zenon DEF Types
<1>16. QED
  BY <1>1, <1>2, <1>3, <1>4, <1>5, <1>6, <1>7, <1>8, <1>9, <1>10, <1>11, <1>12, <1>13, <1>14, <1>15
     DEF Next, Working, Reading, Stream, Ending

-----------------------------------------------------------------------------
(* The steps keep Control and Cached.                                      *)

\* Steps that change neither the volume nor the buffer, and no file's card.
LEMMA CachedSame ==
  ASSUME Cached, UNCHANGED <<card, ready, mounted, open, cached, buffer, origin>>
  PROVE  Cached'
BY DEF Cached

\* Steps that lose a file, or forget the buffer.
LEMMA CachedLess ==
  ASSUME Cached, UNCHANGED <<card, ready, origin>>,
         \A s \in Streams : mounted' /\ open'[s] => mounted /\ open[s],
         cached' = NoSector \/ (cached' = cached /\ buffer' = buffer)
  PROVE  Cached'
<1>1. CASE cached' = NoSector
  BY <1>1 DEF Cached
<1>2. CASE cached' = cached /\ buffer' = buffer
  BY <1>2 DEF Cached
<1>3. QED
  BY <1>1, <1>2

LEMMA CachedStep == SInv /\ [Next]_vars => Cached'
<1> SUFFICES ASSUME SInv, [Next]_vars PROVE Cached'
  OBVIOUS
<1>0. Types /\ Control /\ Cached
  BY DEF SInv
<1>s. call.stream \in Streams
  BY <1>0 DEF Types, Calls
<1>o. open \in [Streams -> BOOLEAN]
  BY <1>0 DEF Types
<1>1. CASE ChangeCard
  BY <1>0, <1>1 DEF ChangeCard, Cached, cache
<1>2. CASE Mount
  <2>1. card \in Cards /\ ~(\E s \in Streams : open[s])
    BY <1>0, <1>2 DEF Mount, Types, Control
  <2>2. UNCHANGED <<card, open>> /\ buffer' = <<card, BootSector>> /\ cached' = BootSector
    BY <1>2 DEF Mount
  <2>3. buffer'[1] = card'
    BY <2>2
  <2>4. QED
    BY <2>1, <2>2, <2>3 DEF Cached
<1>3. CASE MountFails
  BY <1>0, <1>3 DEF MountFails, Cached, cache, history
<1>4. CASE RootFound
  <2>1. UNCHANGED <<card, ready, mounted, open, cached, buffer, origin>>
    BY <1>4 DEF RootFound, cardVars, cache, history
  <2>2. QED
    BY <1>0, <2>1, CachedSame
<1>5. CASE FileFound
  <2> DEFINE s == call.stream
             c == buffer[1]
  <2>1. /\ s \in Streams /\ c \in Cards /\ cached # NoSector
        /\ open' = [open EXCEPT ![s] = TRUE] /\ origin' = [origin EXCEPT ![s] = c]
        /\ UNCHANGED <<card, ready, mounted, cached, buffer>>
    BY <1>0, <1>5, OpenStep
  <2>2. ready => card = c
    BY <1>0, <2>1 DEF Cached
  <2>3. DOMAIN open = Streams /\ DOMAIN origin = Streams
    BY <1>0 DEF Types
  <2>4. \A t \in Streams : t # s => open'[t] = open[t] /\ origin'[t] = origin[t]
    BY <2>1, <2>3
  <2>5. origin'[s] = c
    BY <2>1, <2>3
  <2>6. \A t \in Streams : mounted' /\ open'[t] =>
           /\ ready' => card' = origin'[t]
           /\ cached' # NoSector => buffer'[1] = origin'[t]
    <3> TAKE t \in Streams
    <3>1. CASE t = s
      BY <2>1, <2>2, <2>5, <3>1
    <3>2. CASE t # s
      BY <1>0, <2>1, <2>4, <3>2 DEF Cached
    <3>3. QED
      BY <3>1, <3>2
  <2>7. (cached' # NoSector => \E x \in Cards : buffer' = <<x, cached'>>)
        /\ (ready' => card' \in Cards /\ (cached' # NoSector => buffer'[1] = card'))
    BY <1>0, <2>1 DEF Cached
  <2>8. QED
    BY <2>6, <2>7 DEF Cached
<1>6. CASE FileMissing \/ ReadDone
  <2>1. UNCHANGED <<card, ready, mounted, open, cached, buffer, origin>>
    BY <1>6 DEF FileMissing, ReadDone, cardVars, cache, history
  <2>2. QED
    BY <1>0, <2>1, CachedSame
<1>7. CASE FollowChain \/ CopyData
  <2>1. UNCHANGED <<card, ready, mounted, open, cached, buffer, origin>>
    BY <1>7 DEF FollowChain, CopyData, cardVars, cache, history
  <2>2. QED
    BY <1>0, <2>1, CachedSame
<1>8. CASE Fetched
  <2>1. ready /\ cached' = Needed /\ buffer' = <<card, Needed>>
        /\ UNCHANGED <<card, ready, mounted, open, origin>>
    BY <1>8 DEF Fetched, cardVars, history
  <2>2. card \in Cards
    BY <1>0, <2>1 DEF Cached
  <2>3. buffer'[1] = card /\ buffer' = <<card, cached'>>
    BY <2>1
  <2>4. QED
    BY <1>0, <2>1, <2>2, <2>3 DEF Cached
<1>9. CASE Ending
  <2>1. /\ UNCHANGED <<card, ready, origin>>
        /\ \/ mounted' = mounted /\ open' = open
           \/ mounted' = FALSE
    BY <1>0, <1>9, GivenUp, Zenon
  <2>2. cached' = NoSector \/ (cached' = cached /\ buffer' = buffer)
    BY <1>0, <1>9, GivenUpMarks
  <2>3. \A s \in Streams : mounted' /\ open'[s] => mounted /\ open[s]
    BY <2>1
  <2>4. QED
    BY <1>0, <2>1, <2>2, <2>3, CachedLess
<1>10. ASSUME NEW s \in Streams, OpenBegin(s) PROVE Cached'
  <2>1. UNCHANGED <<card, ready, origin>>
    BY <1>10 DEF OpenBegin, cardVars, history
  <2>2. (\A t \in Streams : mounted' /\ open'[t] => mounted /\ open[t])
        /\ (cached' = NoSector \/ (cached' = cached /\ buffer' = buffer))
    <3>1. CASE InUse(s)
      <4>1. open' = [open EXCEPT ![s] = FALSE] /\ UNCHANGED <<mounted, cached, buffer>>
        BY <1>10, <3>1 DEF OpenBegin, cache
      <4>2. QED
        BY <1>o, <4>1
    <3>2. CASE ~InUse(s)
      BY <1>10, <3>2 DEF OpenBegin
    <3>3. QED
      BY <3>1, <3>2
  <2>3. QED
    BY <1>0, <2>1, <2>2, CachedLess
<1>11. ASSUME NEW s \in Streams, Close(s) PROVE Cached'
  <2>1. UNCHANGED <<card, ready, origin>> /\ cached' = NoSector
        /\ open' = [open EXCEPT ![s] = FALSE] /\ mounted' = mounted
    BY <1>11 DEF Close, cardVars
  <2>2. \A t \in Streams : mounted' /\ open'[t] => mounted /\ open[t]
    BY <1>o, <2>1
  <2>3. QED
    BY <1>0, <2>1, <2>2, CachedLess
<1>12. ASSUME NEW s \in Streams, NEW n \in Requests, ReadBegin(s, n) PROVE Cached'
  <2>1. UNCHANGED <<card, ready, mounted, open, cached, buffer, origin>>
    BY <1>12 DEF ReadBegin, cardVars, cache, history
  <2>2. QED
    BY <1>0, <2>1, CachedSame
<1>13. CASE UNCHANGED vars
  <2>1. UNCHANGED <<card, ready, mounted, open, cached, buffer, origin>>
    BY <1>13 DEF vars, cardVars, cache, history
  <2>2. QED
    BY <1>0, <2>1, CachedSame
<1>14. QED
  BY <1>1, <1>2, <1>3, <1>4, <1>5, <1>6, <1>7, <1>8, <1>9, <1>10, <1>11, <1>12, <1>13
     DEF Next, Working, Reading, Stream, Ending

LEMMA BufferStep == SInv /\ [Next]_vars => buffer'[1] \in Cards \union {NoCard}
<1> SUFFICES ASSUME SInv, [Next]_vars PROVE buffer'[1] \in Cards \union {NoCard}
  OBVIOUS
<1>0. buffer[1] \in Cards \union {NoCard} /\ card \in Cards \union {NoCard}
  BY DEF SInv, Types
<1>1. CASE Mount \/ Fetched
  <2>1. buffer' = <<card, BootSector>> \/ buffer' = <<card, Needed>>
    BY <1>1 DEF Mount, Fetched
  <2>2. QED
    BY <1>0, <2>1
<1>2. CASE PutOff \/ Failed \/ Refused
  <2>1. buffer' = <<NoCard, NoSector>>
    BY <1>2 DEF PutOff, Failed, Refused, Spoiled
  <2>2. QED
    BY <2>1
<1>3. CASE \/ ChangeCard \/ MountFails \/ RootFound \/ FileFound \/ FileMissing \/ ReadDone
           \/ FollowChain \/ ChainBroken \/ CopyData \/ UNCHANGED vars
  <2>1. buffer' = buffer
    BY <1>3 DEF ChangeCard, MountFails, RootFound, FileFound, FileMissing, ReadDone,
                FollowChain, ChainBroken, CopyData, cache, vars
  <2>2. QED
    BY <1>0, <2>1
<1>4. ASSUME NEW s \in Streams, OpenBegin(s) \/ Close(s) \/ \E n \in Requests : ReadBegin(s, n)
      PROVE  buffer' = buffer
  BY <1>4 DEF OpenBegin, Close, ReadBegin, cache
<1>5. QED
  BY <1>0, <1>1, <1>2, <1>3, <1>4 DEF Next, Working, Reading, Stream

\* A call that has ended asks nothing of the volume.
LEMMA ControlIdle ==
  ASSUME call' = Idle, \A s \in Streams : open'[s] => using'[s]
  PROVE  Control'
BY DEF Control, Idle

LEMMA ControlStep == SInv /\ [Next]_vars => Control'
<1> SUFFICES ASSUME SInv, [Next]_vars PROVE Control'
  OBVIOUS
<1>0. Types /\ Control /\ Cached
  BY DEF SInv
<1>t. /\ open \in [Streams -> BOOLEAN] /\ using \in [Streams -> BOOLEAN]
      /\ call \in Calls /\ call.stream \in Streams
  BY <1>0 DEF Types, Calls
<1>c. /\ call.at \in {"root", "dir", "read"} => mounted
      /\ call.at = "read" => open[call.stream]
      /\ call.at = "mount" => ~mounted /\ \A s \in Streams : ~open[s]
      /\ call.at \in {"mount", "root", "dir"} => ~using[call.stream]
      /\ \A s \in Streams : open[s] => using[s]
  BY <1>0 DEF Control
<1>1. CASE ChangeCard
  <2>1. UNCHANGED <<call, mounted, open, using>>
    BY <1>1 DEF ChangeCard
  <2>2. QED
    BY <1>0, <2>1 DEF Control
<1>2. CASE Mount
  <2>1. mounted' = TRUE /\ call' = [call EXCEPT !.at = "root"] /\ UNCHANGED <<open, using>>
        /\ call.at = "mount"
    BY <1>2 DEF Mount
  <2>2. call'.at = "root" /\ call'.stream = call.stream
    BY <1>t, <2>1 DEF Calls
  <2>3. QED
    BY <1>c, <2>1, <2>2 DEF Control
<1>3. CASE MountFails \/ FileMissing \/ ReadDone
  <2>1. call' = Idle /\ UNCHANGED <<open, using>>
    BY <1>3 DEF MountFails, FileMissing, ReadDone, Return
  <2>2. QED
    BY <1>c, <2>1, ControlIdle
<1>4. CASE RootFound
  <2>1. call' = [call EXCEPT !.at = "dir"] /\ UNCHANGED <<mounted, open, using>> /\ call.at = "root"
    BY <1>4 DEF RootFound, Has
  <2>2. call'.at = "dir" /\ call'.stream = call.stream
    BY <1>t, <2>1 DEF Calls
  <2>3. QED
    BY <1>c, <2>1, <2>2 DEF Control
<1>5. CASE FileFound
  <2>1. /\ open' = [open EXCEPT ![call.stream] = TRUE] /\ call' = Idle
        /\ using' = [using EXCEPT ![call.stream] = TRUE]
    BY <1>5 DEF FileFound, Return
  <2>2. \A s \in Streams : open'[s] => using'[s]
    BY <1>t, <1>c, <2>1
  <2>3. QED
    BY <2>1, <2>2, ControlIdle
<1>6. CASE FollowChain \/ Fetched
  <2>1. UNCHANGED <<call, mounted, open, using>>
    BY <1>6 DEF FollowChain, Fetched
  <2>2. QED
    BY <1>0, <2>1 DEF Control
<1>7. CASE CopyData
  <2> DEFINE n == CopySize(file[call.stream], call)
  <2>1. CopyData /\ Types
    BY <1>0, <1>7
  <2>2. n \in Nat /\ call' = [call EXCEPT !.copied = @ + n]
    BY <2>1, CopyStep
  <2> HIDE DEF n
  <2>3. call'.at = call.at /\ call'.stream = call.stream
    BY <1>t, <2>2 DEF Calls
  <2>4. UNCHANGED <<mounted, open, using>>
    BY <1>7 DEF CopyData
  <2>5. QED
    BY <1>c, <2>3, <2>4 DEF Control
<1>8. CASE Ending
  <2>1. /\ call' = Idle /\ using' = using
        /\ open' = open \/ open' = [open EXCEPT ![call.stream] = FALSE]
    BY <1>0, <1>8, GivenUp, Zenon
  <2>2. \A s \in Streams : open'[s] => using'[s]
    BY <1>t, <1>c, <2>1
  <2>3. QED
    BY <2>1, <2>2, ControlIdle
<1>9. ASSUME NEW s \in Streams, OpenBegin(s) PROVE Control'
  <2>1. ~using[s] /\ using' = using
    BY <1>9 DEF OpenBegin
  <2>2. CASE InUse(s)
    <3>1. call' = [Idle EXCEPT !.at = "root", !.stream = s]
          /\ open' = [open EXCEPT ![s] = FALSE] /\ mounted' = mounted
      BY <1>9, <2>2 DEF OpenBegin
    <3>2. call'.at = "root" /\ call'.stream = s
      BY <3>1 DEF Idle
    <3>3. mounted
      BY <2>2 DEF InUse
    <3>4. \A t \in Streams : open'[t] => using'[t]
      BY <1>t, <1>c, <2>1, <3>1
    <3>5. QED
      BY <2>1, <3>1, <3>2, <3>3, <3>4 DEF Control
  <2>3. CASE ~InUse(s)
    <3>1. call' = [Idle EXCEPT !.at = "mount", !.stream = s]
          /\ open' = [t \in Streams |-> FALSE] /\ mounted' = FALSE
      BY <1>9, <2>3 DEF OpenBegin
    <3>2. call'.at = "mount" /\ call'.stream = s
      BY <3>1 DEF Idle
    <3>3. \A t \in Streams : ~open'[t]
      BY <3>1
    <3>4. QED
      BY <2>1, <3>1, <3>2, <3>3 DEF Control
  <2>4. QED
    BY <2>2, <2>3
<1>10. ASSUME NEW s \in Streams, Close(s) PROVE Control'
  <2>1. call = Idle /\ call' = call /\ open' = [open EXCEPT ![s] = FALSE]
        /\ using' = [using EXCEPT ![s] = FALSE]
    BY <1>10 DEF Close
  <2>2. \A t \in Streams : open'[t] => using'[t]
    BY <1>t, <1>c, <2>1
  <2>3. QED
    BY <2>1, <2>2, ControlIdle
<1>11. ASSUME NEW s \in Streams, NEW n \in Requests, ReadBegin(s, n) PROVE Control'
  <2>1. UNCHANGED <<mounted, open, using>>
    BY <1>11 DEF ReadBegin
  <2>2. CASE mounted /\ open[s]
    <3>1. call' = [at |-> "read", stream |-> s, want |-> n, copied |-> 0]
      BY <1>11, <2>2 DEF ReadBegin
    <3>2. call'.at = "read" /\ call'.stream = s
      BY <3>1
    <3>3. QED
      BY <1>c, <2>1, <2>2, <3>2 DEF Control
  <2>3. CASE ~(mounted /\ open[s])
    <3>1. call' = Idle
      BY <1>11, <2>3 DEF ReadBegin, Return
    <3>2. QED
      BY <1>c, <2>1, <3>1, ControlIdle
  <2>4. QED
    BY <2>2, <2>3
<1>12. CASE UNCHANGED vars
  <2>1. UNCHANGED <<call, mounted, open, using>>
    BY <1>12 DEF vars
  <2>2. QED
    BY <1>0, <2>1 DEF Control
<1>13. QED
  BY <1>1, <1>2, <1>3, <1>4, <1>5, <1>6, <1>7, <1>8, <1>9, <1>10, <1>11, <1>12
     DEF Next, Working, Reading, Stream, Ending

-----------------------------------------------------------------------------
(* The steps keep Tracks, BytesInOrder and Verdicts.                       *)

\* Steps that leave the files alone: all but these four.
FileSteps == FileFound \/ FollowChain \/ CopyData \/ \E s \in Streams : Close(s)

LEMMA OtherSteps ==
  ASSUME Types, [Next]_vars, ~FileSteps
  PROVE  UNCHANGED <<file, using, origin, chunk>>
<1>1. CASE Ending
  BY <1>1, GivenUp
<1>2. CASE ChangeCard \/ Mount \/ MountFails \/ RootFound \/ FileMissing \/ ReadDone \/ Fetched
  BY <1>2 DEF ChangeCard, Mount, MountFails, RootFound, FileMissing, ReadDone, Fetched, history
<1>3. ASSUME NEW s \in Streams, OpenBegin(s) \/ \E n \in Requests : ReadBegin(s, n)
      PROVE  UNCHANGED <<file, using, origin, chunk>>
  BY <1>3 DEF OpenBegin, ReadBegin, history
<1>4. CASE UNCHANGED vars
  BY <1>4 DEF vars, history
<1>5. QED
  BY <1>1, <1>2, <1>3, <1>4 DEF FileSteps, Next, Working, Reading, Stream, Ending

\* The units a stream has been given are those of its file.
Given(c, s, f, units) ==
  \A i \in 1 .. Len(units) : units[i] = UnitAt(c, s, f.position - Len(units) + i - 1)

LEMMA FilesStep == SInv /\ [Next]_vars => (Tracks /\ BytesInOrder)'
<1> SUFFICES ASSUME SInv, [Next]_vars PROVE (Tracks /\ BytesInOrder)'
  OBVIOUS
<1>0. Types /\ Control /\ Cached /\ Tracks
  BY DEF SInv
<1>b. \A s \in Streams : using[s] => Given(origin[s], s, file[s], chunk[s])
  BY DEF SInv, BytesInOrder, Given
<1>t. /\ DOMAIN file = Streams /\ DOMAIN using = Streams /\ DOMAIN origin = Streams
      /\ DOMAIN chunk = Streams
  BY <1>0 DEF Types
<1>s. SUFFICES \A s \in Streams : using'[s] =>
        /\ Follows(origin'[s], s, file'[s])
        /\ Given(origin'[s], s, file'[s], chunk'[s])
  BY DEF Tracks, BytesInOrder, Given
<1>1. CASE FileFound
  <2> DEFINE s == call.stream
             c == buffer[1]
  <2>1. /\ s \in Streams /\ Follows(c, s, Opened(c, s))
        /\ file' = [file EXCEPT ![s] = Opened(c, s)]
        /\ using' = [using EXCEPT ![s] = TRUE]
        /\ chunk' = [chunk EXCEPT ![s] = <<>>] /\ origin' = [origin EXCEPT ![s] = c]
    BY <1>0, <1>1, OpenStep
  <2>2. Given(c, s, Opened(c, s), <<>>)
    BY DEF Given
  <2> HIDE DEF s, c
  <2>3. \A t \in Streams \ {s} : file'[t] = file[t] /\ using'[t] = using[t]
                                 /\ chunk'[t] = chunk[t] /\ origin'[t] = origin[t]
    BY <1>t, <2>1
  <2>4. file'[s] = Opened(c, s) /\ chunk'[s] = <<>> /\ origin'[s] = c
    BY <1>t, <2>1
  <2>5. TAKE t \in Streams
  <2>6. CASE t = s
    BY <2>1, <2>2, <2>4, <2>6
  <2>7. CASE t # s
    BY <1>0, <1>b, <2>3, <2>7 DEF Tracks
  <2>8. QED
    BY <2>6, <2>7
<1>2. CASE FollowChain
  <2> DEFINE s == call.stream
             f == file[s]
             c == origin[s]
             next == Fat[c][f.cluster]
             g == Advanced(f, next)
  <2>1. /\ s \in Streams /\ using[s] /\ f \in FileRecords /\ Follows(c, s, f)
        /\ f.offset = ClusterUnits /\ f.position < f.size
        /\ next \in Clusters \ {f.cluster, f.anchor}
        /\ file' = [file EXCEPT ![s] = g]
    BY <1>0, <1>2, FollowStep
  <2>2. Follows(c, s, g)
    BY <2>1, FollowsNext
  <2>3. UNCHANGED <<using, origin, chunk>>
    BY <1>2 DEF FollowChain, history
  <2>4. g.position = f.position
    BY <2>1 DEF Advanced, FileRecords
  <2> HIDE DEF g, next
  <2>5. Given(c, s, g, chunk[s])
    BY <1>b, <2>1, <2>4 DEF Given
  <2>6. file'[s] = g /\ \A t \in Streams \ {s} : file'[t] = file[t]
    BY <1>t, <2>1
  <2> HIDE DEF s, f
  <2>7. TAKE t \in Streams
  <2>8. CASE t = s
    BY <2>2, <2>3, <2>5, <2>6, <2>8
  <2>9. CASE t # s
    BY <1>0, <1>b, <2>3, <2>6, <2>9 DEF Tracks
  <2>10. QED
    BY <2>8, <2>9
<1>3. CASE CopyData
  <2> DEFINE s == call.stream
             f == file[s]
             c == origin[s]
             n == CopySize(f, call)
             g == [f EXCEPT !.position = @ + n, !.offset = @ + n]
             units == [i \in 1 .. n |-> <<buffer, (f.offset % SectorUnits) + i - 1>>]
  <2>0. CopyData /\ Types
    BY <1>0, <1>3
  <2>1. /\ s \in Streams /\ f \in FileRecords /\ f.offset # ClusterUnits
        /\ call.at = "read" /\ cached = Needed /\ f.position < f.size
        /\ n \in Nat /\ call.copied + n <= call.want /\ f.position + n <= f.size
        /\ (f.offset % SectorUnits) + n <= SectorUnits
        /\ g \in FileRecords /\ file' = [file EXCEPT ![s] = g]
        /\ chunk' = [chunk EXCEPT ![s] = units]
    BY <2>0, CopyStep
  <2>2. mounted /\ open[s] /\ using[s]
    BY <1>0, <2>1 DEF Control
  <2>3. UNCHANGED <<using, origin>>
    BY <1>3 DEF CopyData
  <2>4. buffer = <<c, DataSector(f.cluster, f.offset \div SectorUnits)>>
    <3>1. cached = DataSector(f.cluster, f.offset \div SectorUnits)
      BY <2>1 DEF Needed, Current
    <3>2. cached # NoSector
      BY <3>1 DEF DataSector, NoSector
    <3>3. buffer[1] = c /\ \E x \in Cards : buffer = <<x, cached>>
      BY <1>0, <2>1, <2>2, <3>2 DEF Cached
    <3>4. buffer = <<c, cached>>
      BY <3>3
    <3>5. QED
      BY <3>1, <3>4
  <2>5. /\ g.position = f.position + n /\ g.offset = f.offset + n /\ g.cluster = f.cluster
        /\ g.size = f.size /\ g.anchor = f.anchor /\ g.power = f.power /\ g.steps = f.steps
    BY <2>1 DEF FileRecords
  <2>6. Follows(c, s, f)
    BY <1>0, <2>1, <2>2 DEF Tracks
  <2> HIDE DEF g, n
  <2>7. /\ Follows(c, s, g)
        /\ \A i \in 1 .. n :
             << <<c, DataSector(f.cluster, f.offset \div SectorUnits)>>,
                (f.offset % SectorUnits) + i - 1 >>
               = UnitAt(c, s, g.position - n + i - 1)
    <3>1. s \in Streams /\ f \in FileRecords /\ n \in Nat /\ g \in FileRecords
      BY <2>1
    <3>2. ReadsOn(f, g, n)
      BY <2>1, <2>5 DEF ReadsOn
    <3> HIDE DEF s, f, c
    <3>3. QED
      BY <2>6, <3>1, <3>2, FollowsCopy
  <2>8. Given(c, s, g, units)
    <3>1. Len(units) = n /\ \A i \in 1 .. n : units[i] = <<buffer, (f.offset % SectorUnits) + i - 1>>
      BY <2>1
    <3> HIDE DEF units
    <3>2. QED
      BY <2>4, <2>7, <3>1 DEF Given
  <2> HIDE DEF units
  <2>9. /\ file'[s] = g /\ chunk'[s] = units
        /\ \A t \in Streams \ {s} : file'[t] = file[t] /\ chunk'[t] = chunk[t]
    BY <1>t, <2>1
  <2> HIDE DEF s, f
  <2>10. TAKE t \in Streams
  <2>11. CASE t = s
    BY <2>3, <2>7, <2>8, <2>9, <2>11
  <2>12. CASE t # s
    BY <1>0, <1>b, <2>3, <2>9, <2>12 DEF Tracks
  <2>13. QED
    BY <2>11, <2>12
<1>4. ASSUME NEW s \in Streams, Close(s)
      PROVE  \A t \in Streams : using'[t] =>
               /\ Follows(origin'[t], t, file'[t])
               /\ Given(origin'[t], t, file'[t], chunk'[t])
  <2>1. /\ using' = [using EXCEPT ![s] = FALSE] /\ file' = [file EXCEPT ![s] = Closed]
        /\ chunk' = [chunk EXCEPT ![s] = <<>>] /\ origin' = origin
    BY <1>4 DEF Close
  <2>2. ~using'[s] /\ \A t \in Streams \ {s} : file'[t] = file[t] /\ using'[t] = using[t]
                                              /\ chunk'[t] = chunk[t]
    BY <1>t, <2>1
  <2>3. TAKE t \in Streams
  <2>4. CASE t = s
    BY <2>2, <2>4
  <2>5. CASE t # s
    BY <1>0, <1>b, <2>1, <2>2, <2>5 DEF Tracks
  <2>6. QED
    BY <2>4, <2>5
<1>5. CASE ~FileSteps
  <2>1. UNCHANGED <<file, using, origin, chunk>>
    BY <1>0, <1>5, OtherSteps
  <2>2. QED
    BY <1>0, <1>b, <2>1 DEF Tracks
<1>6. QED
  BY <1>1, <1>2, <1>3, <1>4, <1>5 DEF FileSteps

LEMMA BreakStep ==
  ASSUME Types, Tracks, Control, Cached, ChainBroken
  PROVE  ~Sound(origin[call.stream], call.stream)
<1> DEFINE s == call.stream
           f == file[s]
<1>1. s \in Streams /\ f \in FileRecords
  BY DEF Types, Calls
<1>2. call.at = "read" /\ ReadOn /\ cached = Needed /\ f.offset = ClusterUnits
  BY DEF ChainBroken, AtCluster, Has, Fetching, Current
<1>3. mounted /\ open[s] /\ using[s]
  BY <1>1, <1>2 DEF Control
<1>4. cached # NoSector
  BY <1>2 DEF Needed, NoSector, FatSector, Current
<1>5. buffer[1] = origin[s]
  BY <1>1, <1>3, <1>4 DEF Cached
<1>6. Fat[origin[s]][f.cluster] \notin Clusters \ {f.cluster, f.anchor}
  BY <1>5 DEF ChainBroken, NextCluster, Current
<1>7. f.position < f.size
  BY <1>2 DEF ReadOn, Current
<1>8. Follows(origin[s], s, f)
  BY <1>1, <1>3 DEF Tracks
<1>9. QED
  BY <1>1, <1>2, <1>6, <1>7, <1>8, BrokenChain

\* A stream with a file: it is lost, or its last answer was an error; and there
\* is a reason.
Bad(s) == using[s] /\ (~mounted \/ ~open[s] \/ result[s] = "error")
Blamed(s) == hurt[s] \/ ~Sound(origin[s], s)

LEMMA VerdictsStep == SInv /\ [Next]_vars => Verdicts'
<1> SUFFICES ASSUME SInv, [Next]_vars PROVE Verdicts'
  OBVIOUS
<1>0. Types /\ Control /\ Cached /\ Tracks
  BY DEF SInv
<1>v. \A s \in Streams : Bad(s) => Blamed(s)
  BY DEF SInv, Verdicts, Bad, Blamed
<1>t. /\ open \in [Streams -> BOOLEAN] /\ using \in [Streams -> BOOLEAN]
      /\ hurt \in [Streams -> BOOLEAN] /\ result \in [Streams -> Results]
      /\ origin \in [Streams -> Cards] /\ call \in Calls /\ call.stream \in Streams
  BY <1>0 DEF Types, Calls
<1>c. /\ call.at \in {"root", "dir", "read"} => mounted
      /\ call.at = "read" => open[call.stream]
      /\ call.at = "mount" => ~mounted /\ \A s \in Streams : ~open[s]
      /\ call.at \in {"mount", "root", "dir"} => ~using[call.stream]
      /\ \A s \in Streams : open[s] => using[s]
  BY <1>0 DEF Control
<1>s. SUFFICES \A s \in Streams :
        using'[s] /\ (~mounted' \/ ~open'[s] \/ result'[s] = "error")
          => hurt'[s] \/ ~Sound(origin'[s], s)
  BY DEF Verdicts
<1> DEFINE Kept(s) == using'[s] /\ (~mounted' \/ ~open'[s] \/ result'[s] = "error")
                        => hurt'[s] \/ ~Sound(origin'[s], s)
<1>1. CASE ChangeCard
  BY <1>1 DEF ChangeCard, AllHurt
<1>2. CASE Mount
  <2>1. UNCHANGED <<open, using, result, origin, hurt>> /\ \A s \in Streams : ~open[s]
    BY <1>c, <1>2 DEF Mount, history
  <2>2. QED
    BY <1>v, <2>1 DEF Bad, Blamed
<1>3. CASE MountFails \/ FileMissing
  <2>1. /\ result' = [result EXCEPT ![call.stream] = "failed"]
        /\ UNCHANGED <<mounted, open, using, origin, hurt>>
    BY <1>3 DEF MountFails, FileMissing, Return, history
  <2>2. \A s \in Streams : result'[s] = "error" => result[s] = "error"
    BY <1>t, <2>1
  <2>3. QED
    BY <1>v, <2>1, <2>2 DEF Bad, Blamed
<1>4. CASE RootFound \/ FollowChain \/ CopyData \/ Fetched \/ UNCHANGED vars
  <2>1. UNCHANGED <<mounted, open, using, result, origin, hurt>>
    BY <1>4 DEF RootFound, FollowChain, CopyData, Fetched, vars, history
  <2>2. QED
    BY <1>v, <2>1 DEF Bad, Blamed
<1>5. CASE FileFound
  <2> DEFINE s == call.stream
             c == buffer[1]
  <2>1. /\ s \in Streams /\ mounted /\ mounted' = mounted
        /\ open' = [open EXCEPT ![s] = TRUE] /\ using' = [using EXCEPT ![s] = TRUE]
        /\ result' = [result EXCEPT ![s] = "opened"] /\ origin' = [origin EXCEPT ![s] = c]
        /\ hurt' = [hurt EXCEPT ![s] = card # c \/ ~ready]
    BY <1>0, <1>5, OpenStep
  <2> HIDE DEF s, c
  <2>2. \A t \in Streams \ {s} : /\ open'[t] = open[t] /\ using'[t] = using[t]
                                 /\ result'[t] = result[t] /\ origin'[t] = origin[t]
                                 /\ hurt'[t] = hurt[t]
    BY <1>t, <2>1
  <2>3. open'[s] /\ result'[s] = "opened"
    BY <1>t, <2>1
  <2>4. TAKE t \in Streams
  <2>5. CASE t = s
    BY <2>1, <2>3, <2>5
  <2>6. CASE t # s
    BY <1>v, <2>1, <2>2, <2>6 DEF Bad, Blamed
  <2>7. QED
    BY <2>5, <2>6
<1>6. CASE ReadDone
  <2>1. /\ result' = [result EXCEPT ![call.stream] = IF call.copied = 0 THEN "eof" ELSE "data"]
        /\ UNCHANGED <<mounted, open, using, origin, hurt>>
    BY <1>6 DEF ReadDone, Return, history
  <2>2. \A s \in Streams : result'[s] = "error" => result[s] = "error"
    BY <1>t, <2>1
  <2>3. QED
    BY <1>v, <2>1, <2>2 DEF Bad, Blamed
<1>7. CASE Ending
  <2> DEFINE s == call.stream
  <2>1. /\ UNCHANGED <<using, origin>>
        /\ \E r \in Results : /\ result' = [result EXCEPT ![s] = r]
                              /\ r = "error" => hurt' = AllHurt \/ ChainBroken
        /\ \/ mounted' = mounted /\ open' = open
           \/ hurt' = AllHurt \/ ChainBroken
    BY <1>0, <1>7, GivenUp, Zenon
  <2>2. /\ \A t \in Streams : hurt[t] => hurt'[t]
        /\ ChainBroken => hurt'[Other(s)]
    BY <1>0, <1>7, GivenUpMarks
  <2>3. ChainBroken => ~Sound(origin[s], s)
    BY <1>0, BreakStep
  <2>4. \A t \in Streams : t = s \/ t = Other(s)
    BY <1>t DEF Streams, Other
  <2>5. hurt' = AllHurt => \A t \in Streams : hurt'[t]
    BY DEF AllHurt
  <2>6. PICK r \in Results : /\ result' = [result EXCEPT ![s] = r]
                             /\ r = "error" => hurt' = AllHurt \/ ChainBroken
    BY <2>1
  <2>7. \A t \in Streams : result'[t] = "error" =>
          result[t] = "error" \/ (t = s /\ (hurt' = AllHurt \/ ChainBroken))
    BY <1>t, <2>6
  <2>8. TAKE t \in Streams
  <2>9. CASE hurt' = AllHurt
    BY <2>5, <2>9
  <2>10. CASE ChainBroken
    BY <2>1, <2>2, <2>3, <2>4, <2>10
  <2>11. CASE ~(hurt' = AllHurt \/ ChainBroken)
    <3>1. mounted' = mounted /\ open' = open /\ (result'[t] = "error" => result[t] = "error")
      BY <2>1, <2>7, <2>11
    <3>2. QED
      BY <1>v, <2>1, <2>2, <3>1 DEF Bad, Blamed
  <2>12. QED
    BY <2>9, <2>10, <2>11
<1>8. ASSUME NEW s \in Streams, OpenBegin(s), NEW t \in Streams PROVE Kept(t)
  <2>1. ~using[s] /\ UNCHANGED <<using, result, origin, hurt>>
    BY <1>8 DEF OpenBegin, history
  <2>2. CASE t = s
    BY <2>1, <2>2
  <2>3. CASE t # s /\ InUse(s)
    <3>1. mounted' = mounted /\ open' = [open EXCEPT ![s] = FALSE]
      BY <1>8, <2>3 DEF OpenBegin
    <3>2. open'[t] = open[t]
      BY <1>t, <2>3, <3>1
    <3>3. QED
      BY <1>v, <2>1, <3>1, <3>2 DEF Bad, Blamed
  <2>4. CASE t # s /\ ~InUse(s)
    <3>1. ~mounted \/ ~open[t]
      BY <2>4 DEF InUse, Streams
    <3>2. QED
      BY <1>v, <2>1, <3>1 DEF Bad, Blamed
  <2>5. QED
    BY <2>2, <2>3, <2>4
<1>9. ASSUME NEW s \in Streams, Close(s), NEW t \in Streams PROVE Kept(t)
  <2>1. /\ open' = [open EXCEPT ![s] = FALSE] /\ using' = [using EXCEPT ![s] = FALSE]
        /\ result' = [result EXCEPT ![s] = "none"] /\ UNCHANGED <<mounted, origin, hurt>>
    BY <1>9 DEF Close
  <2>2. CASE t = s
    BY <1>t, <2>1, <2>2
  <2>3. CASE t # s
    <3>1. open'[t] = open[t] /\ using'[t] = using[t] /\ result'[t] = result[t]
      BY <1>t, <2>1, <2>3
    <3>2. QED
      BY <1>v, <2>1, <3>1 DEF Bad, Blamed
  <2>4. QED
    BY <2>2, <2>3
<1>10. ASSUME NEW s \in Streams, NEW n \in Requests, ReadBegin(s, n), NEW t \in Streams
       PROVE  Kept(t)
  <2>1. using[s] /\ UNCHANGED <<mounted, open, using, origin, hurt>>
    BY <1>10 DEF ReadBegin, history
  <2>2. CASE mounted /\ open[s]
    <3>1. result' = result
      BY <1>10, <2>2 DEF ReadBegin
    <3>2. QED
      BY <1>v, <2>1, <3>1 DEF Bad, Blamed
  <2>3. CASE ~(mounted /\ open[s])
    <3>1. result' = [result EXCEPT ![s] = "error"]
      BY <1>10, <2>3 DEF ReadBegin, Return
    <3>2. result'[t] = "error" => result[t] = "error" \/ t = s
      BY <1>t, <3>1
    <3>3. QED
      BY <1>v, <2>1, <2>3, <3>2 DEF Bad, Blamed
  <2>4. QED
    BY <2>2, <2>3
<1>11. QED
  BY <1>1, <1>2, <1>3, <1>4, <1>5, <1>6, <1>7, <1>8, <1>9, <1>10
     DEF Next, Working, Reading, Stream, Ending

-----------------------------------------------------------------------------
(* The theorems.                                                           *)

\* The inductive invariant: the calls in their places (Control), the buffer and
\* the card (Cached), each file's record on its chain (Tracks), and a reason
\* for every file that is lost (Verdicts).
THEOREM SourceInvariant == Spec => []SInv
<1>1. SInv /\ [Next]_vars => SInv'
  <2>1. SInv /\ [Next]_vars => (Tracks /\ BytesInOrder)'
    BY FilesStep
  <2>2. QED
    BY <2>1, TypesStep, BufferStep, ControlStep, CachedStep, VerdictsStep DEF SInv
<1>2. QED
  BY <1>1, InitSInv, PTL DEF Spec

\* Each stream is given its own file, unit after unit, from the card the file
\* was opened on (read_file, over the sector buffer that both streams share).
THEOREM BytesHold == Spec => []BytesInOrder
<1>1. SInv => BytesInOrder
  BY DEF SInv
<1>2. QED
  BY <1>1, SourceInvariant, PTL

\* A stream is told of an error only if the card, or a file on it, is damaged;
\* and the search for loops in read_file ends every chain before it was read
\* three times over.
THEOREM VerdictHolds == Spec => []ChainVerdict
<1>1. SInv => ChainVerdict
  <2>1. SUFFICES ASSUME SInv, NEW s \in Streams, using[s]
                 PROVE  /\ result[s] = "error" => hurt[s] \/ ~Sound(origin[s], s)
                        /\ file[s].position <= 3 * ClusterUnits * Cardinality(Met(origin[s], s))
    BY DEF ChainVerdict, Met
  <2>2. result[s] = "error" => hurt[s] \/ ~Sound(origin[s], s)
    BY <2>1 DEF SInv, Verdicts
  <2>3. file[s] \in FileRecords /\ Follows(origin[s], s, file[s])
    BY <2>1 DEF SInv, Types, Tracks
  <2>4. QED
    BY <2>2, <2>3, FollowsBound
<1>2. QED
  BY <1>1, SourceInvariant, PTL

\* The types of the state of sd_audio_source.cpp.
THEOREM SourceTypeCorrect == Spec => []TypeOK
<1>1. SInv => TypeOK
  <2>1. SUFFICES ASSUME SInv PROVE TypeOK
    OBVIOUS
  <2>2. Types /\ Control /\ Tracks /\ Cached
    BY <2>1 DEF SInv
  <2>3. ASSUME NEW s \in Streams
        PROVE  /\ file[s].size > 0 => {file[s].cluster, file[s].anchor} \subseteq Clusters
               /\ file[s].position \in 0 .. file[s].size /\ file[s].offset \in 0 .. ClusterUnits
               /\ open[s] => using[s]
    <3>1. file[s] \in FileRecords /\ (open[s] => using[s]) /\ (~using[s] => file[s] = Closed)
      BY <2>2 DEF Types, Control
    <3>2. file[s].position \in Nat /\ file[s].size \in Nat /\ file[s].offset \in Nat
          /\ ClusterUnits \in Nat /\ file[s].power \in Nat \ {0} /\ file[s].steps \in Nat
      BY <3>1, CountType DEF FileRecords
    <3>3. CASE using[s]
      <4>1. Follows(origin[s], s, file[s])
        BY <2>2, <3>3 DEF Tracks
      <4>2. /\ file[s].position <= file[s].size /\ file[s].offset <= ClusterUnits
            /\ file[s].cluster = Chain(origin[s], s)[Index(file[s])]
            /\ file[s].anchor = Chain(origin[s], s)[file[s].power - 1]
            /\ file[s].size > 0 =>
                 \A k \in 0 .. Index(file[s]) : Chain(origin[s], s)[k] \in Clusters
        BY <4>1 DEF Follows
      <4>3. Index(file[s]) \in 0 .. Index(file[s])
            /\ file[s].power - 1 \in 0 .. Index(file[s])
        BY <3>2 DEF Index
      <4>4. file[s].size > 0 => {file[s].cluster, file[s].anchor} \subseteq Clusters
        <5>1. ASSUME file[s].size > 0
              PROVE  file[s].cluster \in Clusters /\ file[s].anchor \in Clusters
          BY <4>2, <4>3, <5>1, Zenon
        <5>2. QED
          BY <5>1, Zenon
      <4>5. file[s].position \in 0 .. file[s].size /\ file[s].offset \in 0 .. ClusterUnits
        <5>1. \A a, b \in Nat : a <= b => a \in 0 .. b
          OBVIOUS
        <5>2. QED
          BY <3>2, <4>2, <5>1, Zenon
      <4>6. QED
        BY <3>1, <4>4, <4>5
    <3>4. CASE ~using[s]
      BY <3>1, <3>2, <3>4 DEF Closed
    <3>5. QED
      BY <3>3, <3>4
  <2>4. {ready, mounted} \subseteq BOOLEAN /\ {open, using, hurt} \subseteq [Streams -> BOOLEAN]
        /\ card \in Cards \union {NoCard}
    BY <2>2, Zenon DEF Types
  <2>5. /\ call.at \in {"idle", "mount", "root", "dir", "read"} /\ call.stream \in Streams
        /\ call.copied \in 0 .. call.want
    BY <2>2 DEF Types, Calls
  <2>6. /\ errors \in 0 .. 3 /\ buffer[1] \in Cards \union {NoCard}
        /\ result \in [Streams -> {"none", "failed", "opened", "data", "retry", "error", "eof"}]
    BY <2>1, <2>2 DEF Types, Results, SInv
  <2>7. origin \in [Streams -> Cards \union {NoCard}]
    BY <2>2 DEF Types
  <2>8. QED
    BY <2>3, <2>4, <2>5, <2>6, <2>7, Zenon DEF TypeOK
<1>2. QED
  BY <1>1, SourceInvariant, PTL

=============================================================================
