----------------------------- MODULE GsuProofs -----------------------------
(***************************************************************************)
(* The core implements GsuProgram, for every geometry of the program       *)
(* cache, every access time and every program that keeps stores and pixels *)
(* apart.                                                                  *)
(***************************************************************************)
EXTENDS Gsu, TLAPS

-----------------------------------------------------------------------------
\* Arithmetic modulo PcSpace and LineSize.

LEMMA ModIs ==
    ASSUME NEW m \in Nat \ {0}, NEW a \in Int
    PROVE  /\ a \in 0..(m - 1) => a % m = a
           /\ a \in m..(2 * m - 1) => a % m = a - m
           /\ a \in (-m)..(-1) => a % m = a + m
           /\ a % m \in 0..(m - 1)
  OBVIOUS

LEMMA DivIs ==
    ASSUME NEW m \in Nat \ {0}, NEW n \in Nat, NEW a \in Nat
    PROVE  /\ a \div m \in Nat
           /\ a = (a \div m) * m + (a % m)
           /\ a % m \in 0..(m - 1)
           /\ a < m * n => a \div m < n
<1>1. a \div m \in Nat
  OBVIOUS
<1>2. a = (a \div m) * m + (a % m)
  OBVIOUS
<1>3. a % m \in 0..(m - 1)
  OBVIOUS
<1>4. ASSUME NEW q \in Nat, NEW r \in 0..(m - 1), a = q * m + r, a < m * n, q >= n
      PROVE  FALSE
  <2>1. q * m >= n * m
    BY <1>4
  <2>2. QED
    BY <1>4, <2>1
<1>5. ASSUME a < m * n PROVE a \div m < n
  BY <1>1, <1>2, <1>3, <1>4, <1>5
<1>6. QED
  BY <1>1, <1>2, <1>3, <1>5

-----------------------------------------------------------------------------
\* The memory pipelines.

LEMMA RamIs ==
    /\ \A b \in RamBanks, o \in Offsets : <<b, o>> \in Ram
    /\ \A o \in {0} \union Rows : o \in Offsets /\ <<1, o>> \in Ram
  BY MemoryAssumption DEF Ram

LEMMA RomAdvancedIs ==
    ASSUME NEW p \in Pipelines, NEW n \in Nat
    PROVE  LET q == RomAdvanced(p, n) IN
           /\ q \in Pipelines
           /\ q.ram = p.ram /\ q.ramDelay = p.ramDelay /\ q.ramAddress = p.ramAddress
           /\ q.ramValue = p.ramValue /\ q.ramb = p.ramb /\ q.romb = p.romb /\ q.r14 = p.r14
           /\ q.romDelay = IF p.romDelay > n THEN p.romDelay - n ELSE 0
           /\ q.romBuffer = IF p.romDelay > n \/ p.romDelay = 0 THEN p.romBuffer
                            ELSE <<p.romb, p.r14>>
<1>0. p.romDelay \in 0..Long /\ Long \in Nat
  BY TimeAssumption DEF Pipelines
<1>1. CASE p.romDelay > n
  <2> DEFINE q == [p EXCEPT !.romDelay = p.romDelay - n]
  <2>1. RomAdvanced(p, n) = q
    BY <1>1 DEF RomAdvanced
  <2>2. p.romDelay - n \in 0..Long
    BY <1>0, <1>1
  <2>3. q \in Pipelines
    BY <2>2 DEF Pipelines
  <2>4. QED
    BY <1>1, <2>1, <2>2, <2>3 DEF Pipelines
<1>2. CASE ~(p.romDelay > n) /\ p.romDelay > 0
  <2> DEFINE q == [p EXCEPT !.romDelay = 0, !.romBuffer = <<p.romb, p.r14>>]
  <2>1. RomAdvanced(p, n) = q
    BY <1>2 DEF RomAdvanced
  <2> DEFINE r == [p EXCEPT !.romDelay = 0]
  <2>2. r \in Pipelines
    BY <1>0 DEF Pipelines
  <2>3. /\ q = [r EXCEPT !.romBuffer = <<p.romb, p.r14>>]
        /\ <<p.romb, p.r14>> \in {<<>>} \union (RomBanks \X RomOffsets)
    BY DEF Pipelines
  <2>4. q \in Pipelines
    BY <2>2, <2>3 DEF Pipelines
  <2>5. QED
    BY <1>2, <2>1, <2>4 DEF Pipelines
<1>3. CASE ~(p.romDelay > n) /\ ~(p.romDelay > 0)
  <2>1. RomAdvanced(p, n) = p /\ p.romDelay = 0
    BY <1>0, <1>3 DEF RomAdvanced
  <2>2. QED
    BY <1>3, <2>1
<1>4. QED
  BY <1>1, <1>2, <1>3

LEMMA RamAdvancedIs ==
    ASSUME NEW p \in Pipelines, NEW n \in Nat
    PROVE  LET q == RamAdvanced(p, n) IN
           /\ q \in Pipelines
           /\ q.ram = IF p.ramDelay > n \/ p.ramDelay = 0 THEN p.ram
                      ELSE [p.ram EXCEPT ![<<p.ramb, p.ramAddress>>] = p.ramValue]
           /\ q.ramDelay = IF p.ramDelay > n THEN p.ramDelay - n ELSE 0
           /\ q.ramAddress = p.ramAddress /\ q.ramValue = p.ramValue /\ q.ramb = p.ramb
           /\ q.romb = p.romb /\ q.r14 = p.r14 /\ q.romDelay = p.romDelay
           /\ q.romBuffer = p.romBuffer
<1>0. /\ p.ramDelay \in 0..Long /\ Long \in Nat
      /\ p.ram \in [Ram -> Byte] /\ p.ramValue \in Byte /\ <<p.ramb, p.ramAddress>> \in Ram
  BY TimeAssumption, RamIs DEF Pipelines
<1>1. CASE p.ramDelay > n
  <2> DEFINE q == [p EXCEPT !.ramDelay = p.ramDelay - n]
  <2>1. RamAdvanced(p, n) = q
    BY <1>1 DEF RamAdvanced
  <2>2. p.ramDelay - n \in 0..Long
    BY <1>0, <1>1
  <2>3. q \in Pipelines
    BY <2>2 DEF Pipelines
  <2>4. QED
    BY <1>1, <2>1, <2>2, <2>3 DEF Pipelines
<1>2. CASE ~(p.ramDelay > n) /\ p.ramDelay > 0
  <2> DEFINE m == [p.ram EXCEPT ![<<p.ramb, p.ramAddress>>] = p.ramValue]
             q == [p EXCEPT !.ramDelay = 0, !.ram = m]
  <2>1. RamAdvanced(p, n) = q
    BY <1>2 DEF RamAdvanced, Pipelines
  <2>2. m \in [Ram -> Byte]
    BY <1>0
  <2>3. q \in Pipelines
    <3> HIDE DEF m
    <3> DEFINE r == [p EXCEPT !.ramDelay = 0]
    <3>1. r \in Pipelines
      BY <1>0 DEF Pipelines
    <3>2. q = [r EXCEPT !.ram = m]
      BY DEF Pipelines
    <3>3. QED
      BY <2>2, <3>1, <3>2 DEF Pipelines
  <2>4. /\ q.ram = m /\ q.ramDelay = 0
        /\ q.ramAddress = p.ramAddress /\ q.ramValue = p.ramValue /\ q.ramb = p.ramb
        /\ q.romb = p.romb /\ q.r14 = p.r14 /\ q.romDelay = p.romDelay
        /\ q.romBuffer = p.romBuffer
    <3> HIDE DEF m
    <3> QED BY DEF Pipelines
  <2>5. QED
    BY <1>2, <2>1, <2>3, <2>4
<1>3. CASE ~(p.ramDelay > n) /\ ~(p.ramDelay > 0)
  <2>1. RamAdvanced(p, n) = p /\ p.ramDelay = 0
    BY <1>0, <1>3 DEF RamAdvanced
  <2>2. QED
    BY <1>3, <2>1
<1>4. QED
  BY <1>1, <1>2, <1>3

LEMMA StepIs ==
    ASSUME NEW p \in Pipelines, NEW n \in Nat
    PROVE  LET q == step(p, n) IN
           /\ q \in Pipelines
           /\ q.ram = IF p.ramDelay > n \/ p.ramDelay = 0 THEN p.ram
                      ELSE [p.ram EXCEPT ![<<p.ramb, p.ramAddress>>] = p.ramValue]
           /\ q.ramDelay = IF p.ramDelay > n THEN p.ramDelay - n ELSE 0
           /\ q.ramAddress = p.ramAddress /\ q.ramValue = p.ramValue
           /\ q.ramb = p.ramb /\ q.romb = p.romb /\ q.r14 = p.r14
           /\ q.romDelay = IF p.romDelay > n THEN p.romDelay - n ELSE 0
           /\ q.romBuffer = IF p.romDelay > n \/ p.romDelay = 0 THEN p.romBuffer
                            ELSE <<p.romb, p.r14>>
<1> DEFINE r == RomAdvanced(p, n)
<1>1. /\ r \in Pipelines
      /\ r.ram = p.ram /\ r.ramDelay = p.ramDelay /\ r.ramAddress = p.ramAddress
      /\ r.ramValue = p.ramValue /\ r.ramb = p.ramb /\ r.romb = p.romb /\ r.r14 = p.r14
      /\ r.romDelay = IF p.romDelay > n THEN p.romDelay - n ELSE 0
      /\ r.romBuffer = IF p.romDelay > n \/ p.romDelay = 0 THEN p.romBuffer
                       ELSE <<p.romb, p.r14>>
  BY RomAdvancedIs
<1>2. step(p, n) = RamAdvanced(r, n)
  BY DEF step
<1> HIDE DEF r
<1>3. QED
  BY <1>1, <1>2, RamAdvancedIs

\* The delays as numbers.
LEMMA Delays ==
    ASSUME NEW p \in Pipelines
    PROVE  p.ramDelay \in Nat /\ p.ramDelay <= Long /\ p.romDelay \in Nat /\ p.romDelay <= Long
  BY TimeAssumption DEF Pipelines

LEMMA WrittenIs ==
    ASSUME NEW p \in Pipelines
    PROVE  /\ Written(p) = IF p.ramDelay = 0 THEN p.ram
                           ELSE [p.ram EXCEPT ![<<p.ramb, p.ramAddress>>] = p.ramValue]
           /\ Pointed(p) = IF p.romDelay = 0 THEN p.romBuffer ELSE <<p.romb, p.r14>>
           /\ Written(p) \in [Ram -> Byte]
<1>0. /\ p.ram \in [Ram -> Byte] /\ p.ramValue \in Byte /\ <<p.ramb, p.ramAddress>> \in Ram
  BY RamIs DEF Pipelines
<1>1. Written(p) = IF p.ramDelay > p.ramDelay \/ p.ramDelay = 0 THEN p.ram
                   ELSE [p.ram EXCEPT ![<<p.ramb, p.ramAddress>>] = p.ramValue]
  BY StepIs, Delays DEF Written
<1>2. Pointed(p) = IF p.romDelay > p.romDelay \/ p.romDelay = 0 THEN p.romBuffer
                   ELSE <<p.romb, p.r14>>
  BY StepIs, Delays DEF Pointed
<1>3. ~(p.ramDelay > p.ramDelay) /\ ~(p.romDelay > p.romDelay)
  BY Delays
<1>4. QED
  BY <1>0, <1>1, <1>2, <1>3

\* q is p some cycles later: nothing that a program can notice has changed.
Later(p, q) ==
    /\ q \in Pipelines
    /\ Written(q) = Written(p) /\ Pointed(q) = Pointed(p)
    /\ q.ramb = p.ramb /\ q.romb = p.romb
    /\ p.ramDelay = 0 => q.ramDelay = 0

LEMMA StepLater ==
    ASSUME NEW p \in Pipelines, NEW n \in Nat
    PROVE  /\ Later(p, step(p, n))
           /\ p.ramDelay <= n => step(p, n).ramDelay = 0 /\ step(p, n).ram = Written(p)
           /\ p.romDelay <= n => step(p, n).romDelay = 0 /\ step(p, n).romBuffer = Pointed(p)
<1> DEFINE q == step(p, n)
<1>1. /\ q \in Pipelines
      /\ q.ram = IF p.ramDelay > n \/ p.ramDelay = 0 THEN p.ram
                 ELSE [p.ram EXCEPT ![<<p.ramb, p.ramAddress>>] = p.ramValue]
      /\ q.ramDelay = IF p.ramDelay > n THEN p.ramDelay - n ELSE 0
      /\ q.ramAddress = p.ramAddress /\ q.ramValue = p.ramValue
      /\ q.ramb = p.ramb /\ q.romb = p.romb /\ q.r14 = p.r14
      /\ q.romDelay = IF p.romDelay > n THEN p.romDelay - n ELSE 0
      /\ q.romBuffer = IF p.romDelay > n \/ p.romDelay = 0 THEN p.romBuffer
                       ELSE <<p.romb, p.r14>>
  BY StepIs
<1>2. /\ p.ramDelay \in Nat /\ p.romDelay \in Nat
      /\ Written(p) = IF p.ramDelay = 0 THEN p.ram
                      ELSE [p.ram EXCEPT ![<<p.ramb, p.ramAddress>>] = p.ramValue]
      /\ Pointed(p) = IF p.romDelay = 0 THEN p.romBuffer ELSE <<p.romb, p.r14>>
  BY WrittenIs, Delays
<1> HIDE DEF q
<1>3. /\ Written(q) = IF q.ramDelay = 0 THEN q.ram
                      ELSE [q.ram EXCEPT ![<<q.ramb, q.ramAddress>>] = q.ramValue]
      /\ Pointed(q) = IF q.romDelay = 0 THEN q.romBuffer ELSE <<q.romb, q.r14>>
  BY <1>1, WrittenIs
<1>4. Written(q) = Written(p) /\ Pointed(q) = Pointed(p)
  BY <1>1, <1>2, <1>3
<1>5. /\ Later(p, q)
      /\ p.ramDelay <= n => q.ramDelay = 0 /\ q.ram = Written(p)
      /\ p.romDelay <= n => q.romDelay = 0 /\ q.romBuffer = Pointed(p)
  BY <1>1, <1>2, <1>3, <1>4 DEF Later
<1>6. QED
  BY <1>5 DEF q

LEMMA LaterTrans ==
    ASSUME NEW p, NEW q, NEW r, Later(p, q), Later(q, r)
    PROVE  Later(p, r)
  BY DEF Later

LEMMA Waited ==
    ASSUME NEW p \in Pipelines
    PROVE  /\ Later(p, wait_ram_operation(p)) /\ Later(p, wait_rom_operation(p))
           /\ wait_ram_operation(p).ramDelay = 0
           /\ wait_ram_operation(p).ram = Written(p)
           /\ wait_rom_operation(p).romDelay = 0
           /\ wait_rom_operation(p).romBuffer = Pointed(p)
  BY StepLater, Delays DEF wait_ram_operation, wait_rom_operation

LEMMA Stored ==
    ASSUME NEW p \in Pipelines, NEW o \in Offsets, NEW v \in Byte
    PROVE  LET q == write_ram(p, o, v) IN
           /\ q \in Pipelines
           /\ Written(q) = [Written(p) EXCEPT ![<<p.ramb, o>>] = v]
           /\ Pointed(q) = Pointed(p) /\ q.ramb = p.ramb /\ q.romb = p.romb
<1> DEFINE w == wait_ram_operation(p)
           q == [w EXCEPT !.ramDelay = Long, !.ramAddress = o, !.ramValue = v]
<1>1. /\ w \in Pipelines /\ w.ram = Written(p) /\ Pointed(w) = Pointed(p)
      /\ w.ramb = p.ramb /\ w.romb = p.romb
  BY Waited DEF Later
<1>2. write_ram(p, o, v) = q
  BY DEF write_ram
<1> HIDE DEF w
<1> DEFINE a == [w EXCEPT !.ramDelay = Long]
           b == [a EXCEPT !.ramAddress = o]
<1>3. a \in Pipelines
  BY <1>1, TimeAssumption DEF Pipelines
<1>4. b \in Pipelines
  BY <1>3 DEF Pipelines
<1>5. q = [b EXCEPT !.ramValue = v]
  BY <1>1 DEF Pipelines
<1>6. q \in Pipelines
  BY <1>4, <1>5 DEF Pipelines
<1>7. /\ q.ram = w.ram /\ q.ramDelay = Long /\ q.ramAddress = o /\ q.ramValue = v
      /\ q.ramb = w.ramb /\ q.romb = w.romb /\ q.r14 = w.r14
      /\ q.romDelay = w.romDelay /\ q.romBuffer = w.romBuffer
  BY <1>1 DEF Pipelines
<1> HIDE DEF q
<1>8. Written(q) = [q.ram EXCEPT ![<<q.ramb, q.ramAddress>>] = q.ramValue]
  BY <1>6, <1>7, WrittenIs, TimeAssumption
<1>9. Pointed(q) = Pointed(w)
  BY <1>1, <1>6, <1>7, WrittenIs
<1>10. QED
  BY <1>1, <1>2, <1>6, <1>7, <1>8, <1>9

\* A bank is changed only when nothing is on its way through it.
LEMMA BankSelected ==
    ASSUME NEW p \in Pipelines
    PROVE  /\ \A b \in RamBanks :
                LET q == [wait_ram_operation(p) EXCEPT !.ramb = b] IN
                /\ q \in Pipelines /\ q.ramDelay = 0
                /\ Written(q) = Written(p) /\ Pointed(q) = Pointed(p)
                /\ q.ramb = b /\ q.romb = p.romb
           /\ \A b \in RomBanks :
                LET q == [wait_rom_operation(p) EXCEPT !.romb = b] IN
                /\ q \in Pipelines /\ (p.ramDelay = 0 => q.ramDelay = 0)
                /\ Written(q) = Written(p) /\ Pointed(q) = Pointed(p)
                /\ q.ramb = p.ramb /\ q.romb = b
<1>1. ASSUME NEW b \in RamBanks
      PROVE  LET q == [wait_ram_operation(p) EXCEPT !.ramb = b] IN
             /\ q \in Pipelines /\ q.ramDelay = 0
             /\ Written(q) = Written(p) /\ Pointed(q) = Pointed(p)
             /\ q.ramb = b /\ q.romb = p.romb
  <2> DEFINE w == wait_ram_operation(p)
             q == [w EXCEPT !.ramb = b]
  <2>1. /\ w \in Pipelines /\ w.ramDelay = 0 /\ w.ram = Written(p)
        /\ Pointed(w) = Pointed(p) /\ w.romb = p.romb
    BY Waited DEF Later
  <2> HIDE DEF w
  <2>2. q \in Pipelines
    BY <2>1 DEF Pipelines
  <2>3. /\ q.ram = w.ram /\ q.ramDelay = 0 /\ q.ramb = b /\ q.romb = w.romb
        /\ q.r14 = w.r14 /\ q.romDelay = w.romDelay /\ q.romBuffer = w.romBuffer
    BY <2>1 DEF Pipelines
  <2> HIDE DEF q
  <2>4. Written(q) = q.ram /\ Pointed(q) = Pointed(w)
    BY <2>1, <2>2, <2>3, WrittenIs
  <2>5. QED
    BY <2>1, <2>2, <2>3, <2>4 DEF q, w
<1>2. ASSUME NEW b \in RomBanks
      PROVE  LET q == [wait_rom_operation(p) EXCEPT !.romb = b] IN
             /\ q \in Pipelines /\ (p.ramDelay = 0 => q.ramDelay = 0)
             /\ Written(q) = Written(p) /\ Pointed(q) = Pointed(p)
             /\ q.ramb = p.ramb /\ q.romb = b
  <2> DEFINE w == wait_rom_operation(p)
             q == [w EXCEPT !.romb = b]
  <2>1. /\ w \in Pipelines /\ w.romDelay = 0 /\ w.romBuffer = Pointed(p)
        /\ (p.ramDelay = 0 => w.ramDelay = 0)
        /\ Written(w) = Written(p) /\ w.ramb = p.ramb
    BY Waited DEF Later
  <2> HIDE DEF w
  <2>2. q \in Pipelines
    BY <2>1 DEF Pipelines
  <2>3. /\ q.ram = w.ram /\ q.ramDelay = w.ramDelay /\ q.ramb = w.ramb /\ q.romb = b
        /\ q.ramAddress = w.ramAddress /\ q.ramValue = w.ramValue
        /\ q.romDelay = 0 /\ q.romBuffer = w.romBuffer
    BY <2>1 DEF Pipelines
  <2> HIDE DEF q
  <2>4. Written(q) = Written(w) /\ Pointed(q) = q.romBuffer
    BY <2>1, <2>2, <2>3, WrittenIs, ZenonT(60)
  <2>5. QED
    BY <2>1, <2>2, <2>3, <2>4 DEF q, w
<1>3. QED
  BY <1>1, <1>2

LEMMA R14Written ==
    ASSUME NEW p \in Pipelines, NEW a \in RomOffsets
    PROVE  LET q == write_r14(p, a) IN
           /\ q \in Pipelines /\ q.ramDelay = p.ramDelay
           /\ Written(q) = Written(p) /\ Pointed(q) = <<p.romb, a>>
           /\ q.ramb = p.ramb /\ q.romb = p.romb
<1> DEFINE r == [p EXCEPT !.r14 = a]
           q == [p EXCEPT !.r14 = a, !.romDelay = Long]
<1>1. r \in Pipelines
  BY DEF Pipelines
<1>2. q = [r EXCEPT !.romDelay = Long]
  BY DEF Pipelines
<1>0. Long \in 0..Long
  BY TimeAssumption
<1>3. q \in Pipelines
  BY <1>0, <1>1, <1>2 DEF Pipelines
<1>4. /\ q.ram = p.ram /\ q.ramDelay = p.ramDelay /\ q.ramAddress = p.ramAddress
      /\ q.ramValue = p.ramValue /\ q.ramb = p.ramb /\ q.romb = p.romb
      /\ q.r14 = a /\ q.romDelay = Long
  BY DEF Pipelines
<1> HIDE DEF q
<1>5. Written(q) = Written(p) /\ Pointed(q) = <<p.romb, a>>
  BY <1>3, <1>4, WrittenIs, TimeAssumption
<1>6. QED
  BY <1>3, <1>4, <1>5 DEF write_r14, q

\* A byte put into RAM when no write is on its way there.
LEMMA Poked ==
    ASSUME NEW p \in Pipelines, p.ramDelay = 0, NEW a \in Ram, NEW v \in Byte
    PROVE  LET q == [p EXCEPT !.ram[a] = v] IN
           /\ q \in Pipelines /\ q.ramDelay = 0
           /\ q.ram = [p.ram EXCEPT ![a] = v]
           /\ Written(q) = [Written(p) EXCEPT ![a] = v] /\ Pointed(q) = Pointed(p)
           /\ q.ramb = p.ramb /\ q.romb = p.romb
<1> DEFINE m == [p.ram EXCEPT ![a] = v]
           q == [p EXCEPT !.ram[a] = v]
<1>1. q = [p EXCEPT !.ram = m]
  BY DEF Pipelines
<1>2. m \in [Ram -> Byte]
  BY DEF Pipelines
<1> HIDE DEF m
<1>3. q \in Pipelines
  BY <1>1, <1>2 DEF Pipelines
<1>4. /\ q.ram = m /\ q.ramDelay = 0 /\ q.ramb = p.ramb /\ q.romb = p.romb
      /\ q.r14 = p.r14 /\ q.romDelay = p.romDelay /\ q.romBuffer = p.romBuffer
  BY <1>1 DEF Pipelines
<1> HIDE DEF q
<1>5. Written(q) = m /\ Written(p) = p.ram /\ Pointed(q) = Pointed(p)
  BY <1>3, <1>4, WrittenIs
<1>6. QED
  BY <1>3, <1>4, <1>5 DEF q, m

-----------------------------------------------------------------------------
\* Program fetch.

\* The lines of c that are valid hold the program at their place.
Current(c) ==
    \A l \in LineNumbers : c.lines[l] # Invalid => c.lines[l] = <<c.pbr, Plus(c.base, l * LineSize)>>

LEMMA Geometry ==
    /\ PcSpace \in Nat \ {0} /\ LineSize \in Nat \ {0} /\ Lines \in Nat \ {0}
    /\ LineSize * Lines \in Nat /\ LineSize * Lines <= PcSpace
  BY CacheAssumption

LEMMA ModPc ==
    ASSUME NEW a \in Int
    PROVE  /\ a \in 0..(PcSpace - 1) => a % PcSpace = a
           /\ a \in PcSpace..(2 * PcSpace - 1) => a % PcSpace = a - PcSpace
           /\ a \in (-PcSpace)..(-1) => a % PcSpace = a + PcSpace
           /\ a % PcSpace \in 0..(PcSpace - 1)
  BY Geometry, ModIs

LEMMA PlusIs ==
    ASSUME NEW a \in Pcs, NEW n \in 0..(PcSpace - 1)
    PROVE  /\ Plus(a, n) \in Pcs
           /\ Plus(a, n) = IF a + n < PcSpace THEN a + n ELSE a + n - PcSpace
<1>1. a \in Nat /\ n \in Nat /\ a + n \in 0..(2 * PcSpace - 1)
  BY Geometry DEF Pcs
<1>2. (a + n) % PcSpace = IF a + n < PcSpace THEN a + n ELSE a + n - PcSpace
  <2> DEFINE x == a + n
  <2>1. x \in Int /\ x \in 0..(2 * PcSpace - 1)
    BY <1>1
  <2> HIDE DEF x
  <2>2. x % PcSpace = IF x < PcSpace THEN x ELSE x - PcSpace
    BY <2>1, ModPc, Geometry, SMTT(60)
  <2>3. QED
    BY <1>1, <2>2, Geometry DEF x
<1>3. QED
  BY <1>1, <1>2, Geometry DEF Plus, Pcs

LEMMA PlusInPcs == \A a, n \in Int : Plus(a, n) \in Pcs
  BY ModPc DEF Plus, Pcs

\* Where R15 is in the cache.
LEMMA CacheAddressIs ==
    ASSUME NEW c \in Codes
    PROVE  /\ CacheAddress(c) \in Pcs
           /\ Plus(c.base, CacheAddress(c)) = c.r15
<1> DEFINE at == CacheAddress(c)
<1>1. c.r15 \in Pcs /\ c.base \in Pcs
  BY DEF Codes
<1>2. at = IF c.r15 >= c.base THEN c.r15 - c.base ELSE c.r15 - c.base + PcSpace
  <2> DEFINE x == c.r15 - c.base
  <2>1. x \in Int /\ x \in (-PcSpace)..(PcSpace - 1) /\ (x >= 0 <=> c.r15 >= c.base)
    BY <1>1, Geometry DEF Pcs
  <2> HIDE DEF x
  <2>2. x % PcSpace = IF x >= 0 THEN x ELSE x + PcSpace
    BY <2>1, ModPc, Geometry
  <2>3. QED
    BY <2>1, <2>2 DEF x, CacheAddress
<1> HIDE DEF at
<1>3. at \in Pcs
  BY <1>1, <1>2, Geometry DEF Pcs
<1>4. Plus(c.base, at) = IF c.base + at < PcSpace THEN c.base + at ELSE c.base + at - PcSpace
  BY <1>1, <1>3, PlusIs DEF Pcs
<1>5. Plus(c.base, at) = c.r15
  BY <1>1, <1>2, <1>3, <1>4, Geometry DEF Pcs
<1>6. QED
  BY <1>3, <1>5 DEF at

\* A byte inside the cache is on one of its lines, at its place on that line.
LEMMA OnItsLine ==
    ASSUME NEW base \in Pcs, NEW at \in Pcs, at < LineSize * Lines
    PROVE  LET l == at \div LineSize IN
           /\ l \in LineNumbers
           /\ l * LineSize \in Pcs
           /\ Plus(base, l * LineSize) \in Pcs
           /\ Plus(Plus(base, l * LineSize), at % LineSize) = Plus(base, at)
<1> DEFINE l == at \div LineSize
           x == l * LineSize
           y == at % LineSize
<1>1. /\ l \in Nat /\ l < Lines /\ at = x + y /\ y \in 0..(LineSize - 1)
  <2>1. at \in Nat
    BY DEF Pcs
  <2>2. /\ at \div LineSize \in Nat
        /\ at = (at \div LineSize) * LineSize + (at % LineSize)
        /\ at % LineSize \in 0..(LineSize - 1)
        /\ at \div LineSize < Lines
    BY <2>1, Geometry, DivIs
  <2>3. QED
    BY <2>2
<1>2. l \in LineNumbers
  BY <1>1, Geometry DEF LineNumbers
<1>3. x \in Nat
  BY <1>1, Geometry
<1> HIDE DEF x, y, l
<1>4. x \in Pcs /\ y \in Pcs /\ at \in Nat
  BY <1>1, <1>3, Geometry DEF Pcs
<1>5. Plus(base, x) \in Pcs /\ Plus(base, x) = IF base + x < PcSpace THEN base + x ELSE base + x - PcSpace
  BY <1>4, PlusIs DEF Pcs
<1>6. Plus(Plus(base, x), y) = IF Plus(base, x) + y < PcSpace THEN Plus(base, x) + y
                               ELSE Plus(base, x) + y - PcSpace
  BY <1>4, <1>5, PlusIs DEF Pcs
<1>7. Plus(base, at) = IF base + at < PcSpace THEN base + at ELSE base + at - PcSpace
  BY PlusIs DEF Pcs
<1>8. Plus(Plus(base, x), y) = Plus(base, at)
  BY <1>1, <1>4, <1>5, <1>6, <1>7, Geometry DEF Pcs
<1>9. QED
  BY <1>2, <1>4, <1>5, <1>8 DEF l, x, y

\* What a fetch leaves alone in c, and in p.
Fetching(c, p, d, q) ==
    /\ d \in Codes /\ Current(d)
    /\ d.pbr = c.pbr /\ d.base = c.base
    /\ Later(p, q)

LEMMA LineFilled ==
    ASSUME NEW c \in Codes, Current(c), NEW p \in Pipelines, NEW l \in LineNumbers
    PROVE  LET f == fill_cache_line(c, p, l) IN
           /\ Fetching(c, p, f.code, f.pipe)
           /\ f.code.r15 = c.r15 /\ f.code.buffer = c.buffer
           /\ f.code.lines[l] = <<c.pbr, Plus(c.base, l * LineSize)>>
<1> DEFINE v == <<c.pbr, Plus(c.base, l * LineSize)>>
           m == [c.lines EXCEPT ![l] = v]
           d == [c EXCEPT !.lines[l] = v]
           q == step(wait_rom_operation(p), Long * LineSize)
<1>1. fill_cache_line(c, p, l).code = d /\ fill_cache_line(c, p, l).pipe = q
  BY DEF fill_cache_line
<1>2. v \in {Invalid} \union (ProgramBanks \X Pcs)
  <2>1. c.base \in Int /\ l * LineSize \in Int /\ c.pbr \in ProgramBanks
    BY Geometry DEF Codes, Pcs, LineNumbers
  <2>2. QED
    BY <2>1, PlusInPcs
<1> HIDE DEF v
<1>3. d = [c EXCEPT !.lines = m] /\ c.lines \in [LineNumbers -> {Invalid} \union (ProgramBanks \X Pcs)]
  BY DEF Codes
<1>4. m \in [LineNumbers -> {Invalid} \union (ProgramBanks \X Pcs)]
  BY <1>2, <1>3
<1>5. \A k \in LineNumbers : m[k] = IF k = l THEN v ELSE c.lines[k]
  BY <1>3
<1> HIDE DEF m
<1>6. d \in Codes
  BY <1>3, <1>4 DEF Codes
<1>7. /\ d.pbr = c.pbr /\ d.base = c.base /\ d.r15 = c.r15 /\ d.buffer = c.buffer
      /\ d.lines = m
  BY <1>3 DEF Codes
<1> HIDE DEF d
<1>8. Current(d)
  BY <1>5, <1>7 DEF Current, v
<1>9. Later(p, q)
  <2>1. Later(p, wait_rom_operation(p)) /\ wait_rom_operation(p) \in Pipelines
    BY Waited DEF Later
  <2>2. Long * LineSize \in Nat
    BY Geometry, TimeAssumption
  <2>3. QED
    BY <2>1, <2>2, StepLater, LaterTrans
<1>10. QED
  BY <1>1, <1>5, <1>6, <1>7, <1>8, <1>9 DEF Fetching, v

\* Inside the cache or outside it, with the line filled before or now, the byte
\* fetched is the one at R15.
LEMMA ByteFetched ==
    ASSUME NEW c \in Codes, Current(c), NEW p \in Pipelines
    PROVE  LET f == read_program_byte(c, p) IN
           /\ f.byte = <<c.pbr, c.r15>>
           /\ Fetching(c, p, f.code, f.pipe)
           /\ f.code.r15 = c.r15
<1> DEFINE at == CacheAddress(c)
           l == at \div LineSize
           e == fill_cache_line(c, p, l)
           filled == IF c.lines[l] = Invalid THEN e ELSE [code |-> c, pipe |-> p]
           line == filled.code.lines[l]
           f == read_program_byte(c, p)
<1>1. /\ at \in Pcs /\ Plus(c.base, at) = c.r15 /\ c.base \in Pcs
  BY CacheAddressIs DEF Codes
<1>2. Short \in Nat /\ Long \in Nat
  BY TimeAssumption
<1>3. CASE at < LineSize * Lines
  <2>1. /\ l \in LineNumbers /\ Plus(c.base, l * LineSize) \in Pcs
        /\ Plus(Plus(c.base, l * LineSize), at % LineSize) = c.r15
    BY <1>1, <1>3, OnItsLine
  <2>2. f = [byte |-> <<line[1], Plus(line[2], at % LineSize)>>,
             code |-> filled.code, pipe |-> step(filled.pipe, Short)]
    BY <1>3 DEF read_program_byte
  <2>3. /\ Fetching(c, p, filled.code, filled.pipe) /\ filled.code.r15 = c.r15
        /\ line = <<c.pbr, Plus(c.base, l * LineSize)>>
    <3>1. CASE c.lines[l] = Invalid
      <4>1. filled = e
        BY <3>1
      <4>2. QED
        BY <2>1, <4>1, LineFilled
    <3>2. CASE c.lines[l] # Invalid
      <4>1. filled.code = c /\ filled.pipe = p
        BY <3>2
      <4>2. Later(p, p)
        BY DEF Later
      <4>3. QED
        BY <2>1, <3>2, <4>1, <4>2 DEF Current, Fetching
    <3>3. QED
      BY <3>1, <3>2
  <2> HIDE DEF filled, at, l
  <2>4. line[1] = c.pbr /\ line[2] = Plus(c.base, l * LineSize)
    BY <2>3
  <2>5. f.byte = <<c.pbr, c.r15>> /\ f.code = filled.code /\ f.pipe = step(filled.pipe, Short)
    BY <2>1, <2>2, <2>4 DEF at, l
  <2>6. filled.pipe \in Pipelines /\ Later(p, filled.pipe)
    BY <2>3 DEF Fetching, Later
  <2>7. Later(p, f.pipe)
    BY <1>2, <2>5, <2>6, StepLater, LaterTrans
  <2>8. QED
    BY <2>3, <2>5, <2>7 DEF Fetching
<1>4. CASE ~(at < LineSize * Lines)
  <2>1. f = [byte |-> <<c.pbr, c.r15>>, code |-> c, pipe |-> step(wait_rom_operation(p), Long)]
    BY <1>4 DEF read_program_byte
  <2>2. Later(p, wait_rom_operation(p)) /\ wait_rom_operation(p) \in Pipelines
    BY Waited DEF Later
  <2>3. f.byte = <<c.pbr, c.r15>> /\ f.code = c /\ f.pipe = step(wait_rom_operation(p), Long)
    BY <2>1
  <2>4. Later(p, f.pipe)
    BY <1>2, <2>2, <2>3, StepLater, LaterTrans
  <2>5. QED
    BY <2>3, <2>4 DEF Fetching
<1>5. QED
  BY <1>3, <1>4

LEMMA OpcodeRead ==
    ASSUME NEW c \in Codes, Current(c), NEW p \in Pipelines
    PROVE  LET f == read_opcode(c, p) IN
           /\ Fetching(c, p, f.code, f.pipe)
           /\ f.code.buffer = <<c.pbr, c.r15>> /\ f.code.r15 = c.r15
<1> DEFINE f == read_program_byte(c, p)
           d == [f.code EXCEPT !.buffer = f.byte]
<1>1. /\ f.byte = <<c.pbr, c.r15>> /\ Fetching(c, p, f.code, f.pipe) /\ f.code.r15 = c.r15
  BY ByteFetched
<1>2. read_opcode(c, p).code = d /\ read_opcode(c, p).pipe = f.pipe
  BY DEF read_opcode
<1> HIDE DEF f
<1>3. f.code \in Codes /\ Current(f.code) /\ f.code.pbr = c.pbr /\ f.code.base = c.base
  BY <1>1 DEF Fetching
<1>4. f.byte \in {Nop} \union (ProgramBanks \X Pcs)
  BY <1>1 DEF Codes
<1>5. d \in Codes
  BY <1>3, <1>4 DEF Codes
<1>6. /\ d.pbr = c.pbr /\ d.base = c.base /\ d.r15 = c.r15 /\ d.buffer = f.byte
      /\ d.lines = f.code.lines
  BY <1>1, <1>3 DEF Codes
<1> HIDE DEF d
<1>7. Current(d)
  BY <1>3, <1>6 DEF Current
<1>8. QED
  BY <1>1, <1>2, <1>5, <1>6, <1>7 DEF Fetching

-----------------------------------------------------------------------------
\* The pixel caches.

LEMMA MergedIs ==
    ASSUME NEW k \in PixelCaches, NEW byte \in Byte
    PROVE  /\ Merged(byte, k) \in Byte
           /\ k.valid = {} => Merged(byte, k) = byte
           /\ k.valid = Pixels => \A other \in Byte : Merged(other, k) = Merged(byte, k)
  BY DEF Merged, PixelCaches, Byte

LEMMA UnderIs ==
    ASSUME NEW k \in PixelCaches, NEW ram \in [Ram -> Byte]
    PROVE  /\ Under(ram, k) \in [Ram -> Byte]
           /\ \A a \in Ram : Under(ram, k)[a] = IF a = <<1, k.row>> THEN Merged(ram[a], k)
                                                ELSE ram[a]
           /\ k.valid = {} => Under(ram, k) = ram
<1>1. <<1, k.row>> \in Ram
  BY RamIs DEF PixelCaches
<1>2. ram[<<1, k.row>>] \in Byte
  BY <1>1
<1> DEFINE v == Merged(ram[<<1, k.row>>], k)
<1>3. v \in Byte /\ (k.valid = {} => v = ram[<<1, k.row>>])
  BY <1>2, MergedIs
<1>4. Under(ram, k) = [ram EXCEPT ![<<1, k.row>>] = v]
  BY DEF Under
<1> HIDE DEF v
<1>5. Under(ram, k) \in [Ram -> Byte]
  BY <1>3, <1>4
<1>6. \A a \in Ram : Under(ram, k)[a] = IF a = <<1, k.row>> THEN v ELSE ram[a]
  BY <1>4
<1>7. k.valid = {} => Under(ram, k) = ram
  BY <1>3, <1>4
<1>8. QED
  BY <1>5, <1>6, <1>7 DEF v

\* A cache that is written leaves RAM as the program knew it, also when a store
\* was on its way to the same row.
LEMMA CacheWritten ==
    ASSUME NEW p \in Pipelines, NEW k \in PixelCaches
    PROVE  LET q == write_pixel_cache(p, k) IN
           /\ q \in Pipelines
           /\ Written(q) = Under(Written(p), k) /\ Pointed(q) = Pointed(p)
           /\ q.ramb = p.ramb /\ q.romb = p.romb
           /\ p.ramDelay = 0 => q.ramDelay = 0
<1> DEFINE q == write_pixel_cache(p, k)
<1>1. Written(p) \in [Ram -> Byte]
  BY WrittenIs
<1>2. CASE k.valid = {}
  <2>1. q = p
    BY <1>2 DEF write_pixel_cache
  <2>2. QED
    BY <1>1, <1>2, <2>1, UnderIs
<1>3. CASE k.valid # {}
  <2> DEFINE f == IF k.valid # Pixels THEN step(p, Long) ELSE p
             a == <<1, k.row>>
             v == Merged(f.ram[a], k)
             s == step(f, Long)
  <2>1. q = [s EXCEPT !.ram[a] = v]
    BY <1>3 DEF write_pixel_cache
  <2>2. a \in Ram
    BY RamIs DEF PixelCaches
  <2>3. Long \in Nat /\ p.ramDelay <= Long
    BY TimeAssumption, Delays
  <2>4. Later(p, p)
    BY DEF Later
  <2>5. Later(p, f) /\ f \in Pipelines
    BY <2>3, <2>4, StepLater DEF Later
  <2>6. f.ram[a] \in Byte /\ Written(p)[a] \in Byte
    BY <1>1, <2>2, <2>5 DEF Pipelines
  <2>7. v \in Byte /\ v = Merged(Written(p)[a], k)
    <3>1. CASE k.valid = Pixels
      BY <2>6, <3>1, MergedIs
    <3>2. CASE k.valid # Pixels
      <4>1. f.ram = Written(p)
        BY <2>3, <3>2, StepLater
      <4>2. QED
        BY <2>6, <4>1, MergedIs
    <3>3. QED
      BY <3>1, <3>2
  <2> HIDE DEF f
  <2>8. /\ Later(f, s) /\ s.ramDelay = 0
    BY <2>3, <2>5, StepLater, Delays
  <2>9. /\ s \in Pipelines /\ Written(s) = Written(p) /\ Pointed(s) = Pointed(p)
        /\ s.ramb = p.ramb /\ s.romb = p.romb
    BY <2>5, <2>8 DEF Later
  <2> HIDE DEF s, v
  <2>10. /\ q \in Pipelines /\ q.ramDelay = 0
         /\ Written(q) = [Written(s) EXCEPT ![a] = v] /\ Pointed(q) = Pointed(s)
         /\ q.ramb = s.ramb /\ q.romb = s.romb
    BY <2>1, <2>2, <2>7, <2>8, <2>9, Poked
  <2>11. Under(Written(p), k) = [Written(p) EXCEPT ![a] = v]
    BY <2>7 DEF Under
  <2>12. QED
    BY <2>9, <2>10, <2>11
<1>4. QED
  BY <1>2, <1>3

Screens == [pipe : Pipelines, plot : Plots]
Shown(s) == Under(Under(Written(s.pipe), s.plot.secondary), s.plot.primary)

LEMMA ShownIs ==
    ASSUME NEW s \in Screens
    PROVE  /\ s.pipe \in Pipelines /\ s.plot.primary \in PixelCaches
           /\ s.plot.secondary \in PixelCaches
           /\ Written(s.pipe) \in [Ram -> Byte]
           /\ Under(Written(s.pipe), s.plot.secondary) \in [Ram -> Byte]
           /\ Shown(s) \in [Ram -> Byte]
<1>1. /\ s.pipe \in Pipelines /\ s.plot.primary \in PixelCaches
      /\ s.plot.secondary \in PixelCaches
  BY DEF Screens, Plots
<1>2. Written(s.pipe) \in [Ram -> Byte]
  BY <1>1, WrittenIs
<1>3. Under(Written(s.pipe), s.plot.secondary) \in [Ram -> Byte]
  BY <1>1, <1>2, UnderIs
<1>4. QED
  BY <1>1, <1>2, <1>3, UnderIs DEF Shown

\* t is s with some pixels moved on, of which a program sees nothing.
Moved(s, t) ==
    /\ t \in Screens /\ Pointed(t.pipe) = Pointed(s.pipe)
    /\ t.pipe.ramb = s.pipe.ramb /\ t.pipe.romb = s.pipe.romb
    /\ s.pipe.ramDelay = 0 => t.pipe.ramDelay = 0

LEMMA PrimaryFlushed ==
    ASSUME NEW s \in Screens, NEW y \in Rows
    PROVE  LET t == flush_primary_cache(s, y) IN
           Moved(s, t) /\ Shown(t) = Shown(s) /\ t.plot.primary.row = y
<1> DEFINE t == flush_primary_cache(s, y)
           q == write_pixel_cache(s.pipe, s.plot.secondary)
<1>1. /\ t.pipe = q /\ t.plot.secondary = s.plot.primary /\ t.plot.primary = EmptyCache(y)
      /\ t = [pipe |-> q, plot |-> [secondary |-> s.plot.primary, primary |-> EmptyCache(y)]]
  BY DEF flush_primary_cache
<1>2. /\ q \in Pipelines
      /\ Written(q) = Under(Written(s.pipe), s.plot.secondary) /\ Pointed(q) = Pointed(s.pipe)
      /\ q.ramb = s.pipe.ramb /\ q.romb = s.pipe.romb
      /\ s.pipe.ramDelay = 0 => q.ramDelay = 0
  BY ShownIs, CacheWritten
<1>3. /\ EmptyCache(y) \in PixelCaches /\ EmptyCache(y).valid = {} /\ EmptyCache(y).row = y
  BY DEF EmptyCache, PixelCaches
<1> HIDE DEF q
<1>4. t \in Screens
  BY <1>1, <1>2, <1>3, ShownIs DEF Screens, Plots
<1>5. Shown(t) = Under(Shown(s), EmptyCache(y))
  BY <1>1, <1>2 DEF Shown
<1>6. Shown(t) = Shown(s)
  BY <1>3, <1>5, ShownIs, UnderIs
<1>7. QED
  BY <1>1, <1>2, <1>3, <1>4, <1>6 DEF Moved

LEMMA PixelDrawn ==
    ASSUME NEW s \in Screens, NEW x \in Pixels, NEW on \in BOOLEAN
    PROVE  LET t == Drawn(s, x, on)
               a == <<1, s.plot.primary.row>> IN
           /\ Moved(s, t) /\ t.plot.primary.row = s.plot.primary.row
           /\ Shown(t) = [Shown(s) EXCEPT ![a] = Program!Painted(@, x, on)]
<1> DEFINE t == Drawn(s, x, on)
           k == s.plot.primary
           a == <<1, k.row>>
           j == WithPixel(k, x, on)
           h == [s.plot EXCEPT !.primary = j]
           M == Under(Written(s.pipe), s.plot.secondary)
<1>1. /\ s.pipe \in Pipelines /\ k \in PixelCaches /\ s.plot.secondary \in PixelCaches
      /\ M \in [Ram -> Byte] /\ a \in Ram
  BY ShownIs, RamIs DEF PixelCaches
<1>2. t = [s EXCEPT !.plot = h]
  BY DEF Drawn, Screens, Plots
<1>3. /\ j \in PixelCaches /\ j.row = k.row /\ j.valid = k.valid \union {x}
      /\ j.lit = IF on THEN k.lit \union {x} ELSE k.lit \ {x}
  <2> DEFINE lit == IF on THEN k.lit \union {x} ELSE k.lit \ {x}
             i == [k EXCEPT !.valid = k.valid \union {x}]
  <2>1. i \in PixelCaches /\ lit \in SUBSET Pixels
    BY <1>1 DEF PixelCaches
  <2>2. j = [i EXCEPT !.lit = lit]
    BY <1>1 DEF WithPixel, PixelCaches
  <2> HIDE DEF lit
  <2>3. j \in PixelCaches
    BY <2>1, <2>2 DEF PixelCaches
  <2>4. j.row = k.row /\ j.valid = k.valid \union {x} /\ j.lit = lit
    BY <1>1, <2>2 DEF PixelCaches
  <2>5. QED
    BY <2>3, <2>4 DEF lit
<1> HIDE DEF j
<1>4. /\ h \in Plots /\ h.primary = j /\ h.secondary = s.plot.secondary
  BY <1>1, <1>3 DEF Screens, Plots
<1> HIDE DEF h
<1>5. t \in Screens /\ t.pipe = s.pipe /\ t.plot = h
  BY <1>2, <1>4 DEF Screens
<1>6. ASSUME NEW byte \in Byte
      PROVE  Merged(byte, j) = Program!Painted(Merged(byte, k), x, on)
  BY <1>1, <1>3, <1>6 DEF Merged, Program!Painted, PixelCaches, Byte
<1>7. Shown(s) = [M EXCEPT ![a] = Merged(M[a], k)]
  BY DEF Shown, Under
<1>8. Shown(t) = [M EXCEPT ![a] = Merged(M[a], j)]
  BY <1>3, <1>4, <1>5 DEF Shown, Under
<1>9. Merged(M[a], j) = Program!Painted(Merged(M[a], k), x, on)
  BY <1>1, <1>6
<1> HIDE DEF M, j, t, a
<1>10. Shown(s)[a] = Merged(M[a], k)
  BY <1>1, <1>7
<1>11. Shown(t) = [Shown(s) EXCEPT ![a] = Program!Painted(@, x, on)]
  BY <1>1, <1>7, <1>8, <1>9, <1>10
<1>12. QED
  BY <1>3, <1>4, <1>5, <1>11 DEF Moved, a, t, j

LEMMA Drawing ==
    ASSUME NEW s \in Screens, NEW x \in Pixels, NEW y \in Rows, NEW on \in BOOLEAN
    PROVE  LET t == draw_pixel(s, x, y, on) IN
           /\ Moved(s, t)
           /\ Shown(t) = [Shown(s) EXCEPT ![<<1, y>>] = Program!Painted(@, x, on)]
<1> DEFINE h == IF s.plot.primary.row # y THEN flush_primary_cache(s, y) ELSE s
           d == Drawn(h, x, on)
           t == draw_pixel(s, x, y, on)
<1>1. Moved(s, h) /\ Shown(h) = Shown(s) /\ h.plot.primary.row = y
  BY PrimaryFlushed DEF Moved
<1>2. h \in Screens
  BY <1>1 DEF Moved
<1> HIDE DEF h
<1>3. /\ Moved(h, d) /\ d.plot.primary.row = y
      /\ Shown(d) = [Shown(h) EXCEPT ![<<1, y>>] = Program!Painted(@, x, on)]
  BY <1>1, <1>2, PixelDrawn
<1>4. d \in Screens
  BY <1>3 DEF Moved
<1>5. t = IF d.plot.primary.valid = Pixels THEN flush_primary_cache(d, y) ELSE d
  BY DEF draw_pixel, h
<1> HIDE DEF d, t
<1>6. Moved(d, t) /\ Shown(t) = Shown(d)
  BY <1>4, <1>5, PrimaryFlushed DEF Moved
<1>7. Moved(s, t)
  BY <1>1, <1>3, <1>6 DEF Moved
<1>8. QED
  BY <1>1, <1>3, <1>6, <1>7 DEF t

\* Both caches written.
LEMMA FlushedIs ==
    ASSUME NEW p \in Pipelines, plot \in Plots
    PROVE  LET q == Flushed(p) IN
           /\ q \in Pipelines
           /\ Written(q) = Under(Under(Written(p), plot.secondary), plot.primary)
           /\ Pointed(q) = Pointed(p)
           /\ q.ramb = p.ramb /\ q.romb = p.romb
           /\ p.ramDelay = 0 => q.ramDelay = 0
<1> DEFINE r == write_pixel_cache(p, plot.secondary)
<1>1. plot.primary \in PixelCaches /\ plot.secondary \in PixelCaches
  BY DEF Plots
<1>2. /\ r \in Pipelines /\ Written(r) = Under(Written(p), plot.secondary)
      /\ Pointed(r) = Pointed(p) /\ r.ramb = p.ramb /\ r.romb = p.romb
      /\ p.ramDelay = 0 => r.ramDelay = 0
  BY <1>1, CacheWritten
<1>3. Flushed(p) = write_pixel_cache(r, plot.primary)
  BY DEF Flushed
<1> HIDE DEF r
<1>4. QED
  BY <1>1, <1>2, <1>3, CacheWritten

LEMMA EmptiedIs ==
    ASSUME plot \in Plots
    PROVE  /\ Emptied \in Plots /\ Emptied.primary.valid = {} /\ Emptied.secondary.valid = {}
           /\ \A ram \in [Ram -> Byte] :
                Under(Under(ram, Emptied.secondary), Emptied.primary) = ram
<1> DEFINE a == Cleared(plot.primary)
           b == Cleared(plot.secondary)
<1>1. a \in PixelCaches /\ b \in PixelCaches /\ a.valid = {} /\ b.valid = {}
  BY DEF Plots, PixelCaches, Cleared
<1>2. Emptied.primary = a /\ Emptied.secondary = b /\ Emptied = [primary |-> a, secondary |-> b]
  BY DEF Emptied
<1> HIDE DEF a, b
<1>3. Emptied \in Plots
  BY <1>1, <1>2 DEF Plots
<1>4. QED
  BY <1>1, <1>2, <1>3, UnderIs

-----------------------------------------------------------------------------
\* What the steps have in common.

LEMMA KnownNext ==
    /\ Known = Under(Under(Written(pipe), plot.secondary), plot.primary)
    /\ Known' = Under(Under(Written(pipe'), plot'.secondary), plot'.primary)
    /\ Pointed(pipe)' = Pointed(pipe')
  BY DEF Known

\* Without pixels on their way, RAM is what the program knows.
LEMMA NoPixels ==
    ASSUME NEW k \in Plots, k.primary.valid = {}, k.secondary.valid = {},
           NEW ram \in [Ram -> Byte]
    PROVE  Under(Under(ram, k.secondary), k.primary) = ram
  BY UnderIs DEF Plots

LEMMA KnownIsRam ==
    ASSUME GsuInv, "PLOT" \notin family
    PROVE  Known = Written(pipe)
  BY NoPixels, KnownNext, WrittenIs DEF GsuInv, TypeOK, FamilyRests

LEMMA FetchedIs ==
    ASSUME GsuInv
    PROVE  /\ Fetching(code, pipe, Fetched.code, Fetched.pipe)
           /\ Fetched.code.buffer = <<code.pbr, code.r15>>
           /\ Fetched.code.r15 = code.r15
  BY OpcodeRead DEF GsuInv, TypeOK, LinesCurrent, Current, Fetched

LEMMA IncrementedIs ==
    ASSUME NEW c \in Codes, Current(c)
    PROVE  LET d == Incremented(c) IN
           /\ d \in Codes /\ Current(d) /\ d.pbr = c.pbr /\ d.base = c.base
           /\ d.buffer = c.buffer /\ d.r15 = Plus(c.r15, 1)
<1> DEFINE d == [c EXCEPT !.r15 = Plus(c.r15, 1)]
<1>1. Plus(c.r15, 1) \in Pcs
  BY PlusInPcs DEF Codes, Pcs
<1>2. Incremented(c) = d
  BY DEF Incremented
<1>3. d \in Codes
  BY <1>1 DEF Codes
<1>4. /\ d.pbr = c.pbr /\ d.base = c.base /\ d.buffer = c.buffer /\ d.lines = c.lines
      /\ d.r15 = Plus(c.r15, 1)
  BY DEF Codes
<1>5. QED
  BY <1>2, <1>3, <1>4 DEF Current

\* The instruction stream is the program: what the fetched byte is, and R15
\* after an instruction that does not jump.
LEMMA StraightOn ==
    ASSUME GsuInv, NEW p, Straight(p)
    PROVE  /\ code' \in Codes /\ Current(code')
           /\ code'.buffer = <<code.pbr, code.r15>>
           /\ code'.pbr = code.pbr /\ code'.r15 = Plus(code.r15, 1)
           /\ pipe' = p
<1> DEFINE c == Fetched.code
<1>1. c \in Codes /\ Current(c) /\ c.pbr = code.pbr /\ c.r15 = code.r15
      /\ c.buffer = <<code.pbr, code.r15>>
  BY FetchedIs DEF Fetching
<1>2. code' = Incremented(c) /\ pipe' = p
  BY DEF Straight
<1> HIDE DEF c
<1>3. QED
  BY <1>1, <1>2, IncrementedIs

LEMMA FetchedLater ==
    ASSUME GsuInv
    PROVE  /\ Fetched.pipe \in Pipelines /\ Written(Fetched.pipe) = Written(pipe)
           /\ Pointed(Fetched.pipe) = Pointed(pipe)
           /\ Fetched.pipe.ramb = pipe.ramb /\ Fetched.pipe.romb = pipe.romb
           /\ pipe.ramDelay = 0 => Fetched.pipe.ramDelay = 0
  BY FetchedIs DEF Fetching, Later

\* The invariant after a step that goes on with the session.
LEMMA GoesOn ==
    ASSUME GsuInv, running, Session, pipe' \in Pipelines, code' \in Codes, Current(code'),
           plot' \in Plots, FamilyRests'
    PROVE  GsuInv'
<1>1. ended' = "no"
  BY DEF GsuInv, TypeOK, EndedStopped, Session
<1>2. TypeOK'
  BY DEF GsuInv, TypeOK, Session
<1>3. LinesCurrent'
  BY DEF LinesCurrent, Current
<1>4. QED
  BY <1>1, <1>2, <1>3 DEF GsuInv, EndedStopped, CompletionIsTrue

LEMMA OtherOffset == \A o \in Offsets : 1 - o \in Offsets /\ Program!Other(o) = 1 - o
<1> SUFFICES ASSUME NEW o \in Offsets
             PROVE  1 - o \in Offsets /\ Program!Other(o) = 1 - o
  OBVIOUS
<1>1. 1 - o \in Offsets /\ \A p \in Offsets : (Offsets = {o} \/ p # o) <=> p = 1 - o
  BY MemoryAssumption
<1>2. QED
  BY <1>1 DEF Program!Other

-----------------------------------------------------------------------------
\* One lemma for each step: it keeps the invariant and is the step of GsuProgram
\* that bears its name.

\* An instruction that carries on, changes no pixel and reads into loaded and got
\* what ram and rom are.
LEMMA StraightStep ==
    ASSUME GsuInv, running, NEW p, Straight(p), Session, UNCHANGED plot,
           p \in Pipelines, "Store" \notin family => p.ramDelay = 0
    PROVE  /\ GsuInv'
           /\ Program!Executes /\ Program!Ends
           /\ UNCHANGED <<saved, running>>
<1>1. /\ code' \in Codes /\ Current(code') /\ code'.buffer = <<code.pbr, code.r15>>
      /\ code'.pbr = code.pbr /\ code'.r15 = Plus(code.r15, 1) /\ pipe' = p
  BY StraightOn
<1>2. plot' \in Plots /\ FamilyRests'
  BY <1>1 DEF GsuInv, TypeOK, FamilyRests, Session
<1>3. GsuInv'
  BY <1>1, <1>2, GoesOn
<1>4. Program!Executes /\ Program!Ends
  BY <1>1 DEF Program!Executes, Program!Ends, Plus, Program!Plus
<1>5. QED
  BY <1>3, <1>4 DEF Session

\* What pipe' and plot' are to the program when no pixel has moved.
LEMMA SameKnown ==
    ASSUME UNCHANGED plot, Written(pipe') = Written(pipe)
    PROVE  Known' = Known
  BY KnownNext

LEMMA PlainStep ==
    ASSUME GsuInv, NEW extra \in {0, Long}, Plain(extra)
    PROVE  GsuInv' /\ Program!Plain
<1> DEFINE p == step(Fetched.pipe, extra)
<1>1. extra \in Nat
  BY TimeAssumption
<1>2. Later(Fetched.pipe, p)
  BY <1>1, FetchedLater, StepLater
<1>3. running /\ Straight(p) /\ Quiet /\ Session /\ UNCHANGED plot
  BY DEF Plain
<1> HIDE DEF p
<1>4. p \in Pipelines /\ (pipe.ramDelay = 0 => p.ramDelay = 0)
      /\ Written(p) = Written(pipe) /\ Pointed(p) = Pointed(pipe)
      /\ p.ramb = pipe.ramb /\ p.romb = pipe.romb
  BY <1>2, FetchedLater DEF Later
<1>5. "Store" \notin family => p.ramDelay = 0
  BY <1>4 DEF GsuInv, FamilyRests
<1>6. GsuInv' /\ Program!Executes /\ Program!Ends /\ UNCHANGED <<saved, running>>
  BY <1>3, <1>4, <1>5, StraightStep
<1>7. pipe' = p /\ Known' = Known /\ Pointed(pipe)' = Pointed(pipe)
  BY <1>3, <1>4, KnownNext, SameKnown DEF Straight
<1>8. Program!Keeps /\ Program!Quiet
  BY <1>3, <1>4, <1>6, <1>7 DEF Program!Keeps, Program!Quiet, Program!Reads, Quiet, Reads
<1>9. QED
  BY <1>6, <1>7, <1>8 DEF Program!Plain

\* A program that stores has no pixels on their way.
LEMMA StoresAlone ==
    ASSUME GsuInv, "Store" \in family \/ "Load" \in family
    PROVE  "PLOT" \notin family
  BY FamiliesAssumption DEF GsuInv, TypeOK

LEMMA StoreStep ==
    ASSUME GsuInv, NEW o \in Offsets, NEW v \in StoreBytes, Store(o, v)
    PROVE  GsuInv' /\ Program!Store(o, v)
<1> DEFINE p == write_ram(Fetched.pipe, o, v)
<1>1. v \in Byte
  BY MemoryAssumption DEF Byte
<1>2. /\ running /\ "Store" \in family /\ code.buffer # Nop
      /\ Straight(p) /\ Quiet /\ Session /\ UNCHANGED plot
  BY DEF Store, Executes
<1>3. /\ p \in Pipelines /\ Written(p) = [Written(pipe) EXCEPT ![<<pipe.ramb, o>>] = v]
      /\ Pointed(p) = Pointed(pipe) /\ p.ramb = pipe.ramb /\ p.romb = pipe.romb
  BY <1>1, FetchedLater, Stored
<1> HIDE DEF p
<1>4. GsuInv' /\ Program!Executes /\ Program!Ends /\ UNCHANGED <<saved, running>>
  BY <1>2, <1>3, StraightStep
<1>5. pipe' = p /\ Pointed(pipe)' = Pointed(pipe) /\ UNCHANGED family
  BY <1>2, <1>3, KnownNext DEF Straight, Session
<1>6. Known = Written(pipe) /\ Known' = Written(p)
  <2>1. "PLOT" \notin family
    BY <1>2, StoresAlone
  <2>2. plot' \in Plots /\ plot'.primary.valid = {} /\ plot'.secondary.valid = {}
    BY <1>2, <2>1 DEF GsuInv, TypeOK, FamilyRests
  <2>3. QED
    BY <1>3, <1>5, <2>1, <2>2, KnownIsRam, KnownNext, NoPixels, WrittenIs
<1>7. Program!Keeps /\ Program!Quiet
  BY <1>2, <1>3, <1>4, <1>5 DEF Program!Keeps, Program!Quiet, Program!Reads, Quiet, Reads
<1>8. QED
  BY <1>2, <1>3, <1>4, <1>6, <1>7 DEF Program!Store, Program!Nop, Nop

LEMMA StoreWordStep ==
    ASSUME GsuInv, NEW o \in Offsets, NEW v \in StoreBytes, NEW w \in StoreBytes,
           StoreWord(o, v, w)
    PROVE  GsuInv' /\ Program!StoreWord(o, v, w)
<1> DEFINE f == write_ram(Fetched.pipe, o, v)
           p == write_ram(f, 1 - o, w)
<1>1. v \in Byte /\ w \in Byte /\ 1 - o \in Offsets /\ Program!Other(o) = 1 - o
  BY MemoryAssumption, OtherOffset DEF Byte
<1>2. /\ running /\ "Store" \in family /\ code.buffer # Nop
      /\ Straight(p) /\ Quiet /\ Session /\ UNCHANGED plot
  BY DEF StoreWord, Executes
<1>3. /\ f \in Pipelines /\ Written(f) = [Written(pipe) EXCEPT ![<<pipe.ramb, o>>] = v]
      /\ Pointed(f) = Pointed(pipe) /\ f.ramb = pipe.ramb /\ f.romb = pipe.romb
  <2> DEFINE g == Fetched.pipe
  <2>1. /\ g \in Pipelines /\ Written(g) = Written(pipe) /\ Pointed(g) = Pointed(pipe)
        /\ g.ramb = pipe.ramb /\ g.romb = pipe.romb
    BY FetchedLater
  <2> HIDE DEF g
  <2>2. /\ write_ram(g, o, v) \in Pipelines
        /\ Written(write_ram(g, o, v)) = [Written(g) EXCEPT ![<<g.ramb, o>>] = v]
        /\ Pointed(write_ram(g, o, v)) = Pointed(g)
        /\ write_ram(g, o, v).ramb = g.ramb /\ write_ram(g, o, v).romb = g.romb
    BY <1>1, <2>1, Stored
  <2>3. QED
    BY <2>1, <2>2 DEF g
<1> HIDE DEF f
<1>4. /\ p \in Pipelines
      /\ Written(p) = [Written(pipe) EXCEPT ![<<pipe.ramb, o>>] = v,
                                            ![<<pipe.ramb, 1 - o>>] = w]
      /\ Pointed(p) = Pointed(pipe) /\ p.ramb = pipe.ramb /\ p.romb = pipe.romb
  <2> DEFINE u == 1 - o
             q == write_ram(f, u, w)
  <2>1. u \in Offsets /\ w \in Byte /\ f \in Pipelines
    BY <1>1, <1>3
  <2> HIDE DEF u
  <2>2. /\ q \in Pipelines /\ Written(q) = [Written(f) EXCEPT ![<<f.ramb, u>>] = w]
        /\ Pointed(q) = Pointed(f) /\ q.ramb = f.ramb /\ q.romb = f.romb
    BY <2>1, Stored
  <2>3. QED
    BY <1>3, <2>2 DEF u
<1> HIDE DEF p
<1>5. GsuInv' /\ Program!Executes /\ Program!Ends /\ UNCHANGED <<saved, running>>
  BY <1>2, <1>4, StraightStep
<1>6. pipe' = p /\ Pointed(pipe)' = Pointed(pipe)
  BY <1>2, <1>4, KnownNext DEF Straight
<1>7. Known = Written(pipe) /\ Known' = Written(p)
  <2>1. "PLOT" \notin family
    BY <1>2, StoresAlone
  <2>2. plot' \in Plots /\ plot'.primary.valid = {} /\ plot'.secondary.valid = {}
    BY <1>2, <2>1 DEF GsuInv, TypeOK, FamilyRests
  <2>3. QED
    BY <1>4, <1>6, <2>1, <2>2, KnownIsRam, KnownNext, NoPixels, WrittenIs
<1>8. Program!Keeps /\ Program!Quiet
  BY <1>2, <1>4, <1>5, <1>6 DEF Program!Keeps, Program!Quiet, Program!Reads, Quiet, Reads
<1>9. QED
  BY <1>1, <1>2, <1>4, <1>5, <1>7, <1>8 DEF Program!StoreWord, Program!Nop, Nop

LEMMA LoadStep ==
    ASSUME GsuInv, NEW o \in Offsets, Load(o)
    PROVE  GsuInv' /\ Program!Load(o)
<1> DEFINE p == wait_ram_operation(Fetched.pipe)
<1>1. /\ running /\ "Load" \in family /\ code.buffer # Nop
      /\ Straight(p) /\ Session /\ UNCHANGED plot
      /\ Reads(<<pipe'.ram[<<pipe'.ramb, o>>], pipe'.ram[<<pipe'.ramb, 1 - o>>]>>, <<>>)
  BY DEF Load, Executes
<1>2. /\ p \in Pipelines /\ p.ramDelay = 0 /\ p.ram = Written(pipe) /\ Written(p) = Written(pipe)
      /\ Pointed(p) = Pointed(pipe) /\ p.ramb = pipe.ramb /\ p.romb = pipe.romb
  BY FetchedLater, Waited DEF Later
<1> HIDE DEF p
<1>3. GsuInv' /\ Program!Executes /\ Program!Ends /\ UNCHANGED <<saved, running>>
  BY <1>1, <1>2, StraightStep
<1>4. pipe' = p /\ Known' = Known /\ Pointed(pipe)' = Pointed(pipe)
  BY <1>1, <1>2, KnownNext, SameKnown DEF Straight
<1>5. Known = Written(pipe) /\ Program!Other(o) = 1 - o
  BY <1>1, StoresAlone, KnownIsRam, OtherOffset
<1>6. Program!Reads(<<Known[<<pipe.ramb, o>>], Known[<<pipe.ramb, Program!Other(o)>>]>>, <<>>)
  BY <1>1, <1>2, <1>4, <1>5 DEF Program!Reads, Reads
<1>7. Program!Keeps
  BY <1>2, <1>3, <1>4 DEF Program!Keeps
<1>8. QED
  BY <1>1, <1>3, <1>4, <1>6, <1>7 DEF Program!Load, Program!Nop, Nop

LEMMA RambStep ==
    ASSUME GsuInv, NEW b \in RamBanks, op_ramb(b)
    PROVE  GsuInv' /\ Program!SelectRam(b)
<1> DEFINE p == [wait_ram_operation(Fetched.pipe) EXCEPT !.ramb = b]
<1>1. /\ running /\ code.buffer # Nop
      /\ Straight(p) /\ Quiet /\ Session /\ UNCHANGED plot
  BY DEF op_ramb, Executes
<1>2. /\ p \in Pipelines /\ p.ramDelay = 0 /\ Written(p) = Written(pipe)
      /\ Pointed(p) = Pointed(pipe) /\ p.ramb = b /\ p.romb = pipe.romb
  BY FetchedLater, BankSelected
<1> HIDE DEF p
<1>3. GsuInv' /\ Program!Executes /\ Program!Ends /\ UNCHANGED <<saved, running>>
  BY <1>1, <1>2, StraightStep
<1>4. pipe' = p /\ Known' = Known /\ Pointed(pipe)' = Pointed(pipe)
  BY <1>1, <1>2, KnownNext, SameKnown DEF Straight
<1>5. QED
  BY <1>1, <1>2, <1>3, <1>4
  DEF Program!SelectRam, Program!Nop, Nop, Program!Quiet, Program!Reads, Quiet, Reads

LEMMA RombStep ==
    ASSUME GsuInv, NEW b \in RomBanks, op_romb(b)
    PROVE  GsuInv' /\ Program!SelectRom(b)
<1> DEFINE p == [wait_rom_operation(Fetched.pipe) EXCEPT !.romb = b]
<1>1. /\ running /\ code.buffer # Nop
      /\ Straight(p) /\ Quiet /\ Session /\ UNCHANGED plot
  BY DEF op_romb, Executes
<1>2. /\ p \in Pipelines /\ (pipe.ramDelay = 0 => p.ramDelay = 0) /\ Written(p) = Written(pipe)
      /\ Pointed(p) = Pointed(pipe) /\ p.ramb = pipe.ramb /\ p.romb = b
  BY FetchedLater, BankSelected
<1> HIDE DEF p
<1>3. "Store" \notin family => p.ramDelay = 0
  BY <1>2 DEF GsuInv, FamilyRests
<1>4. GsuInv' /\ Program!Executes /\ Program!Ends /\ UNCHANGED <<saved, running>>
  BY <1>1, <1>2, <1>3, StraightStep
<1>5. pipe' = p /\ Known' = Known /\ Pointed(pipe)' = Pointed(pipe)
  BY <1>1, <1>2, KnownNext, SameKnown DEF Straight
<1>6. QED
  BY <1>1, <1>2, <1>4, <1>5
  DEF Program!SelectRom, Program!Nop, Nop, Program!Quiet, Program!Reads, Quiet, Reads

LEMMA R14Step ==
    ASSUME GsuInv, NEW a \in RomOffsets, WriteR14(a)
    PROVE  GsuInv' /\ Program!Point(a)
<1> DEFINE p == write_r14(Fetched.pipe, a)
<1>1. /\ running /\ code.buffer # Nop
      /\ Straight(p) /\ Quiet /\ Session /\ UNCHANGED plot
  BY DEF WriteR14, Executes
<1>2. /\ p \in Pipelines /\ (pipe.ramDelay = 0 => p.ramDelay = 0) /\ Written(p) = Written(pipe)
      /\ Pointed(p) = <<pipe.romb, a>> /\ p.ramb = pipe.ramb /\ p.romb = pipe.romb
  BY FetchedLater, R14Written
<1> HIDE DEF p
<1>3. "Store" \notin family => p.ramDelay = 0
  BY <1>2 DEF GsuInv, FamilyRests
<1>4. GsuInv' /\ Program!Executes /\ Program!Ends /\ UNCHANGED <<saved, running>>
  BY <1>1, <1>2, <1>3, StraightStep
<1>5. pipe' = p /\ Known' = Known /\ Pointed(pipe)' = <<pipe.romb, a>>
  BY <1>1, <1>2, KnownNext, SameKnown DEF Straight
<1>6. QED
  BY <1>1, <1>2, <1>4, <1>5
  DEF Program!Point, Program!Nop, Nop, Program!Quiet, Program!Reads, Quiet, Reads

LEMMA GetbStep ==
    ASSUME GsuInv, op_getb
    PROVE  GsuInv' /\ Program!GetByte
<1> DEFINE p == wait_rom_operation(Fetched.pipe)
<1>1. /\ running /\ code.buffer # Nop
      /\ Straight(p) /\ Session /\ UNCHANGED plot /\ Reads(<<>>, pipe'.romBuffer)
  BY DEF op_getb, Executes
<1>2. /\ p \in Pipelines /\ (pipe.ramDelay = 0 => p.ramDelay = 0) /\ Written(p) = Written(pipe)
      /\ Pointed(p) = Pointed(pipe) /\ p.ramb = pipe.ramb /\ p.romb = pipe.romb
      /\ p.romBuffer = Pointed(pipe)
  BY FetchedLater, Waited DEF Later
<1> HIDE DEF p
<1>3. "Store" \notin family => p.ramDelay = 0
  BY <1>2 DEF GsuInv, FamilyRests
<1>4. GsuInv' /\ Program!Executes /\ Program!Ends /\ UNCHANGED <<saved, running>>
  BY <1>1, <1>2, <1>3, StraightStep
<1>5. pipe' = p /\ Known' = Known /\ Pointed(pipe)' = Pointed(pipe)
  BY <1>1, <1>2, KnownNext, SameKnown DEF Straight
<1>6. Program!Keeps
  BY <1>2, <1>4, <1>5 DEF Program!Keeps
<1>7. QED
  BY <1>1, <1>2, <1>4, <1>5, <1>6 DEF Program!GetByte, Program!Nop, Nop, Program!Reads, Reads

\* The same for an instruction that moves pixels.
LEMMA PixelStep ==
    ASSUME GsuInv, running, Session, code' = Incremented(Fetched.code),
           pipe' \in Pipelines, plot' \in Plots, FamilyRests'
    PROVE  /\ GsuInv'
           /\ Program!Executes /\ Program!Ends
           /\ UNCHANGED <<saved, running>>
<1>1. Straight(pipe')
  BY DEF Straight
<1>2. /\ code' \in Codes /\ Current(code') /\ code'.buffer = <<code.pbr, code.r15>>
      /\ code'.pbr = code.pbr /\ code'.r15 = Plus(code.r15, 1)
  BY <1>1, StraightOn
<1>3. GsuInv'
  BY <1>2, GoesOn
<1>4. Program!Executes /\ Program!Ends
  BY <1>2 DEF Program!Executes, Program!Ends, Plus, Program!Plus
<1>5. QED
  BY <1>3, <1>4 DEF Session

\* A program that uses the screen has no store on its way.
LEMMA PixelsAlone ==
    ASSUME GsuInv, "PLOT" \in family \/ "RPIX" \in family
    PROVE  "Store" \notin family /\ pipe.ramDelay = 0 /\ Fetched.pipe.ramDelay = 0
<1>1. "Store" \notin family
  BY FamiliesAssumption DEF GsuInv, TypeOK
<1>2. pipe.ramDelay = 0
  BY <1>1 DEF GsuInv, FamilyRests
<1>3. QED
  BY <1>1, <1>2, FetchedLater

LEMMA PlotStep ==
    ASSUME GsuInv, NEW x \in Pixels, NEW y \in Rows, NEW on \in BOOLEAN, op_plot(x, y, on)
    PROVE  GsuInv' /\ Program!Plot(x, y, on)
<1> DEFINE s == [pipe |-> Fetched.pipe, plot |-> plot]
           t == draw_pixel(s, x, y, on)
<1>1. /\ running /\ "PLOT" \in family /\ code.buffer # Nop
      /\ code' = Incremented(Fetched.code) /\ pipe' = t.pipe /\ plot' = t.plot
      /\ Quiet /\ Session
  BY DEF op_plot, Executes
<1>2. /\ s \in Screens /\ Shown(s) = Known
      /\ s.pipe = Fetched.pipe
  BY FetchedLater, KnownNext DEF GsuInv, TypeOK, Screens, Shown
<1> HIDE DEF s
<1>3. Moved(s, t) /\ Shown(t) = [Shown(s) EXCEPT ![<<1, y>>] = Program!Painted(@, x, on)]
  BY <1>2, Drawing
<1> HIDE DEF t
<1>4. /\ pipe' \in Pipelines /\ plot' \in Plots /\ Known' = Shown(t)
      /\ Pointed(pipe') = Pointed(pipe) /\ pipe'.ramb = pipe.ramb /\ pipe'.romb = pipe.romb
  BY <1>1, <1>2, <1>3, FetchedLater, KnownNext DEF Moved, Screens, Shown
<1>5. FamilyRests'
  BY <1>1, <1>2, <1>3, PixelsAlone DEF Moved, FamilyRests, Session
<1>6. GsuInv' /\ Program!Executes /\ Program!Ends /\ UNCHANGED <<saved, running>>
  BY <1>1, <1>4, <1>5, PixelStep
<1>7. Program!Keeps /\ Program!Quiet
  BY <1>1, <1>4, <1>6, KnownNext
  DEF Program!Keeps, Program!Quiet, Program!Reads, Quiet, Reads
<1>8. QED
  BY <1>1, <1>2, <1>3, <1>4, <1>6, <1>7 DEF Program!Plot, Program!Nop, Nop

LEMMA RpixStep ==
    ASSUME GsuInv, NEW x \in Pixels, NEW y \in Rows, op_rpix(x, y)
    PROVE  GsuInv' /\ Program!ReadPixel(x, y)
<1> DEFINE p == Flushed(Fetched.pipe)
           q == step(p, Long)
<1>1. /\ running /\ "RPIX" \in family /\ code.buffer # Nop
      /\ code' = Incremented(Fetched.code) /\ pipe' = q /\ plot' = Emptied
      /\ Reads(<<p.ram[<<1, y>>] \intersect {x}>>, <<>>) /\ Session
  BY DEF op_rpix, Executes
<1>2. plot \in Plots /\ "Store" \notin family /\ Fetched.pipe.ramDelay = 0
  BY <1>1, PixelsAlone DEF GsuInv, TypeOK
<1>3. /\ p \in Pipelines /\ Written(p) = Known /\ Pointed(p) = Pointed(pipe)
      /\ p.ramb = pipe.ramb /\ p.romb = pipe.romb /\ p.ramDelay = 0
  BY <1>2, FetchedLater, FlushedIs, KnownNext
<1> HIDE DEF p
<1>4. p.ram = Known
  BY <1>3, WrittenIs
<1>5. Later(p, q)
  BY <1>3, StepLater, TimeAssumption
<1> HIDE DEF q
<1>6. /\ q \in Pipelines /\ Written(q) = Known /\ Pointed(q) = Pointed(pipe)
      /\ q.ramb = pipe.ramb /\ q.romb = pipe.romb /\ q.ramDelay = 0
  BY <1>3, <1>5 DEF Later
<1>7. /\ plot' \in Plots /\ Known' = Written(q)
  BY <1>1, <1>2, <1>6, EmptiedIs, KnownNext, WrittenIs
<1>8. FamilyRests'
  BY <1>1, <1>2, <1>6, EmptiedIs DEF FamilyRests
<1>9. GsuInv' /\ Program!Executes /\ Program!Ends /\ UNCHANGED <<saved, running>>
  BY <1>1, <1>6, <1>7, <1>8, PixelStep
<1>10. Program!Keeps
  BY <1>1, <1>6, <1>9, KnownNext DEF Program!Keeps
<1>11. QED
  BY <1>1, <1>4, <1>6, <1>7, <1>9, <1>10
  DEF Program!ReadPixel, Program!Nop, Nop, Program!Reads, Reads

LEMMA ClearStep ==
    ASSUME GsuInv, NEW y \in Rows, fx3_clear(y)
    PROVE  GsuInv' /\ Program!Clear(y)
<1> DEFINE w == wait_ram_operation(Fetched.pipe)
           p == Flushed(w)
           q == [p EXCEPT !.ram[<<1, y>>] = ClearByte]
<1>1. /\ running /\ code.buffer # Nop
      /\ code' = Incremented(Fetched.code) /\ pipe' = q /\ plot' = Emptied
      /\ Quiet /\ Session
  BY DEF fx3_clear, Executes, Straight
<1>2. plot \in Plots /\ <<1, y>> \in Ram /\ ClearByte \in Byte
  BY RamIs, MemoryAssumption DEF GsuInv, TypeOK, Byte
<1>3. /\ w \in Pipelines /\ w.ramDelay = 0 /\ Written(w) = Written(pipe)
      /\ Pointed(w) = Pointed(pipe) /\ w.ramb = pipe.ramb /\ w.romb = pipe.romb
  BY FetchedLater, Waited DEF Later
<1> HIDE DEF w
<1>4. /\ p \in Pipelines /\ Written(p) = Known /\ Pointed(p) = Pointed(pipe)
      /\ p.ramb = pipe.ramb /\ p.romb = pipe.romb /\ p.ramDelay = 0
  BY <1>2, <1>3, FlushedIs, KnownNext
<1> HIDE DEF p
<1>5. /\ q \in Pipelines /\ Written(q) = [Known EXCEPT ![<<1, y>>] = ClearByte]
      /\ Pointed(q) = Pointed(pipe)
      /\ q.ramb = pipe.ramb /\ q.romb = pipe.romb /\ q.ramDelay = 0
  BY <1>2, <1>4, Poked
<1> HIDE DEF q
<1>6. /\ plot' \in Plots /\ Known' = Written(q)
  BY <1>1, <1>2, <1>5, EmptiedIs, KnownNext, WrittenIs
<1>7. FamilyRests'
  BY <1>1, <1>2, <1>5, EmptiedIs DEF FamilyRests
<1>8. GsuInv' /\ Program!Executes /\ Program!Ends /\ UNCHANGED <<saved, running>>
  BY <1>1, <1>5, <1>6, <1>7, PixelStep
<1>9. Program!Keeps /\ Program!Quiet
  BY <1>1, <1>5, <1>8, KnownNext
  DEF Program!Keeps, Program!Quiet, Program!Reads, Quiet, Reads
<1>10. QED
  BY <1>1, <1>5, <1>6, <1>8, <1>9 DEF Program!Clear, Program!Nop, Nop

\* An instruction that moves R15 or the program cache and nothing else: c is the
\* code after it.
LEMMA TurnStep ==
    ASSUME GsuInv, running, Session, UNCHANGED plot, pipe' = Fetched.pipe,
           code' \in Codes, Current(code'), code'.buffer = <<code.pbr, code.r15>>
    PROVE  /\ GsuInv'
           /\ Program!Executes
           /\ Program!Keeps /\ Known' = Known
<1>1. plot' \in Plots /\ pipe' \in Pipelines /\ FamilyRests'
  BY FetchedLater DEF GsuInv, TypeOK, FamilyRests, Session
<1>2. GsuInv'
  BY <1>1, GoesOn
<1>3. Known' = Known /\ Pointed(pipe)' = Pointed(pipe)
  BY FetchedLater, KnownNext, SameKnown
<1>4. Program!Keeps
  BY <1>3, FetchedLater DEF Program!Keeps, Session
<1>5. QED
  BY <1>2, <1>3, <1>4 DEF Program!Executes

LEMMA JumpStep ==
    ASSUME GsuInv, NEW a \in Pcs, op_jmp(a)
    PROVE  GsuInv' /\ Program!Jump(a)
<1> DEFINE c == Fetched.code
           d == [c EXCEPT !.r15 = a]
<1>1. /\ running /\ code.buffer # Nop /\ code' = d /\ pipe' = Fetched.pipe
      /\ Quiet /\ Session /\ UNCHANGED plot
  BY DEF op_jmp, Executes
<1>2. /\ c \in Codes /\ Current(c) /\ c.pbr = code.pbr /\ c.buffer = <<code.pbr, code.r15>>
  BY FetchedIs DEF Fetching
<1> HIDE DEF c
<1>3. /\ d \in Codes /\ d.pbr = c.pbr /\ d.base = c.base /\ d.lines = c.lines
      /\ d.buffer = c.buffer /\ d.r15 = a
  BY <1>2 DEF Codes
<1>4. Current(d)
  BY <1>2, <1>3 DEF Current
<1> HIDE DEF d
<1>5. GsuInv' /\ Program!Executes /\ Program!Keeps /\ Known' = Known
  BY <1>1, <1>2, <1>3, <1>4, TurnStep
<1>6. Program!Quiet
  BY <1>1 DEF Program!Quiet, Program!Reads, Quiet, Reads
<1>7. QED
  BY <1>1, <1>2, <1>3, <1>5, <1>6 DEF Program!Jump, Program!Nop, Nop

\* A cache without a valid line is current wherever it is.
Restarted(c, b, r, base) == [invalidate_cache(c) EXCEPT !.pbr = b, !.r15 = r, !.base = base]

LEMMA Invalidated ==
    ASSUME NEW c \in Codes, NEW b \in ProgramBanks, NEW base \in Pcs, NEW r \in Pcs
    PROVE  LET d == Restarted(c, b, r, base) IN
           /\ d \in Codes /\ Current(d)
           /\ d.pbr = b /\ d.r15 = r /\ d.base = base /\ d.buffer = c.buffer
<1> DEFINE n == invalidate_cache(c)
           d == Restarted(c, b, r, base)
<1>1. NoLines \in [LineNumbers -> {Invalid} \union (ProgramBanks \X Pcs)]
  BY DEF NoLines
<1>2. n \in Codes /\ n.lines = NoLines /\ n.buffer = c.buffer
  BY <1>1 DEF invalidate_cache, Codes
<1> HIDE DEF n
<1>3. d = [n EXCEPT !.pbr = b, !.r15 = r, !.base = base]
  BY DEF n, Restarted
<1> DEFINE x == [n EXCEPT !.pbr = b]
           y == [x EXCEPT !.r15 = r]
<1>4. x \in Codes
  BY <1>2 DEF Codes
<1>5. y \in Codes
  BY <1>4 DEF Codes
<1>6. d = [y EXCEPT !.base = base]
  BY <1>2, <1>3 DEF Codes
<1>7. d \in Codes
  BY <1>5, <1>6 DEF Codes
<1>8. d.pbr = b /\ d.r15 = r /\ d.base = base /\ d.buffer = c.buffer /\ d.lines = NoLines
  BY <1>2, <1>3 DEF Codes
<1> HIDE DEF d
<1>9. Current(d)
  BY <1>8 DEF Current, NoLines
<1>10. QED
  BY <1>7, <1>8, <1>9 DEF d

\* The start of the line that holds a place.
LEMMA LineStart == \A a \in Pcs : a - (a % LineSize) \in Pcs
<1> SUFFICES ASSUME NEW a \in Pcs PROVE a - (a % LineSize) \in Pcs
  OBVIOUS
<1>1. a \in Nat
  BY Geometry DEF Pcs
<1>2. a % LineSize \in 0..(LineSize - 1) /\ a \div LineSize \in Nat
      /\ a = (a \div LineSize) * LineSize + (a % LineSize)
  BY <1>1, DivIs, Geometry
<1> DEFINE m == a % LineSize
           t == (a \div LineSize) * LineSize
<1>3. t \in Nat
  BY <1>2, Geometry
<1>4. m \in Nat /\ a = t + m
  BY <1>2, Geometry
<1> HIDE DEF m, t
<1>5. a - m = t /\ a - m <= a
  BY <1>1, <1>3, <1>4
<1>6. QED
  BY <1>3, <1>4, <1>5, Geometry DEF Pcs, m

LEMMA LongJumpStep ==
    ASSUME GsuInv, NEW b \in ProgramBanks, NEW a \in Pcs, op_ljmp(b, a)
    PROVE  GsuInv' /\ Program!LongJump(b, a)
<1> DEFINE c == Fetched.code
           base == a - (a % LineSize)
           d == Restarted(c, b, a, base)
<1>1. /\ running /\ code.buffer # Nop /\ code' = d /\ pipe' = Fetched.pipe
      /\ Quiet /\ Session /\ UNCHANGED plot
  BY DEF op_ljmp, Executes, Restarted
<1>2. /\ c \in Codes /\ c.buffer = <<code.pbr, code.r15>>
  BY FetchedIs DEF Fetching
<1>3. base \in Pcs
  BY LineStart
<1> HIDE DEF c, base
<1>4. d \in Codes /\ Current(d) /\ d.pbr = b /\ d.r15 = a /\ d.buffer = c.buffer
  BY <1>2, <1>3, Invalidated
<1> HIDE DEF d
<1>5. GsuInv' /\ Program!Executes /\ Program!Keeps /\ Known' = Known
  BY <1>1, <1>2, <1>4, TurnStep
<1>6. Program!Quiet
  BY <1>1 DEF Program!Quiet, Program!Reads, Quiet, Reads
<1>7. QED
  BY <1>1, <1>4, <1>5, <1>6 DEF Program!LongJump, Program!Nop, Nop

LEMMA CacheStep ==
    ASSUME GsuInv, op_cache
    PROVE  GsuInv' /\ Program!Plain
<1> DEFINE c == Fetched.code
           b == c.r15 - (c.r15 % LineSize)
           e == IF c.base = b THEN c ELSE [invalidate_cache(c) EXCEPT !.base = b]
<1>1. /\ running /\ code' = Incremented(e) /\ pipe' = Fetched.pipe
      /\ Quiet /\ Session /\ UNCHANGED plot
  BY DEF op_cache, Executes
<1>2. /\ c \in Codes /\ Current(c) /\ c.pbr = code.pbr /\ c.r15 = code.r15
      /\ c.buffer = <<code.pbr, code.r15>>
  BY FetchedIs DEF Fetching
<1>3. b \in Pcs
  BY <1>2, LineStart DEF Codes
<1> HIDE DEF c, b
<1>4. e \in Codes /\ Current(e) /\ e.pbr = c.pbr /\ e.r15 = c.r15 /\ e.buffer = c.buffer
  <2>1. CASE c.base = b
    BY <1>2, <2>1
  <2>2. CASE c.base # b
    <3>1. e = Restarted(c, c.pbr, c.r15, b)
      BY <1>2, <2>2 DEF Restarted, invalidate_cache, Codes
    <3> HIDE DEF e
    <3>2. c.pbr \in ProgramBanks /\ c.r15 \in Pcs
      BY <1>2 DEF Codes
    <3>3. QED
      BY <1>2, <1>3, <3>1, <3>2, Invalidated
  <2>3. QED
    BY <2>1, <2>2
<1> HIDE DEF e
<1>5. /\ code' \in Codes /\ Current(code') /\ code'.pbr = code.pbr
      /\ code'.buffer = <<code.pbr, code.r15>> /\ code'.r15 = Plus(code.r15, 1)
  BY <1>1, <1>2, <1>4, IncrementedIs
<1>6. GsuInv' /\ Program!Executes /\ Program!Keeps /\ Known' = Known
  BY <1>1, <1>5, TurnStep
<1>7. Program!Quiet /\ Program!Ends
  BY <1>1, <1>5 DEF Program!Quiet, Program!Reads, Quiet, Reads, Program!Ends, Plus, Program!Plus
<1>8. QED
  BY <1>6, <1>7 DEF Program!Plain

LEMMA PlusTwice ==
    ASSUME NEW r \in Pcs
    PROVE  /\ Plus(r, 1) \in Pcs
           /\ Plus(Plus(r, 1), 1) = Plus(r, 2)
<1>1. r \in Nat /\ r < PcSpace /\ PcSpace \in Nat /\ PcSpace > 1
  BY CacheAssumption DEF Pcs
<1>2. Plus(r, 1) \in Pcs /\ Plus(r, 1) = IF r + 1 < PcSpace THEN r + 1 ELSE 0
  BY <1>1, PlusIs
<1>3. Plus(Plus(r, 1), 1) = IF r + 2 < PcSpace THEN r + 2 ELSE r + 2 - PcSpace
  <2> DEFINE q == Plus(r, 1)
  <2>1. q \in Pcs /\ q = IF r + 1 < PcSpace THEN r + 1 ELSE 0
    BY <1>2
  <2> HIDE DEF q
  <2>2. Plus(q, 1) = IF q + 1 < PcSpace THEN q + 1 ELSE q + 1 - PcSpace
    BY <1>1, <2>1, PlusIs
  <2>3. Plus(q, 1) = IF r + 2 < PcSpace THEN r + 2 ELSE r + 2 - PcSpace
    BY <1>1, <2>1, <2>2
  <2>4. QED
    BY <2>3 DEF q
<1>4. Plus(r, 2) = IF r + 2 < PcSpace THEN r + 2 ELSE r + 2 - PcSpace
  <2> DEFINE x == r + 2
  <2>1. x \in Int /\ x \in 0..(2 * PcSpace - 1)
    BY <1>1
  <2> HIDE DEF x
  <2>2. x % PcSpace = IF x < PcSpace THEN x ELSE x - PcSpace
    BY <1>1, <2>1, ModPc
  <2>3. Plus(r, 2) = IF x < PcSpace THEN x ELSE x - PcSpace
    BY <2>2 DEF Plus, x
  <2>4. QED
    BY <1>1, <2>1, <2>3 DEF x
<1>5. QED
  BY <1>2, <1>3, <1>4

\* The operand byte and the byte after it.
LEMMA OperandRead ==
    ASSUME GsuInv
    PROVE  LET g == read_operand(Fetched.code, Fetched.pipe) IN
           /\ g.code \in Codes /\ Current(g.code) /\ g.code.pbr = code.pbr
           /\ g.code.r15 = Plus(code.r15, 1)
           /\ g.code.buffer = <<code.pbr, Plus(code.r15, 1)>>
           /\ Later(Fetched.pipe, g.pipe)
<1> DEFINE c == Fetched.code
           d == Incremented(c)
           g == read_opcode(d, Fetched.pipe)
<1>1. c \in Codes /\ Current(c) /\ c.pbr = code.pbr /\ c.r15 = code.r15
  BY FetchedIs DEF Fetching
<1>2. read_operand(c, Fetched.pipe) = g
  BY DEF read_operand, Incremented
<1> HIDE DEF c
<1>3. d \in Codes /\ Current(d) /\ d.pbr = code.pbr /\ d.r15 = Plus(code.r15, 1)
  BY <1>1, IncrementedIs
<1> HIDE DEF d
<1>4. /\ Fetching(d, Fetched.pipe, g.code, g.pipe)
      /\ g.code.buffer = <<d.pbr, d.r15>> /\ g.code.r15 = d.r15
  BY <1>3, FetchedLater, OpcodeRead
<1> HIDE DEF g
<1>5. QED
  BY <1>2, <1>3, <1>4 DEF Fetching, c

LEMMA BranchStep ==
    ASSUME GsuInv, NEW taken \in BOOLEAN, NEW a \in Pcs, op_branch(taken, a)
    PROVE  GsuInv' /\ Program!Operand(IF taken THEN a ELSE Plus(code.r15, 2))
<1> DEFINE f == Fetched
           g == read_operand(f.code, f.pipe)
           d == IF taken THEN [g.code EXCEPT !.r15 = a] ELSE Incremented(g.code)
           r == IF taken THEN a ELSE Plus(code.r15, 2)
<1>1. /\ running /\ code.buffer # Nop /\ code' = d /\ pipe' = g.pipe
      /\ Reads(<<>>, f.code.buffer) /\ Session /\ UNCHANGED plot
  BY DEF op_branch, Executes
<1>2. /\ g.code \in Codes /\ Current(g.code) /\ g.code.pbr = code.pbr
      /\ g.code.r15 = Plus(code.r15, 1)
      /\ g.code.buffer = <<code.pbr, Plus(code.r15, 1)>>
      /\ Later(f.pipe, g.pipe)
  BY OperandRead
<1>3. f.code.buffer = <<code.pbr, code.r15>> /\ code.r15 \in Pcs
  BY FetchedIs DEF GsuInv, TypeOK, Codes
<1> HIDE DEF f, g
<1>4. /\ d \in Codes /\ Current(d) /\ d.pbr = code.pbr /\ d.r15 = r
      /\ d.buffer = <<code.pbr, Plus(code.r15, 1)>>
  <2>1. CASE taken
    <3> DEFINE e == [g.code EXCEPT !.r15 = a]
    <3>1. /\ e \in Codes /\ e.pbr = g.code.pbr /\ e.base = g.code.base /\ e.r15 = a
          /\ e.lines = g.code.lines /\ e.buffer = g.code.buffer
      BY <1>2 DEF Codes
    <3>2. d = e /\ r = a
      BY <2>1
    <3> HIDE DEF e, d, r
    <3>3. Current(e)
      BY <1>2, <3>1 DEF Current
    <3>4. QED
      BY <1>2, <3>1, <3>2, <3>3
  <2>2. CASE ~taken
    <3>1. d = Incremented(g.code) /\ r = Plus(code.r15, 2)
      BY <2>2
    <3> HIDE DEF d, r
    <3>2. QED
      BY <1>2, <1>3, <3>1, IncrementedIs, PlusTwice
  <2>3. QED
    BY <2>1, <2>2
<1> HIDE DEF d, r
<1>5. /\ g.pipe \in Pipelines /\ (pipe.ramDelay = 0 => g.pipe.ramDelay = 0)
      /\ Written(g.pipe) = Written(pipe) /\ Pointed(g.pipe) = Pointed(pipe)
      /\ g.pipe.ramb = pipe.ramb /\ g.pipe.romb = pipe.romb
  BY <1>2, FetchedLater DEF Later, f
<1>6. plot' \in Plots /\ FamilyRests'
  BY <1>1, <1>5 DEF GsuInv, TypeOK, FamilyRests, Session
<1>7. GsuInv'
  BY <1>1, <1>4, <1>5, <1>6, GoesOn
<1>8. Known' = Known /\ Pointed(pipe)' = Pointed(pipe)
  BY <1>1, <1>5, KnownNext, SameKnown
<1>9. Program!Keeps
  BY <1>1, <1>5, <1>8 DEF Program!Keeps, Session
<1>10. Program!Reads(<<>>, <<code.pbr, code.r15>>)
  BY <1>1, <1>3 DEF Program!Reads, Reads
<1>11. Program!Operand(r)
  BY <1>1, <1>4, <1>8, <1>9, <1>10 DEF Program!Operand, Program!Nop, Nop, Plus, Program!Plus
<1>12. QED
  BY <1>7, <1>11 DEF r

LEMMA HaltedIs ==
    ASSUME NEW c \in Codes, Current(c), NEW r \in Pcs
    PROVE  LET d == Halted(c, r) IN
           /\ d \in Codes /\ Current(d) /\ d.pbr = c.pbr /\ d.r15 = r /\ d.buffer = Nop
<1> DEFINE x == [c EXCEPT !.buffer = Nop]
           d == Halted(c, r)
<1>1. x \in Codes
  BY DEF Codes
<1>2. d = [x EXCEPT !.r15 = r]
  BY DEF Halted, Codes
<1>3. d \in Codes
  BY <1>1, <1>2 DEF Codes
<1>4. /\ d.pbr = c.pbr /\ d.base = c.base /\ d.lines = c.lines /\ d.r15 = r /\ d.buffer = Nop
  BY DEF Halted, Codes
<1> HIDE DEF d
<1>5. Current(d)
  BY <1>4 DEF Current
<1>6. QED
  BY <1>3, <1>4, <1>5 DEF d

LEMMA ZeroInPcs == 0 \in Pcs
  BY CacheAssumption DEF Pcs

\* The invariant after a step of the end of a session, or of the SNES.
LEMMA InvOf ==
    ASSUME GsuInv, pipe' \in Pipelines, code' \in Codes, Current(code'), plot' \in Plots,
           FamilyRests', EndedStopped', CompletionIsTrue', UNCHANGED family,
           running' \in BOOLEAN, ended' \in {"no", "stop", "save", "failed"},
           saved' \in {Nothing} \union [Ram -> Byte]
    PROVE  GsuInv'
<1>1. TypeOK'
  BY DEF GsuInv, TypeOK
<1>2. LinesCurrent'
  BY DEF LinesCurrent, Current
<1>3. QED
  BY <1>1, <1>2 DEF GsuInv

LEMMA StopStep ==
    ASSUME GsuInv, op_stop
    PROVE  GsuInv' /\ Program!Stop
<1> DEFINE p == wait_ram_operation(Fetched.pipe)
           c == Fetched.code
<1>1. /\ running /\ code.buffer # Nop /\ code' = Halted(c, 0) /\ pipe' = p
      /\ running' = FALSE /\ ended' = "stop" /\ Quiet /\ UNCHANGED <<plot, saved, family>>
  BY DEF op_stop, Executes
<1>2. c \in Codes /\ Current(c) /\ c.pbr = code.pbr
  BY FetchedIs DEF Fetching
<1>3. /\ p \in Pipelines /\ p.ramDelay = 0 /\ Written(p) = Written(pipe)
      /\ Pointed(p) = Pointed(pipe) /\ p.ramb = pipe.ramb /\ p.romb = pipe.romb
  BY FetchedLater, Waited DEF Later
<1> HIDE DEF p, c
<1>4. /\ code' \in Codes /\ Current(code') /\ code'.pbr = code.pbr /\ code'.r15 = 0
      /\ code'.buffer = Nop
  BY <1>1, <1>2, HaltedIs, ZeroInPcs
<1>5. plot' \in Plots /\ FamilyRests' /\ EndedStopped' /\ CompletionIsTrue'
      /\ saved' \in {Nothing} \union [Ram -> Byte]
  BY <1>1, <1>3, <1>4 DEF GsuInv, TypeOK, FamilyRests, EndedStopped, CompletionIsTrue
<1>6. GsuInv'
  BY <1>1, <1>3, <1>4, <1>5, InvOf
<1>7. Known' = Known /\ Pointed(pipe)' = Pointed(pipe)
  BY <1>1, <1>3, KnownNext, SameKnown
<1>8. Program!Halts
  BY <1>1, <1>4 DEF Program!Halts, Program!Nop, Nop, Program!Quiet, Program!Reads, Quiet, Reads
<1>9. QED
  BY <1>1, <1>3, <1>4, <1>6, <1>7, <1>8 DEF Program!Stop, Program!Nop, Nop

\* What a save has written when the core halts: everything the program knows.
LEMMA AllWritten ==
    ASSUME GsuInv
    PROVE  LET p == wait_rom_operation(wait_ram_operation(
                        Flushed(wait_ram_operation(Fetched.pipe)))) IN
           /\ p \in Pipelines /\ p.ramDelay = 0 /\ p.ram = Known /\ Written(p) = Known
           /\ Pointed(p) = Pointed(pipe) /\ p.ramb = pipe.ramb /\ p.romb = pipe.romb
<1> DEFINE w == wait_ram_operation(Fetched.pipe)
           f == Flushed(w)
           x == wait_ram_operation(f)
           p == wait_rom_operation(x)
<1>1. /\ w \in Pipelines /\ Written(w) = Written(pipe)
      /\ Pointed(w) = Pointed(pipe) /\ w.ramb = pipe.ramb /\ w.romb = pipe.romb
  BY FetchedLater, Waited DEF Later
<1> HIDE DEF w
<1>2. /\ f \in Pipelines /\ Written(f) = Known
      /\ Pointed(f) = Pointed(pipe) /\ f.ramb = pipe.ramb /\ f.romb = pipe.romb
  BY <1>1, FlushedIs, KnownNext DEF GsuInv, TypeOK
<1> HIDE DEF f
<1>3. /\ x \in Pipelines /\ Written(x) = Known /\ x.ramDelay = 0
      /\ Pointed(x) = Pointed(pipe) /\ x.ramb = pipe.ramb /\ x.romb = pipe.romb
  BY <1>2, Waited DEF Later
<1> HIDE DEF x
<1>4. /\ p \in Pipelines /\ Written(p) = Known /\ p.ramDelay = 0
      /\ Pointed(p) = Pointed(pipe) /\ p.ramb = pipe.ramb /\ p.romb = pipe.romb
  BY <1>3, Waited DEF Later
<1> HIDE DEF p
<1>5. p.ram = Known
  BY <1>4, WrittenIs
<1>6. QED
  BY <1>4, <1>5 DEF p, x, f, w

LEMMA SaveStep ==
    ASSUME GsuInv, NEW ok \in BOOLEAN, op_save(ok)
    PROVE  /\ GsuInv'
           /\ ok => Program!Save
           /\ ~ok => Program!SaveFails
<1> DEFINE c == Fetched.code
           n == IF ok \/ c.r15 = 0 THEN IF ok THEN 0 ELSE PcSpace - 1 ELSE c.r15
<1>1. /\ running /\ code.buffer # Nop
      /\ pipe' = wait_rom_operation(wait_ram_operation(
                     Flushed(wait_ram_operation(Fetched.pipe))))
      /\ plot' = Emptied /\ running' = FALSE
      /\ code' = Halted(c, n)
      /\ IF ok THEN saved' = pipe'.ram /\ ended' = "save"
         ELSE UNCHANGED saved /\ ended' = "failed"
      /\ Quiet /\ UNCHANGED family
  BY DEF op_save, Executes
<1>2. c \in Codes /\ Current(c) /\ c.pbr = code.pbr
  BY FetchedIs DEF Fetching
<1> HIDE DEF c
<1>3. n \in Pcs /\ (n = 0 <=> ok)
  BY <1>2, CacheAssumption DEF Codes, Pcs
<1> HIDE DEF n
<1>4. /\ code' \in Codes /\ Current(code') /\ code'.pbr = code.pbr /\ code'.r15 = n
      /\ code'.buffer = Nop
  BY <1>1, <1>2, <1>3, HaltedIs
<1>5. /\ pipe' \in Pipelines /\ pipe'.ramDelay = 0 /\ pipe'.ram = Known
      /\ Written(pipe') = Known /\ Pointed(pipe') = Pointed(pipe)
      /\ pipe'.ramb = pipe.ramb /\ pipe'.romb = pipe.romb
  BY <1>1, AllWritten
<1>6. Known \in [Ram -> Byte]
  BY <1>5 DEF Pipelines
<1>7. /\ plot' \in Plots /\ plot'.primary.valid = {} /\ plot'.secondary.valid = {}
      /\ Known' = Known
  BY <1>1, <1>5, <1>6, EmptiedIs, KnownNext DEF GsuInv, TypeOK
<1>8. /\ ended' \in {"no", "stop", "save", "failed"}
      /\ saved' \in {Nothing} \union [Ram -> Byte]
  BY <1>1, <1>5, <1>6 DEF GsuInv, TypeOK
<1>9. FamilyRests' /\ EndedStopped' /\ CompletionIsTrue'
  BY <1>1, <1>3, <1>4, <1>5, <1>7 DEF FamilyRests, EndedStopped, CompletionIsTrue
<1>10. GsuInv'
  BY <1>1, <1>4, <1>5, <1>7, <1>8, <1>9, InvOf
<1>11. Program!Halts
  BY <1>1, <1>4 DEF Program!Halts, Program!Nop, Nop, Program!Quiet, Program!Reads, Quiet, Reads
<1>12. /\ code.buffer # Program!Nop /\ code'.pbr = code.pbr
       /\ Known' = Known /\ Pointed(pipe)' = Pointed(pipe)
       /\ pipe'.ramb = pipe.ramb /\ pipe'.romb = pipe.romb
  BY <1>1, <1>4, <1>5, <1>7, KnownNext DEF Program!Nop, Nop
<1>13. ok => Program!Save
  BY <1>1, <1>3, <1>4, <1>5, <1>11, <1>12 DEF Program!Save
<1>14. ~ok => Program!SaveFails
  BY <1>1, <1>3, <1>4, <1>11, <1>12 DEF Program!SaveFails
<1>15. QED
  BY <1>10, <1>13, <1>14

-----------------------------------------------------------------------------
\* The SNES's steps.

LEMMA GoStep ==
    ASSUME GsuInv, NEW a \in Pcs, Go(a)
    PROVE  GsuInv' /\ Program!Go(a)
<1>1. /\ ~running /\ code' = [code EXCEPT !.r15 = a] /\ running' = TRUE /\ ended' = "no"
      /\ saved' = Nothing /\ Quiet /\ UNCHANGED <<pipe, plot, family>>
  BY DEF Go
<1>2. code \in Codes /\ Current(code)
  BY DEF GsuInv, TypeOK, LinesCurrent, Current
<1>3. /\ code' \in Codes /\ code'.pbr = code.pbr /\ code'.base = code.base /\ code'.r15 = a
      /\ code'.lines = code.lines /\ code'.buffer = code.buffer
  BY <1>1, <1>2 DEF Codes
<1>4. Current(code')
  BY <1>2, <1>3 DEF Current
<1>5. /\ pipe' \in Pipelines /\ plot' \in Plots /\ FamilyRests' /\ EndedStopped'
      /\ CompletionIsTrue'
  BY <1>1 DEF GsuInv, TypeOK, FamilyRests, EndedStopped, CompletionIsTrue
<1>6. GsuInv'
  BY <1>1, <1>3, <1>4, <1>5, InvOf
<1>7. Known' = Known /\ Pointed(pipe)' = Pointed(pipe)
  BY <1>1, KnownNext
<1>8. QED
  BY <1>1, <1>3, <1>6, <1>7
  DEF Program!Go, Program!Quiet, Program!Reads, Quiet, Reads, Nothing

LEMMA AbortStep ==
    ASSUME GsuInv, Abort
    PROVE  GsuInv' /\ Program!Abort
<1>1. /\ running /\ code' = [invalidate_cache(code) EXCEPT !.base = 0]
      /\ running' = FALSE /\ ended' = "no" /\ Quiet /\ UNCHANGED <<pipe, plot, saved, family>>
  BY DEF Abort
<1>2. code \in Codes /\ code.pbr \in ProgramBanks /\ code.r15 \in Pcs
  BY DEF GsuInv, TypeOK, Codes
<1>3. code' = Restarted(code, code.pbr, code.r15, 0)
  BY <1>1, <1>2 DEF Restarted, invalidate_cache, Codes
<1>4. /\ code' \in Codes /\ Current(code') /\ code'.pbr = code.pbr /\ code'.r15 = code.r15
      /\ code'.buffer = code.buffer
  BY <1>2, <1>3, Invalidated, ZeroInPcs
<1>5. /\ pipe' \in Pipelines /\ plot' \in Plots /\ FamilyRests' /\ EndedStopped'
      /\ CompletionIsTrue' /\ saved' \in {Nothing} \union [Ram -> Byte]
  BY <1>1 DEF GsuInv, TypeOK, FamilyRests, EndedStopped, CompletionIsTrue
<1>6. GsuInv'
  BY <1>1, <1>4, <1>5, InvOf
<1>7. Known' = Known /\ Pointed(pipe)' = Pointed(pipe)
  BY <1>1, KnownNext
<1>8. QED
  BY <1>1, <1>4, <1>6, <1>7 DEF Program!Abort, Program!Quiet, Program!Reads, Quiet, Reads

LEMMA BankStep ==
    ASSUME GsuInv, NEW b \in ProgramBanks, SetProgramBank(b)
    PROVE  GsuInv' /\ Program!SetProgramBank(b)
<1>1. /\ ~running /\ code' = [invalidate_cache(code) EXCEPT !.pbr = b]
      /\ Quiet /\ Session /\ UNCHANGED <<pipe, plot>>
  BY DEF SetProgramBank
<1>2. code \in Codes /\ code.base \in Pcs /\ code.r15 \in Pcs
  BY DEF GsuInv, TypeOK, Codes
<1>3. code' = Restarted(code, b, code.r15, code.base)
  BY <1>1, <1>2 DEF Restarted, invalidate_cache, Codes
<1>4. /\ code' \in Codes /\ Current(code') /\ code'.pbr = b /\ code'.r15 = code.r15
      /\ code'.buffer = code.buffer
  BY <1>2, <1>3, Invalidated
<1>5. /\ pipe' \in Pipelines /\ plot' \in Plots /\ FamilyRests' /\ EndedStopped'
      /\ CompletionIsTrue' /\ saved' \in {Nothing} \union [Ram -> Byte]
      /\ running' \in BOOLEAN /\ ended' \in {"no", "stop", "save", "failed"}
  BY <1>1, <1>4 DEF GsuInv, TypeOK, FamilyRests, EndedStopped, CompletionIsTrue, Session
<1>6. GsuInv'
  BY <1>1, <1>4, <1>5, InvOf DEF Session
<1>7. Known' = Known /\ Pointed(pipe)' = Pointed(pipe)
  BY <1>1, KnownNext
<1>8. QED
  BY <1>1, <1>4, <1>6, <1>7
  DEF Program!SetProgramBank, Program!Quiet, Program!Reads, Quiet, Reads, Session

\* The invariant after a step of the SNES that changes the pipeline alone.
LEMMA PipeStep ==
    ASSUME GsuInv, Session, UNCHANGED <<code, plot>>, pipe' \in Pipelines,
           pipe.ramDelay = 0 => pipe'.ramDelay = 0
    PROVE  GsuInv'
<1>1. code' \in Codes /\ Current(code')
  BY DEF GsuInv, TypeOK, LinesCurrent, Current
<1>2. /\ plot' \in Plots /\ FamilyRests' /\ EndedStopped' /\ CompletionIsTrue'
      /\ saved' \in {Nothing} \union [Ram -> Byte]
      /\ running' \in BOOLEAN /\ ended' \in {"no", "stop", "save", "failed"}
  BY DEF GsuInv, TypeOK, FamilyRests, EndedStopped, CompletionIsTrue, Session
<1>3. QED
  BY <1>1, <1>2, InvOf DEF Session

LEMMA HostPointStep ==
    ASSUME GsuInv, NEW a \in RomOffsets, SetR14(a)
    PROVE  GsuInv' /\ Program!HostPoint(a)
<1>1. /\ ~running /\ pipe' = write_r14(pipe, a)
      /\ Quiet /\ Session /\ UNCHANGED <<code, plot>>
  BY DEF SetR14
<1>2. /\ pipe' \in Pipelines /\ (pipe.ramDelay = 0 => pipe'.ramDelay = 0)
      /\ Written(pipe') = Written(pipe) /\ Pointed(pipe') = <<pipe.romb, a>>
      /\ pipe'.ramb = pipe.ramb /\ pipe'.romb = pipe.romb
  BY <1>1, R14Written DEF GsuInv, TypeOK
<1>3. GsuInv'
  BY <1>1, <1>2, PipeStep
<1>4. Known' = Known /\ Pointed(pipe)' = <<pipe.romb, a>>
  BY <1>1, <1>2, KnownNext, SameKnown
<1>5. QED
  BY <1>1, <1>2, <1>3, <1>4
  DEF Program!HostPoint, Program!Quiet, Program!Reads, Quiet, Reads, Session

\* A byte outside a cache's row is written under the cache.
Put(ram, a, v) == [ram EXCEPT ![a] = v]

LEMMA UnderPoked ==
    ASSUME NEW k \in PixelCaches, NEW ram \in [Ram -> Byte], NEW a \in Ram, a[1] # 1,
           NEW v \in Byte
    PROVE  Under(Put(ram, a, v), k) = Put(Under(ram, k), a, v)
<1> DEFINE r == [ram EXCEPT ![a] = v]
           row == <<1, k.row>>
<1>1. r \in [Ram -> Byte] /\ row \in Ram /\ a # row
  <2>1. row \in Ram
    BY RamIs DEF PixelCaches
  <2>2. row[1] = 1
    OBVIOUS
  <2> HIDE DEF row
  <2>3. a # row
    BY <2>2
  <2>4. r \in [Ram -> Byte]
    OBVIOUS
  <2>5. QED
    BY <2>1, <2>3, <2>4
<1>2. r[row] = ram[row]
  BY <1>1
<1> HIDE DEF row
<1> DEFINE m == Merged(ram[row], k)
<1>3. Under(ram, k) = [ram EXCEPT ![row] = m]
  BY DEF Under, row
<1>4. Under(r, k) = [r EXCEPT ![row] = m]
  BY <1>2 DEF Under, row
<1> HIDE DEF m
<1>5. [r EXCEPT ![row] = m] = [[ram EXCEPT ![row] = m] EXCEPT ![a] = v]
  BY <1>1
<1>6. QED
  BY <1>3, <1>4, <1>5 DEF Put

LEMMA HostStoreStep ==
    ASSUME GsuInv, NEW a \in HostRam, NEW v \in StoreBytes, cpu_ram_write(a, v)
    PROVE  GsuInv' /\ a \in Ram /\ Program!HostStore(a, v)
<1>1. /\ ended \in {"stop", "save"} /\ (a[1] = 1 => ended = "save")
      /\ pipe' = [pipe EXCEPT !.ram[a] = v]
      /\ Quiet /\ Session /\ UNCHANGED <<code, plot>>
  BY DEF cpu_ram_write
<1>2. a \in Ram /\ v \in Byte /\ pipe \in Pipelines /\ pipe.ramDelay = 0 /\ ~running
  BY <1>1, MemoryAssumption DEF Ram, Byte, GsuInv, TypeOK, CompletionIsTrue, EndedStopped
<1>3. /\ pipe' \in Pipelines /\ pipe'.ramDelay = 0
      /\ Written(pipe') = [Written(pipe) EXCEPT ![a] = v] /\ Pointed(pipe') = Pointed(pipe)
      /\ pipe'.ramb = pipe.ramb /\ pipe'.romb = pipe.romb
  BY <1>1, <1>2, Poked
<1>4. GsuInv'
  BY <1>1, <1>3, PipeStep
<1>5. /\ Written(pipe) \in [Ram -> Byte] /\ plot.secondary \in PixelCaches
      /\ plot.primary \in PixelCaches
  BY <1>2, WrittenIs DEF GsuInv, TypeOK, Plots
<1>6. Known' = [Known EXCEPT ![a] = v]
  <2> DEFINE r == [Written(pipe) EXCEPT ![a] = v]
  <2>1. Known' = Under(Under(r, plot.secondary), plot.primary)
    BY <1>1, <1>3, KnownNext
  <2>2. CASE a[1] = 1
    <3>1. plot.primary.valid = {} /\ plot.secondary.valid = {} /\ plot \in Plots
      BY <1>1, <2>2 DEF GsuInv, TypeOK, CompletionIsTrue
    <3>2. r \in [Ram -> Byte]
      BY <1>2, <1>5
    <3> HIDE DEF r
    <3>3. Known' = r /\ Known = Written(pipe)
      BY <1>5, <2>1, <3>1, <3>2, NoPixels, KnownNext
    <3>4. QED
      BY <3>3 DEF r
  <2>3. CASE a[1] # 1
    <3> DEFINE w == Written(pipe)
               u == Under(w, plot.secondary)
    <3>1. w \in [Ram -> Byte] /\ r = [w EXCEPT ![a] = v] /\ Known = Under(u, plot.primary)
      BY <1>5, KnownNext
    <3> HIDE DEF r, w
    <3>2. u \in [Ram -> Byte]
      BY <1>5, <3>1, UnderIs
    <3>3. Under(Put(w, a, v), plot.secondary) = Put(u, a, v)
      BY <1>2, <1>5, <2>3, <3>1, UnderPoked
    <3> HIDE DEF u
    <3>4. Under(Put(u, a, v), plot.primary) = Put(Under(u, plot.primary), a, v)
      BY <1>2, <1>5, <2>3, <3>2, UnderPoked
    <3>5. QED
      BY <2>1, <3>1, <3>3, <3>4 DEF Put
  <2>4. QED
    BY <2>2, <2>3
<1>7. QED
  BY <1>1, <1>2, <1>3, <1>4, <1>6, KnownNext
  DEF Program!HostStore, Program!Quiet, Program!Reads, Quiet, Reads, Session

-----------------------------------------------------------------------------
\* The theorems.

LEMMA Starts ==
    ASSUME Init
    PROVE  GsuInv /\ Program!Init
<1> DEFINE zero == [a \in Ram |-> {}]
           k == EmptyCache(0)
<1>1. zero \in [Ram -> Byte] /\ {} \in Byte
  BY DEF Byte
<1>2. /\ 0 \in 0..Long /\ 0 \in Offsets /\ 0 \in RamBanks /\ 0 \in RomBanks
      /\ 0 \in RomOffsets /\ 0 \in ProgramBanks
  BY TimeAssumption, MemoryAssumption
<1> HIDE DEF zero
<1>3. /\ pipe \in Pipelines /\ pipe.ram = zero /\ pipe.ramDelay = 0 /\ pipe.romDelay = 0
      /\ pipe.romBuffer = <<>> /\ pipe.ramb = 0 /\ pipe.romb = 0
  BY <1>1, <1>2 DEF Init, Pipelines, zero
<1>4. /\ code \in Codes /\ code.lines = NoLines /\ code.pbr = 0 /\ code.r15 = 0
      /\ code.buffer = Nop
  BY <1>2, ZeroInPcs DEF Init, Codes, NoLines
<1>5. k \in PixelCaches /\ k.valid = {}
  BY DEF EmptyCache, PixelCaches
<1>6. plot.primary = k /\ plot.secondary = k /\ plot = [primary |-> k, secondary |-> k]
  BY DEF Init
<1> HIDE DEF k
<1>7. plot \in Plots /\ plot.primary.valid = {} /\ plot.secondary.valid = {}
  BY <1>5, <1>6 DEF Plots
<1>8. LinesCurrent
  BY <1>4 DEF LinesCurrent, NoLines
<1>9. /\ running = FALSE /\ ended = "no" /\ loaded = <<>> /\ got = <<>> /\ saved = Nothing
      /\ family \in Families
  BY DEF Init
<1>10. GsuInv
  BY <1>3, <1>4, <1>7, <1>8, <1>9
  DEF GsuInv, TypeOK, FamilyRests, EndedStopped, CompletionIsTrue
<1>11. Written(pipe) = zero /\ Pointed(pipe) = <<>>
  BY <1>3, WrittenIs
<1>12. Known = zero
  BY <1>1, <1>7, <1>11, NoPixels, KnownNext
<1>13. Program!Init
  BY <1>2, <1>3, <1>4, <1>9, <1>11, <1>12
  DEF Program!Init, Program!Nop, Nop, Nothing, Program!Ram, Ram, zero
<1>14. QED
  BY <1>10, <1>13

LEMMA Simulated ==
    ASSUME GsuInv, Next
    PROVE  GsuInv' /\ Program!Next
<1>0. code.r15 \in Pcs /\ Plus(code.r15, 2) \in Program!Pcs
  <2>1. code.r15 \in Pcs
    BY DEF GsuInv, TypeOK, Codes
  <2>2. code.r15 \in Int
    BY <2>1 DEF Pcs
  <2>3. Plus(code.r15, 2) \in Pcs
    BY <2>2, PlusInPcs
  <2>4. QED
    BY <2>1, <2>3 DEF Pcs, Program!Pcs
<1>1. CASE \E extra \in {0, Long} : Plain(extra)
  BY <1>1, PlainStep DEF Program!Next
<1>2. CASE \E o \in Offsets, v, w \in StoreBytes : Store(o, v) \/ StoreWord(o, v, w)
  BY <1>2, StoreStep, StoreWordStep DEF Program!Next
<1>3. CASE \E o \in Offsets : Load(o)
  BY <1>3, LoadStep DEF Program!Next
<1>4. CASE \E b \in RamBanks : op_ramb(b)
  BY <1>4, RambStep DEF Program!Next
<1>5. CASE \E b \in RomBanks : op_romb(b)
  BY <1>5, RombStep DEF Program!Next
<1>6. CASE \E a \in RomOffsets : WriteR14(a) \/ SetR14(a)
  BY <1>6, R14Step, HostPointStep DEF Program!Next
<1>7. CASE op_getb
  BY <1>7, GetbStep DEF Program!Next
<1>8. CASE \E x \in Pixels, y \in Rows, on \in BOOLEAN : op_plot(x, y, on)
  BY <1>8, PlotStep DEF Program!Next
<1>9. CASE \E x \in Pixels, y \in Rows : op_rpix(x, y)
  BY <1>9, RpixStep DEF Program!Next
<1>10. CASE \E y \in Rows : fx3_clear(y)
  BY <1>10, ClearStep DEF Program!Next
<1>11. CASE \E a \in Pcs : op_jmp(a)
  BY <1>11, JumpStep DEF Program!Next, Pcs, Program!Pcs
<1>12. CASE \E a \in Entries \union {code.r15} : Go(a)
  <2>1. PICK a \in Pcs : Go(a)
    BY <1>0, <1>12, MemoryAssumption DEF Pcs
  <2>2. QED
    BY <2>1, GoStep DEF Program!Next, Pcs, Program!Pcs
<1>13. CASE \E b \in ProgramBanks, a \in Pcs : op_ljmp(b, a)
  BY <1>13, LongJumpStep DEF Program!Next, Pcs, Program!Pcs
<1>14. CASE \E taken \in BOOLEAN, a \in Pcs : op_branch(taken, a)
  <2>1. PICK taken \in BOOLEAN, a \in Pcs : op_branch(taken, a)
    BY <1>14
  <2> DEFINE r == IF taken THEN a ELSE Plus(code.r15, 2)
  <2>2. r \in Program!Pcs
    BY <1>0 DEF Pcs, Program!Pcs
  <2>3. GsuInv' /\ Program!Operand(r)
    BY <2>1, BranchStep
  <2> HIDE DEF r
  <2>4. QED
    BY <2>2, <2>3 DEF Program!Next
<1>15. CASE op_cache
  BY <1>15, CacheStep DEF Program!Next
<1>16. CASE op_stop
  BY <1>16, StopStep DEF Program!Next
<1>17. CASE \E ok \in BOOLEAN : op_save(ok)
  BY <1>17, SaveStep DEF Program!Next
<1>18. CASE Abort
  BY <1>18, AbortStep DEF Program!Next
<1>19. CASE \E b \in ProgramBanks : SetProgramBank(b)
  BY <1>19, BankStep DEF Program!Next
<1>20. CASE \E a \in HostRam, v \in StoreBytes : cpu_ram_write(a, v)
  BY <1>20, HostStoreStep DEF Program!Next, Ram, Program!Ram
<1>21. QED
  BY <1>1, <1>2, <1>3, <1>4, <1>5, <1>6, <1>7, <1>8, <1>9, <1>10, <1>11, <1>12, <1>13,
     <1>14, <1>15, <1>16, <1>17, <1>18, <1>19, <1>20 DEF Next

LEMMA Stutters ==
    ASSUME GsuInv, UNCHANGED vars
    PROVE  GsuInv' /\ UNCHANGED Program!vars
<1>1. GsuInv'
  BY DEF vars, GsuInv, TypeOK, LinesCurrent, FamilyRests, EndedStopped, CompletionIsTrue
<1>2. UNCHANGED Program!vars
  BY KnownNext DEF vars, Program!vars
<1>3. QED
  BY <1>1, <1>2

\* The inductive invariant: a valid line of the program cache holds the program,
\* pipelines and pixel caches that a program does not use are at rest, and R15 = 0
\* is published truly.
THEOREM Invariant == Spec => []GsuInv
<1>1. Init => GsuInv
  BY Starts
<1>2. GsuInv /\ [Next]_vars => GsuInv'
  BY Simulated, Stutters
<1>3. QED
  BY <1>1, <1>2, PTL DEF Spec

\* When the SNES sees R15 = 0, the program's stores are in RAM, after a save its
\* pixels too, and a save that failed never shows it (fx_ops_control.cpp:17-26).
THEOREM CompletionHolds == Spec => []CompletionIsTrue
<1>1. GsuInv => CompletionIsTrue
  BY DEF GsuInv
<1>2. QED
  BY <1>1, Invariant, PTL

\* The core implements GsuProgram: delayed writes, fetches in progress, pixel
\* caches, program cache and prefetch never show, for every cache geometry and
\* every access time (src/src/fx).
THEOREM Refinement == Spec => InProgramOrder
<1>1. Init => Program!Init
  BY Starts
<1>2. GsuInv /\ [Next]_vars => [Program!Next]_(Program!vars)
  BY Simulated, Stutters
<1>3. QED
  BY <1>1, <1>2, Invariant, PTL DEF Spec, InProgramOrder, Program!Spec

\* Every operation of the core is the one of GsuProgram that bears its name, and
\* not merely some step of it.
THEOREM StepByStep == Spec => [][Steps]_vars
<1>1. ASSUME GsuInv, [Next]_vars PROVE Steps
  <2>1. \A a \in RomOffsets :
        (WriteR14(a) => Program!Point(a)) /\ (SetR14(a) => Program!HostPoint(a))
    BY <1>1, R14Step, HostPointStep
  <2>2. \A x \in Pixels, y \in Rows :
        /\ op_rpix(x, y) => Program!ReadPixel(x, y)
        /\ \A on \in BOOLEAN : op_plot(x, y, on) => Program!Plot(x, y, on)
    BY <1>1, RpixStep, PlotStep
  <2>3. \A a \in Pcs :
        /\ op_jmp(a) => Program!Jump(a)
        /\ Go(a) => Program!Go(a)
        /\ \A b \in ProgramBanks : op_ljmp(b, a) => Program!LongJump(b, a)
    BY <1>1, JumpStep, GoStep, LongJumpStep
  <2>4. /\ \A a \in Pcs : op_branch(TRUE, a) => Program!Operand(a)
        /\ op_branch(FALSE, 0) => Program!Operand(Plus(code.r15, 2))
    <3>1. ASSUME NEW a \in Pcs, op_branch(TRUE, a) PROVE Program!Operand(a)
      <4>1. Program!Operand(IF TRUE THEN a ELSE Plus(code.r15, 2))
        BY <1>1, <3>1, BranchStep
      <4>2. QED
        BY <4>1
    <3>2. ASSUME op_branch(FALSE, 0) PROVE Program!Operand(Plus(code.r15, 2))
      <4>1. Program!Operand(IF FALSE THEN 0 ELSE Plus(code.r15, 2))
        BY <1>1, <3>2, BranchStep, ZeroInPcs
      <4>2. QED
        BY <4>1
    <3>3. QED
      BY <3>1, <3>2
  <2>5. /\ \A extra \in {0, Long} : Plain(extra) => Program!Plain
        /\ \A o \in Offsets, v \in StoreBytes : Store(o, v) => Program!Store(o, v)
        /\ \A o \in Offsets, v, w \in StoreBytes :
            StoreWord(o, v, w) => Program!StoreWord(o, v, w)
        /\ \A o \in Offsets : Load(o) => Program!Load(o)
        /\ \A b \in RamBanks : op_ramb(b) => Program!SelectRam(b)
        /\ \A b \in RomBanks : op_romb(b) => Program!SelectRom(b)
        /\ op_getb => Program!GetByte
        /\ \A y \in Rows : fx3_clear(y) => Program!Clear(y)
    BY <1>1, PlainStep, StoreStep, StoreWordStep, LoadStep, RambStep, RombStep, GetbStep,
       ClearStep
  <2>6. /\ op_cache => Program!Plain
        /\ op_stop => Program!Stop
        /\ op_save(TRUE) => Program!Save
        /\ op_save(FALSE) => Program!SaveFails
        /\ Abort => Program!Abort
        /\ \A b \in ProgramBanks : SetProgramBank(b) => Program!SetProgramBank(b)
        /\ \A a \in HostRam, v \in StoreBytes : cpu_ram_write(a, v) => Program!HostStore(a, v)
    BY <1>1, CacheStep, StopStep, SaveStep, AbortStep, BankStep, HostStoreStep
  <2>7. QED
    BY <2>1, <2>2, <2>3, <2>4, <2>5, <2>6 DEF Steps
<1>2. QED
  BY <1>1, Invariant, PTL DEF Spec

=============================================================================
