-------------------------- MODULE FileSystemProofs --------------------------
(***************************************************************************)
(* Proofs about FileSystem, for every size of nibble, sector and table,    *)
(* every disk that is sound in the sense below and every directory.        *)
(***************************************************************************)
EXTENDS FileSystem, WellFoundedInduction, TLAPS

(* A table: every entry lies within the sectors of one copy, and the entry *)
(* of a data cluster is 0, an end mark, or a data cluster again.           *)
SoundTable(f) ==
  /\ DOMAIN f \subseteq EntryValues
  /\ f \in [DOMAIN f -> EntryValues]
  /\ \A c \in DOMAIN f : c + (c \div 2) + 1 < FatSectors * SectorSize
  /\ \A c \in DOMAIN f \ {0, 1} :
       f[c] >= EndOfChain \/ f[c] = 0 \/ f[c] \in DOMAIN f \ {0, 1}

(* The disk: the boot sector is the one reserved sector, which is what     *)
(* fat_read_file's "+ 1" takes for granted; and every file has a first     *)
(* cluster.                                                                *)
SoundDisk ==
  /\ Reserved = 1 /\ FatSectors > 0 /\ NumFats > 0
  /\ \A f \in FATs : SoundTable(f)
  /\ \A s \in Turns :
       /\ Len(Root[s]) \in Nat
       /\ \A k \in 1 .. Len(Root[s]) :
            /\ Root[s][k].first_cluster \in EntryValues
            /\ Root[s][k].directory \in BOOLEAN
            /\ ~Root[s][k].directory => \A f \in FATs : Root[s][k].first_cluster \in DOMAIN f \ {0, 1}
  /\ \A p \in Paths : p.device \in Devices

---------------------------------------------------------------------------
(* The invariant.                                                          *)

Mounted == /\ mount_info.root_offset \in Nat /\ mount_info.data_offset \in Nat
           /\ file.flags = "file" /\ ~astray => mount_info = TrueMount

IInv == /\ fat \in FATs
        /\ TypeOK
        /\ Mounted
        /\ file.flags = "file" => file_system["a"] /\ file_system[file.device_id]
        /\ file.flags = "file" => file.current_cluster \in EntryValues
        /\ lastRead # None /\ ~astray => lastRead \in Clusters
        /\ ReadFollowsTable
        /\ OpenFindsFile

---------------------------------------------------------------------------
(* Arithmetic.                                                             *)

LEMMA QuotientRemainder ==
  ASSUME NEW a \in Nat, NEW d \in Nat \ {0}
  PROVE  /\ a \div d \in Nat
         /\ a % d \in 0 .. (d - 1)
         /\ a = d * (a \div d) + (a % d)
BY SMT

\* Quotient and remainder are the only ones.
LEMMA OnlyQuotient ==
  ASSUME NEW d \in Nat \ {0}, NEW q \in Nat, NEW r \in 0 .. (d - 1), NEW a \in Int, a = d * q + r
  PROVE  a \div d = q /\ a % d = r
<1> DEFINE u == a \div d
           v == a % d
<1>1. d * q \in Nat
  BY SMT
<1>2. u \in Nat /\ v \in 0 .. (d - 1) /\ a = d * u + v
  <2>1. a \in Nat
    BY <1>1
  <2> QED
    BY <2>1, QuotientRemainder
<1> SUFFICES u = q /\ v = r
  OBVIOUS
<1> HIDE DEF u, v
<1>3. CASE u = q
  BY <1>2, <1>3
<1>4. CASE u < q
  <2>1. d * (u + 1) <= d * q /\ d * (u + 1) = d * u + d
    BY <1>2, <1>4
  <2> QED
    BY <1>2, <2>1
<1>5. CASE q < u
  <2>1. d * (q + 1) <= d * u /\ d * (q + 1) = d * q + d
    BY <1>2, <1>5
  <2> QED
    BY <1>2, <2>1
<1> QED
  BY <1>2, <1>3, <1>4, <1>5

\* Two digits make less than the square of the base.
LEMMA TwoDigits ==
  ASSUME NEW n \in Nat \ {0}, NEW x \in 0 .. (n - 1), NEW m \in Nat \ {0}, NEW y \in 0 .. (m - 1)
  PROVE  x + n * y \in 0 .. (n * m - 1)
<1>1. n * y \in Nat /\ n * y <= n * (m - 1) /\ n * (m - 1) = n * m - n /\ n * m \in Nat
  BY SMT
<1> QED
  BY <1>1

\* The three digits of a number make the number.
LEMMA ThreeDigits ==
  ASSUME NEW n \in Nat \ {0}, NEW v \in 0 .. (n * n * n - 1)
  PROVE  /\ v = (v % n) + n * ((v \div n) % n) + (n * n) * ((v \div (n * n)) % n)
         /\ v % n \in 0 .. (n - 1) /\ (v \div n) % n \in 0 .. (n - 1)
         /\ (v \div (n * n)) % n \in 0 .. (n - 1)
<1> DEFINE a == v \div n
           r == v % n
           b == a \div n
           s == a % n
           sq == n * n
<1>0. sq \in Nat \ {0} /\ v \in Nat /\ v < sq * n
  <2>1. n * n \in Nat \ {0}
    BY SMT
  <2>2. (n * n) * n \in Nat
    BY <2>1
  <2> QED
    BY <2>1, <2>2
<1>1. a \in Nat /\ r \in 0 .. (n - 1) /\ v = n * a + r
  BY <1>0, QuotientRemainder
<1>2. b \in Nat /\ s \in 0 .. (n - 1) /\ a = n * b + s
  <2> HIDE DEF a
  <2> QED
    BY <1>1, QuotientRemainder
<1>3. v = sq * b + (r + n * s)
  <2> HIDE DEF a, b, r, s
  <2>1. n * (n * b + s) = (n * n) * b + n * s
    BY <1>1, <1>2
  <2> QED
    BY <1>1, <1>2, <2>1
<1>4. r + n * s \in 0 .. (sq - 1)
  <2> HIDE DEF a, b, r, s
  <2> QED
    BY <1>1, <1>2, TwoDigits
<1>5. v \div sq = b
  <2> DEFINE rest == r + n * s
  <2>1. v = sq * b + rest /\ rest \in 0 .. (sq - 1) /\ v \in Int
    BY <1>0, <1>3, <1>4
  <2> HIDE DEF a, b, r, s, sq, rest
  <2> QED
    BY <1>0, <1>2, <2>1, OnlyQuotient
<1>6. b < n
  <2> HIDE DEF a, b, r, s, sq
  <2> SUFFICES ASSUME b >= n PROVE FALSE
    BY <1>2
  <2>1. sq * b >= sq * n
    BY <1>0, <1>2
  <2> QED
    BY <1>0, <1>3, <1>4, <2>1, <1>2
<1>7. b % n = b
  <2> HIDE DEF a, b, r, s, sq
  <2>1. b = n * 0 + b
    BY <1>2
  <2> QED
    BY <1>2, <1>6, <2>1, OnlyQuotient
<1>8. v = r + n * s + sq * b
  <2> HIDE DEF a, b, r, s, sq
  <2> DEFINE high == sq * b
             mid == n * s
  <2>1. high \in Nat /\ mid \in Nat
    BY <1>0, <1>1, <1>2
  <2>2. v = high + (r + mid)
    BY <1>3
  <2> SUFFICES v = r + mid + high
    OBVIOUS
  <2> HIDE DEF high, mid
  <2> QED
    BY <1>1, <2>1, <2>2
<1> QED
  BY <1>1, <1>2, <1>5, <1>6, <1>7, <1>8

---------------------------------------------------------------------------
(* The table on the disk.                                                  *)

LEMMA Sizes ==
  /\ Nibble \in Nat \ {0} /\ SectorSize \in Nat \ {0}
  /\ Nibble * Nibble \in Nat \ {0}
  /\ Nibble * Nibble * Nibble \in Nat \ {0}
<1>1. Nibble \in Nat \ {0} /\ SectorSize \in Nat \ {0}
  BY FileSystemAssumption
<1>2. Nibble * Nibble \in Nat \ {0}
  BY <1>1
<1>3. (Nibble * Nibble) * Nibble \in Nat \ {0}
  <2> DEFINE sq == Nibble * Nibble
  <2> HIDE DEF sq
  <2>1. sq \in Nat \ {0}
    BY <1>2 DEF sq
  <2>2. sq * Nibble \in Nat \ {0}
    BY <1>1, <2>1
  <2> QED
    BY <2>2 DEF sq
<1> QED
  BY <1>1, <1>2, <1>3

\* The nibbles of the entry of a cluster, and those of any byte of the table.
LEMMA NibblesOfEntry ==
  ASSUME SoundTable(fat), NEW c \in Clusters
  PROVE  /\ fat[c] = NibbleAt(3 * c) + Nibble * NibbleAt(3 * c + 1)
                       + (Nibble * Nibble) * NibbleAt(3 * c + 2)
<1> DEFINE v == fat[c]
<1>1. c \in Nat /\ v \in 0 .. (Nibble * Nibble * Nibble - 1)
  BY Sizes DEF SoundTable, EntryValues, Clusters
<1>2. /\ (3 * c) \div 3 = c /\ (3 * c) % 3 = 0
      /\ (3 * c + 1) \div 3 = c /\ (3 * c + 1) % 3 = 1
      /\ (3 * c + 2) \div 3 = c /\ (3 * c + 2) % 3 = 2
  BY <1>1
<1>3. Power(0) = 1 /\ Power(1) = Nibble /\ Power(2) = Nibble * Nibble
  BY DEF Power
<1>4. NibbleAt(3 * c) = v % Nibble
  <2>1. NibbleAt(3 * c) = (v \div 1) % Nibble
    BY <1>2, <1>3 DEF NibbleAt
  <2>2. v \div 1 = v
    BY <1>1, Sizes
  <2> QED
    BY <2>1, <2>2
<1>5. NibbleAt(3 * c + 1) = (v \div Nibble) % Nibble
  BY <1>2, <1>3 DEF NibbleAt
<1>6. NibbleAt(3 * c + 2) = (v \div (Nibble * Nibble)) % Nibble
  BY <1>2, <1>3 DEF NibbleAt
<1> HIDE DEF v
<1>7. v = (v % Nibble) + Nibble * ((v \div Nibble) % Nibble)
            + (Nibble * Nibble) * ((v \div (Nibble * Nibble)) % Nibble)
  BY <1>1, Sizes, ThreeDigits
<1> QED
  BY <1>4, <1>5, <1>6, <1>7 DEF v

LEMMA NibbleRange ==
  ASSUME SoundTable(fat), NEW k \in Nat
  PROVE  NibbleAt(k) \in 0 .. (Nibble - 1)
<1>1. CASE k \div 3 \in Clusters
  <2> DEFINE v == fat[k \div 3]
             p == Power(k % 3)
  <2>1. v \in Nat
    BY <1>1, Sizes DEF SoundTable, EntryValues, Clusters
  <2>2. p \in Nat \ {0}
    BY Sizes DEF Power
  <2>3. NibbleAt(k) = (v \div p) % Nibble
    BY <1>1 DEF NibbleAt
  <2> HIDE DEF v, p
  <2>4. v \div p \in Nat
    BY <2>1, <2>2, QuotientRemainder
  <2> QED
    BY <2>3, <2>4, Sizes, QuotientRemainder
<1>2. CASE k \div 3 \notin Clusters
  BY <1>2, Sizes DEF NibbleAt
<1> QED
  BY <1>1, <1>2

LEMMA ByteRange ==
  ASSUME SoundTable(fat), NEW k \in Nat
  PROVE  ByteAt(k) \in Bytes
<1> DEFINE x == NibbleAt(2 * k)
           y == NibbleAt(2 * k + 1)
<1>1. 2 * k \in Nat /\ 2 * k + 1 \in Nat
  OBVIOUS
<1>2. x \in 0 .. (Nibble - 1) /\ y \in 0 .. (Nibble - 1)
  BY <1>1, NibbleRange
<1>3. ByteAt(k) = x + Nibble * y
  BY DEF ByteAt
<1> HIDE DEF x, y
<1> QED
  BY <1>2, <1>3, Sizes, TwoDigits DEF Bytes

\* The arithmetic of an entry that starts with a byte's low nibble, and of one
\* that starts with its high nibble.
Joined(n, a, b, c) == a + n * b + (n * n) * c
Packed(n, a, b, c, d) == (a + n * b) + n * n * (c + n * d)
Cube(n) == n * n * n

LEMMA LowFirst ==
  ASSUME NEW n \in Nat \ {0}, NEW a \in Nat, NEW b \in Nat, NEW c \in Nat, NEW d \in Nat, NEW v \in Nat,
         v = Joined(n, a, b, c), v < Cube(n)
  PROVE  Packed(n, a, b, c, d) % Cube(n) = v
<1>a. v = a + n * b + (n * n) * c /\ v \in 0 .. (n * n * n - 1)
  <2>1. n * n * n \in Nat
    BY SMT
  <2> QED
    BY <2>1 DEF Joined, Cube
<1> DEFINE sq == n * n
           cube == n * n * n
           w == (a + n * b) + n * n * (c + n * d)
<1>1. sq \in Nat \ {0} /\ cube = sq * n
  BY SMT
<1>2. cube \in Nat \ {0}
  <2> HIDE DEF sq, cube
  <2> QED
    BY <1>1
<1>3. sq * (c + n * d) = sq * c + cube * d
  <2> HIDE DEF sq, cube
  <2>1. sq * (n * d) = (sq * n) * d
    BY <1>1
  <2>2. n * d \in Nat
    OBVIOUS
  <2>3. sq * (c + n * d) = sq * c + sq * (n * d)
    BY <1>1, <2>2
  <2> QED
    BY <1>1, <2>1, <2>3
<1>4. w = cube * d + v
  <2> DEFINE x == n * b
             y == sq * c
             z == cube * d
  <2>1. x \in Nat /\ y \in Nat /\ z \in Nat
    <3> HIDE DEF sq, cube
    <3> QED BY <1>1, <1>2
  <2>2. w = (a + x) + (y + z) /\ v = a + x + y
    BY <1>3, <1>a
  <2> SUFFICES w = z + v
    OBVIOUS
  <2> HIDE DEF w, x, y, z
  <2> QED
    BY <2>1, <2>2
<1>5. w \in Int /\ v \in 0 .. (cube - 1) /\ cube * d \in Nat
  <2>1. cube * d \in Nat
    <3> HIDE DEF cube
    <3> QED BY <1>2
  <2>2. v \in 0 .. (cube - 1)
    BY <1>a
  <2> QED
    <3> HIDE DEF w, cube
    <3> QED BY <1>2, <1>4, <2>1, <2>2
<1>6. w % cube = v
  <2> HIDE DEF w, cube, sq
  <2>1. d \in Nat /\ w \in Int /\ v \in 0 .. (cube - 1)
    BY <1>5
  <2> QED
    BY ONLY <1>2, <1>4, <2>1, OnlyQuotient
<1> QED
  BY <1>6 DEF Packed, Cube

LEMMA HighFirst ==
  ASSUME NEW n \in Nat \ {0}, NEW x \in 0 .. (n - 1), NEW a \in Nat, NEW b \in Nat, NEW c \in Nat,
         NEW v \in Nat, v = a + n * b + (n * n) * c
  PROVE  ((x + n * a) + n * n * (b + n * c)) \div n = v
<1> DEFINE sq == n * n
           w == (x + n * a) + n * n * (b + n * c)
<1>1. sq \in Nat \ {0}
  BY SMT
<1>2. sq * (b + n * c) = n * (n * b + sq * c)
  <2>1. n * c \in Nat /\ n * b \in Nat /\ sq * c \in Nat
    <3> HIDE DEF sq
    <3> QED BY <1>1
  <2>2. sq * (b + n * c) = n * (n * (b + n * c))
    <3> DEFINE t == b + n * c
    <3>1. t \in Nat
      BY <2>1
    <3> HIDE DEF t
    <3>2. sq * t = n * (n * t)
      BY <3>1
    <3> QED BY <3>2 DEF t
  <2>3. n * (b + n * c) = n * b + sq * c
    <3>1. n * (n * c) = sq * c
      OBVIOUS
    <3> DEFINE t == n * c
    <3>2. t \in Nat
      BY <2>1
    <3>3. n * (b + t) = n * b + n * t
      <4> HIDE DEF t
      <4> QED BY <3>2
    <3> QED BY <3>1, <3>3
  <2> QED
    BY <2>2, <2>3
<1>3. w = n * v + x
  <2> DEFINE h == n * b + sq * c
  <2>1. h \in Nat /\ v = a + h
    <3> DEFINE p == n * b
               q == sq * c
    <3>1. p \in Nat /\ q \in Nat
      <4> HIDE DEF sq
      <4> QED BY <1>1
    <3>2. v = a + p + q /\ h = p + q
      OBVIOUS
    <3> HIDE DEF p, q, h
    <3> QED BY <3>1, <3>2
  <2>2. w = (x + n * a) + n * h
    BY <1>2
  <2> HIDE DEF h, w
  <2>3. n * v = n * a + n * h
    BY <2>1
  <2>4. n * a \in Nat /\ n * h \in Nat
    BY <2>1
  <2> QED
    BY <2>2, <2>3, <2>4
<1>4. n * v \in Nat
  OBVIOUS
<1>5. w \div n = v
  <2> HIDE DEF w
  <2>1. w \in Int
    BY <1>3, <1>4
  <2> QED
    BY <1>3, <2>1, OnlyQuotient
<1> QED
  BY <1>5

\* The byte an entry starts in.
Start(c) == (c \div 2) + c

\* From the two bytes of an entry fat_read_file makes the entry.
LEMMA EntryUnpacked ==
  ASSUME SoundTable(fat), NEW c \in Clusters, NEW bytes,
         bytes[Start(c) % SectorSize] = ByteAt(Start(c)),
         bytes[(Start(c) % SectorSize) + 1] = ByteAt(Start(c) + 1)
  PROVE  Entry(bytes, c) = fat[c]
<1> DEFINE k == Start(c)
           word == ByteAt(k) + Nibble * Nibble * ByteAt(k + 1)
<1>0. c \in Nat /\ fat[c] \in 0 .. (Nibble * Nibble * Nibble - 1) /\ k \in Nat
  BY Sizes DEF SoundTable, EntryValues, Clusters, Start
<1>1. Entry(bytes, c) = IF c % 2 = 0 THEN word % (Nibble * Nibble * Nibble) ELSE word \div Nibble
  BY DEF Entry, Start
<1>2. word = (NibbleAt(2 * k) + Nibble * NibbleAt(2 * k + 1))
               + Nibble * Nibble * (NibbleAt(2 * k + 2) + Nibble * NibbleAt(2 * k + 3))
  <2>1. 2 * (k + 1) = 2 * k + 2 /\ 2 * (k + 1) + 1 = 2 * k + 3
    BY <1>0
  <2> QED
    BY <2>1 DEF ByteAt
<1>3. \A m \in Nat : NibbleAt(m) \in Nat /\ NibbleAt(m) \in 0 .. (Nibble - 1)
  BY NibbleRange, Sizes
<1>4. fat[c] = NibbleAt(3 * c) + Nibble * NibbleAt(3 * c + 1) + (Nibble * Nibble) * NibbleAt(3 * c + 2)
  BY NibblesOfEntry
<1>5. CASE c % 2 = 0
  <2>1. /\ 2 * k = 3 * c /\ 2 * k + 1 = 3 * c + 1 /\ 2 * k + 2 = 3 * c + 2
        /\ 2 * k \in Nat /\ 2 * k + 1 \in Nat /\ 2 * k + 2 \in Nat /\ 2 * k + 3 \in Nat
    BY <1>0, <1>5 DEF Start
  <2> DEFINE a == NibbleAt(2 * k)
             b == NibbleAt(2 * k + 1)
             e == NibbleAt(2 * k + 2)
             d == NibbleAt(2 * k + 3)
  <2>2. a \in Nat /\ b \in Nat /\ e \in Nat /\ d \in Nat
    <3> HIDE DEF k
    <3> QED BY <2>1, <1>3
  <2>3. fat[c] = a + Nibble * b + (Nibble * Nibble) * e
    <3> HIDE DEF k
    <3> QED BY <2>1, <1>4
  <2>4. word = (a + Nibble * b) + Nibble * Nibble * (e + Nibble * d)
    BY <1>2
  <2> DEFINE v == fat[c]
  <2>v. v = Joined(Nibble, a, b, e) /\ v \in Nat /\ v < Cube(Nibble)
    BY <1>0, <2>3, Sizes DEF Joined, Cube
  <2> HIDE DEF a, b, e, d, word, k, v
  <2>5. Packed(Nibble, a, b, e, d) % Cube(Nibble) = v
    <3>1. Nibble \in Nat \ {0}
      BY Sizes
    <3> QED
      BY ONLY <3>1, <2>2, <2>v, LowFirst
  <2> QED
    BY <1>1, <1>5, <2>4, <2>5 DEF v, Packed, Cube
<1>6. CASE c % 2 # 0
  <2>1. /\ 2 * k + 1 = 3 * c /\ 2 * k + 2 = 3 * c + 1 /\ 2 * k + 3 = 3 * c + 2
        /\ 2 * k \in Nat /\ 2 * k + 1 \in Nat /\ 2 * k + 2 \in Nat /\ 2 * k + 3 \in Nat
    BY <1>0, <1>6 DEF Start
  <2> DEFINE x == NibbleAt(2 * k)
             a == NibbleAt(2 * k + 1)
             b == NibbleAt(2 * k + 2)
             e == NibbleAt(2 * k + 3)
  <2>2. x \in 0 .. (Nibble - 1) /\ a \in Nat /\ b \in Nat /\ e \in Nat
    <3> HIDE DEF k
    <3> QED BY <2>1, <1>3
  <2>3. fat[c] = a + Nibble * b + (Nibble * Nibble) * e
    <3> HIDE DEF k
    <3> QED BY <2>1, <1>4
  <2>4. word = (x + Nibble * a) + Nibble * Nibble * (b + Nibble * e)
    BY <1>2
  <2>5. fat[c] \in Nat
    BY <1>0, Sizes
  <2> HIDE DEF x, a, b, e, word, k
  <2>6. ((x + Nibble * a) + Nibble * Nibble * (b + Nibble * e)) \div Nibble = fat[c]
    BY <2>2, <2>3, <2>5, Sizes, HighFirst
  <2> QED
    BY <1>1, <1>6, <2>4, <2>6
<1> QED
  BY <1>5, <1>6

---------------------------------------------------------------------------
(* fat_read_file.                                                          *)

\* The two sectors from first on, as FAT[] holds them.
Window(first, second) == [n \in 0 .. (2 * SectorSize - 1) |->
                            IF n < SectorSize THEN first[n] ELSE second[n - SectorSize]]

\* The sector fat_read_file computes.
FatSector(c) == ((c \div 2) + c) \div SectorSize + 1

\* Every sector that is read is one of bytes, good or not.
LEMMA SectorOfBytes ==
  ASSUME SoundTable(fat), SoundDisk, NEW n \in Nat, NEW ok, NEW sector \in ReadBytes(n, ok)
  PROVE  sector \in [0 .. (SectorSize - 1) -> Bytes]
<1>0. 0 \in Bytes /\ Nibble * Nibble - 1 \in Bytes
  BY Sizes DEF Bytes
<1>1. CASE ~ok
  <2>1. PICK b \in {0, Nibble * Nibble - 1} : sector = [j \in 0 .. (SectorSize - 1) |-> b]
    BY <1>1 DEF ReadBytes, FailedBytes
  <2>2. b \in Bytes
    BY <1>0, <2>1
  <2> QED
    BY <2>1, <2>2
<1>2. CASE ok /\ n \in Reserved .. (RootStart - 1)
  <2> DEFINE t == (n - Reserved) % FatSectors
  <2>1. t \in Nat
    <3>1. n - Reserved \in Nat /\ FatSectors \in Nat \ {0}
      BY <1>2, FileSystemAssumption DEF SoundDisk
    <3> QED
      BY <3>1, QuotientRemainder
  <2>2. sector = [j \in 0 .. (SectorSize - 1) |-> ByteAt(t * SectorSize + j)]
    BY <1>2 DEF ReadBytes, DiskBytes, TableSector
  <2> HIDE DEF t
  <2>3. \A j \in 0 .. (SectorSize - 1) : ByteAt(t * SectorSize + j) \in Bytes
    <3>1. t * SectorSize \in Nat
      BY <2>1, Sizes
    <3>2. \A j \in 0 .. (SectorSize - 1) : t * SectorSize + j \in Nat
      BY <3>1, Sizes
    <3> QED
      BY <3>2, ByteRange
  <2> QED
    BY <2>2, <2>3
<1>3. CASE ok /\ n \notin Reserved .. (RootStart - 1)
  BY <1>0, <1>3 DEF ReadBytes, DiskBytes
<1> QED
  BY <1>1, <1>2, <1>3

LEMMA WindowOfBytes ==
  ASSUME NEW first \in [0 .. (SectorSize - 1) -> Bytes], NEW second \in [0 .. (SectorSize - 1) -> Bytes]
  PROVE  Window(first, second) \in [0 .. (2 * SectorSize - 1) -> Bytes]
<1>1. \A n \in 0 .. (2 * SectorSize - 1) :
        (IF n < SectorSize THEN first[n] ELSE second[n - SectorSize]) \in Bytes
  BY Sizes
<1> QED
  BY <1>1 DEF Window

\* Whatever two bytes an entry is made of, it has three nibbles.
LEMMA EntryRange ==
  ASSUME NEW bytes \in [0 .. (2 * SectorSize - 1) -> Bytes], NEW c \in Nat
  PROVE  Entry(bytes, c) \in EntryValues
<1> DEFINE o == Start(c) % SectorSize
           low == bytes[o]
           high == bytes[o + 1]
           sq == Nibble * Nibble
           cube == Nibble * Nibble * Nibble
           word == low + sq * high
<1>1. o \in 0 .. (SectorSize - 1)
  <2>1. Start(c) \in Nat
    BY DEF Start
  <2> QED
    BY <2>1, Sizes, QuotientRemainder
<1>2. low \in 0 .. (sq - 1) /\ high \in 0 .. (sq - 1)
  <2>1. o \in 0 .. (2 * SectorSize - 1) /\ o + 1 \in 0 .. (2 * SectorSize - 1)
    <3> HIDE DEF o
    <3> QED BY <1>1, Sizes
  <2>2. low \in Bytes /\ high \in Bytes
    <3> HIDE DEF o
    <3> QED BY <2>1
  <2> QED
    BY <2>2 DEF Bytes
<1>3. Entry(bytes, c) = IF c % 2 = 0 THEN word % cube ELSE word \div Nibble
  BY DEF Entry, Start
<1>4. sq \in Nat \ {0} /\ cube \in Nat \ {0} /\ sq * sq = Nibble * cube
  <2>1. sq * sq = Nibble * cube
    BY Sizes
  <2> QED
    BY <2>1, Sizes
<1>5. word \in 0 .. (sq * sq - 1)
  <2> HIDE DEF low, high, sq
  <2> QED BY <1>2, <1>4, TwoDigits
<1>6. word \in Nat /\ word < Nibble * cube
  <2>1. sq * sq \in Nat
    <3> HIDE DEF sq
    <3> QED BY <1>4
  <2> HIDE DEF word, sq, cube
  <2> QED BY <1>4, <1>5, <2>1
<1>7. word % cube \in 0 .. (cube - 1)
  <2> HIDE DEF word, cube
  <2> QED BY <1>4, <1>6, QuotientRemainder
<1>8. word \div Nibble \in 0 .. (cube - 1)
  <2> DEFINE q == word \div Nibble
             r == word % Nibble
  <2>1. q \in Nat /\ r \in 0 .. (Nibble - 1) /\ word = Nibble * q + r
    <3> HIDE DEF word
    <3> QED BY <1>6, Sizes, QuotientRemainder
  <2> HIDE DEF q, r, word, cube
  <2>2. ASSUME q >= cube PROVE FALSE
    <3> DEFINE p == Nibble * q
               u == Nibble * cube
    <3>1. p >= u /\ p \in Nat /\ u \in Nat
      BY <2>1, <2>2, <1>4, Sizes
    <3>2. word = p + r /\ word < u
      BY <2>1, <1>6
    <3> HIDE DEF p, u
    <3> QED
      BY <3>1, <3>2, <2>1, <1>6, Sizes
  <2>3. q \in 0 .. (cube - 1)
    BY <2>1, <2>2, <1>4
  <2> QED
    BY <2>3 DEF q
<1> QED
  BY <1>3, <1>7, <1>8 DEF EntryValues

\* The two sectors hold the entry of the cluster, wherever it lies in them.
LEMMA WindowHoldsEntry ==
  ASSUME SoundTable(fat), SoundDisk, NEW c \in Clusters
  PROVE  Entry(Window(DiskBytes(FatSector(c)), DiskBytes(FatSector(c) + 1)), c) = fat[c]
<1> DEFINE k == Start(c)
           q == k \div SectorSize
           o == k % SectorSize
           first == DiskBytes(FatSector(c))
           second == DiskBytes(FatSector(c) + 1)
           bytes == Window(first, second)
<1>0. SectorSize \in Nat \ {0} /\ FatSectors \in Nat \ {0} /\ Reserved = 1
  BY FileSystemAssumption DEF SoundDisk
<1>1. c \in Nat /\ k \in Nat /\ k + 1 < FatSectors * SectorSize
  <2>1. c \in Nat /\ c + (c \div 2) + 1 < FatSectors * SectorSize
    BY Sizes DEF SoundTable, EntryValues, Clusters
  <2>2. k = c + (c \div 2) /\ k \in Nat
    BY <2>1 DEF Start
  <2> HIDE DEF k
  <2> QED
    BY <2>1, <2>2
<1>2. q \in Nat /\ o \in 0 .. (SectorSize - 1) /\ k = SectorSize * q + o
  <2> HIDE DEF k
  <2> QED BY <1>0, <1>1, QuotientRemainder
<1>3. FatSector(c) = q + 1
  BY DEF FatSector, Start
<1>4. ASSUME NEW n \in 0 .. (FatSectors - 1)
      PROVE  DiskBytes(n + 1) = [j \in 0 .. (SectorSize - 1) |-> ByteAt(SectorSize * n + j)]
  <2>1. n + 1 \in Reserved .. (RootStart - 1)
    <3> DEFINE all == NumFats * FatSectors
    <3>1. NumFats \in Nat /\ NumFats > 0
      BY FileSystemAssumption DEF SoundDisk
    <3>2. all \in Nat /\ all >= FatSectors
      BY <1>0, <3>1
    <3>3. RootStart = Reserved + all
      BY DEF RootStart
    <3> HIDE DEF all
    <3> QED
      BY <1>0, <3>2, <3>3
  <2>2. ((n + 1) - Reserved) % FatSectors = n
    <3>1. (n + 1) - Reserved = n /\ n = FatSectors * 0 + n /\ n \in Int
      BY <1>0
    <3> QED
      BY <1>0, <3>1, OnlyQuotient
  <2>3. n * SectorSize = SectorSize * n
    BY <1>0
  <2> QED
    BY <2>1, <2>2, <2>3 DEF DiskBytes, TableSector
<1>5. q < FatSectors
  <2> HIDE DEF q, o, k
  <2>1. ASSUME q >= FatSectors PROVE FALSE
    <3>1. SectorSize * q >= FatSectors * SectorSize /\ SectorSize * q \in Nat
      BY <1>0, <1>2, <2>1
    <3>2. FatSectors * SectorSize \in Nat
      BY <1>0
    <3> QED
      BY <1>0, <1>1, <1>2, <3>1, <3>2
  <2> QED
    BY <1>0, <1>2, <2>1
<1>6. bytes[o] = ByteAt(k)
  <2>1. first = [j \in 0 .. (SectorSize - 1) |-> ByteAt(SectorSize * q + j)]
    <3> HIDE DEF q
    <3> QED BY <1>0, <1>2, <1>3, <1>4, <1>5
  <2> HIDE DEF q, o, k, first, second
  <2>2. o \in 0 .. (2 * SectorSize - 1) /\ o < SectorSize
    BY <1>0, <1>2
  <2>3. bytes[o] = first[o]
    BY <2>2 DEF Window
  <2> QED
    BY <1>2, <2>1, <2>3
<1>7. bytes[o + 1] = ByteAt(k + 1)
  <2>1. CASE o + 1 < SectorSize
    <3>1. first = [j \in 0 .. (SectorSize - 1) |-> ByteAt(SectorSize * q + j)]
      <4> HIDE DEF q
      <4> QED BY <1>0, <1>2, <1>3, <1>4, <1>5
    <3> HIDE DEF q, o, k, first, second
    <3>2. o + 1 \in 0 .. (2 * SectorSize - 1) /\ o + 1 \in 0 .. (SectorSize - 1)
      BY <1>0, <1>2, <2>1
    <3>3. bytes[o + 1] = first[o + 1]
      BY <2>1, <3>2 DEF Window
    <3>4. SectorSize * q + (o + 1) = k + 1
      <4> DEFINE p == SectorSize * q
      <4>1. p \in Nat /\ k = p + o
        BY <1>0, <1>2
      <4> HIDE DEF p
      <4>2. p + (o + 1) = k + 1
        BY <1>2, <4>1
      <4> QED BY <4>2 DEF p
    <3> QED
      BY <3>1, <3>2, <3>3, <3>4
  <2>2. CASE o + 1 = SectorSize
    <3>1. k + 1 = SectorSize * (q + 1) /\ q + 1 < FatSectors
      <4> HIDE DEF q, o, k
      <4>1. SectorSize * (q + 1) = SectorSize * q + SectorSize /\ SectorSize * q \in Nat
        BY <1>0, <1>2
      <4>2. k + 1 = SectorSize * (q + 1)
        BY <1>0, <1>2, <2>2, <4>1
      <4>3. ASSUME q + 1 >= FatSectors PROVE FALSE
        <5>1. SectorSize * (q + 1) >= FatSectors * SectorSize
          BY <1>0, <1>2, <4>3
        <5>2. FatSectors * SectorSize \in Nat /\ SectorSize * (q + 1) \in Nat
          BY <1>0, <1>2
        <5> QED
          BY <1>1, <4>2, <5>1, <5>2
      <4> QED
        BY <1>0, <1>2, <4>2, <4>3
    <3>2. second = [j \in 0 .. (SectorSize - 1) |-> ByteAt(SectorSize * (q + 1) + j)]
      <4> HIDE DEF q, k
      <4>1. q + 1 \in 0 .. (FatSectors - 1)
        BY <1>0, <1>2, <3>1
      <4> QED BY <1>3, <1>4, <4>1
    <3> HIDE DEF q, o, k, first, second
    <3>3. o + 1 \in 0 .. (2 * SectorSize - 1) /\ ~(o + 1 < SectorSize) /\ (o + 1) - SectorSize = 0
          /\ 0 \in 0 .. (SectorSize - 1)
      BY <1>0, <1>2, <2>2
    <3>4. bytes[o + 1] = second[0]
      BY <3>3 DEF Window
    <3>5. SectorSize * (q + 1) + 0 = k + 1
      BY <1>1, <3>1
    <3> QED
      BY <3>2, <3>3, <3>4, <3>5
  <2>3. o + 1 < SectorSize \/ o + 1 = SectorSize
    <3> HIDE DEF o
    <3> QED BY <1>0, <1>2
  <2> QED
    BY <2>1, <2>2, <2>3
<1> QED
  <2> HIDE DEF bytes
  <2>1. Entry(bytes, c) = fat[c]
    BY <1>6, <1>7, EntryUnpacked
  <2> QED
    BY <2>1 DEF bytes

---------------------------------------------------------------------------
(* fat_open_file.                                                          *)

LEMMA InvalidHandle ==
  ASSUME NEW h \in Invalid
  PROVE  h \in Handle /\ h.flags # "file"
BY FileSystemAssumption DEF Invalid, Closed, Handle

LEMMA UnwrittenHandle ==
  ASSUME NEW h \in AnyHandle
  PROVE  h \in Handle /\ h.current_cluster \in EntryValues
BY Sizes, FileSystemAssumption DEF AnyHandle, Handle, EntryValues

\* Entries of one sector, and sectors, are searched in order.
LEMMA FirstIsLeast ==
  ASSUME NEW S \in SUBSET Nat, S # {}
  PROVE  First(S) \in S /\ \A k \in S : First(S) <= k
<1>1. PICK m \in S : \A k \in S : <<k, m>> \notin OpToRel(<, Nat)
  BY NatLessThanWellFounded, WFMin
<1>2. ASSUME NEW k \in S PROVE m <= k
  <2>1. k \in Nat /\ m \in Nat
    OBVIOUS
  <2>2. <<k, m>> \notin {ss \in Nat \X Nat : ss[1] < ss[2]}
    BY <1>1 DEF OpToRel
  <2>3. ~(k < m)
    BY <2>1, <2>2
  <2> QED
    BY <2>1, <2>3
<1>3. \E n \in S : \A k \in S : n <= k
  BY <1>2
<1> QED
  BY <1>3, Zenon DEF First

\* What the search returns for the name, when it returns an entry.
Answer(s, name) ==
  [flags |-> IF EntryOf(s, name).directory THEN "directory" ELSE "file",
   current_cluster |-> EntryOf(s, name).first_cluster, end |-> 0, device_id |-> "a"]

LEMMA EntryIsFirst ==
  ASSUME SoundDisk, NEW s \in Turns, NEW name, Matches(s, name) # {}
  PROVE  /\ First(Matches(s, name)) \in Matches(s, name)
         /\ \A k \in Matches(s, name) : First(Matches(s, name)) <= k
         /\ Answer(s, name) \in Handle
         /\ Answer(s, name).current_cluster \in EntryValues
<1> DEFINE S == Matches(s, name)
           n == First(S)
<1>1. S \in SUBSET Nat /\ S \subseteq 1 .. Len(Root[s])
  BY DEF Matches, SoundDisk
<1>2. n \in S /\ \A k \in S : n <= k
  <2>1. S # {}
    OBVIOUS
  <2> HIDE DEF S
  <2> QED BY <1>1, <2>1, FirstIsLeast
<1>3. Root[s][n].first_cluster \in EntryValues
  <2> HIDE DEF S, n
  <2> QED BY <1>1, <1>2 DEF SoundDisk
<1>4. EntryOf(s, name) = Root[s][n]
  BY DEF EntryOf
<1> HIDE DEF S, n
<1>5. Root[s][n].first_cluster \in Nat
  BY <1>3, Sizes DEF EntryValues
<1>6. Answer(s, name) \in Handle /\ Answer(s, name).current_cluster \in EntryValues
  BY <1>3, <1>4, <1>5, FileSystemAssumption DEF Answer, Handle
<1> QED
  BY <1>2, <1>6 DEF S, n

\* What the search may return.
LEMMA SearchReturns ==
  ASSUME SoundDisk, NEW name, NEW ok \in SUBSET Turns, NEW h \in fat_parse_rootdir(name, ok),
         mount_info.root_offset \in Nat
  PROVE  \/ h \in Invalid
         \/ Strays(name, ok) # {} /\ h \in AnyHandle
         \/ /\ Hits(name, ok) # {}
            /\ First(Hits(name, ok)) \in Hits(name, ok)
            /\ \A j \in Hits(name, ok) : First(Hits(name, ok)) <= j
            /\ h = Answer(Sector(First(Hits(name, ok))), name)
<1> DEFINE H == Hits(name, ok)
<1>1. H \in SUBSET Nat
  <2>1. Turns \subseteq Nat
    BY FileSystemAssumption DEF Turns
  <2>2. H \subseteq ok
    BY DEF Hits, Good
  <2> QED
    BY <2>1, <2>2
<1>2. H # {} => First(H) \in H /\ \A j \in H : First(H) <= j
  <2> HIDE DEF H
  <2> QED BY <1>1, FirstIsLeast
<1>3. \/ H = {} /\ h \in Invalid
      \/ Strays(name, ok) # {} /\ h \in StrayEntries
      \/ H # {} /\ h = Answer(Sector(First(H)), name)
  BY DEF fat_parse_rootdir, Answer
<1> QED
  BY <1>2, <1>3 DEF StrayEntries

\* Without strays the sectors before the first hit were all read, and did not
\* hold the name: the first hit holds the first entry of the name.
LEMMA SearchFindsFirst ==
  ASSUME SoundDisk, NEW name, NEW ok \in SUBSET Turns, mount_info = TrueMount,
         Strays(name, ok) = {}, Hits(name, ok) # {},
         NEW f \in Hits(name, ok), \A j \in Hits(name, ok) : f <= j,
         ~EntryOf(Sector(f), name).directory
  PROVE  BeginsAt(name, EntryOf(Sector(f), name).first_cluster)
<1>1. RootStart \in Nat /\ RootSectors \in Nat
  <2>1. NumFats * FatSectors \in Nat
    BY FileSystemAssumption
  <2> QED
    BY <2>1, FileSystemAssumption DEF RootStart
<1>2. \A n \in Turns : Sector(n) = n
  BY <1>1 DEF Sector, TrueMount, Turns
<1>3. Good(ok) = ok
  BY <1>2 DEF Good
<1>4. f \in Turns /\ f \in Nat /\ Sector(f) = f /\ Matches(f, name) # {}
  <2>1. f \in ok /\ Matches(Sector(f), name) # {}
    BY <1>3 DEF Hits
  <2>2. f \in Turns /\ f \in Nat
    BY <1>1, <2>1 DEF Turns
  <2> QED
    BY <1>2, <2>1, <2>2
<1> DEFINE n == First(Matches(f, name))
<1>5. n \in Matches(f, name) /\ \A k \in Matches(f, name) : n <= k
  BY <1>4, EntryIsFirst
<1>6. EntryOf(Sector(f), name) = Root[f][n]
  BY <1>4 DEF EntryOf
<1>7. ASSUME NEW t \in Turns, NEW m \in Matches(t, name)
      PROVE  t > f \/ (t = f /\ m >= n)
  <2>0. t \in Nat /\ f \in Nat /\ m \in Nat /\ n \in Nat
    BY <1>1, <1>4, <1>5 DEF Turns, Matches, SoundDisk
  <2>1. CASE t \in ok
    <3>1. t \in Hits(name, ok)
      BY <1>2, <1>3, <2>1 DEF Hits
    <3>2. f <= t
      BY <3>1
    <3>3. t = f => n <= m
      BY <1>5
    <3> HIDE DEF n
    <3> QED
      BY <2>0, <3>2, <3>3
  <2>2. CASE t \notin ok
    <3>1. PICK j \in Hits(name, ok) : ~(t < j)
      BY <1>3, <2>2 DEF Strays
    <3>2. f <= j /\ j \in Turns /\ j \in ok
      BY <1>3, <3>1 DEF Hits
    <3>3. j \in Nat /\ t # j /\ t > f
      BY <1>1, <2>0, <2>2, <3>1, <3>2 DEF Turns
    <3> QED
      BY <3>3
  <2> QED
    BY <2>1, <2>2
<1> HIDE DEF n
<1> QED
  BY <1>4, <1>5, <1>6, <1>7 DEF BeginsAt

\* What fat_open_file returns: a handle, and for a file that is not astray the
\* first one of the name.
LEMMA OpenedHandle ==
  ASSUME SoundDisk, NEW path \in Paths, NEW ok \in TurnResults, NEW h \in fat_open_file(path, ok),
         mount_info.root_offset \in Nat
  PROVE  /\ h \in Handle
         /\ h.flags = "file" => h.current_cluster \in EntryValues
         /\ h.flags = "file" /\ ~OpenedAstray(path, ok) => BeginsAt(path.name, h.current_cluster)
<1>0. ok \in SUBSET Turns
  BY DEF TurnResults
<1>1. CASE h \in Invalid
  BY <1>1, InvalidHandle
<1>2. CASE path.separator /\ h \notin Invalid
  <2>1. h \in AnyHandle /\ OpenedAstray(path, ok)
    BY <1>2 DEF fat_open_file, OpenedAstray
  <2> QED
    BY <2>1, UnwrittenHandle
<1>3. CASE ~path.separator /\ h \notin Invalid
  <2>1. PICK g \in fat_parse_rootdir(path.name, ok) : h \in IF g.flags = "file" THEN {g} ELSE Invalid
    BY <1>3 DEF fat_open_file
  <2>2. h = g /\ h.flags = "file"
    BY <1>3, <2>1
  <2>3. CASE Strays(path.name, ok) # {} /\ h \in AnyHandle
    BY <2>3, UnwrittenHandle DEF OpenedAstray
  <2>4. CASE ~(Strays(path.name, ok) # {} /\ h \in AnyHandle)
    <3> DEFINE f == First(Hits(path.name, ok))
    <3>1. /\ f \in Hits(path.name, ok) /\ \A j \in Hits(path.name, ok) : f <= j
          /\ h = Answer(Sector(f), path.name)
      BY <1>0, <1>3, <2>1, <2>2, <2>4, SearchReturns
    <3> HIDE DEF f
    <3>2. Sector(f) \in Turns /\ Matches(Sector(f), path.name) # {}
      BY <3>1 DEF Hits, Good
    <3>3. h \in Handle /\ h.current_cluster \in EntryValues
      BY <3>1, <3>2, EntryIsFirst
    <3>4. /\ h.current_cluster = EntryOf(Sector(f), path.name).first_cluster
          /\ ~EntryOf(Sector(f), path.name).directory
      BY <2>2, <3>1 DEF Answer
    <3>5. ~OpenedAstray(path, ok) => BeginsAt(path.name, h.current_cluster)
      BY <1>0, <3>1, <3>4, SearchFindsFirst DEF OpenedAstray
    <3> QED
      BY <3>3, <3>5
  <2> QED
    BY <2>3, <2>4
<1> QED
  BY <1>1, <1>2, <1>3

\* The first cluster of a file is a data cluster of the disk.
LEMMA FileIsCluster ==
  ASSUME fat \in FATs, SoundDisk, NEW name, NEW c, BeginsAt(name, c)
  PROVE  c \in Clusters \ {0, 1}
<1>1. PICK s \in Turns : \E k \in Matches(s, name) : ~Root[s][k].directory /\ Root[s][k].first_cluster = c
  BY DEF BeginsAt
<1>2. PICK k \in 1 .. Len(Root[s]) : ~Root[s][k].directory /\ Root[s][k].first_cluster = c
  BY <1>1 DEF Matches
<1> QED
  BY <1>2 DEF SoundDisk, Clusters

---------------------------------------------------------------------------
(* The invariant holds.                                                    *)

LEMMA Starts == RootStart \in Nat /\ DataStart \in Nat
<1>1. NumFats * FatSectors \in Nat
  BY FileSystemAssumption
<1> QED
  BY <1>1, FileSystemAssumption DEF RootStart, DataStart

LEMMA InitHolds ==
  ASSUME Init, SoundDisk
  PROVE  IInv
<1>1. /\ fat \in FATs /\ lastRead = None /\ astray = FALSE /\ buffer = None
      /\ file = Closed /\ file_system = [d \in Devices |-> FALSE]
      /\ mount_info = [root_offset |-> 0, data_offset |-> 0]
  BY DEF Init
<1>2. file \in Handle /\ file.flags # "file"
  BY <1>1, FileSystemAssumption DEF Closed, Handle
<1>4. file_system \in [Devices -> BOOLEAN] /\ ~file_system["a"]
  BY <1>1, FileSystemAssumption
<1>5. astray \in BOOLEAN
  BY <1>1, Zenon
<1>6. TypeOK
  BY <1>1, <1>2, <1>4, <1>5 DEF TypeOK
<1>7. Mounted
  BY <1>1, <1>2 DEF Mounted
<1> QED
  BY <1>1, <1>2, <1>4, <1>6, <1>7 DEF IInv, ReadFollowsTable, OpenFindsFile

LEMMA MountHolds ==
  ASSUME IInv, SoundDisk, fat_init
  PROVE  IInv'
<1>1. /\ UNCHANGED <<fat, file, buffer, lastRead, opened, astray>>
      /\ file_system' = [file_system EXCEPT !["a"] = TRUE]
      /\ file.flags # "file"
  BY DEF fat_init, IInv
<1>2. mount_info'.root_offset \in Nat /\ mount_info'.data_offset \in Nat
  <2>1. mount_info' = TrueMount \/ mount_info' \in StrayMounts
    BY DEF fat_init, fat_mount
  <2>2. CASE mount_info' = TrueMount
    <3>1. RootStart \in Nat /\ DataStart \in Nat
      BY Starts
    <3> QED
      BY <2>2, <3>1 DEF TrueMount
  <2>3. CASE mount_info' \in StrayMounts
    BY <2>3, FileSystemAssumption DEF StrayMounts
  <2> QED
    BY <2>1, <2>2, <2>3
<1>3. file_system' \in [Devices -> BOOLEAN]
  BY <1>1 DEF IInv, TypeOK
<1>4. TypeOK'
  BY <1>1, <1>3 DEF IInv, TypeOK, Clusters
<1>5. ReadFollowsTable' /\ OpenFindsFile'
  BY <1>1 DEF IInv, ReadFollowsTable, OpenFindsFile
<1>6. Mounted'
  BY <1>1, <1>2 DEF Mounted
<1> QED
  BY <1>1, <1>4, <1>5, <1>6 DEF IInv, Clusters

LEMMA OpenHolds ==
  ASSUME IInv, SoundDisk, NEW path \in Paths, vol_open_file(path)
  PROVE  IInv'
<1>0. /\ UNCHANGED <<fat, file_system, mount_info>> /\ file_system["a"]
      /\ buffer' = None /\ lastRead' = None /\ opened' = path
      /\ fat \in FATs /\ Mounted
  BY DEF vol_open_file, IInv
<1>1. /\ file' \in Handle /\ astray' \in BOOLEAN
      /\ file'.flags = "file" => /\ file_system[file'.device_id]
                                 /\ file'.current_cluster \in EntryValues
      /\ file'.flags = "file" /\ ~astray' => /\ BeginsAt(path.name, file'.current_cluster)
                                             /\ mount_info = TrueMount
  <2>1. CASE file_system[path.device]
    <3>0. PICK ok \in TurnResults : \E h \in fat_open_file(path, ok) :
            file' = [h EXCEPT !.device_id = path.device] /\ astray' = OpenedAstray(path, ok)
      BY <2>1 DEF vol_open_file
    <3>1. PICK h \in fat_open_file(path, ok) :
            file' = [h EXCEPT !.device_id = path.device] /\ astray' = OpenedAstray(path, ok)
      BY <3>0
    <3>2. /\ h \in Handle /\ path.device \in Devices
          /\ h.flags = "file" => h.current_cluster \in EntryValues
          /\ h.flags = "file" /\ ~OpenedAstray(path, ok) => BeginsAt(path.name, h.current_cluster)
      BY <1>0, <3>1, OpenedHandle DEF SoundDisk, Mounted
    <3>3. /\ file' \in Handle /\ file'.flags = h.flags
          /\ file'.current_cluster = h.current_cluster /\ file'.device_id = path.device
      BY <3>1, <3>2 DEF Handle
    <3>4. ~astray' => ~OpenedAstray(path, ok) /\ mount_info = TrueMount
      BY <3>1, Zenon DEF OpenedAstray
    <3>5. astray' \in BOOLEAN
      BY <3>1, Zenon DEF OpenedAstray
    <3> QED
      BY <2>1, <3>2, <3>3, <3>4, <3>5
  <2>2. CASE ~file_system[path.device]
    <3>1. file' \in Invalid /\ astray' = FALSE
      BY <2>2 DEF vol_open_file
    <3>2. astray' \in BOOLEAN
      BY <3>1, Zenon
    <3> QED
      BY <3>1, <3>2, InvalidHandle
  <2> QED
    BY <2>1, <2>2
<1>2. file'.flags = "file" /\ ~astray' => file'.current_cluster \in Clusters \ {0, 1}
  BY <1>0, <1>1, FileIsCluster
<1>3. Clusters' = Clusters
  BY <1>0 DEF Clusters
<1>4. TypeOK'
  BY <1>0, <1>1, <1>2, <1>3 DEF IInv, TypeOK
<1>5. OpenFindsFile'
  BY <1>0, <1>1 DEF OpenFindsFile, BeginsAt, Matches, Turns
<1>6. Mounted'
  BY <1>0, <1>1 DEF Mounted, TrueMount, RootStart, DataStart
<1> QED
  BY <1>0, <1>1, <1>3, <1>4, <1>5, <1>6 DEF IInv, ReadFollowsTable

LEMMA CloseHolds ==
  ASSUME IInv, SoundDisk, vol_close_file
  PROVE  IInv'
<1>1. /\ UNCHANGED <<fat, file_system, mount_info, buffer, lastRead, opened, astray>>
      /\ file' = [file EXCEPT !.flags = "invalid"]
  BY DEF vol_close_file, IInv
<1>2. /\ file' \in Handle /\ file'.flags = "invalid" /\ file'.end = file.end
      /\ file'.current_cluster = file.current_cluster
  BY <1>1 DEF IInv, TypeOK, Handle
<1>3. TypeOK'
  BY <1>1, <1>2 DEF IInv, TypeOK, Clusters
<1>4. ReadFollowsTable' /\ OpenFindsFile'
  BY <1>1, <1>2 DEF IInv, ReadFollowsTable, OpenFindsFile
<1>5. Mounted'
  BY <1>1, <1>2 DEF IInv, Mounted
<1> QED
  BY <1>1, <1>2, <1>3, <1>4, <1>5 DEF IInv, Clusters

\* Where the file is after a read.
LEMMA AdvanceLeaves ==
  ASSUME NEW f \in Handle, NEW next \in EntryValues
  PROVE  /\ Advance(f, next) \in Handle
         /\ Advance(f, next).flags = f.flags /\ Advance(f, next).device_id = f.device_id
         /\ IF next >= EndOfChain \/ next = 0
              THEN Advance(f, next).end = 1 /\ Advance(f, next).current_cluster = f.current_cluster
              ELSE Advance(f, next).end = f.end /\ Advance(f, next).current_cluster = next
<1>0. next \in Nat
  BY Sizes DEF EntryValues
<1>1. CASE next >= EndOfChain \/ next = 0
  BY <1>1 DEF Advance, Handle
<1>2. CASE ~(next >= EndOfChain \/ next = 0)
  BY <1>0, <1>2 DEF Advance, Handle
<1> QED
  BY <1>1, <1>2

LEMMA ReadHolds ==
  ASSUME IInv, SoundDisk, vol_read_file
  PROVE  IInv'
<1> DEFINE c == file.current_cluster
<1>0. /\ UNCHANGED <<fat, file_system, mount_info>> /\ fat \in FATs /\ SoundTable(fat)
      /\ file \in Handle /\ file.flags = "file" /\ file.end = 0
      /\ c \in EntryValues /\ c \in Nat
      /\ file_system["a"] /\ file_system[file.device_id]
      /\ Mounted /\ opened' = opened
  BY Sizes DEF vol_read_file, IInv, TypeOK, SoundDisk, EntryValues
<1>a. PICK ok1 \in BOOLEAN, ok2 \in BOOLEAN, ok3 \in BOOLEAN :
        \E first \in ReadBytes(FatSector(c), ok2), second \in ReadBytes(FatSector(c) + 1, ok3) :
          /\ buffer' = ReadData((c - 2) + mount_info.data_offset, ok1)
          /\ file' = Advance(file, Entry(Window(first, second), c))
          /\ lastRead' = c
          /\ astray' = (astray \/ ~(ok1 /\ ok2 /\ ok3))
  <2>1. ReadResults \subseteq BOOLEAN
    BY DEF ReadResults
  <2>2. fat_read_file
    BY <1>0 DEF vol_read_file
  <2> QED
    BY <2>1, <2>2, Zenon DEF fat_read_file, FatSector, Window
<1>1. PICK first \in ReadBytes(FatSector(c), ok2), second \in ReadBytes(FatSector(c) + 1, ok3) :
        /\ buffer' = ReadData((c - 2) + mount_info.data_offset, ok1)
        /\ file' = Advance(file, Entry(Window(first, second), c))
        /\ lastRead' = c
        /\ astray' = (astray \/ ~(ok1 /\ ok2 /\ ok3))
  BY <1>a, Zenon
<1> DEFINE bytes == Window(first, second)
           next == Entry(bytes, c)
<1>2. bytes \in [0 .. (2 * SectorSize - 1) -> Bytes]
  <2>1. FatSector(c) \in Nat /\ FatSector(c) + 1 \in Nat
    <3>1. (c \div 2) + c \in Nat
      BY <1>0
    <3>2. ((c \div 2) + c) \div SectorSize \in Nat
      BY <3>1, Sizes, QuotientRemainder
    <3> QED
      BY <3>2 DEF FatSector
  <2>2. first \in [0 .. (SectorSize - 1) -> Bytes] /\ second \in [0 .. (SectorSize - 1) -> Bytes]
    BY <1>0, <1>1, <2>1, SectorOfBytes
  <2> QED
    BY <2>2, WindowOfBytes
<1>3. next \in EntryValues
  <2> HIDE DEF bytes
  <2> QED BY <1>0, <1>2, EntryRange
<1>4. ~astray' => ~astray /\ ok1 /\ ok2 /\ ok3
  BY <1>1, Zenon
<1>5. astray' \in BOOLEAN
  BY <1>1, Zenon
<1>6. ~astray' => next = fat[c] /\ c \in Clusters \ {0, 1}
  <2> SUFFICES ASSUME ~astray' PROVE next = fat[c] /\ c \in Clusters \ {0, 1}
    OBVIOUS
  <2>1. c \in Clusters \ {0, 1}
    BY <1>0, <1>4 DEF IInv, TypeOK
  <2>2. first = DiskBytes(FatSector(c)) /\ second = DiskBytes(FatSector(c) + 1)
    BY <1>1, <1>4 DEF ReadBytes
  <2> QED
    BY <1>0, <2>1, <2>2, WindowHoldsEntry
<1>7. /\ buffer' \in Clusters \cup {None, Junk}
      /\ ~astray' => buffer' = c
  <2> DEFINE n == (c - 2) + mount_info.data_offset
  <2>1. DataStart \in Nat
    BY Starts
  <2>2. ~astray' => mount_info.data_offset = DataStart /\ n - DataStart + 2 = c
    <3>1. ~astray' => mount_info.data_offset = DataStart
      BY <1>0, <1>4 DEF Mounted, TrueMount
    <3> QED
      BY <1>0, <2>1, <3>1
  <2>3. DiskData(n) \in Clusters \cup {None}
    BY DEF DiskData
  <2>4. ~astray' /\ c \in Clusters \ {0, 1} => DiskData(n) = c
    <3>1. ~astray' /\ c \notin {0, 1} => n >= DataStart
      BY <1>0, <2>1, <2>2
    <3> QED
      BY <2>2, <3>1 DEF DiskData
  <2>5. buffer' = IF ok1 THEN DiskData(n) ELSE Junk
    BY <1>1 DEF ReadData
  <2> HIDE DEF n, c
  <2> QED
    BY <1>4, <1>6, <2>3, <2>4, <2>5
<1>8. /\ file' \in Handle
      /\ file'.flags = "file" /\ file'.device_id = file.device_id
      /\ IF next >= EndOfChain \/ next = 0
           THEN file'.end = 1 /\ file'.current_cluster = c
           ELSE file'.end = 0 /\ file'.current_cluster = next
  <2>1. file' = Advance(file, next)
    BY <1>1
  <2> HIDE DEF next
  <2> QED
    BY <1>0, <1>3, <2>1, AdvanceLeaves
<1>9. lastRead' = c
  BY <1>1
<1> HIDE DEF next, bytes
<1>10. ~astray' => file'.current_cluster \in Clusters \ {0, 1}
  <2>1. \A d \in Clusters \ {0, 1} : fat[d] >= EndOfChain \/ fat[d] = 0 \/ fat[d] \in Clusters \ {0, 1}
    BY <1>0 DEF SoundTable, Clusters
  <2> HIDE DEF c
  <2> QED
    BY <1>6, <1>8, <2>1
<1>11. TypeOK'
  <2>1. Clusters' = Clusters
    BY <1>0 DEF Clusters
  <2>2. file_system' \in [Devices -> BOOLEAN]
    BY <1>0 DEF IInv, TypeOK
  <2> QED
    BY <1>0, <1>5, <1>7, <1>8, <1>9, <1>10, <2>1, <2>2 DEF TypeOK
<1>12. lastRead' # None
  BY <1>0, <1>9 DEF None
<1>13. ReadFollowsTable'
  <2> SUFFICES ASSUME ~astray'
               PROVE  /\ buffer' = lastRead'
                      /\ IF fat'[lastRead'] >= EndOfChain \/ fat'[lastRead'] = 0
                           THEN file'.end = 1
                           ELSE file'.end = 0 /\ file'.current_cluster = fat'[lastRead']
    BY DEF ReadFollowsTable
  <2>1. fat' = fat /\ next = fat[c]
    BY <1>0, <1>6
  <2> HIDE DEF c
  <2> QED
    BY <1>7, <1>8, <1>9, <2>1
<1>14. OpenFindsFile'
  BY <1>12 DEF OpenFindsFile
<1>15. Mounted' /\ fat' \in FATs
  BY <1>0, <1>4 DEF IInv, Mounted
<1>16. file'.current_cluster \in EntryValues
  <2> HIDE DEF c
  <2> QED BY <1>0, <1>3, <1>8
<1>17. ~astray' => lastRead' \in Clusters'
  BY <1>0, <1>6, <1>9 DEF Clusters
<1> QED
  BY <1>0, <1>8, <1>11, <1>13, <1>14, <1>15, <1>16, <1>17 DEF IInv

LEMMA StepHolds ==
  ASSUME IInv, SoundDisk, [Next]_vars
  PROVE  IInv'
<1>1. CASE UNCHANGED vars
  BY <1>1 DEF IInv, vars, TypeOK, Mounted, ReadFollowsTable, OpenFindsFile, Clusters
<1>2. CASE Next
  BY <1>2, MountHolds, OpenHolds, ReadHolds, CloseHolds DEF Next
<1> QED
  BY <1>1, <1>2

LEMMA Invariant == SoundDisk => (Spec => []IInv)
<1> SUFFICES ASSUME SoundDisk PROVE Spec => []IInv
  OBVIOUS
<1>1. Init => IInv
  BY InitHolds
<1>2. IInv /\ [Next]_vars => IInv'
  BY StepHolds
<1> QED
  BY <1>1, <1>2, PTL DEF Spec

---------------------------------------------------------------------------
(* The theorems.                                                           *)

\* Handle and buffer keep their types, and an open file that is not astray is at
\* a data cluster of the disk: fat_read_file never computes a sector before the
\* data area.
THEOREM TypeCorrect == SoundDisk => (Spec => []TypeOK)
<1> SUFFICES ASSUME SoundDisk PROVE Spec => []TypeOK
  OBVIOUS
<1>1. IInv => TypeOK
  BY DEF IInv
<1> QED
  BY <1>1, Invariant, PTL

\* fat_read_file delivers the data of the file's cluster and goes on to the
\* entry the disk's table has for it, whatever the cluster's parity and wherever
\* in the two sectors the one and a half bytes of the entry lie.
THEOREM ReadsFollowTheTable == SoundDisk => (Spec => []ReadFollowsTable)
<1> SUFFICES ASSUME SoundDisk PROVE Spec => []ReadFollowsTable
  OBVIOUS
<1>1. IInv => ReadFollowsTable
  BY DEF IInv
<1> QED
  BY <1>1, Invariant, PTL

\* What vol_open_file gives out as a file is the first entry of that name in the
\* root directory, at its first cluster, for every directory and path and
\* whichever sectors could not be read, unless the file is astray.
THEOREM OpensTheFile == SoundDisk => (Spec => []OpenFindsFile)
<1> SUFFICES ASSUME SoundDisk PROVE Spec => []OpenFindsFile
  OBVIOUS
<1>1. IInv => OpenFindsFile
  BY DEF IInv
<1> QED
  BY <1>1, Invariant, PTL
===========================================================================
