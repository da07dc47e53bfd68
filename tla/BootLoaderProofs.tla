------------------------- MODULE BootLoaderProofs -------------------------
(***************************************************************************)
(* Proofs about BootLoader, for every placement of code, tables and images *)
(* that keeps apart what has to be apart, and every disk whose images fit. *)
(***************************************************************************)
EXTENDS BootLoader, TLAPS

---------------------------------------------------------------------------
(* The placement.  room[s] is how many clusters stage s has room for.      *)

Stages == {1, 2}

Image(s, room) == ImageBase(s) .. (ImageBase(s) + room[s] - 1)
Root(s) == RootBase(s) .. (RootBase(s) + RootSectors - 1)
FatCells(s) == FatBase(s) .. (FatBase(s) + 2 * FatSectors - 1)

\* Nothing runs into the end of a segment; a stage's code and the stack are
\* not under what is loaded, nor is what is kept for the kernel.  Directory and
\* tables may share cells, and the kernel may be loaded over both.
Layout(room) ==
  /\ room \in [Stages -> Nat]
  /\ \A s \in Stages : /\ ImageBase(s) + room[s] < Segment
                       /\ RootBase(s) + RootSectors < Segment
                       /\ FatBase(s) + 2 * FatSectors < Segment
                       /\ StackCell \notin Image(s, room) \cup Root(s) \cup FatCells(s)
  /\ StackCell \notin {BootCell, SmapCell, SizeCell}
  /\ BootCell \notin Image(1, room) \cup Root(1) \cup FatCells(1)
  /\ \A c \in Image(1, room) : c \notin Image(2, room) \cup Root(2) \cup FatCells(2) \cup {SmapCell, SizeCell}
  /\ SmapCell \notin Image(2, room) \cup Root(2) \cup FatCells(2) \cup {SizeCell}
  /\ SizeCell \notin Image(2, room)

---------------------------------------------------------------------------
(* The disk.                                                               *)

Entries == 0 .. (Nibble * Nibble * Nibble - 1)

\* The byte that the entry of cluster c starts in.
Start(c) == c + (c \div 2)

\* Byte k of the table is in its first copy, where stage s's image is not put.
Survives(k, s, room) ==
  /\ k < FatSectors * SectorSize
  /\ FatBase(s) + (k \div SectorSize) \notin Image(s, room)

\* From cluster first on, table f comes to an end mark within n clusters, and
\* the entries on the way stay in memory while stage s loads.
EndsWithin(f, first, n, s, room) ==
  \E S \in SUBSET DOMAIN f : \E depth \in [S -> 1 .. n] :
    /\ first \in S
    /\ \A c \in S : /\ f[c] >= EndMark \/ (f[c] \in S /\ depth[f[c]] < depth[c])
                    /\ Survives(Start(c), s, room) /\ Survives(Start(c) + 1, s, room)

SoundTable(f) == DOMAIN f \subseteq Entries /\ f \in [DOMAIN f -> Entries]

\* An image that is on a disk fits into its room.  Its chain may run through
\* a cluster that is marked free.
Disks(room) ==
  /\ \A f \in FATs : SoundTable(f)
  /\ \A f \in FATs, d \in Dirs, s \in Stages :
       d[Names[s]] # 0 => EndsWithin(f, d[Names[s]], room[s], s, room)
  /\ BiosMaps \subseteq Seq(Nat)
  /\ \A b \in BiosMaps : Len(b) < HalfWord

---------------------------------------------------------------------------
(* The invariant.                                                          *)

Contents == {"boot", "stack", "junk", "fat", "root", "data", "smap", "size"} \X Nat

Types == /\ fat \in FATs /\ dir \in Dirs /\ bios \in BiosMaps
         /\ stage \in Stages
         /\ mem \in [Cells -> Contents]
         /\ lba \in Nat /\ left \in Nat /\ tries \in 0 .. Retries
         /\ dest \in Cells /\ image \in Cells
         /\ cluster \in Entries
         /\ sectors \in Nat
         /\ smap \in Seq(Nat \ {0})
         /\ chain \in [Stages -> Seq(Entries)]

\* The image is in memory m from cell base on, cluster for cluster.
Held(m, s, base) == \A i \in 1 .. Len(s) : m[base + i - 1] = OnDisk(ClusterLBA(s[i]))

\* The first n sectors of stage s's two copies of the table are in memory.
TableRead(m, s, n) == \A j \in 0 .. (n - 1) : m[FatBase(s) + j] = <<"fat", j % FatSectors>>

\* So is what the image does not cover of the first copy.
TableKept(m, s, room) ==
  \A j \in 0 .. (FatSectors - 1) :
    FatBase(s) + j \notin Image(s, room) => m[FatBase(s) + j] = <<"fat", j>>

\* What has been loaded, and what is to come.
Progress(room) ==
  LET n == Len(chain[stage])
  IN /\ sectors = n
     /\ image = ImageBase(stage) + n
     /\ Path(Append(chain[stage], cluster), Names[stage])
     /\ Held(mem, chain[stage], ImageBase(stage))
     /\ EndsWithin(fat, cluster, room[stage] - n, stage, room)

Complete(room, s) ==
  /\ IsChain(chain[s], Names[s])
  /\ Len(chain[s]) <= room[s]

\* read_sectors at work: for the directory, the tables or a cluster.
Reading(room) ==
  pc = "read" =>
    /\ tries > 0 /\ left > 0
    /\ \/ /\ after = "find"
          /\ dest >= RootBase(stage) /\ dest + left = RootBase(stage) + RootSectors
       \/ /\ after = "load"
          /\ left <= 2 * FatSectors
          /\ lba = Reserved + (2 * FatSectors - left)
          /\ dest = FatBase(stage) + (2 * FatSectors - left)
          /\ TableRead(mem, stage, 2 * FatSectors - left)
          /\ Progress(room) /\ chain[stage] = <<>>
       \/ /\ after = "next" /\ left = 1
          /\ lba = ClusterLBA(cluster) /\ dest = image
          /\ TableKept(mem, stage, room) /\ Progress(room)

Loading(room) ==
  /\ pc \in {"load", "next"} => TableKept(mem, stage, room) /\ Progress(room)
  /\ pc = "next" => dest = image + 1 /\ mem[image] = OnDisk(ClusterLBA(cluster))
  /\ pc = "loaded" => /\ Complete(room, stage) /\ Held(mem, chain[stage], ImageBase(stage))
                      /\ sectors = Len(chain[stage])

\* The memory map, once it has been fetched.
CountHeld(m, n) ==
  /\ n < HalfWord
  /\ \E high \in Leftovers : m[SmapCell] = <<"smap", n + HalfWord * high>>

MapKept == Len(bios) # 1 => Kept(smap, Len(bios)) /\ CountHeld(mem, Len(smap))

MapState ==
  IF stage = 1 \/ pc = "map_first" THEN reported = 0 /\ smap = <<>>
  ELSE IF pc = "map_next" THEN reported \in 1 .. Len(bios) /\ Kept(smap, reported) /\ Len(smap) <= reported
  ELSE MapKept

Code(room) ==
  /\ mem[StackCell] = <<"stack", 0>>
  /\ stage = 1 => mem[BootCell] = <<"boot", 0>> /\ pc \notin {"map_first", "map_next", "kernel"}
  /\ stage = 2 => Complete(room, 1) /\ Held(mem, chain[1], Stage2Base)

Kernel(room) ==
  pc = "kernel" => /\ IsChain(chain[2], "krnl")
                   /\ mem[SizeCell] = <<"size", Len(chain[2])>>
                   /\ kernel = [i \in 1 .. Len(chain[2]) |-> OnDisk(ClusterLBA(chain[2][i]))]

IInv(room) == /\ Types /\ Reading(room) /\ Loading(room)
              /\ MapState /\ Code(room) /\ Kernel(room)

---------------------------------------------------------------------------
(* Arithmetic.                                                             *)

LEMMA QuotientRemainder ==
  ASSUME NEW a \in Nat, NEW d \in Nat \ {0}
  PROVE  /\ a \div d \in Nat
         /\ a % d \in 0 .. (d - 1)
         /\ a = d * (a \div d) + (a % d)
BY SMT

\* Quotient and remainder are the only ones.
LEMMA OnlyQuotient ==
  ASSUME NEW d \in Nat \ {0}, NEW q \in Nat, NEW r \in 0 .. (d - 1), NEW a \in Int, a = d * q + r
  PROVE  a \div d = q /\ a % d = r
<1> DEFINE u == a \div d
           v == a % d
<1>1. d * q \in Nat
  BY SMT
<1>2. u \in Nat /\ v \in 0 .. (d - 1) /\ a = d * u + v
  <2>1. a \in Nat
    BY <1>1
  <2> QED
    BY <2>1, QuotientRemainder
<1> SUFFICES u = q /\ v = r
  OBVIOUS
<1> HIDE DEF u, v
<1>3. CASE u = q
  BY <1>2, <1>3
<1>4. CASE u < q
  <2>1. d * (u + 1) <= d * q /\ d * (u + 1) = d * u + d
    BY <1>2, <1>4
  <2> QED
    BY <1>2, <2>1
<1>5. CASE q < u
  <2>1. d * (q + 1) <= d * u /\ d * (q + 1) = d * q + d
    BY <1>2, <1>5
  <2> QED
    BY <1>2, <2>1
<1> QED
  BY <1>2, <1>3, <1>4, <1>5

\* Two digits make less than the square of the base.
LEMMA TwoDigits ==
  ASSUME NEW n \in Nat \ {0}, NEW x \in 0 .. (n - 1), NEW m \in Nat \ {0}, NEW y \in 0 .. (m - 1)
  PROVE  x + n * y \in 0 .. (n * m - 1)
<1>1. n * y \in Nat /\ n * y <= n * (m - 1) /\ n * (m - 1) = n * m - n /\ n * m \in Nat
  BY SMT
<1> QED
  BY <1>1

\* The three digits of a number make the number.
LEMMA ThreeDigits ==
  ASSUME NEW n \in Nat \ {0}, NEW v \in 0 .. (n * n * n - 1)
  PROVE  /\ v = (v % n) + n * ((v \div n) % n) + (n * n) * ((v \div (n * n)) % n)
         /\ v % n \in 0 .. (n - 1) /\ (v \div n) % n \in 0 .. (n - 1)
         /\ (v \div (n * n)) % n \in 0 .. (n - 1)
<1> DEFINE a == v \div n
           r == v % n
           b == a \div n
           s == a % n
           sq == n * n
<1>0. sq \in Nat \ {0} /\ v \in Nat /\ v < sq * n
  <2>1. n * n \in Nat \ {0}
    BY SMT
  <2>2. (n * n) * n \in Nat
    BY <2>1
  <2> QED
    BY <2>1, <2>2
<1>1. a \in Nat /\ r \in 0 .. (n - 1) /\ v = n * a + r
  BY <1>0, QuotientRemainder
<1>2. b \in Nat /\ s \in 0 .. (n - 1) /\ a = n * b + s
  <2> HIDE DEF a
  <2> QED
    BY <1>1, QuotientRemainder
<1>3. v = sq * b + (r + n * s)
  <2> HIDE DEF a, b, r, s
  <2>1. n * (n * b + s) = (n * n) * b + n * s
    BY <1>1, <1>2
  <2> QED
    BY <1>1, <1>2, <2>1
<1>4. r + n * s \in 0 .. (sq - 1)
  <2> HIDE DEF a, b, r, s
  <2> QED
    BY <1>1, <1>2, TwoDigits
<1>5. v \div sq = b
  <2> DEFINE rest == r + n * s
  <2>1. v = sq * b + rest /\ rest \in 0 .. (sq - 1) /\ v \in Int
    BY <1>0, <1>3, <1>4
  <2> HIDE DEF a, b, r, s, sq, rest
  <2> QED
    BY <1>0, <1>2, <2>1, OnlyQuotient
<1>6. b < n
  <2> HIDE DEF a, b, r, s, sq
  <2> SUFFICES ASSUME b >= n PROVE FALSE
    BY <1>2
  <2>1. sq * b >= sq * n
    BY <1>0, <1>2
  <2> QED
    BY <1>0, <1>3, <1>4, <2>1, <1>2
<1>7. b % n = b
  <2> HIDE DEF a, b, r, s, sq
  <2>1. b = n * 0 + b
    BY <1>2
  <2> QED
    BY <1>2, <1>6, <2>1, OnlyQuotient
<1>8. v = r + n * s + sq * b
  <2> HIDE DEF a, b, r, s, sq
  <2> DEFINE high == sq * b
             mid == n * s
  <2>1. high \in Nat /\ mid \in Nat
    BY <1>0, <1>1, <1>2
  <2>2. v = high + (r + mid)
    BY <1>3
  <2> SUFFICES v = r + mid + high
    OBVIOUS
  <2> HIDE DEF high, mid
  <2> QED
    BY <1>1, <2>1, <2>2
<1> QED
  BY <1>1, <1>2, <1>5, <1>6, <1>7, <1>8

---------------------------------------------------------------------------
(* The table on the disk.                                                  *)

LEMMA Sizes ==
  /\ Nibble \in Nat \ {0} /\ SectorSize \in Nat \ {0}
  /\ Nibble * Nibble \in Nat \ {0}
  /\ Nibble * Nibble * Nibble \in Nat \ {0}
<1>1. Nibble \in Nat \ {0} /\ SectorSize \in Nat \ {0}
  BY LoaderAssumption
<1>2. Nibble * Nibble \in Nat \ {0}
  BY <1>1
<1>3. (Nibble * Nibble) * Nibble \in Nat \ {0}
  <2> DEFINE sq == Nibble * Nibble
  <2> HIDE DEF sq
  <2>1. sq \in Nat \ {0}
    BY <1>2 DEF sq
  <2>2. sq * Nibble \in Nat \ {0}
    BY <1>1, <2>1
  <2> QED
    BY <2>2 DEF sq
<1> QED
  BY <1>1, <1>2, <1>3

\* The nibbles of the entry of a cluster, and those of any byte of the table.
LEMMA NibblesOfEntry ==
  ASSUME SoundTable(fat), NEW c \in DOMAIN fat
  PROVE  /\ fat[c] = NibbleAt(3 * c) + Nibble * NibbleAt(3 * c + 1)
                       + (Nibble * Nibble) * NibbleAt(3 * c + 2)
<1> DEFINE v == fat[c]
<1>1. c \in Nat /\ v \in 0 .. (Nibble * Nibble * Nibble - 1)
  BY Sizes DEF SoundTable, Entries
<1>2. /\ (3 * c) \div 3 = c /\ (3 * c) % 3 = 0
      /\ (3 * c + 1) \div 3 = c /\ (3 * c + 1) % 3 = 1
      /\ (3 * c + 2) \div 3 = c /\ (3 * c + 2) % 3 = 2
  BY <1>1
<1>3. Power(0) = 1 /\ Power(1) = Nibble /\ Power(2) = Nibble * Nibble
  BY DEF Power
<1>4. NibbleAt(3 * c) = v % Nibble
  <2>1. NibbleAt(3 * c) = (v \div 1) % Nibble
    BY <1>2, <1>3 DEF NibbleAt
  <2>2. v \div 1 = v
    BY <1>1, Sizes
  <2> QED
    BY <2>1, <2>2
<1>5. NibbleAt(3 * c + 1) = (v \div Nibble) % Nibble
  BY <1>2, <1>3 DEF NibbleAt
<1>6. NibbleAt(3 * c + 2) = (v \div (Nibble * Nibble)) % Nibble
  BY <1>2, <1>3 DEF NibbleAt
<1> HIDE DEF v
<1>7. v = (v % Nibble) + Nibble * ((v \div Nibble) % Nibble)
            + (Nibble * Nibble) * ((v \div (Nibble * Nibble)) % Nibble)
  BY <1>1, Sizes, ThreeDigits
<1> QED
  BY <1>4, <1>5, <1>6, <1>7 DEF v

LEMMA NibbleRange ==
  ASSUME SoundTable(fat), NEW k \in Nat
  PROVE  NibbleAt(k) \in 0 .. (Nibble - 1)
<1>1. CASE k \div 3 \in DOMAIN fat
  <2> DEFINE v == fat[k \div 3]
             p == Power(k % 3)
  <2>1. v \in Nat
    BY <1>1, Sizes DEF SoundTable, Entries
  <2>2. p \in Nat \ {0}
    BY Sizes DEF Power
  <2>3. NibbleAt(k) = (v \div p) % Nibble
    BY <1>1 DEF NibbleAt
  <2> HIDE DEF v, p
  <2>4. v \div p \in Nat
    BY <2>1, <2>2, QuotientRemainder
  <2> QED
    BY <2>3, <2>4, Sizes, QuotientRemainder
<1>2. CASE k \div 3 \notin DOMAIN fat
  BY <1>2, Sizes DEF NibbleAt
<1> QED
  BY <1>1, <1>2

LEMMA ByteRange ==
  ASSUME SoundTable(fat), NEW k \in Nat
  PROVE  ByteAt(k) \in Bytes
<1> DEFINE x == NibbleAt(2 * k)
           y == NibbleAt(2 * k + 1)
<1>1. 2 * k \in Nat /\ 2 * k + 1 \in Nat
  OBVIOUS
<1>2. x \in 0 .. (Nibble - 1) /\ y \in 0 .. (Nibble - 1)
  BY <1>1, NibbleRange
<1>3. ByteAt(k) = x + Nibble * y
  BY DEF ByteAt
<1> HIDE DEF x, y
<1> QED
  BY <1>2, <1>3, Sizes, TwoDigits DEF Bytes

\* The arithmetic of an entry that starts with a byte's low nibble, and of one
\* that starts with its high nibble.
Joined(n, a, b, c) == a + n * b + (n * n) * c
Packed(n, a, b, c, d) == (a + n * b) + n * n * (c + n * d)
Cube(n) == n * n * n

LEMMA LowFirst ==
  ASSUME NEW n \in Nat \ {0}, NEW a \in Nat, NEW b \in Nat, NEW c \in Nat, NEW d \in Nat, NEW v \in Nat,
         v = Joined(n, a, b, c), v < Cube(n)
  PROVE  Packed(n, a, b, c, d) % Cube(n) = v
<1>a. v = a + n * b + (n * n) * c /\ v \in 0 .. (n * n * n - 1)
  <2>1. n * n * n \in Nat
    BY SMT
  <2> QED
    BY <2>1 DEF Joined, Cube
<1> DEFINE sq == n * n
           cube == n * n * n
           w == (a + n * b) + n * n * (c + n * d)
<1>1. sq \in Nat \ {0} /\ cube = sq * n
  BY SMT
<1>2. cube \in Nat \ {0}
  <2> HIDE DEF sq, cube
  <2> QED
    BY <1>1
<1>3. sq * (c + n * d) = sq * c + cube * d
  <2> HIDE DEF sq, cube
  <2>1. sq * (n * d) = (sq * n) * d
    BY <1>1
  <2>2. n * d \in Nat
    OBVIOUS
  <2>3. sq * (c + n * d) = sq * c + sq * (n * d)
    BY <1>1, <2>2
  <2> QED
    BY <1>1, <2>1, <2>3
<1>4. w = cube * d + v
  <2> DEFINE x == n * b
             y == sq * c
             z == cube * d
  <2>1. x \in Nat /\ y \in Nat /\ z \in Nat
    <3> HIDE DEF sq, cube
    <3> QED BY <1>1, <1>2
  <2>2. w = (a + x) + (y + z) /\ v = a + x + y
    BY <1>3, <1>a
  <2> SUFFICES w = z + v
    OBVIOUS
  <2> HIDE DEF w, x, y, z
  <2> QED
    BY <2>1, <2>2
<1>5. w \in Int /\ v \in 0 .. (cube - 1) /\ cube * d \in Nat
  <2>1. cube * d \in Nat
    <3> HIDE DEF cube
    <3> QED BY <1>2
  <2>2. v \in 0 .. (cube - 1)
    BY <1>a
  <2> QED
    <3> HIDE DEF w, cube
    <3> QED BY <1>2, <1>4, <2>1, <2>2
<1>6. w % cube = v
  <2> HIDE DEF w, cube, sq
  <2>1. d \in Nat /\ w \in Int /\ v \in 0 .. (cube - 1)
    BY <1>5
  <2> QED
    BY ONLY <1>2, <1>4, <2>1, OnlyQuotient
<1> QED
  BY <1>6 DEF Packed, Cube

LEMMA HighFirst ==
  ASSUME NEW n \in Nat \ {0}, NEW x \in 0 .. (n - 1), NEW a \in Nat, NEW b \in Nat, NEW c \in Nat,
         NEW v \in Nat, v = a + n * b + (n * n) * c
  PROVE  ((x + n * a) + n * n * (b + n * c)) \div n = v
<1> DEFINE sq == n * n
           w == (x + n * a) + n * n * (b + n * c)
<1>1. sq \in Nat \ {0}
  BY SMT
<1>2. sq * (b + n * c) = n * (n * b + sq * c)
  <2>1. n * c \in Nat /\ n * b \in Nat /\ sq * c \in Nat
    <3> HIDE DEF sq
    <3> QED BY <1>1
  <2>2. sq * (b + n * c) = n * (n * (b + n * c))
    <3> DEFINE t == b + n * c
    <3>1. t \in Nat
      BY <2>1
    <3> HIDE DEF t
    <3>2. sq * t = n * (n * t)
      BY <3>1
    <3> QED BY <3>2 DEF t
  <2>3. n * (b + n * c) = n * b + sq * c
    <3>1. n * (n * c) = sq * c
      OBVIOUS
    <3> DEFINE t == n * c
    <3>2. t \in Nat
      BY <2>1
    <3>3. n * (b + t) = n * b + n * t
      <4> HIDE DEF t
      <4> QED BY <3>2
    <3> QED BY <3>1, <3>3
  <2> QED
    BY <2>2, <2>3
<1>3. w = n * v + x
  <2> DEFINE h == n * b + sq * c
  <2>1. h \in Nat /\ v = a + h
    <3> DEFINE p == n * b
               q == sq * c
    <3>1. p \in Nat /\ q \in Nat
      <4> HIDE DEF sq
      <4> QED BY <1>1
    <3>2. v = a + p + q /\ h = p + q
      OBVIOUS
    <3> HIDE DEF p, q, h
    <3> QED BY <3>1, <3>2
  <2>2. w = (x + n * a) + n * h
    BY <1>2
  <2> HIDE DEF h, w
  <2>3. n * v = n * a + n * h
    BY <2>1
  <2>4. n * a \in Nat /\ n * h \in Nat
    BY <2>1
  <2> QED
    BY <2>2, <2>3, <2>4
<1>4. n * v \in Nat
  OBVIOUS
<1>5. w \div n = v
  <2> HIDE DEF w
  <2>1. w \in Int
    BY <1>3, <1>4
  <2> QED
    BY <1>3, <2>1, OnlyQuotient
<1> QED
  BY <1>5

\* From the two bytes of an entry the loader makes the entry.
LEMMA EntryUnpacked ==
  ASSUME SoundTable(fat), NEW c \in DOMAIN fat
  PROVE  Entry(ByteAt(Start(c)), ByteAt(Start(c) + 1), c) = fat[c]
<1> DEFINE k == Start(c)
           word == ByteAt(k) + Nibble * Nibble * ByteAt(k + 1)
<1>0. c \in Nat /\ fat[c] \in 0 .. (Nibble * Nibble * Nibble - 1) /\ k \in Nat
  BY Sizes DEF SoundTable, Entries, Start
<1>1. Entry(ByteAt(k), ByteAt(k + 1), c) =
        IF c % 2 = 0 THEN word % (Nibble * Nibble * Nibble) ELSE word \div Nibble
  BY DEF Entry, Start
<1>2. word = (NibbleAt(2 * k) + Nibble * NibbleAt(2 * k + 1))
               + Nibble * Nibble * (NibbleAt(2 * k + 2) + Nibble * NibbleAt(2 * k + 3))
  <2>1. 2 * (k + 1) = 2 * k + 2 /\ 2 * (k + 1) + 1 = 2 * k + 3
    BY <1>0
  <2> QED
    BY <2>1 DEF ByteAt
<1>3. \A m \in Nat : NibbleAt(m) \in Nat /\ NibbleAt(m) \in 0 .. (Nibble - 1)
  BY NibbleRange, Sizes
<1>4. fat[c] = NibbleAt(3 * c) + Nibble * NibbleAt(3 * c + 1) + (Nibble * Nibble) * NibbleAt(3 * c + 2)
  BY NibblesOfEntry
<1> SUFFICES Entry(ByteAt(k), ByteAt(k + 1), c) = fat[c]
  OBVIOUS
<1>5. CASE c % 2 = 0
  <2>1. /\ 2 * k = 3 * c /\ 2 * k + 1 = 3 * c + 1 /\ 2 * k + 2 = 3 * c + 2
        /\ 2 * k \in Nat /\ 2 * k + 1 \in Nat /\ 2 * k + 2 \in Nat /\ 2 * k + 3 \in Nat
    <3>1. \E m \in Nat : c = 2 * m
      BY <1>0, <1>5
    <3>2. PICK m \in Nat : c = 2 * m
      BY <3>1
    <3>3. c \div 2 = m
      BY <3>2
    <3>4. k = 3 * m
      BY <3>2, <3>3 DEF Start
    <3> QED
      BY <3>2, <3>4
  <2> DEFINE a == NibbleAt(2 * k)
             b == NibbleAt(2 * k + 1)
             e == NibbleAt(2 * k + 2)
             d == NibbleAt(2 * k + 3)
  <2>2. a \in Nat /\ b \in Nat /\ e \in Nat /\ d \in Nat
    <3> HIDE DEF k
    <3> QED BY <2>1, <1>3
  <2>3. fat[c] = a + Nibble * b + (Nibble * Nibble) * e
    <3> HIDE DEF k
    <3> QED BY <2>1, <1>4
  <2>4. word = (a + Nibble * b) + Nibble * Nibble * (e + Nibble * d)
    BY <1>2
  <2> DEFINE v == fat[c]
  <2>v. v = Joined(Nibble, a, b, e) /\ v \in Nat /\ v < Cube(Nibble)
    BY <1>0, <2>3, Sizes DEF Joined, Cube
  <2> HIDE DEF a, b, e, d, word, k, v
  <2>5. Packed(Nibble, a, b, e, d) % Cube(Nibble) = v
    <3>1. Nibble \in Nat \ {0}
      BY Sizes
    <3> QED
      BY ONLY <3>1, <2>2, <2>v, LowFirst
  <2> QED
    BY <1>1, <1>5, <2>4, <2>5 DEF v, Packed, Cube
<1>6. CASE c % 2 # 0
  <2>1. /\ 2 * k + 1 = 3 * c /\ 2 * k + 2 = 3 * c + 1 /\ 2 * k + 3 = 3 * c + 2
        /\ 2 * k \in Nat /\ 2 * k + 1 \in Nat /\ 2 * k + 2 \in Nat /\ 2 * k + 3 \in Nat
    BY <1>0, <1>6 DEF Start
  <2> DEFINE x == NibbleAt(2 * k)
             a == NibbleAt(2 * k + 1)
             b == NibbleAt(2 * k + 2)
             e == NibbleAt(2 * k + 3)
  <2>2. x \in 0 .. (Nibble - 1) /\ a \in Nat /\ b \in Nat /\ e \in Nat
    <3> HIDE DEF k
    <3> QED BY <2>1, <1>3
  <2>3. fat[c] = a + Nibble * b + (Nibble * Nibble) * e
    <3> HIDE DEF k
    <3> QED BY <2>1, <1>4
  <2>4. word = (x + Nibble * a) + Nibble * Nibble * (b + Nibble * e)
    BY <1>2
  <2>5. fat[c] \in Nat
    BY <1>0, Sizes
  <2> HIDE DEF x, a, b, e, word, k
  <2>6. ((x + Nibble * a) + Nibble * Nibble * (b + Nibble * e)) \div Nibble = fat[c]
    BY <2>2, <2>3, <2>5, Sizes, HighFirst
  <2> QED
    BY <1>1, <1>6, <2>4, <2>6
<1> QED
  BY <1>5, <1>6

---------------------------------------------------------------------------
(* The disk, and what is read from it.                                     *)

LEMMA Numbers ==
  /\ Reserved \in Nat \ {0} /\ FatSectors \in Nat \ {0} /\ RootSectors \in Nat \ {0}
  /\ SectorsPerTrack \in Nat \ {0} /\ Heads \in Nat \ {0} /\ Segment \in Nat \ {0}
  /\ EndMark \in Nat \ {0} /\ Retries \in Nat \ {0}
  /\ BootCell \in Cells /\ StackCell \in Cells /\ SmapCell \in Cells /\ SizeCell \in Cells
  /\ \A s \in Stages : /\ RootBase(s) \in Cells /\ FatBase(s) \in Cells /\ ImageBase(s) \in Cells
                       /\ RootBase(s) \in Nat /\ FatBase(s) \in Nat /\ ImageBase(s) \in Nat
BY LoaderAssumption DEF Cells, Stages, RootBase, FatBase, ImageBase

\* The BIOS reads the sector that was asked for: LBACHS is undone.
LEMMA SectorAddressed ==
  ASSUME NEW n \in Nat
  PROVE  BiosSector(absoluteTrack(n), absoluteHead(n), absoluteSector(n)) = n
<1> DEFINE q == n \div SectorsPerTrack
           r == n % SectorsPerTrack
           t == q \div Heads
           h == q % Heads
<1>1. q \in Nat /\ r \in Nat /\ n = SectorsPerTrack * q + r
  BY Numbers, QuotientRemainder
<1>2. t \in Nat /\ h \in Nat /\ q = Heads * t + h
  <2>1. Heads \in Nat \ {0} /\ q \in Nat
    BY <1>1, Numbers
  <2> HIDE DEF q
  <2>2. t \in Nat /\ h \in 0 .. (Heads - 1) /\ q = Heads * t + h
    BY <2>1, QuotientRemainder
  <2> QED
    BY <2>1, <2>2
<1>3. BiosSector(absoluteTrack(n), absoluteHead(n), absoluteSector(n))
        = (t * Heads + h) * SectorsPerTrack + (r + 1) - 1
  BY DEF BiosSector, absoluteTrack, absoluteHead, absoluteSector
<1> HIDE DEF q, r, t, h
<1>4. t * Heads + h = q
  BY <1>2, Numbers
<1>5. q * SectorsPerTrack = SectorsPerTrack * q /\ q * SectorsPerTrack \in Nat
  BY <1>1, Numbers
<1> QED
  BY <1>1, <1>3, <1>4, <1>5

LEMMA SectorContents ==
  ASSUME NEW n \in Nat
  PROVE  OnDisk(n) \in Contents
<1>1. RootStart \in Nat /\ datasector \in Nat
  BY Numbers DEF RootStart, datasector
<1>2. CASE n < Reserved
  <2>1. ~(n >= Reserved) /\ ~(n >= RootStart)
    BY <1>2, Numbers DEF RootStart
  <2>2. OnDisk(n) = <<"boot", n>>
    BY <1>2, <2>1 DEF OnDisk
  <2> QED
    BY <2>2 DEF Contents
<1>3. CASE n >= Reserved /\ n < RootStart
  <2>1. OnDisk(n) = <<"fat", (n - Reserved) % FatSectors>>
    <3>1. ~(n < Reserved) /\ ~(n >= RootStart)
      BY <1>1, <1>3, Numbers
    <3> QED
      BY <1>3, <3>1 DEF OnDisk
  <2>2. n - Reserved \in Nat
    BY <1>3, Numbers
  <2>3. (n - Reserved) % FatSectors \in Nat
    BY <2>2, Numbers, QuotientRemainder
  <2> QED
    BY <2>1, <2>3 DEF Contents
<1>4. CASE n >= RootStart /\ n < datasector
  <2>1. OnDisk(n) = <<"root", n - RootStart>>
    BY <1>1, <1>4, Numbers DEF OnDisk, RootStart
  <2> QED
    BY <2>1, <1>1, <1>4 DEF Contents
<1>5. CASE n >= datasector
  <2>1. OnDisk(n) = <<"data", n - datasector + 2>>
    BY <1>1, <1>5, Numbers DEF OnDisk, RootStart, datasector
  <2> QED
    BY <2>1, <1>1, <1>5 DEF Contents
<1> QED
  BY <1>1, <1>2, <1>3, <1>4, <1>5, Numbers

\* The tables, and the data sector of a cluster.
LEMMA TableSector ==
  ASSUME NEW j \in 0 .. (2 * FatSectors - 1)
  PROVE  OnDisk(Reserved + j) = <<"fat", j % FatSectors>>
<1>1. Reserved + j >= Reserved /\ Reserved + j < RootStart /\ (Reserved + j) - Reserved = j
  BY Numbers DEF RootStart
<1>2. ~(Reserved + j < Reserved) /\ ~(Reserved + j >= RootStart)
  BY Numbers DEF RootStart
<1> QED
  BY <1>1, <1>2 DEF OnDisk

LEMMA DataSector ==
  ASSUME NEW c \in Nat
  PROVE  /\ ClusterLBA(c) \in Nat
         /\ c >= 2 => OnDisk(ClusterLBA(c)) = <<"data", c>>
<1>1. /\ RootStart \in Nat /\ datasector \in Nat /\ datasector >= 2
      /\ RootStart <= datasector /\ Reserved <= RootStart
  BY Numbers DEF RootStart, datasector
<1>2. ClusterLBA(c) \in Nat
  BY <1>1 DEF ClusterLBA
<1>3. ASSUME c >= 2 PROVE OnDisk(ClusterLBA(c)) = <<"data", c>>
  <2>1. ClusterLBA(c) >= datasector /\ ClusterLBA(c) - datasector + 2 = c
    BY <1>1, <1>3 DEF ClusterLBA
  <2>2. ~(ClusterLBA(c) < Reserved) /\ ~(ClusterLBA(c) < RootStart) /\ ~(ClusterLBA(c) < datasector)
    BY <1>1, <1>2, <2>1, Numbers
  <2> QED
    BY <2>1, <2>2 DEF OnDisk
<1> QED
  BY <1>2, <1>3

\* One cluster of a chain that comes to an end: its entry stays readable, and
\* what follows it comes to an end one cluster earlier.
LEMMA ChainStep ==
  ASSUME NEW f, NEW c, NEW n \in Int, NEW s \in Stages, NEW room, EndsWithin(f, c, n, s, room)
  PROVE  /\ n >= 1 /\ c \in DOMAIN f
         /\ Survives(Start(c), s, room) /\ Survives(Start(c) + 1, s, room)
         /\ f[c] >= EndMark \/ EndsWithin(f, f[c], n - 1, s, room)
<1>1. PICK S \in SUBSET DOMAIN f : \E depth \in [S -> 1 .. n] :
        /\ c \in S
        /\ \A x \in S : /\ f[x] >= EndMark \/ (f[x] \in S /\ depth[f[x]] < depth[x])
                        /\ Survives(Start(x), s, room) /\ Survives(Start(x) + 1, s, room)
  BY DEF EndsWithin
<1>2. PICK depth \in [S -> 1 .. n] :
        /\ c \in S
        /\ \A x \in S : /\ f[x] >= EndMark \/ (f[x] \in S /\ depth[f[x]] < depth[x])
                        /\ Survives(Start(x), s, room) /\ Survives(Start(x) + 1, s, room)
  BY <1>1
<1>3. depth[c] \in 1 .. n
  BY <1>2
<1>4. ASSUME ~(f[c] >= EndMark) PROVE EndsWithin(f, f[c], n - 1, s, room)
  <2> DEFINE T == {x \in S : depth[x] <= n - 1}
             d == [x \in T |-> depth[x]]
  <2>1. T \in SUBSET DOMAIN f
    OBVIOUS
  <2>2. \A x \in T : depth[x] \in 1 .. (n - 1)
    BY <1>2
  <2>3. d \in [T -> 1 .. (n - 1)]
    BY <2>2
  <2>4. f[c] \in T
    <3>1. f[c] \in S /\ depth[f[c]] < depth[c]
      BY <1>2, <1>4
    <3>2. depth[f[c]] \in 1 .. n
      BY <1>2, <3>1
    <3> QED
      BY <1>3, <3>1, <3>2
  <2>5. \A x \in T : /\ f[x] >= EndMark \/ (f[x] \in T /\ d[f[x]] < d[x])
                     /\ Survives(Start(x), s, room) /\ Survives(Start(x) + 1, s, room)
    <3> SUFFICES ASSUME NEW x \in T
                 PROVE  /\ f[x] >= EndMark \/ (f[x] \in T /\ d[f[x]] < d[x])
                        /\ Survives(Start(x), s, room) /\ Survives(Start(x) + 1, s, room)
      OBVIOUS
    <3>1. Survives(Start(x), s, room) /\ Survives(Start(x) + 1, s, room)
      BY <1>2
    <3>2. ASSUME ~(f[x] >= EndMark) PROVE f[x] \in T /\ d[f[x]] < d[x]
      <4>1. f[x] \in S /\ depth[f[x]] < depth[x]
        BY <1>2, <3>2
      <4>2. depth[f[x]] \in 1 .. n /\ depth[x] \in 1 .. n
        BY <1>2, <4>1
      <4>3. f[x] \in T
        BY <4>1, <4>2
      <4> QED
        BY <4>1, <4>3
    <3> QED
      BY <3>1, <3>2
  <2> HIDE DEF T, d
  <2>6. \E e \in [T -> 1 .. (n - 1)] :
          /\ f[c] \in T
          /\ \A x \in T : /\ f[x] >= EndMark \/ (f[x] \in T /\ e[f[x]] < e[x])
                          /\ Survives(Start(x), s, room) /\ Survives(Start(x) + 1, s, room)
    BY <2>3, <2>4, <2>5
  <2> QED
    BY <2>1, <2>6 DEF EndsWithin
<1> QED
  BY <1>1, <1>2, <1>3, <1>4

\* A byte of the table that the image does not cover is read as it is on the
\* disk.
LEMMA ByteRead ==
  ASSUME NEW room, Types, TableKept(mem, stage, room), NEW k \in Nat, Survives(k, stage, room)
  PROVE  TableByte(k) = {ByteAt(k)}
<1> DEFINE j == k \div SectorSize
           r == k % SectorSize
<1>0. SectorSize \in Nat \ {0} /\ FatSectors \in Nat \ {0}
  BY Sizes, Numbers
<1>1. j \in Nat /\ r \in Nat /\ k = SectorSize * j + r
  <2>1. j \in Nat /\ r \in 0 .. (SectorSize - 1) /\ k = SectorSize * j + r
    BY <1>0, QuotientRemainder
  <2> QED
    BY <1>0, <2>1
<1>2. k < FatSectors * SectorSize /\ FatBase(stage) + j \notin Image(stage, room)
  BY DEF Survives
<1>3. TableByte(k) = LET c == mem[FatBase(stage) + j]
                     IN IF c[1] = "fat" THEN {ByteAt(c[2] * SectorSize + r)} ELSE Bytes
  BY DEF TableByte
<1> HIDE DEF j, r
<1>4. j < FatSectors
  <2> SUFFICES ASSUME FatSectors <= j PROVE FALSE
    BY <1>0, <1>1
  <2>1. SectorSize * j >= FatSectors * SectorSize
    BY <1>0, <1>1
  <2>2. SectorSize * j \in Nat /\ FatSectors * SectorSize \in Nat
    BY <1>0, <1>1
  <2> QED
    BY <1>1, <1>2, <2>1, <2>2
<1>5. mem[FatBase(stage) + j] = <<"fat", j>>
  BY <1>0, <1>1, <1>2, <1>4 DEF TableKept
<1>6. TableByte(k) = {ByteAt(j * SectorSize + r)}
  BY <1>3, <1>5
<1>7. j * SectorSize = SectorSize * j
  BY <1>0, <1>1
<1> QED
  BY <1>1, <1>6, <1>7

\* So the cluster that follows is the one in the table.
LEMMA NextInTable ==
  ASSUME NEW room, Types, SoundTable(fat), TableKept(mem, stage, room), cluster \in DOMAIN fat,
         Survives(Start(cluster), stage, room), Survives(Start(cluster) + 1, stage, room), NextCluster
  PROVE  cluster' = fat[cluster]
<1> DEFINE k == Start(cluster)
<1>1. k \in Nat /\ k + 1 \in Nat
  BY Sizes DEF SoundTable, Entries, Start
<1>2. \E low \in TableByte(k), high \in TableByte(k + 1) : cluster' = Entry(low, high, cluster)
  BY DEF NextCluster, Start
<1> HIDE DEF k
<1>3. TableByte(k) = {ByteAt(k)} /\ TableByte(k + 1) = {ByteAt(k + 1)}
  BY <1>1, ByteRead DEF k
<1>4. cluster' = Entry(ByteAt(k), ByteAt(k + 1), cluster)
  BY <1>2, <1>3
<1> QED
  BY <1>4, EntryUnpacked DEF k

---------------------------------------------------------------------------
(* Memory.                                                                 *)

LEMMA PutCell ==
  ASSUME NEW m \in [Cells -> Contents], NEW c \in Cells, NEW x \in Contents
  PROVE  /\ Put(m, c, x) \in [Cells -> Contents]
         /\ Put(m, c, x)[c] = x
         /\ \A d \in Cells : d # c => Put(m, c, x)[d] = m[d]
BY DEF Put

LEMMA OtherCell ==
  ASSUME NEW m \in [Cells -> Contents], NEW c \in Cells, NEW x, NEW d \in Cells, d # c
  PROVE  Put(m, c, x)[d] = m[d]
BY DEF Put

\* An image stays where it was put when another cell is written.
LEMMA HeldOver ==
  ASSUME NEW m \in [Cells -> Contents], NEW c \in Cells, NEW x \in Contents,
         NEW s, Len(s) \in Nat, NEW base \in Nat, NEW n \in Nat, Len(s) <= n, base + n <= Segment,
         c \notin base .. (base + n - 1), Held(m, s, base)
  PROVE  Held(Put(m, c, x), s, base)
<1> SUFFICES ASSUME NEW i \in 1 .. Len(s)
             PROVE  Put(m, c, x)[base + i - 1] = OnDisk(ClusterLBA(s[i]))
  BY DEF Held
<1>1. base + i - 1 \in base .. (base + n - 1) /\ base + i - 1 \in Cells
  BY Numbers DEF Cells
<1> DEFINE d == base + i - 1
<1>2. d \in Cells /\ d # c
  BY <1>1
<1>3. Put(m, c, x)[d] = m[d]
  <2> HIDE DEF d
  <2> QED
    BY <1>2, PutCell
<1> QED
  BY <1>3 DEF Held

\* What the running stage may write to while it loads.
LEMMA Elsewhere ==
  ASSUME NEW room, Layout(room), stage \in Stages,
         NEW c \in Image(stage, room) \cup Root(stage) \cup FatCells(stage)
  PROVE  /\ c \in Cells /\ c # StackCell
         /\ stage = 1 => c # BootCell
         /\ stage = 2 => c \notin Image(1, room) /\ c # SmapCell
<1>1. /\ RootBase(stage) \in Nat /\ FatBase(stage) \in Nat /\ ImageBase(stage) \in Nat
      /\ Segment \in Nat /\ RootSectors \in Nat /\ FatSectors \in Nat /\ room[stage] \in Nat
      /\ ImageBase(stage) + room[stage] < Segment
      /\ RootBase(stage) + RootSectors < Segment
      /\ FatBase(stage) + 2 * FatSectors < Segment
  BY Numbers DEF Layout
<1>2. c \in Cells
  BY <1>1 DEF Image, Root, FatCells, Cells
<1>3. c # StackCell /\ (stage = 1 => c # BootCell)
  BY DEF Layout
<1>4. stage = 2 => c \notin Image(1, room) /\ c # SmapCell
  BY DEF Layout
<1> QED
  BY <1>2, <1>3, <1>4

\* Writing there leaves the running code and the memory map alone.
LEMMA CodeOver ==
  ASSUME NEW room, Layout(room), Types, Code(room), NEW c \in Cells, NEW x \in Contents,
         c # StackCell, stage = 1 => c # BootCell, stage = 2 => c \notin Image(1, room),
         mem' = Put(mem, c, x), UNCHANGED <<fat, dir, stage, chain>>,
         stage = 1 => pc' \notin {"map_first", "map_next", "kernel"}
  PROVE  Code(room)'
<1>1. mem \in [Cells -> Contents]
  BY DEF Types
<1>2. mem'[StackCell] = <<"stack", 0>>
  <2>1. StackCell \in Cells
    BY Numbers
  <2>2. Put(mem, c, x)[StackCell] = mem[StackCell]
    BY <1>1, <2>1, OtherCell
  <2> QED
    BY <2>2 DEF Code
<1>3. ASSUME stage = 1 PROVE mem'[BootCell] = <<"boot", 0>>
  <2>1. BootCell \in Cells /\ BootCell # c
    BY <1>3, Numbers
  <2>2. Put(mem, c, x)[BootCell] = mem[BootCell]
    BY <1>1, <2>1, OtherCell
  <2> QED
    BY <1>3, <2>2 DEF Code
<1>4. ASSUME stage = 2 PROVE Complete(room, 1)' /\ Held(mem', chain'[1], Stage2Base)
  <2>1. Complete(room, 1) /\ Held(mem, chain[1], Stage2Base)
    BY <1>4 DEF Code
  <2>2. Complete(room, 1)'
    BY <2>1 DEF Complete, IsChain, Path
  <2>3. /\ Stage2Base \in Nat /\ room[1] \in Nat /\ Stage2Base + room[1] <= Segment
        /\ Len(chain[1]) \in Nat /\ Len(chain[1]) <= room[1]
        /\ c \notin Stage2Base .. (Stage2Base + room[1] - 1)
    <3>1. ImageBase(1) = Stage2Base /\ 1 \in Stages
      BY DEF ImageBase, Stages
    <3>2. Stage2Base + room[1] < Segment /\ room[1] \in Nat
      BY <3>1 DEF Layout
    <3>3. Stage2Base \in Nat /\ Segment \in Nat
      BY <3>1, Numbers
    <3>4. c \notin Stage2Base .. (Stage2Base + room[1] - 1)
      BY <1>4, <3>1 DEF Image
    <3>5. chain[1] \in Seq(Entries)
      BY <3>1 DEF Types
    <3>6. Len(chain[1]) \in Nat /\ Len(chain[1]) <= room[1]
      BY <2>1, <3>5 DEF Complete
    <3> QED
      BY <3>2, <3>3, <3>4, <3>6
  <2>4. Held(Put(mem, c, x), chain[1], Stage2Base)
    BY <1>1, <2>1, <2>3, HeldOver
  <2> QED
    BY <2>2, <2>4
<1> QED
  BY <1>2, <1>3, <1>4 DEF Code

LEMMA KeptStays ==
  ASSUME UNCHANGED <<bios, smap>>
  PROVE  /\ Kept(smap, Len(bios)) <=> Kept(smap, Len(bios))'
         /\ UNCHANGED reported => (Kept(smap, reported) <=> Kept(smap, reported)')
BY DEF Kept

LEMMA MapOver ==
  ASSUME Types, MapKept, NEW c \in Cells, NEW x \in Contents, c # SmapCell,
         mem' = Put(mem, c, x), UNCHANGED <<bios, smap>>
  PROVE  MapKept'
<1>1. mem'[SmapCell] = mem[SmapCell]
  <2>1. SmapCell \in Cells /\ mem \in [Cells -> Contents]
    BY Numbers DEF Types
  <2> QED
    BY <2>1, OtherCell
<1> QED
  BY <1>1, KeptStays DEF MapKept, CountHeld

\* Where the next cluster goes.
LEMMA NextPlace ==
  ASSUME NEW room, Layout(room), Types, Progress(room)
  PROVE  /\ Len(chain[stage]) \in Nat /\ Len(chain[stage]) < room[stage]
         /\ room[stage] \in Nat /\ ImageBase(stage) \in Nat
         /\ image = ImageBase(stage) + Len(chain[stage])
         /\ image \in Image(stage, room)
         /\ image + 1 < Segment
<1> DEFINE n == Len(chain[stage])
<1>1. stage \in Stages /\ chain[stage] \in Seq(Entries)
  BY DEF Types
<1>2. n \in Nat /\ room[stage] \in Nat /\ ImageBase(stage) \in Nat /\ Segment \in Nat
  BY <1>1, Numbers DEF Layout
<1>3. EndsWithin(fat, cluster, room[stage] - n, stage, room) /\ image = ImageBase(stage) + n
  BY DEF Progress
<1>4. ImageBase(stage) + room[stage] < Segment
  BY <1>1 DEF Layout
<1> HIDE DEF n
<1>5. room[stage] - n \in Int
  BY <1>2
<1>6. room[stage] - n >= 1
  BY <1>1, <1>3, <1>5, ChainStep
<1>7. image \in Image(stage, room) /\ image + 1 < Segment /\ n < room[stage]
  BY <1>2, <1>3, <1>4, <1>6 DEF Image
<1> QED
  BY <1>2, <1>3, <1>7 DEF n

LEMMA NoWrap ==
  ASSUME NEW c \in Nat, NEW d \in Nat, c < d
  PROVE  c % d = c
OBVIOUS

---------------------------------------------------------------------------
(* read_sectors.                                                           *)

LEMMA DestInRegion ==
  ASSUME NEW room, Layout(room), Types, Reading(room), pc = "read"
  PROVE  /\ dest \in Image(stage, room) \cup Root(stage) \cup FatCells(stage)
         /\ left > 1 => dest + 1 < Segment
<1>1. stage \in Stages /\ left \in Nat /\ dest \in Nat
  BY Numbers DEF Types, Cells
<1>2. /\ RootBase(stage) \in Nat /\ FatBase(stage) \in Nat /\ RootSectors \in Nat /\ FatSectors \in Nat
      /\ RootBase(stage) + RootSectors < Segment
      /\ FatBase(stage) + 2 * FatSectors < Segment /\ Segment \in Nat
  BY <1>1, Numbers DEF Layout
<1>3. CASE /\ after = "find" /\ left > 0
           /\ dest >= RootBase(stage) /\ dest + left = RootBase(stage) + RootSectors
  BY <1>1, <1>2, <1>3 DEF Root
<1>4. CASE /\ left <= 2 * FatSectors /\ left > 0
           /\ dest = FatBase(stage) + (2 * FatSectors - left)
  BY <1>1, <1>2, <1>4 DEF FatCells
<1>5. CASE left = 1 /\ dest = image /\ Progress(room)
  BY <1>5, NextPlace
<1> QED
  BY <1>3, <1>4, <1>5 DEF Reading

LEMMA ReadSectorTypes ==
  ASSUME NEW room, Layout(room), Types, Reading(room), ReadSector
  PROVE  Types' /\ mem' = Put(mem, dest, OnDisk(lba)) /\ OnDisk(lba) \in Contents /\ dest \in Cells
<1>1. pc = "read" /\ lba \in Nat /\ left \in Nat /\ dest \in Cells /\ mem \in [Cells -> Contents]
  BY DEF ReadSector, Types
<1>2. left > 0
  BY <1>1 DEF Reading
<1>3. mem' = Put(mem, dest, OnDisk(lba))
  BY <1>1, SectorAddressed DEF ReadSector
<1>4. OnDisk(lba) \in Contents
  BY <1>1, SectorContents
<1>5. mem' \in [Cells -> Contents]
  BY <1>1, <1>3, <1>4, PutCell
<1>6. dest' \in Cells
  <2>1. dest + 1 \in Nat /\ Segment \in Nat \ {0}
    BY <1>1, Numbers DEF Cells
  <2>2. (dest + 1) % Segment \in 0 .. (Segment - 1)
    BY <2>1, QuotientRemainder
  <2> QED
    BY <2>2 DEF ReadSector, Cells
<1>7. lba' \in Nat /\ left' \in Nat /\ tries' \in 0 .. Retries
  BY <1>1, <1>2, Numbers DEF ReadSector
<1>8. UNCHANGED <<fat, dir, bios, stage, image, cluster, sectors, smap, chain>>
  BY DEF ReadSector, disk, map
<1> QED
  BY <1>1, <1>3, <1>4, <1>5, <1>6, <1>7, <1>8 DEF Types

\* The next sector of the root directory.
LEMMA ReadRootSector ==
  ASSUME NEW room, Layout(room), Types, Reading(room), ReadSector, after = "find"
  PROVE  Reading(room)' /\ Loading(room)'
<1>1. /\ pc = "read" /\ left > 0
      /\ dest >= RootBase(stage) /\ dest + left = RootBase(stage) + RootSectors
  BY DEF ReadSector, Reading
<1>2. /\ left' = left - 1 /\ dest' = (dest + 1) % Segment /\ tries' = Retries
      /\ pc' = (IF left = 1 THEN "find" ELSE "read") /\ after' = "find" /\ stage' = stage
  BY DEF ReadSector
<1>3. /\ stage \in Stages /\ left \in Nat /\ dest \in Nat /\ Segment \in Nat /\ Retries > 0
      /\ RootBase(stage) \in Nat /\ RootSectors \in Nat
  BY Numbers DEF Types, Cells
<1>4. CASE left = 1
  BY <1>2, <1>4 DEF Reading, Loading
<1>5. CASE left # 1
  <2>1. left > 1 /\ dest + 1 < Segment
    BY <1>1, <1>3, <1>5, DestInRegion
  <2>2. dest' = dest + 1
    BY <1>2, <1>3, <2>1
  <2>3. /\ tries' > 0 /\ left' > 0 /\ after' = "find"
        /\ dest' >= RootBase(stage)' /\ dest' + left' = RootBase(stage)' + RootSectors
    BY <1>1, <1>2, <1>3, <2>1, <2>2
  <2>4. pc' = "read"
    BY <1>2, <1>5
  <2> QED
    BY <2>3, <2>4 DEF Reading, Loading
<1> QED
  BY <1>4, <1>5

\* The next sector of the tables.
LEMMA ReadTableSector ==
  ASSUME NEW room, Layout(room), Types, Reading(room), ReadSector, after = "load"
  PROVE  Reading(room)' /\ Loading(room)'
<1> DEFINE n == 2 * FatSectors - left
<1>1. /\ pc = "read" /\ left > 0 /\ left <= 2 * FatSectors
      /\ lba = Reserved + n /\ dest = FatBase(stage) + n
      /\ TableRead(mem, stage, n)
      /\ Progress(room) /\ chain[stage] = <<>>
  BY DEF ReadSector, Reading
<1>2. /\ left' = left - 1 /\ dest' = (dest + 1) % Segment /\ tries' = Retries /\ lba' = lba + 1
      /\ pc' = (IF left = 1 THEN "load" ELSE "read") /\ after' = "load"
      /\ UNCHANGED <<fat, dir, stage, cluster, image, sectors, chain>>
  BY DEF ReadSector, disk
<1>3. /\ stage \in Stages /\ left \in Nat /\ dest \in Nat /\ Segment \in Nat /\ Retries > 0
      /\ FatBase(stage) \in Nat /\ FatSectors \in Nat /\ FatSectors > 0 /\ Reserved \in Nat
      /\ FatBase(stage) + 2 * FatSectors < Segment /\ mem \in [Cells -> Contents]
  BY Numbers DEF Types, Cells, Layout
<1>4. n \in Nat /\ n \in 0 .. (2 * FatSectors - 1)
  BY <1>1, <1>3
<1>5. mem' = Put(mem, dest, OnDisk(lba)) /\ OnDisk(lba) \in Contents /\ dest \in Cells
  BY ReadSectorTypes
<1>6. TableRead(mem', stage, n + 1)
  <2> SUFFICES ASSUME NEW j \in 0 .. n
               PROVE  mem'[FatBase(stage) + j] = <<"fat", j % FatSectors>>
    BY <1>4 DEF TableRead
  <2>1. CASE j = n
    BY <1>1, <1>3, <1>4, <1>5, <2>1, PutCell, TableSector
  <2>2. CASE j # n
    <3> DEFINE d == FatBase(stage) + j
    <3>1. d \in Cells /\ d # dest /\ j \in 0 .. (n - 1)
      BY <1>1, <1>3, <1>4, <2>2 DEF Cells
    <3>2. mem'[d] = mem[d]
      <4> HIDE DEF d
      <4> QED
        BY <1>3, <1>5, <3>1, OtherCell
    <3> QED
      BY <1>1, <3>1, <3>2 DEF TableRead
  <2> QED
    BY <2>1, <2>2
<1>7. Progress(room)' /\ chain'[stage'] = <<>>
  <2>1. Held(mem', <<>>, ImageBase(stage))
    BY DEF Held
  <2>2. Path(Append(chain[stage], cluster), Names[stage])'
    BY <1>1, <1>2 DEF Progress, Path
  <2> QED
    BY <1>1, <1>2, <2>1, <2>2 DEF Progress
<1>8. CASE left = 1
  <2>1. TableKept(mem', stage', room)
    <3> SUFFICES ASSUME NEW j \in 0 .. (FatSectors - 1)
                 PROVE  mem'[FatBase(stage) + j] = <<"fat", j>>
      BY <1>2 DEF TableKept
    <3>1. j \in 0 .. n /\ j % FatSectors = j
      BY <1>3, <1>8
    <3> QED
      BY <1>4, <1>6, <3>1 DEF TableRead
  <2> QED
    BY <1>2, <1>7, <1>8, <2>1 DEF Reading, Loading
<1>9. CASE left # 1
  <2>1. left > 1 /\ dest + 1 < Segment
    BY <1>1, <1>3, <1>9, DestInRegion
  <2>2. dest' = dest + 1
    BY <1>2, <1>3, <2>1
  <2>3. /\ left' <= 2 * FatSectors /\ left' > 0 /\ tries' > 0
        /\ 2 * FatSectors - left' = n + 1
        /\ lba' = Reserved + (n + 1) /\ dest' = FatBase(stage) + (n + 1)
    BY <1>1, <1>2, <1>3, <2>1, <2>2
  <2>4. TableRead(mem', stage', 2 * FatSectors - left')
    BY <1>2, <1>6, <2>3
  <2>5. pc' = "read" /\ after' = "load"
    BY <1>2, <1>9
  <2> HIDE DEF n
  <2>6. Reading(room)'
    BY <1>2, <1>7, <2>3, <2>4, <2>5 DEF Reading
  <2> QED
    BY <2>5, <2>6 DEF Loading
<1> QED
  BY <1>8, <1>9

\* A cluster of the image.
LEMMA ReadCluster ==
  ASSUME NEW room, Layout(room), Types, Reading(room), ReadSector, after = "next"
  PROVE  Reading(room)' /\ Loading(room)'
<1>1. /\ pc = "read" /\ left = 1 /\ lba = ClusterLBA(cluster) /\ dest = image
      /\ TableKept(mem, stage, room) /\ Progress(room)
  BY DEF ReadSector, Reading
<1>2. /\ dest' = (dest + 1) % Segment /\ pc' = "next"
      /\ UNCHANGED <<fat, dir, stage, cluster, image, sectors, chain>>
  BY <1>1 DEF ReadSector, disk
<1>3. mem' = Put(mem, image, OnDisk(lba)) /\ OnDisk(lba) \in Contents /\ image \in Cells
  BY <1>1, ReadSectorTypes
<1>4. /\ Len(chain[stage]) \in Nat /\ Len(chain[stage]) < room[stage]
      /\ room[stage] \in Nat /\ ImageBase(stage) \in Nat
      /\ image = ImageBase(stage) + Len(chain[stage])
      /\ image \in Image(stage, room) /\ image + 1 < Segment
  BY <1>1, NextPlace
<1>5. Segment \in Nat /\ stage \in Stages /\ mem \in [Cells -> Contents]
      /\ FatBase(stage) \in Nat /\ FatSectors \in Nat /\ FatBase(stage) + 2 * FatSectors < Segment
  BY Numbers DEF Types, Layout
<1>6. dest' = image' + 1 /\ mem'[image'] = OnDisk(ClusterLBA(cluster'))
  <2>1. (image + 1) % Segment = image + 1
    <3>1. image + 1 \in Nat
      BY <1>4
    <3> QED
      BY <1>4, <1>5, <3>1, NoWrap
  <2>2. mem'[image] = OnDisk(lba)
    BY <1>3, <1>5, PutCell
  <2> QED
    BY <1>1, <1>2, <2>1, <2>2
<1>7. TableKept(mem', stage', room)
  <2> SUFFICES ASSUME NEW j \in 0 .. (FatSectors - 1), FatBase(stage) + j \notin Image(stage, room)
               PROVE  mem'[FatBase(stage) + j] = <<"fat", j>>
    BY <1>2 DEF TableKept
  <2> DEFINE d == FatBase(stage) + j
  <2>1. d \in Cells /\ d # image
    BY <1>4, <1>5 DEF Cells
  <2>2. mem'[d] = mem[d]
    <3> HIDE DEF d
    <3> QED
      BY <1>3, <1>5, <2>1, OtherCell
  <2> QED
    BY <1>1, <2>2 DEF TableKept
<1>8. Held(mem', chain[stage], ImageBase(stage))
  <2> DEFINE s == chain[stage]
             base == ImageBase(stage)
             n == Len(chain[stage])
  <2>1. Held(mem, s, base)
    BY <1>1 DEF Progress
  <2>2. base + n <= Segment /\ image \notin base .. (base + n - 1)
    BY <1>4, <1>5
  <2>3. Len(s) \in Nat /\ n \in Nat /\ Len(s) <= n /\ base \in Nat
    BY <1>4
  <2> HIDE DEF s, base, n
  <2>4. Held(Put(mem, image, OnDisk(lba)), s, base)
    BY <1>3, <1>5, <2>1, <2>2, <2>3, HeldOver
  <2> QED
    BY <1>3, <2>4 DEF s, base
<1>9. Progress(room)'
  <2>1. Path(Append(chain[stage], cluster), Names[stage])'
    BY <1>1, <1>2 DEF Progress, Path
  <2> QED
    BY <1>1, <1>2, <1>8, <2>1 DEF Progress
<1> QED
  BY <1>2, <1>6, <1>7, <1>9 DEF Reading, Loading

LEMMA ReadSectorStep ==
  ASSUME NEW room, Layout(room), IInv(room), ReadSector
  PROVE  IInv(room)'
<1>1. pc = "read" /\ pc' \in {"read", after} /\ after \in {"find", "load", "next"}
  BY DEF IInv, ReadSector, Reading
<1>2. UNCHANGED <<fat, dir, bios, stage, chain, reported, smap>>
  BY DEF ReadSector, disk, map
<1>3. Types' /\ mem' = Put(mem, dest, OnDisk(lba)) /\ OnDisk(lba) \in Contents /\ dest \in Cells
  BY ReadSectorTypes DEF IInv
<1>4. Reading(room)' /\ Loading(room)'
  BY <1>1, ReadRootSector, ReadTableSector, ReadCluster DEF IInv
<1>5. /\ dest # StackCell /\ (stage = 1 => dest # BootCell)
      /\ stage = 2 => dest \notin Image(1, room) /\ dest # SmapCell
  BY <1>1, DestInRegion, Elsewhere DEF IInv, Types
<1>6. pc' \notin {"map_first", "map_next", "kernel"}
  BY <1>1
<1>7. Code(room)'
  BY <1>2, <1>3, <1>5, <1>6, CodeOver DEF IInv
<1>8. MapState'
  <2>1. CASE stage = 1
    BY <1>2, <2>1 DEF IInv, MapState
  <2>2. CASE stage = 2
    <3>1. MapKept
      BY <1>1, <2>2 DEF IInv, MapState
    <3>2. MapKept'
      BY <1>2, <1>3, <1>5, <2>2, <3>1, MapOver DEF IInv
    <3> QED
      BY <1>2, <1>6, <2>2, <3>2 DEF MapState
  <2> QED
    BY <2>1, <2>2 DEF IInv, Types, Stages
<1>9. Kernel(room)'
  BY <1>6 DEF Kernel
<1> QED
  BY <1>3, <1>4, <1>7, <1>8, <1>9 DEF IInv

LEMMA ReadFailsStep ==
  ASSUME NEW room, IInv(room), ReadFails
  PROVE  IInv(room)'
<1>1. /\ pc = "read" /\ tries' = tries - 1 /\ pc' = (IF tries = 1 THEN "no_boot" ELSE "read")
      /\ UNCHANGED <<fat, dir, bios, stage, after, mem, lba, left, dest, cluster, image, sectors,
                     reported, smap, kernel, chain>>
  BY DEF ReadFails, disk, map
<1>2. tries > 0 /\ tries \in 0 .. Retries
  BY <1>1 DEF IInv, Reading, Types
<1>3. tries' \in 0 .. Retries
  BY <1>1, <1>2, Numbers
<1>4. Types'
  BY <1>1, <1>3 DEF IInv, Types
<1>5. Reading(room)'
  <2>1. CASE tries = 1
    BY <1>1, <2>1 DEF Reading
  <2>2. CASE tries # 1
    <3>1. tries' > 0
      BY <1>1, <1>2, <2>2
    <3>2. Progress(room)' <=> Progress(room)
      BY <1>1 DEF Progress, Path
    <3> QED
      BY <1>1, <3>1, <3>2 DEF IInv, Reading
  <2> QED
    BY <2>1, <2>2
<1>6. Loading(room)'
  BY <1>1 DEF Loading
<1>7. MapState'
  BY <1>1, KeptStays DEF IInv, MapState, MapKept
<1>8. Code(room)'
  BY <1>1 DEF IInv, Code, Complete, IsChain, Path
<1>9. Kernel(room)'
  BY <1>1 DEF Kernel
<1> QED
  BY <1>4, <1>5, <1>6, <1>7, <1>8, <1>9 DEF IInv

---------------------------------------------------------------------------
(* load_root, find_image, load_FAT, load_image.                            *)

\* The steps that leave memory alone keep the code and the memory map.
LEMMA Untouched ==
  ASSUME NEW room, Code(room), MapState, stage \in Stages,
         UNCHANGED <<fat, dir, bios, stage, mem, chain, reported, smap>>,
         pc \notin {"map_first", "map_next"}, pc' \notin {"map_first", "map_next", "kernel"}
  PROVE  Code(room)' /\ MapState'
<1>1. Code(room)'
  BY DEF Code, Complete, IsChain, Path
<1>2. MapState'
  BY KeptStays DEF MapState, MapKept
<1> QED
  BY <1>1, <1>2

LEMMA load_rootStep ==
  ASSUME NEW room, Layout(room), IInv(room), load_root
  PROVE  IInv(room)'
<1>1. /\ pc = "root" /\ pc' = "read" /\ after' = "find" /\ lba' = RootStart /\ left' = RootSectors
      /\ dest' = RootBase(stage) /\ tries' = Retries
      /\ UNCHANGED <<fat, dir, bios, stage, mem, cluster, image, sectors, reported, smap, kernel, chain>>
  BY DEF load_root, read_sectors, disk, map
<1>2. stage \in Stages
  BY DEF IInv, Types
<1>3. /\ RootBase(stage) \in Cells /\ RootBase(stage) \in Nat /\ RootStart \in Nat
      /\ RootSectors \in Nat /\ RootSectors > 0 /\ Retries \in Nat /\ Retries > 0
  BY <1>2, Numbers DEF RootStart
<1>4. Types'
  <2>1. tries' \in 0 .. Retries
    BY <1>1, <1>3
  <2> QED
    BY <1>1, <1>3, <2>1 DEF IInv, Types
<1>5. Reading(room)'
  BY <1>1, <1>3 DEF Reading
<1>6. Loading(room)' /\ Kernel(room)'
  BY <1>1 DEF Loading, Kernel
<1>7. Code(room)' /\ MapState'
  BY <1>1, <1>2, Untouched DEF IInv
<1> QED
  BY <1>4, <1>5, <1>6, <1>7 DEF IInv

LEMMA ImageMissingStep ==
  ASSUME NEW room, IInv(room), ImageMissing
  PROVE  IInv(room)'
<1>1. /\ pc = "find" /\ pc' = "reboot"
      /\ UNCHANGED <<fat, dir, bios, stage, mem, after, lba, left, dest, tries, cluster, image, sectors,
                     reported, smap, kernel, chain>>
  BY DEF ImageMissing, disk, map, job
<1>2. stage \in Stages
  BY DEF IInv, Types
<1>3. Types'
  BY <1>1 DEF IInv, Types
<1>4. Reading(room)' /\ Loading(room)' /\ Kernel(room)'
  BY <1>1 DEF Reading, Loading, Kernel
<1>5. Code(room)' /\ MapState'
  BY <1>1, <1>2, Untouched DEF IInv
<1> QED
  BY <1>3, <1>4, <1>5 DEF IInv

\* The first cluster is a path of one cluster, and nothing is loaded yet.
LEMMA load_FATStep ==
  ASSUME NEW room, Layout(room), Disks(room), IInv(room), load_FAT
  PROVE  IInv(room)'
<1>1. /\ pc = "find" /\ dir[Names[stage]] # 0 /\ cluster' = dir[Names[stage]]
      /\ image' = ImageBase(stage) /\ sectors' = 0 /\ chain' = [chain EXCEPT ![stage] = <<>>]
      /\ pc' = "read" /\ after' = "load" /\ lba' = Reserved /\ left' = 2 * FatSectors
      /\ dest' = FatBase(stage) /\ tries' = Retries
      /\ UNCHANGED <<fat, dir, bios, stage, mem, reported, smap, kernel>>
  BY DEF load_FAT, read_sectors, disk, map
<1>2. stage \in Stages /\ fat \in FATs /\ dir \in Dirs /\ chain \in [Stages -> Seq(Entries)]
  BY DEF IInv, Types
<1>3. /\ FatBase(stage) \in Cells /\ FatBase(stage) \in Nat /\ ImageBase(stage) \in Cells
      /\ ImageBase(stage) \in Nat /\ Reserved \in Nat /\ FatSectors \in Nat /\ FatSectors > 0
      /\ Retries \in Nat /\ Retries > 0 /\ room[stage] \in Nat
  BY <1>2, Numbers DEF Layout
<1>4. EndsWithin(fat, cluster', room[stage], stage, room)
  BY <1>1, <1>2 DEF Disks
<1>5. cluster' \in DOMAIN fat /\ cluster' \in Entries
  <2>1. cluster' \in DOMAIN fat
    <3>1. room[stage] \in Int
      BY <1>3
    <3> QED
      BY <1>2, <1>4, <3>1, ChainStep
  <2> QED
    BY <1>2, <2>1 DEF Disks, SoundTable
<1>6. /\ chain' \in [Stages -> Seq(Entries)] /\ chain'[stage] = <<>>
      /\ \A s \in Stages \ {stage} : chain'[s] = chain[s]
  BY <1>1, <1>2
<1>7. Types'
  <2>1. tries' \in 0 .. Retries /\ left' \in Nat
    BY <1>1, <1>3
  <2> QED
    BY <1>1, <1>3, <1>5, <1>6, <2>1 DEF IInv, Types
<1>8. Progress(room)'
  <2>1. Len(chain'[stage]) = 0 /\ Append(chain'[stage], cluster') = <<cluster'>>
    BY <1>6
  <2>2. Path(Append(chain[stage], cluster), Names[stage])'
    <3> DEFINE s == <<cluster'>>
    <3>1. s # <<>> /\ Len(s) = 1 /\ s[1] = cluster'
      OBVIOUS
    <3>2. (\A i \in 1 .. Len(s) : i = 1) /\ 1 .. (Len(s) - 1) = {}
      BY <3>1
    <3> HIDE DEF s
    <3>3. Append(chain'[stage'], cluster') = s
      BY <1>1, <2>1 DEF s
    <3> QED
      BY <1>1, <1>5, <3>1, <3>2, <3>3 DEF Path
  <2>3. Held(mem', chain'[stage], ImageBase(stage))
    BY <1>6 DEF Held
  <2>4. room[stage] - 0 = room[stage] /\ ImageBase(stage) + 0 = ImageBase(stage)
    BY <1>3
  <2> QED
    BY <1>1, <1>4, <2>1, <2>2, <2>3, <2>4 DEF Progress
<1>9. Reading(room)'
  <2>1. TableRead(mem', stage, 0)
    BY DEF TableRead
  <2>2. 2 * FatSectors - 2 * FatSectors = 0 /\ 2 * FatSectors > 0
    BY <1>3
  <2>3. Reserved + 0 = Reserved /\ FatBase(stage) + 0 = FatBase(stage)
    BY <1>3
  <2> QED
    BY <1>1, <1>3, <1>6, <1>8, <2>1, <2>2, <2>3 DEF Reading
<1>10. Loading(room)' /\ Kernel(room)'
  BY <1>1 DEF Loading, Kernel
<1>11. Code(room)'
  <2>1. stage = 2 => chain'[1] = chain[1]
    BY <1>6 DEF Stages
  <2> QED
    BY <1>1, <2>1 DEF IInv, Code, Complete, IsChain, Path
<1>12. MapState'
  BY <1>1, KeptStays DEF IInv, MapState, MapKept
<1> QED
  BY <1>7, <1>9, <1>10, <1>11, <1>12 DEF IInv

LEMMA load_imageStep ==
  ASSUME NEW room, Layout(room), IInv(room), load_image
  PROVE  IInv(room)'
<1>1. /\ pc = "load" /\ pc' = "read" /\ after' = "next" /\ lba' = ClusterLBA(cluster) /\ left' = 1
      /\ dest' = image /\ tries' = Retries
      /\ UNCHANGED <<fat, dir, bios, stage, mem, cluster, image, sectors, reported, smap, kernel, chain>>
  BY DEF load_image, read_sectors, disk, map
<1>2. stage \in Stages /\ cluster \in Nat
  BY Sizes DEF IInv, Types, Entries
<1>3. Types'
  <2>1. tries' \in 0 .. Retries /\ left' \in Nat
    BY <1>1, Numbers
  <2>2. lba' \in Nat
    BY <1>1, <1>2, DataSector
  <2> QED
    BY <1>1, <2>1, <2>2 DEF IInv, Types
<1>4. Reading(room)'
  <2>1. TableKept(mem, stage, room) /\ Progress(room)
    BY <1>1 DEF IInv, Loading
  <2>2. Progress(room)'
    BY <1>1, <2>1 DEF Progress, Path
  <2>3. tries' > 0 /\ left' > 0
    BY <1>1, Numbers
  <2> QED
    BY <1>1, <2>1, <2>2, <2>3 DEF Reading
<1>5. Loading(room)' /\ Kernel(room)'
  BY <1>1 DEF Loading, Kernel
<1>6. Code(room)' /\ MapState'
  BY <1>1, <1>2, Untouched DEF IInv
<1> QED
  BY <1>3, <1>4, <1>5, <1>6 DEF IInv

\* A cluster more of the path: the table says where it leads, or that it ends.
LEMMA PathGrows ==
  ASSUME NEW s \in Seq(Entries), NEW name, NEW c \in Entries, Path(Append(s, c), name)
  PROVE  /\ fat[c] >= EndMark => IsChain(Append(s, c), name)
         /\ fat[c] \in DOMAIN fat /\ fat[c] < EndMark => Path(Append(Append(s, c), fat[c]), name)
<1> DEFINE t == Append(s, c)
           n == Len(t)
           u == Append(t, fat[c])
<1>1. t \in Seq(Entries) /\ n \in Nat /\ n > 0 /\ t[n] = c
  OBVIOUS
<1>2. fat[c] >= EndMark => IsChain(t, name)
  BY <1>1 DEF IsChain
<1>3. ASSUME fat[c] \in DOMAIN fat, fat[c] < EndMark PROVE Path(u, name)
  <2> DEFINE A == Entries \cup {fat[c]}
  <2>0. t \in Seq(A) /\ fat[c] \in A
    BY <1>1
  <2>1. /\ Len(u) = n + 1 /\ u[n + 1] = fat[c] /\ \A i \in 1 .. n : u[i] = t[i]
    <3> HIDE DEF t, A
    <3> QED
      BY <2>0, <1>1
  <2>2. /\ t[1] = dir[name] /\ \A i \in 1 .. n : t[i] \in DOMAIN fat
        /\ \A i \in 1 .. (n - 1) : t[i + 1] = fat[t[i]] /\ fat[t[i]] < EndMark
    BY DEF Path
  <2> HIDE DEF t, u, n
  <2>3. u # <<>> /\ u[1] = dir[name]
    <3>1. Len(u) # 0
      BY <1>1, <2>1
    <3> QED
      BY <1>1, <2>1, <2>2, <3>1
  <2>4. \A i \in 1 .. Len(u) : u[i] \in DOMAIN fat
    BY <1>1, <1>3, <2>1, <2>2
  <2>5. ASSUME NEW i \in 1 .. (Len(u) - 1) PROVE u[i + 1] = fat[u[i]] /\ fat[u[i]] < EndMark
    <3>1. CASE i = n
      BY <1>1, <1>3, <2>1, <3>1
    <3>2. CASE i # n
      <4>1. i \in 1 .. (n - 1) /\ i \in 1 .. n /\ i + 1 \in 1 .. n
        BY <1>1, <2>1, <3>2
      <4> QED
        BY <2>1, <2>2, <4>1
    <3> QED
      BY <3>1, <3>2
  <2> QED
    BY <2>3, <2>4, <2>5 DEF Path
<1> QED
  BY <1>2, <1>3

\* The image with one cluster more.
LEMMA HeldGrows ==
  ASSUME NEW m, NEW s \in Seq(Entries), NEW c \in Entries, NEW base \in Nat,
         Held(m, s, base), m[base + Len(s)] = OnDisk(ClusterLBA(c))
  PROVE  Held(m, Append(s, c), base)
<1> DEFINE t == Append(s, c)
<1>1. Len(s) \in Nat /\ Len(t) = Len(s) + 1 /\ t[Len(s) + 1] = c /\ \A i \in 1 .. Len(s) : t[i] = s[i]
  OBVIOUS
<1> HIDE DEF t
<1>2. ASSUME NEW i \in 1 .. Len(t) PROVE m[base + i - 1] = OnDisk(ClusterLBA(t[i]))
  <2>1. CASE i = Len(s) + 1
    <3>1. base + i - 1 = base + Len(s)
      BY <1>1, <2>1
    <3> QED
      BY <1>1, <2>1, <3>1
  <2>2. CASE i # Len(s) + 1
    <3>1. i \in 1 .. Len(s)
      BY <1>1, <2>2
    <3> QED
      BY <1>1, <3>1 DEF Held
  <2> QED
    BY <2>1, <2>2
<1> QED
  BY <1>2 DEF Held, t

LEMMA NextClusterStep ==
  ASSUME NEW room, Layout(room), Disks(room), IInv(room), NextCluster
  PROVE  IInv(room)'
<1> DEFINE s == chain[stage]
           n == Len(chain[stage])
<1>1. /\ pc = "next" /\ sectors' = sectors + 1 /\ image' = dest
      /\ pc' = (IF cluster' < EndMark THEN "load" ELSE "loaded")
      /\ chain' = [chain EXCEPT ![stage] = Append(chain[stage], cluster)]
      /\ UNCHANGED <<fat, dir, bios, stage, mem, after, lba, left, dest, tries, reported, smap, kernel>>
  BY DEF NextCluster, disk, map, job
<1>2. /\ stage \in Stages /\ fat \in FATs /\ chain \in [Stages -> Seq(Entries)]
      /\ s \in Seq(Entries) /\ cluster \in Entries /\ dest \in Cells /\ SoundTable(fat)
  BY DEF IInv, Types, Disks
<1>3. /\ TableKept(mem, stage, room) /\ Progress(room)
      /\ dest = image + 1 /\ mem[image] = OnDisk(ClusterLBA(cluster))
  BY <1>1 DEF IInv, Loading
<1>4. /\ n \in Nat /\ n < room[stage] /\ room[stage] \in Nat /\ ImageBase(stage) \in Nat
      /\ image = ImageBase(stage) + n
  BY <1>3, NextPlace DEF IInv
<1>5. /\ sectors = n /\ Path(Append(s, cluster), Names[stage]) /\ Held(mem, s, ImageBase(stage))
      /\ EndsWithin(fat, cluster, room[stage] - n, stage, room)
  BY <1>3 DEF Progress
<1>6. /\ cluster \in DOMAIN fat
      /\ Survives(Start(cluster), stage, room) /\ Survives(Start(cluster) + 1, stage, room)
      /\ fat[cluster] >= EndMark \/ EndsWithin(fat, fat[cluster], (room[stage] - n) - 1, stage, room)
  <2>1. room[stage] - n \in Int
    BY <1>4
  <2> HIDE DEF n
  <2> QED
    BY <1>2, <1>5, <2>1, ChainStep
<1>7. cluster' = fat[cluster] /\ cluster' \in Entries /\ EndMark \in Nat /\ cluster' \in Nat
  <2>1. cluster' = fat[cluster]
    BY <1>2, <1>3, <1>6, NextInTable DEF IInv
  <2>2. fat[cluster] \in Entries
    BY <1>2, <1>6 DEF SoundTable
  <2>3. fat[cluster] \in Nat
    BY <2>2, Sizes DEF Entries
  <2> QED
    BY <2>1, <2>2, <2>3, Numbers
<1>8. /\ chain' \in [Stages -> Seq(Entries)] /\ chain'[stage] = Append(s, cluster)
      /\ \A x \in Stages \ {stage} : chain'[x] = chain[x]
  <2>1. Append(s, cluster) \in Seq(Entries)
    BY <1>2
  <2> QED
    BY <1>1, <1>2, <2>1
<1>9. Len(chain'[stage]) = n + 1
  BY <1>2, <1>8
<1>10. Types'
  <2>1. sectors' \in Nat
    BY <1>1, <1>4, <1>5
  <2> QED
    BY <1>1, <1>2, <1>7, <1>8, <2>1 DEF IInv, Types
<1>11. Held(mem', chain'[stage], ImageBase(stage))
  <2>1. mem[ImageBase(stage) + Len(s)] = OnDisk(ClusterLBA(cluster))
    BY <1>3, <1>4
  <2> HIDE DEF s
  <2>2. Held(mem, Append(s, cluster), ImageBase(stage))
    BY <1>2, <1>4, <1>5, <2>1, HeldGrows DEF s
  <2> QED
    BY <1>1, <1>8, <2>2
<1>12. sectors' = n + 1 /\ image' = ImageBase(stage) + (n + 1)
  BY <1>1, <1>3, <1>4, <1>5
<1>13. Loading(room)'
  <2>1. CASE cluster' < EndMark
    <3>1. EndsWithin(fat, cluster', room[stage] - (n + 1), stage, room)
      <4>1. ~(fat[cluster] >= EndMark) /\ (room[stage] - n) - 1 = room[stage] - (n + 1)
        BY <1>4, <1>7, <2>1
      <4> QED
        BY <1>6, <1>7, <4>1
    <3>2. cluster' \in DOMAIN fat
      <4>1. room[stage] - (n + 1) \in Int
        BY <1>4
      <4> HIDE DEF n
      <4> QED
        BY <1>2, <3>1, <4>1, ChainStep
    <3>3. Path(Append(chain[stage], cluster), Names[stage])'
      <4> HIDE DEF s
      <4>1. Path(Append(Append(s, cluster), fat[cluster]), Names[stage])
        BY <1>2, <1>5, <1>7, <2>1, <3>2, PathGrows
      <4> QED
        BY <1>1, <1>7, <1>8, <4>1 DEF Path
    <3>4. Progress(room)'
      <4> HIDE DEF n
      <4> QED
        BY <1>1, <1>9, <1>11, <1>12, <3>1, <3>3 DEF Progress
    <3> QED
      BY <1>1, <1>3, <2>1, <3>4 DEF Loading
  <2>2. CASE ~(cluster' < EndMark)
    <3>1. IsChain(Append(s, cluster), Names[stage])
      <4>1. fat[cluster] >= EndMark
        BY <1>7, <2>2
      <4> HIDE DEF s
      <4> QED
        BY <1>2, <1>5, <4>1, PathGrows
    <3>2. Complete(room, stage)'
      <4>1. n + 1 <= room[stage]
        BY <1>4
      <4>2. IsChain(chain[stage], Names[stage])'
        BY <1>1, <1>8, <3>1 DEF IsChain, Path
      <4> QED
        BY <1>1, <1>9, <4>1, <4>2 DEF Complete
    <3> QED
      BY <1>1, <1>9, <1>11, <1>12, <2>2, <3>2 DEF Loading
  <2> QED
    BY <2>1, <2>2
<1>14. Code(room)'
  <2>1. stage = 2 => chain'[1] = chain[1]
    BY <1>8 DEF Stages
  <2> QED
    BY <1>1, <2>1 DEF IInv, Code, Complete, IsChain, Path
<1>15. MapState'
  BY <1>1, KeptStays DEF IInv, MapState, MapKept
<1>16. Reading(room)' /\ Kernel(room)'
  BY <1>1 DEF Reading, Kernel
<1> QED
  BY <1>10, <1>13, <1>14, <1>15, <1>16 DEF IInv

---------------------------------------------------------------------------
(* From stage 1 to stage 2, and the memory map.                            *)

LEMMA EnterStage2Step ==
  ASSUME NEW room, IInv(room), EnterStage2
  PROVE  IInv(room)'
<1>1. /\ pc = "loaded" /\ stage = 1 /\ stage' = 2 /\ pc' = "map_first"
      /\ UNCHANGED <<fat, dir, bios, mem, after, lba, left, dest, tries, cluster, image, sectors,
                     reported, smap, kernel, chain>>
  BY DEF EnterStage2, disk, map, job
<1>2. Types'
  BY <1>1 DEF IInv, Types, Stages
<1>3. Reading(room)' /\ Loading(room)' /\ Kernel(room)'
  BY <1>1 DEF Reading, Loading, Kernel
<1>4. MapState'
  BY <1>1 DEF IInv, MapState
<1>5. Code(room)'
  <2>1. Complete(room, 1) /\ Held(mem, chain[1], Stage2Base)
    BY <1>1 DEF IInv, Loading, ImageBase
  <2>2. Complete(room, 1)' /\ Held(mem', chain'[1], Stage2Base)
    BY <1>1, <2>1 DEF Complete, IsChain, Path
  <2> QED
    BY <1>1, <2>2 DEF IInv, Code
<1> QED
  BY <1>2, <1>3, <1>4, <1>5 DEF IInv

LEMMA KeptBy ==
  ASSUME NEW s, NEW n, NEW at \in [1 .. Len(s) -> 1 .. n],
         \A i, j \in 1 .. Len(s) : i < j => at[i] < at[j],
         \A k \in 1 .. n : bios[k] # 0 <=> \E i \in 1 .. Len(s) : at[i] = k,
         \A i \in 1 .. Len(s) : s[i] = bios[at[i]]
  PROVE  Kept(s, n)
BY DEF Kept

LEMMA KeptMoves ==
  ASSUME NEW s, NEW n, Kept(s, n), smap' = s, reported' = n, bios' = bios
  PROVE  Kept(smap, reported)'
BY DEF Kept

\* One more entry looked at: kept at the end unless it is empty.
LEMMA KeepEntryKeeps ==
  ASSUME Types, bios \in Seq(Nat), reported \in Nat, reported < Len(bios), Kept(smap, reported),
         KeepEntry, bios' = bios
  PROVE  Kept(smap, reported)' /\ smap' \in Seq(Nat \ {0}) /\ reported' = reported + 1
<1> DEFINE k == reported + 1
           x == bios[k]
           n == Len(smap)
<1>1. smap \in Seq(Nat \ {0}) /\ n \in Nat /\ x \in Nat /\ k \in Nat
  BY DEF Types
<1>2. reported' = k /\ smap' = (IF x = 0 THEN smap ELSE Append(smap, x))
  BY DEF KeepEntry
<1>3. PICK at \in [1 .. n -> 1 .. reported] :
        /\ \A i, j \in 1 .. n : i < j => at[i] < at[j]
        /\ \A e \in 1 .. reported : bios[e] # 0 <=> \E i \in 1 .. n : at[i] = e
        /\ \A i \in 1 .. n : smap[i] = bios[at[i]]
  BY DEF Kept
<1>4. \A e \in 1 .. k : e \in 1 .. reported \/ e = k
  OBVIOUS
<1>5. \A i \in 1 .. n : at[i] \in 1 .. reported /\ at[i] \in 1 .. k /\ at[i] < k
  BY <1>3
<1>6. CASE x = 0
  <2>1. at \in [1 .. n -> 1 .. k]
    BY <1>3, <1>5
  <2>2. \A e \in 1 .. k : bios[e] # 0 <=> \E i \in 1 .. n : at[i] = e
    <3> SUFFICES ASSUME NEW e \in 1 .. k PROVE bios[e] # 0 <=> \E i \in 1 .. n : at[i] = e
      OBVIOUS
    <3>1. CASE e \in 1 .. reported
      BY <1>3, <3>1
    <3>2. CASE e = k
      BY <1>5, <1>6, <3>2
    <3> QED
      BY <1>4, <3>1, <3>2
  <2>3. smap' = smap
    BY <1>2, <1>6
  <2> HIDE DEF k
  <2>4. Kept(smap, k)
    BY <1>3, <2>1, <2>2, KeptBy
  <2>5. Kept(smap, reported)'
    BY <1>2, <2>3, <2>4, KeptMoves
  <2> QED
    BY <1>1, <1>2, <2>3, <2>5 DEF k
<1>7. CASE x # 0
  <2> DEFINE t == Append(smap, x)
             new == [i \in 1 .. (n + 1) |-> IF i = n + 1 THEN k ELSE at[i]]
  <2>1. t \in Seq(Nat \ {0}) /\ Len(t) = n + 1 /\ t[n + 1] = x /\ \A i \in 1 .. n : t[i] = smap[i]
    <3>1. x \in Nat \ {0}
      BY <1>1, <1>7
    <3> HIDE DEF x
    <3> QED
      BY <1>1, <3>1
  <2>2. smap' = t
    BY <1>2, <1>7
  <2>3. \A i \in 1 .. (n + 1) : i \in 1 .. n \/ i = n + 1
    BY <1>1
  <2>4. new \in [1 .. (n + 1) -> 1 .. k] /\ new[n + 1] = k /\ \A i \in 1 .. n : new[i] = at[i]
    <3>1. k \in 1 .. k /\ n + 1 \in 1 .. (n + 1)
      BY <1>1
    <3>2. \A i \in 1 .. n : i # n + 1 /\ i \in 1 .. (n + 1)
      BY <1>1
    <3> QED
      BY <1>5, <2>3, <3>1, <3>2
  <2> HIDE DEF t, new
  <2>5. \A i, j \in 1 .. (n + 1) : i < j => new[i] < new[j]
    <3> SUFFICES ASSUME NEW i \in 1 .. (n + 1), NEW j \in 1 .. (n + 1), i < j PROVE new[i] < new[j]
      OBVIOUS
    <3>1. i \in 1 .. n
      BY <1>1
    <3>2. CASE j = n + 1
      BY <1>5, <2>4, <3>1, <3>2
    <3>3. CASE j \in 1 .. n
      BY <1>3, <2>4, <3>1, <3>3
    <3> QED
      BY <2>3, <3>2, <3>3
  <2>6. \A e \in 1 .. k : bios[e] # 0 <=> \E i \in 1 .. (n + 1) : new[i] = e
    <3> SUFFICES ASSUME NEW e \in 1 .. k PROVE bios[e] # 0 <=> \E i \in 1 .. (n + 1) : new[i] = e
      OBVIOUS
    <3>0. n + 1 \in 1 .. (n + 1) /\ \A i \in 1 .. n : i \in 1 .. (n + 1)
      BY <1>1
    <3>1. CASE e \in 1 .. reported
      <4>1. e # k
        BY <3>1
      <4>2. (\E i \in 1 .. (n + 1) : new[i] = e) <=> (\E i \in 1 .. n : at[i] = e)
        BY <2>3, <2>4, <3>0, <4>1
      <4> QED
        BY <1>3, <3>1, <4>2
    <3>2. CASE e = k
      BY <1>7, <2>4, <3>0, <3>2
    <3> QED
      BY <1>4, <3>1, <3>2
  <2>7. \A i \in 1 .. (n + 1) : t[i] = bios[new[i]]
    BY <1>3, <2>1, <2>3, <2>4
  <2> HIDE DEF k, n
  <2>8. Kept(t, k)
    <3> DEFINE m == Len(t)
    <3>1. /\ new \in [1 .. m -> 1 .. k] /\ \A i, j \in 1 .. m : i < j => new[i] < new[j]
          /\ \A e \in 1 .. k : bios[e] # 0 <=> \E i \in 1 .. m : new[i] = e
          /\ \A i \in 1 .. m : t[i] = bios[new[i]]
      BY <2>1, <2>4, <2>5, <2>6, <2>7
    <3> QED
      BY <3>1, KeptBy
  <2>9. Kept(smap, reported)'
    <3>1. smap' = t /\ reported' = k /\ bios' = bios
      BY <1>2, <2>2
    <3> QED
      BY <2>8, <3>1, KeptMoves
  <2> QED
    BY <1>2, <2>1, <2>2, <2>9 DEF k
<1> QED
  BY <1>6, <1>7

LEMMA NothingKept ==
  ASSUME bios \in Seq(Nat)
  PROVE  Kept(<<>>, 0)
<1> DEFINE at == [i \in {} |-> 0]
<1>1. 1 .. 0 = {} /\ Len(<<>>) = 0
  OBVIOUS
<1>2. at \in [{} -> {}]
  OBVIOUS
<1> QED
  BY <1>1, <1>2 DEF Kept

\* The count is stored where it disturbs nothing.
LEMMA CountStored ==
  ASSUME NEW room, Layout(room), IInv(room), stage = 2, NEW n \in Nat, n < HalfWord, pc' = "root",
         StoreCount(n),
         UNCHANGED <<disk, stage, job, cluster, image, sectors, map, kernel, chain>>
  PROVE  Types' /\ Reading(room)' /\ Loading(room)' /\ Code(room)' /\ Kernel(room)'
         /\ CountHeld(mem', n)
<1>0. PICK high \in Leftovers : mem' = Put(mem, SmapCell, <<"smap", (n % HalfWord) + HalfWord * high>>)
  BY DEF StoreCount
<1> DEFINE v == n + HalfWord * high
<1>a. v \in Nat /\ mem' = Put(mem, SmapCell, <<"smap", v>>)
  <2>1. HalfWord \in Nat /\ high \in Nat
    BY LoaderAssumption
  <2>2. n % HalfWord = n
    BY <2>1
  <2>3. v \in Nat
    BY <2>1
  <2> QED
    BY <1>0, <2>2, <2>3
<1> HIDE DEF v
<1>1. UNCHANGED <<fat, dir, bios, after, lba, left, dest, tries, cluster, image, sectors,
                  reported, smap, chain>>
  BY DEF disk, job, map
<1>2. SmapCell \in Cells /\ <<"smap", v>> \in Contents /\ mem \in [Cells -> Contents]
  BY <1>a, Numbers DEF Contents, IInv, Types
<1>3. mem' \in [Cells -> Contents] /\ mem'[SmapCell] = <<"smap", v>>
  BY <1>a, <1>2, PutCell
<1>4. Types'
  BY <1>1, <1>3 DEF IInv, Types
<1>5. SmapCell # StackCell /\ SmapCell \notin Image(1, room)
  BY DEF Layout
<1>6. Code(room)'
  <2>1. UNCHANGED <<fat, dir, stage, chain>>
    BY <1>1
  <2> QED
    BY <1>a, <1>2, <1>5, <2>1, CodeOver DEF IInv
<1>7. CountHeld(mem', n)
  BY <1>3 DEF CountHeld, v
<1> QED
  BY <1>4, <1>6, <1>7 DEF Reading, Loading, Kernel

LEMMA MapErrorStep ==
  ASSUME NEW room, Layout(room), Disks(room), IInv(room), MapError
  PROVE  IInv(room)'
<1>1. /\ pc = "map_first" /\ Len(bios) < 2 /\ pc' = "root"
      /\ StoreCount(0)
      /\ UNCHANGED <<disk, stage, job, cluster, image, sectors, map, kernel, chain>>
  BY DEF MapError
<1>2. stage = 2 /\ smap = <<>> /\ reported = 0 /\ bios \in Seq(Nat)
  BY <1>1 DEF IInv, Code, Types, Stages, MapState, Disks
<1>a. 0 < HalfWord
  <2>1. bios \in BiosMaps
    BY DEF IInv, Types
  <2>2. Len(bios) < HalfWord /\ Len(bios) \in Nat /\ HalfWord \in Nat
    BY <1>2, <2>1, LoaderAssumption DEF Disks
  <2> QED
    BY <2>2
<1>3. Types' /\ Reading(room)' /\ Loading(room)' /\ Code(room)' /\ Kernel(room)'
      /\ CountHeld(mem', 0)
  BY <1>1, <1>2, <1>a, CountStored
<1>4. bios' = bios /\ smap' = <<>>
  BY <1>1, <1>2 DEF disk, map
<1>5. MapKept'
  <2>1. ASSUME Len(bios) # 1 PROVE Len(bios) = 0
    <3>1. Len(bios) \in Nat
      BY <1>2
    <3>2. Len(bios) < 2
      BY <1>1
    <3>3. \A n \in Nat : n < 2 /\ n # 1 => n = 0
      OBVIOUS
    <3> QED
      BY <2>1, <3>1, <3>2, <3>3, Zenon
  <2>2. Kept(<<>>, 0)
    BY <1>2, NothingKept
  <2>3. Len(<<>>) = 0
    OBVIOUS
  <2>4. ASSUME Len(bios) # 1 PROVE Kept(smap, Len(bios))
    BY <1>2, <2>1, <2>2, <2>4
  <2>5. Len(bios) # 1 => Kept(smap, Len(bios))'
    BY <1>2, <1>4, <2>4, KeptStays
  <2> QED
    BY <1>3, <1>4, <2>3, <2>5 DEF MapKept
<1>6. MapState'
  BY <1>1, <1>2, <1>5 DEF MapState
<1> QED
  BY <1>3, <1>6 DEF IInv

\* Both steps that look at an entry.
LEMMA EntryStep ==
  ASSUME NEW room, Disks(room), IInv(room), stage = 2, pc \in {"map_first", "map_next"}, pc' = "map_next",
         reported < Len(bios), KeepEntry,
         UNCHANGED <<disk, stage, mem, job, cluster, image, sectors, kernel, chain>>
  PROVE  IInv(room)'
<1>1. UNCHANGED <<fat, dir, bios, after, lba, left, dest, tries, cluster, image, sectors, stage, mem, chain>>
  BY DEF disk, job
<1>2. Types /\ bios \in Seq(Nat)
  BY DEF IInv, Types, Disks
<1>3. reported \in Nat /\ Kept(smap, reported)
  <2>1. CASE pc = "map_first"
    <3>1. reported = 0 /\ smap = <<>>
      BY <2>1 DEF IInv, MapState
    <3> QED
      BY <1>2, <3>1, NothingKept
  <2>2. CASE pc = "map_next"
    BY <1>2, <2>2 DEF IInv, MapState
  <2> QED
    BY <2>1, <2>2
<1>4. Kept(smap, reported)' /\ smap' \in Seq(Nat \ {0}) /\ reported' = reported + 1
  BY <1>1, <1>2, <1>3, KeepEntryKeeps
<1>a. Len(smap') <= reported'
  <2>1. smap \in Seq(Nat \ {0})
    BY <1>2 DEF Types
  <2>2. Len(smap) <= reported
    BY <1>3 DEF IInv, MapState
  <2>3. Len(smap') = Len(smap) \/ Len(smap') = Len(smap) + 1
    BY <2>1 DEF KeepEntry
  <2> QED
    BY <1>3, <1>4, <2>1, <2>2, <2>3
<1>5. Types'
  BY <1>1, <1>4 DEF IInv, Types
<1>6. MapState'
  <2>1. reported' \in 1 .. Len(bios')
    BY <1>1, <1>2, <1>3, <1>4
  <2> QED
    BY <1>1, <1>4, <1>a, <2>1 DEF MapState
<1>7. Reading(room)' /\ Loading(room)' /\ Kernel(room)'
  BY DEF Reading, Loading, Kernel
<1>8. Code(room)'
  BY <1>1 DEF IInv, Code, Complete, IsChain, Path
<1> QED
  BY <1>5, <1>6, <1>7, <1>8 DEF IInv

LEMMA MapFirstStep ==
  ASSUME NEW room, Disks(room), IInv(room), MapFirst
  PROVE  IInv(room)'
<1>1. /\ pc = "map_first" /\ Len(bios) >= 2 /\ KeepEntry /\ pc' = "map_next"
      /\ UNCHANGED <<disk, stage, mem, job, cluster, image, sectors, kernel, chain>>
  BY DEF MapFirst
<1>2. stage = 2 /\ reported = 0 /\ bios \in Seq(Nat)
  BY <1>1 DEF IInv, Code, Types, Stages, MapState, Disks
<1>3. reported < Len(bios)
  BY <1>1, <1>2
<1> QED
  BY <1>1, <1>2, <1>3, EntryStep

LEMMA MapNextStep ==
  ASSUME NEW room, Disks(room), IInv(room), MapNext
  PROVE  IInv(room)'
<1>1. /\ pc = "map_next" /\ reported < Len(bios) /\ KeepEntry /\ pc' = "map_next"
      /\ UNCHANGED <<disk, stage, mem, job, cluster, image, sectors, kernel, chain>>
  BY DEF MapNext
<1>2. stage = 2
  BY <1>1 DEF IInv, Code, Types, Stages
<1> QED
  BY <1>1, <1>2, EntryStep

LEMMA MapDoneStep ==
  ASSUME NEW room, Layout(room), Disks(room), IInv(room), MapDone
  PROVE  IInv(room)'
<1>1. /\ pc = "map_next" /\ reported = Len(bios) /\ pc' = "root"
      /\ StoreCount(Len(smap))
      /\ UNCHANGED <<disk, stage, job, cluster, image, sectors, map, kernel, chain>>
  BY DEF MapDone
<1>2. stage = 2 /\ Len(smap) \in Nat
  BY <1>1 DEF IInv, Code, Types, Stages
<1>3. Kept(smap, Len(bios)) /\ Len(smap) <= Len(bios)
  BY <1>1, <1>2 DEF IInv, MapState
<1>a. Len(smap) < HalfWord
  <2>1. bios \in BiosMaps
    BY DEF IInv, Types
  <2>2. Len(bios) < HalfWord /\ Len(bios) \in Nat /\ HalfWord \in Nat
    BY <2>1, LoaderAssumption DEF Disks
  <2> QED
    BY <1>2, <1>3, <2>2
<1>4. Types' /\ Reading(room)' /\ Loading(room)' /\ Code(room)' /\ Kernel(room)'
      /\ CountHeld(mem', Len(smap))
  BY <1>1, <1>2, <1>a, CountStored
<1>5. bios' = bios /\ smap' = smap
  BY <1>1 DEF disk, map
<1>6. MapKept'
  <2>1. Kept(smap, Len(bios))'
    BY <1>3, <1>5, KeptStays
  <2> QED
    BY <1>4, <1>5, <2>1 DEF MapKept
<1>7. MapState'
  BY <1>1, <1>2, <1>6 DEF MapState
<1> QED
  BY <1>4, <1>7 DEF IInv

---------------------------------------------------------------------------
(* copy_image.                                                             *)

LEMMA copy_imageStep ==
  ASSUME NEW room, Layout(room), IInv(room), copy_image
  PROVE  IInv(room)'
<1> DEFINE sized == Put(mem, SizeCell, <<"size", sectors>>)
           s == chain[2]
<1>1. /\ pc = "loaded" /\ stage = 2 /\ pc' = "kernel" /\ mem' = sized
      /\ kernel' = [i \in 1 .. sectors |->
                      IF KernelBase + i - 1 \in Cells THEN sized[KernelBase + i - 1] ELSE <<"junk", 0>>]
      /\ UNCHANGED <<fat, dir, bios, stage, after, lba, left, dest, tries, cluster, image, sectors,
                     reported, smap, chain>>
  BY DEF copy_image, disk, map, job
<1>2. /\ SizeCell \in Cells /\ <<"size", sectors>> \in Contents /\ mem \in [Cells -> Contents]
      /\ sectors \in Nat
  BY Numbers DEF Contents, IInv, Types
<1>3. sized \in [Cells -> Contents] /\ sized[SizeCell] = <<"size", sectors>>
  BY <1>2, PutCell
<1>4. /\ IsChain(s, "krnl") /\ Len(s) <= room[2] /\ Held(mem, s, KernelBase)
      /\ sectors = Len(s)
  BY <1>1 DEF IInv, Loading, Complete, ImageBase, Names
<1>5. /\ ImageBase(2) = KernelBase /\ KernelBase \in Nat /\ room[2] \in Nat /\ Segment \in Nat
      /\ KernelBase + room[2] < Segment /\ SizeCell \notin KernelBase .. (KernelBase + room[2] - 1)
  <2>1. ImageBase(2) = KernelBase /\ 2 \in Stages
    BY DEF ImageBase, Stages
  <2>2. ImageBase(2) \in Nat /\ Segment \in Nat
    BY <2>1, Numbers
  <2>3. room[2] \in Nat /\ ImageBase(2) + room[2] < Segment /\ SizeCell \notin Image(2, room)
    BY <2>1 DEF Layout
  <2> QED
    BY <2>1, <2>2, <2>3 DEF Image
<1>6. Held(sized, s, KernelBase)
  <2>1. Len(s) \in Nat /\ KernelBase + room[2] <= Segment
    BY <1>2, <1>4, <1>5
  <2> HIDE DEF s
  <2> QED
    BY <1>2, <1>4, <1>5, <2>1, HeldOver
<1>7. Types'
  BY <1>1, <1>3 DEF IInv, Types
<1>8. Kernel(room)'
  <2>1. IsChain(chain[2], "krnl")'
    BY <1>1, <1>4 DEF IsChain, Path
  <2>2. kernel' = [i \in 1 .. Len(s) |-> OnDisk(ClusterLBA(s[i]))]
    <3> HIDE DEF sized
    <3>1. ASSUME NEW i \in 1 .. Len(s)
          PROVE  (IF KernelBase + i - 1 \in Cells THEN sized[KernelBase + i - 1] ELSE <<"junk", 0>>)
                   = OnDisk(ClusterLBA(s[i]))
      <4>1. KernelBase + i - 1 \in Cells
        BY <1>2, <1>4, <1>5 DEF Cells
      <4> QED
        BY <1>6, <4>1 DEF Held
    <3> QED
      BY <1>1, <1>4, <3>1
  <2> QED
    BY <1>1, <1>3, <1>4, <2>1, <2>2 DEF Kernel
<1>9. Code(room)'
  <2>1. SizeCell # StackCell /\ SizeCell \notin Image(1, room)
    BY DEF Layout
  <2>2. UNCHANGED <<fat, dir, stage, chain>>
    BY <1>1
  <2> QED
    BY <1>1, <1>2, <2>1, <2>2, CodeOver DEF IInv
<1>10. MapState'
  <2>1. MapKept
    BY <1>1 DEF IInv, MapState
  <2>2. SizeCell # SmapCell
    BY DEF Layout
  <2>3. MapKept'
    BY <1>1, <1>2, <2>1, <2>2, MapOver DEF IInv
  <2> QED
    BY <1>1, <2>3 DEF MapState
<1> QED
  BY <1>1, <1>7, <1>8, <1>9, <1>10 DEF IInv, Reading, Loading

---------------------------------------------------------------------------
(* The whole loader.                                                       *)

LEMMA InitStep ==
  ASSUME NEW room, Layout(room), Disks(room), Init
  PROVE  IInv(room)
<1>1. mem \in [Cells -> Contents] /\ mem[StackCell] = <<"stack", 0>> /\ mem[BootCell] = <<"boot", 0>>
  <2>1. StackCell \in Cells /\ BootCell \in Cells /\ StackCell # BootCell
    BY Numbers DEF Layout
  <2>2. <<"boot", 0>> \in Contents /\ <<"stack", 0>> \in Contents /\ <<"junk", 0>> \in Contents
    BY DEF Contents
  <2> QED
    BY <2>1, <2>2 DEF Init
<1>2. 0 \in Cells /\ 0 \in Entries /\ Retries \in 0 .. Retries
  BY Numbers, Sizes DEF Cells, Entries
<1>3. chain \in [Stages -> Seq(Entries)] /\ smap \in Seq(Nat \ {0})
  BY DEF Init, Stages
<1>4. Types
  BY <1>1, <1>2, <1>3 DEF Init, Types, Stages
<1> QED
  BY <1>1, <1>4 DEF Init, IInv, Reading, Loading, MapState, Code, Kernel

LEMMA Stutter ==
  ASSUME NEW room, IInv(room), UNCHANGED vars
  PROVE  IInv(room)'
<1>1. UNCHANGED <<fat, dir, bios, stage, pc, mem, after, lba, left, dest, tries, cluster, image, sectors,
                  reported, smap, kernel, chain>>
  BY DEF vars, disk, job, map
<1>2. Types'
  BY <1>1 DEF IInv, Types
<1>3. Progress(room)' <=> Progress(room)
  BY <1>1 DEF Progress, Path
<1>4. \A s \in Stages : Complete(room, s)' <=> Complete(room, s)
  BY <1>1 DEF Complete, IsChain, Path
<1>5. Reading(room)'
  BY <1>1, <1>3 DEF IInv, Reading
<1>6. Loading(room)'
  BY <1>1, <1>3, <1>4 DEF IInv, Loading, Types
<1>7. MapState'
  BY <1>1, KeptStays DEF IInv, MapState, MapKept
<1>8. Code(room)'
  BY <1>1, <1>4 DEF IInv, Code, Stages
<1>9. Kernel(room)'
  BY <1>1 DEF IInv, Kernel, IsChain, Path
<1> QED
  BY <1>2, <1>5, <1>6, <1>7, <1>8, <1>9 DEF IInv

LEMMA NextStep ==
  ASSUME NEW room, Layout(room), Disks(room), IInv(room), [Step]_vars
  PROVE  IInv(room)'
BY ReadSectorStep, ReadFailsStep, load_rootStep, ImageMissingStep, load_FATStep, load_imageStep,
   NextClusterStep, EnterStage2Step, MapErrorStep, MapFirstStep, MapNextStep, MapDoneStep,
   copy_imageStep, Stutter DEF Step

LEMMA Invariance ==
  ASSUME NEW room, Layout(room), Disks(room)
  PROVE  Spec => []IInv(room)
<1>1. Init => IInv(room)
  BY InitStep
<1>2. IInv(room) /\ [Step]_vars => IInv(room)'
  BY NextStep
<1> QED
  BY <1>1, <1>2, PTL DEF Spec

\* Every cell holds what a sector, the stack or a count is, and read_sectors
\* stays in the segment and within its tries, on every disk that fits.
THEOREM TypeCorrect ==
  ASSUME NEW room, Layout(room), Disks(room)
  PROVE  Spec => []TypeOK
<1>1. IInv(room) => TypeOK
  BY DEF IInv, Types, Stages, Contents, Entries, TypeOK
<1> QED
  BY <1>1, Invariance, PTL

\* Whatever reads fail on the way, a kernel that is entered is the image on the
\* disk, from its first cluster to its last, with its size: for every
\* placement in which the image leaves the entries it is loaded by alone.
THEOREM KernelArrives ==
  ASSUME NEW room, Layout(room), Disks(room)
  PROVE  Spec => []KernelIntact
<1>1. IInv(room) => KernelIntact
  <2> SUFFICES ASSUME IInv(room), pc = "kernel", NoFreeCluster(chain[2])
               PROVE  kernel = [i \in 1 .. Len(chain[2]) |-> <<"data", chain[2][i]>>]
    BY DEF IInv, Kernel, KernelIntact
  <2>1. kernel = [i \in 1 .. Len(chain[2]) |-> OnDisk(ClusterLBA(chain[2][i]))]
    BY DEF IInv, Kernel
  <2>2. ASSUME NEW i \in 1 .. Len(chain[2]) PROVE OnDisk(ClusterLBA(chain[2][i])) = <<"data", chain[2][i]>>
    <3>1. chain[2] \in Seq(Entries)
      BY DEF IInv, Types, Stages
    <3>2. chain[2][i] \in Entries
      BY <3>1
    <3>3. chain[2][i] \in Nat /\ chain[2][i] >= 2
      BY <3>2, Sizes DEF Entries, NoFreeCluster
    <3> QED
      BY <3>3, DataSector
  <2> QED
    BY <2>1, <2>2
<1> QED
  BY <1>1, Invariance, PTL

\* Nothing that a stage loads comes to lie over its code or the stack, and
\* stage 2 is entered only as the whole image from the disk.
THEOREM CodeStaysIntact ==
  ASSUME NEW room, Layout(room), Disks(room)
  PROVE  Spec => []RunningCodeIntact
<1>1. IInv(room) => RunningCodeIntact
  <2> SUFFICES ASSUME IInv(room), stage = 2
               PROVE  /\ IsChain(chain[1], "krnldr")
                      /\ NoFreeCluster(chain[1]) =>
                           \A i \in 1 .. Len(chain[1]) : mem[Stage2Base + i - 1] = <<"data", chain[1][i]>>
    BY DEF IInv, Code, RunningCodeIntact
  <2>1. IsChain(chain[1], "krnldr") /\ Held(mem, chain[1], Stage2Base)
    BY DEF IInv, Code, Complete, Names
  <2>2. ASSUME NoFreeCluster(chain[1]), NEW i \in 1 .. Len(chain[1])
        PROVE  mem[Stage2Base + i - 1] = <<"data", chain[1][i]>>
    <3>1. chain[1] \in Seq(Entries)
      BY DEF IInv, Types, Stages
    <3>2. chain[1][i] \in Entries
      BY <3>1
    <3>3. chain[1][i] \in Nat /\ chain[1][i] >= 2
      BY <2>2, <3>2, Sizes DEF Entries, NoFreeCluster
    <3> QED
      BY <2>1, <3>3, DataSector DEF Held
  <2> QED
    BY <2>1, <2>2
<1> QED
  BY <1>1, Invariance, PTL

\* The entries of the BIOS's memory map that are not empty arrive in order and
\* with their number in the lower half of the count, whatever is loaded after
\* them and whatever the upper half held.
THEOREM MapArrives ==
  ASSUME NEW room, Layout(room), Disks(room)
  PROVE  Spec => []MemoryMapDelivered
<1>1. IInv(room) => MemoryMapDelivered
  BY DEF IInv, MapState, MapKept, CountHeld, Code, Types, Stages, MemoryMapDelivered
<1> QED
  BY <1>1, Invariance, PTL

---------------------------------------------------------------------------
(* Why the loader stops.  Every step lowers a tuple of natural numbers in  *)
(* its lexicographic order: how far the two stages are, what is to come of *)
(* a chain or of the memory map, the step within a cluster, and sectors    *)
(* and tries of a read.                                                    *)

InChain == pc \in {"load", "next"} \/ (pc = "read" /\ after = "next")

Phase == (IF stage = 1 THEN 10 ELSE 0)
         + (IF pc = "map_first" THEN 8 ELSE IF pc = "map_next" THEN 7
            ELSE IF pc = "root" THEN 6 ELSE IF pc = "read" /\ after = "find" THEN 5
            ELSE IF pc = "find" THEN 4 ELSE IF pc = "read" /\ after = "load" THEN 3
            ELSE IF InChain THEN 2 ELSE IF pc = "loaded" THEN 1 ELSE 0)

ToCome(room) == IF InChain THEN room[stage] - Len(chain[stage])
                ELSE IF pc = "map_next" THEN Len(bios) - reported ELSE 0

Within == IF pc = "load" THEN 2 ELSE IF pc = "read" THEN 1 ELSE 0

Positive(room) == /\ Phase \in Nat /\ ToCome(room) \in Nat /\ Within \in Nat
                  /\ left \in Nat /\ tries \in Nat

Falls(room) ==
  \/ Phase' < Phase
  \/ /\ Phase' = Phase
     /\ \/ ToCome(room)' < ToCome(room)
        \/ /\ ToCome(room)' = ToCome(room)
           /\ \/ Within' < Within
              \/ Within' = Within /\ left' < left
              \/ Within' = Within /\ left' = left /\ tries' < tries

LEMMA RankPositive ==
  ASSUME NEW room, Layout(room), Disks(room), IInv(room)
  PROVE  Positive(room)
<1>1. Phase \in Nat /\ Within \in Nat
  BY DEF Phase, Within
<1>2. left \in Nat /\ tries \in Nat
  BY Numbers DEF IInv, Types
<1>3. ToCome(room) \in Nat
  <2>1. CASE InChain
    <3>1. Progress(room)
      BY <2>1 DEF InChain, IInv, Loading, Reading
    <3>2. Len(chain[stage]) \in Nat /\ Len(chain[stage]) < room[stage] /\ room[stage] \in Nat
      BY <3>1, NextPlace DEF IInv
    <3> QED
      BY <2>1, <3>2 DEF ToCome
  <2>2. CASE ~InChain /\ pc = "map_next"
    <3>1. reported \in 1 .. Len(bios) /\ Len(bios) \in Nat
      BY <2>2 DEF IInv, MapState, Code, Types, Stages, Disks
    <3> QED
      BY <2>2, <3>1 DEF ToCome
  <2>3. CASE ~InChain /\ pc # "map_next"
    BY <2>3 DEF ToCome
  <2> QED
    BY <2>1, <2>2, <2>3
<1> QED
  BY <1>1, <1>2, <1>3 DEF Positive

\* A read goes on, comes to its end, is tried again or given up.
LEMMA ReadFalls ==
  ASSUME NEW room, IInv(room), ReadSector \/ ReadFails
  PROVE  Falls(room)
<1>1. /\ pc = "read" /\ after \in {"find", "load", "next"} /\ left > 0 /\ tries > 0
      /\ left \in Nat /\ tries \in 0 .. Retries /\ Retries \in Nat
  BY Numbers DEF IInv, Reading, Types, ReadSector, ReadFails
<1>2. UNCHANGED <<stage, chain, bios, reported, after>>
  BY DEF ReadSector, ReadFails, disk, map
<1>3. CASE pc' = "read"
  <2>1. Phase' = Phase /\ ToCome(room)' = ToCome(room) /\ Within' = Within
    BY <1>1, <1>2, <1>3 DEF Phase, ToCome, Within, InChain
  <2>2. left' < left \/ (left' = left /\ tries' < tries)
    BY <1>1 DEF ReadSector, ReadFails
  <2> QED
    BY <2>1, <2>2 DEF Falls
<1>4. CASE pc' # "read"
  <2>1. (pc' = after /\ ReadSector) \/ pc' = "no_boot"
    BY <1>4 DEF ReadSector, ReadFails
  <2>2. CASE pc' = "no_boot"
    BY <1>1, <1>2, <2>2 DEF Falls, Phase, InChain
  <2>3. CASE pc' = after /\ after # "next"
    BY <1>1, <1>2, <2>3 DEF Falls, Phase, InChain
  <2>4. CASE pc' = "next" /\ after = "next"
    <3>1. Phase' = Phase /\ ToCome(room)' = ToCome(room) /\ Within' < Within
      BY <1>1, <1>2, <2>4 DEF Phase, ToCome, Within, InChain
    <3> QED
      BY <3>1 DEF Falls
  <2> QED
    BY <1>1, <2>1, <2>2, <2>3, <2>4
<1> QED
  BY <1>3, <1>4

\* A cluster more leaves one less to come, or ends the chain.
LEMMA ChainFalls ==
  ASSUME NEW room, Layout(room), IInv(room), load_image \/ NextCluster
  PROVE  Falls(room)
<1>1. CASE load_image
  <2>1. pc = "load" /\ pc' = "read" /\ after' = "next" /\ UNCHANGED <<stage, chain>>
    BY <1>1 DEF load_image, read_sectors
  <2>2. Phase' = Phase /\ ToCome(room)' = ToCome(room) /\ Within' < Within
    BY <2>1 DEF Phase, ToCome, Within, InChain
  <2> QED
    BY <2>2 DEF Falls
<1>2. CASE NextCluster
  <2>1. /\ pc = "next" /\ pc' \in {"load", "loaded"} /\ stage' = stage
        /\ chain' = [chain EXCEPT ![stage] = Append(chain[stage], cluster)]
    BY <1>2 DEF NextCluster
  <2>2. CASE pc' = "loaded"
    BY <2>1, <2>2 DEF Falls, Phase, InChain
  <2>3. CASE pc' = "load"
    <3>1. Phase' = Phase
      BY <2>1, <2>3 DEF Phase, InChain
    <3>2. Len(chain'[stage]) = Len(chain[stage]) + 1 /\ Len(chain[stage]) \in Nat /\ room[stage] \in Nat
      BY <2>1 DEF IInv, Types, Layout
    <3>3. ToCome(room)' < ToCome(room)
      BY <2>1, <2>3, <3>2 DEF ToCome, InChain
    <3> QED
      BY <3>1, <3>3 DEF Falls
  <2> QED
    BY <2>1, <2>2, <2>3
<1> QED
  BY <1>1, <1>2

LEMMA MapFalls ==
  ASSUME NEW room, Disks(room), IInv(room), EnterStage2 \/ MapError \/ MapFirst \/ MapNext \/ MapDone
  PROVE  Falls(room)
<1>1. CASE EnterStage2
  BY <1>1 DEF EnterStage2, Falls, Phase, InChain
<1>2. CASE MapError \/ MapFirst \/ MapDone
  BY <1>2 DEF MapError, MapFirst, MapDone, Falls, Phase, InChain
<1>3. CASE MapNext
  <2>1. /\ pc = "map_next" /\ pc' = "map_next" /\ UNCHANGED <<stage, bios>>
        /\ reported' = reported + 1 /\ reported < Len(bios)
    BY <1>3 DEF MapNext, KeepEntry, disk
  <2>2. reported \in Nat /\ Len(bios) \in Nat
    BY <2>1 DEF IInv, MapState, Code, Types, Stages, Disks
  <2>3. Phase' = Phase /\ ToCome(room)' < ToCome(room)
    BY <2>1, <2>2 DEF Phase, ToCome, InChain
  <2> QED
    BY <2>3 DEF Falls
<1> QED
  BY <1>1, <1>2, <1>3

LEMMA OtherFalls ==
  ASSUME NEW room, load_root \/ ImageMissing \/ load_FAT \/ copy_image
  PROVE  Falls(room)
BY DEF load_root, ImageMissing, load_FAT, copy_image, read_sectors, Falls, Phase, InChain

\* No step of the loader repeats: each lowers the tuple, on every disk that
\* fits, whichever reads fail.  LoaderStops adds that a step is taken while one
\* can be.
THEOREM NoStepRepeats ==
  ASSUME NEW room, Layout(room), Disks(room)
  PROVE  Spec => []Positive(room) /\ [][Falls(room)]_vars
<1>1. IInv(room) => Positive(room)
  BY RankPositive
<1>2. IInv(room) /\ [Step]_vars => [Falls(room)]_vars
  BY ReadFalls, ChainFalls, MapFalls, OtherFalls DEF Step
<1> QED
  BY <1>1, <1>2, Invariance, PTL DEF Spec

===========================================================================
