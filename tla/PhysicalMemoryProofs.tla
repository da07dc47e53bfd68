----------------------- MODULE PhysicalMemoryProofs -----------------------
(***************************************************************************)
(* Proofs about PhysicalMemory for every machine: any block size, word     *)
(* size, BIOS memory map, kernel size and initial contents of the map.     *)
(* For a consistent map and layout, also that the bit map implements       *)
(* FrameAllocator, the block count being one off.                          *)
(***************************************************************************)
EXTENDS PhysicalMemory, WellFoundedInduction, FiniteSetTheorems, TLAPS

---------------------------------------------------------------------------
(* Arithmetic.                                                             *)

\* Division with remainder, the only fact about \div and % used below.
LEMMA DivMod ==
  ASSUME NEW a \in Int, NEW d \in Nat \ {0}
  PROVE  /\ a \div d \in Int
         /\ a % d \in 0 .. (d - 1)
         /\ a = d * (a \div d) + (a % d)
BY SMT

\* The block number of an address is a natural number.
LEMMA DivNat ==
  ASSUME NEW a \in Nat, NEW d \in Nat \ {0}
  PROVE  a \div d \in 0 .. a
BY SMT

\* A product is strictly monotone in its first factor.
LEMMA LessFactor ==
  ASSUME NEW p \in Int, NEW q \in Int, NEW d \in Nat \ {0}, p * d < q * d
  PROVE  p < q
<1>1. SUFFICES ASSUME q <= p PROVE FALSE
  OBVIOUS
<1>2. PICK k \in Nat : p = q + k
  <2>1. p - q \in Nat /\ p = q + (p - q)
    BY <1>1
  <2> QED BY <2>1
<1>3. p * d = q * d + k * d
  BY <1>2, SMT
<1>4. k * d \in Nat
  BY SMT
<1> QED BY <1>3, <1>4, SMT

\* A product is monotone in its first factor.
LEMMA FactorLeq ==
  ASSUME NEW p \in Int, NEW q \in Int, NEW d \in Nat \ {0}, p <= q
  PROVE  p * d <= q * d
<1>1. PICK k \in Nat : q = p + k
  <2>1. q - p \in Nat /\ q = p + (q - p)
    OBVIOUS
  <2> QED BY <2>1
<1>2. q * d = p * d + k * d
  BY <1>1, SMT
<1>3. k * d \in Nat
  BY SMT
<1> QED BY <1>2, <1>3, SMT

\* The blocks scanned word by word were all written by the bytewise memset.
LEMMA WordsInsideBytes ==
  ASSUME NEW m \in Nat
  PROVE  (m \div WordBits) * WordBits <= (m \div BlocksPerByte) * BlocksPerByte
<1> DEFINE w == m \div WordBits
           b == m \div BlocksPerByte
<1>1. PICK k \in 1 .. WordBits : WordBits = BlocksPerByte * k
  BY GeometryAssumption
<1>2. BlocksPerByte \in Nat \ {0} /\ WordBits \in Nat \ {0} /\ k \in Nat
  BY GeometryAssumption, <1>1
<1>3. w \in Nat /\ b \in Nat
  BY <1>2, DivNat
<1>4. w * WordBits <= m
  BY <1>2, DivMod, SMT
<1>5. m < (b + 1) * BlocksPerByte
  BY <1>2, DivMod, SMT
<1>6. w * WordBits = (w * k) * BlocksPerByte
  BY <1>1, <1>2, <1>3, SMT
<1>7. w * k \in Nat
  BY <1>2, <1>3, SMT
<1> HIDE DEF w, b
<1>8. w * k < b + 1
  <2>1. (w * k) * BlocksPerByte < (b + 1) * BlocksPerByte
    BY <1>2, <1>3, <1>4, <1>5, <1>6, <1>7, SMT
  <2> QED BY <2>1, <1>2, <1>3, <1>7, LessFactor
<1>9. (w * k) * BlocksPerByte <= b * BlocksPerByte
  BY <1>2, <1>3, <1>7, <1>8, FactorLeq
<1> QED BY <1>6, <1>9 DEF w, b

\* Inside the scanned part of the map the scan reads the bit it should.
LEMMA ProbeInside ==
  ASSUME NEW b \in Nat, NEW c \in Nat, max_blocks \in Nat,
         b + c < MapWords * WordBits
  PROVE  Probe(b, c) = b + c
<1> DEFINE q  == b \div WordBits
           r  == b % WordBits
           q2 == (r + c) \div WordBits
           r2 == (r + c) % WordBits
<1>0. WordBits \in Nat \ {0}
  BY GeometryAssumption
<1>1. q \in Int /\ r \in Nat /\ b = WordBits * q + r
  BY <1>0, SMT
<1>2. q2 \in Int /\ r2 \in Nat /\ r + c = WordBits * q2 + r2
  BY <1>0, <1>1, SMT
<1>3. MapWords \in Nat
  BY <1>0, DivNat DEF MapWords
<1>p. Probe(b, c) = (IF q + q2 < MapWords THEN q + q2 ELSE MapWords - 1) * WordBits + r2
  BY DEF Probe
<1> HIDE DEF q, r, q2, r2
<1>4. b + c = (q + q2) * WordBits + r2
  BY <1>0, <1>1, <1>2, SMT
<1>5. q + q2 < MapWords
  <2>1. (q + q2) * WordBits < MapWords * WordBits
    BY <1>0, <1>1, <1>2, <1>3, <1>4, SMT
  <2> QED BY <2>1, <1>0, <1>1, <1>2, <1>3, LessFactor
<1> QED BY <1>p, <1>4, <1>5

---------------------------------------------------------------------------
(* Types.                                                                  *)

Entries == [base : Nat, size : Nat, type : Nat]

\* Every entry of the BIOS map kmain walks is a record of natural numbers.
LEMMA SMAPEntry ==
  ASSUME NEW k \in 1 .. Len(SMAP)
  PROVE  SMAP[k] \in Entries /\ SMAP[k].base \in Nat /\ SMAP[k].size \in Nat
<1>0. SMAP \in Seq(Entries)
  BY BootAssumption DEF Entries
<1>1. SMAP[k] \in Entries
  BY <1>0
<1> QED BY <1>1 DEF Entries

\* kmain reads the first entry of the BIOS map, so there is one.
LEMMA SMAPLength == Len(SMAP) \in Nat \ {0}
BY BootAssumption

\* total_memory and the number of blocks it makes fit a uint32_t.
LEMMA BlockCount ==
  /\ total_memory \in 0 .. (UintMod - 1)
  /\ total_memory \div BlockSize \in 0 .. (UintMod - 1)
<1>1. total_memory \in 0 .. (UintMod - 1)
  BY SMAPLength, SMAPEntry, GeometryAssumption DEF total_memory
<1>2. total_memory \div BlockSize \in 0 .. total_memory
  BY <1>1, DivNat, GeometryAssumption
<1> QED BY <1>1, <1>2, GeometryAssumption

\* The blocks pmmngr_(de)init_region walks are block numbers.
LEMMA RegionType ==
  ASSUME NEW base \in Nat, NEW size \in Nat
  PROVE  /\ RegionStart(base) \in Nat
         /\ RegionCount(size) \in Nat
         /\ Region(base, size) \subseteq Nat
<1>1. base % UintMod \in Nat /\ size % UintMod \in Nat
  BY GeometryAssumption, SMT
<1>2. RegionStart(base) \in Nat /\ RegionCount(size) \in Nat
  BY <1>1, DivNat, GeometryAssumption DEF RegionStart, RegionCount
<1> QED BY <1>2 DEF Region, Run

\* The result of any uint32_t computation is a uint32_t.
LEMMA Wraps ==
  ASSUME NEW a \in Int
  PROVE  a % UintMod \in 0 .. (UintMod - 1)
BY GeometryAssumption, SMT

\* A set of block numbers has a least one.
LEMMA LeastFree ==
  ASSUME NEW S \in SUBSET Nat, S # {}
  PROVE  Min(S) \in S
<1>1. PICK m \in S : \A k \in S : <<k, m>> \notin OpToRel(<, Nat)
  BY NatLessThanWellFounded, WFMin
<1>2. \A k \in S : m <= k
  <2> SUFFICES ASSUME NEW k \in S PROVE m <= k
    OBVIOUS
  <2>1. k \in Nat /\ m \in Nat
    OBVIOUS
  <2>2. ~(k < m)
    <3>1. <<k, m>> \in Nat \X Nat /\ <<k, m>>[1] = k /\ <<k, m>>[2] = m
      BY <2>1
    <3>2. <<k, m>> \notin {ss \in Nat \X Nat : ss[1] < ss[2]}
      BY <1>1 DEF OpToRel
    <3> QED BY <3>1, <3>2
  <2> QED BY <2>1, <2>2
<1> QED BY <1>2 DEF Min

\* A search that succeeds returns the first block of a free run.
LEMMA FirstFree ==
  ASSUME NEW n \in Nat, mmap_first_free_blocks(n) # -1, MapWords \in Nat
  PROVE  /\ n # 0
         /\ mmap_first_free_blocks(n) \in FreeRuns(n)
<1>1. n # 0 /\ FreeRuns(n) # {}
  BY DEF mmap_first_free_blocks
<1>2. FreeRuns(n) \subseteq Nat
  BY GeometryAssumption DEF FreeRuns, Searched
<1>3. Min(FreeRuns(n)) \in FreeRuns(n)
  BY <1>1, <1>2, LeastFree
<1> QED BY <1>1, <1>3 DEF mmap_first_free_blocks

\* The words and blocks mmap_first_free_blocks scans are natural numbers.
LEMMA SearchType ==
  ASSUME TypeOK
  PROVE  MapWords \in Nat /\ max_blocks \in Nat /\ Searched \subseteq Nat
<1>1. max_blocks \in Nat
  BY GeometryAssumption DEF TypeOK
<1>2. MapWords \in Nat
  BY <1>1, DivNat, GeometryAssumption DEF MapWords
<1> QED BY <1>1, <1>2, GeometryAssumption DEF Searched

\* A request that is not refused starts at a block number.
LEMMA StartType ==
  ASSUME TypeOK, NEW n \in Requests, ~Refused(n)
  PROVE  mmap_first_free_blocks(n) \in Searched /\ mmap_first_free_blocks(n) \in Nat
<1>1. n \in Nat
  BY BootAssumption
<1>2. mmap_first_free_blocks(n) \in FreeRuns(n)
  BY <1>1, SearchType, FirstFree DEF Refused
<1> QED BY <1>2, SearchType DEF FreeRuns

\* Every variable keeps its type; in particular used_blocks and max_blocks
\* stay inside a uint32_t whatever the BIOS map says.
THEOREM TypeCorrect == Spec => []TypeOK
<1>1. Init => TypeOK
  BY BootAssumption, GeometryAssumption, SMAPLength DEF Init, TypeOK, NoAnswer
<1>2. TypeOK /\ [Next]_vars => TypeOK'
  <2> SUFFICES ASSUME TypeOK, [Next]_vars PROVE TypeOK'
    OBVIOUS
  <2>0. used_blocks \in Int /\ max_blocks \in Nat
    BY GeometryAssumption DEF TypeOK
  <2>1. CASE pmmngr_init
    <3>1. (total_memory \div BlockSize) \div BlocksPerByte \in Nat
      BY BlockCount, DivNat, GeometryAssumption
    <3>2. Run(0, ((total_memory \div BlockSize) \div BlocksPerByte) * BlocksPerByte) \subseteq Nat
      BY DEF Run
    <3> QED BY <2>1, <3>2, BlockCount DEF pmmngr_init, TypeOK
  <2>2. CASE ScanEntry
    <3>1. SMAP[entry].base \in Nat /\ SMAP[entry].size \in Nat
      BY <2>2, SMAPEntry, SMAPLength DEF ScanEntry, TypeOK
    <3>2. RegionCount(SMAP[entry].size) \in Nat
      BY <3>1, RegionType
    <3>3. memory_map' \subseteq Nat /\ used_blocks' \in 0 .. (UintMod - 1)
      <4>1. (used_blocks - RegionCount(SMAP[entry].size)) % UintMod \in 0 .. (UintMod - 1)
        <5>1. used_blocks - RegionCount(SMAP[entry].size) \in Int
          BY <2>0, <3>2
        <5> QED BY <5>1, Wraps
      <4>2. CASE SMAP[entry].type = 1
        <5>1. /\ memory_map' = (memory_map \ Region(SMAP[entry].base, SMAP[entry].size)) \cup {0}
              /\ used_blocks' = (used_blocks - RegionCount(SMAP[entry].size)) % UintMod
          BY <2>2, <4>2 DEF ScanEntry, pmmngr_init_region
        <5>2. memory_map \subseteq Nat
          BY DEF TypeOK
        <5>3. {0} \subseteq Nat
          OBVIOUS
        <5>4. memory_map' \subseteq Nat
          BY <5>1, <5>2, <5>3, Zenon
        <5> QED BY <4>1, <5>1, <5>4
      <4>3. CASE SMAP[entry].type # 1
        BY <2>2, <4>3 DEF ScanEntry, TypeOK
      <4> QED BY <4>2, <4>3
    <3>4. entry' \in 1 .. (Len(SMAP) + 1)
      BY <2>2, SMAPLength DEF ScanEntry, TypeOK
    <3> QED BY <2>2, <3>3, <3>4 DEF ScanEntry, TypeOK
  <2>3. CASE ScanDone
    BY <2>3 DEF ScanDone, TypeOK
  <2>4. ASSUME NEW base \in Nat, NEW size \in Nat, pmmngr_deinit_region(base, size)
        PROVE  memory_map' \subseteq Nat /\ used_blocks' \in 0 .. (UintMod - 1)
    <3>1. (used_blocks + RegionCount(size)) % UintMod \in 0 .. (UintMod - 1)
      BY <2>0, RegionType, Wraps
    <3> QED BY <2>4, <3>1, RegionType DEF pmmngr_deinit_region, TypeOK
  <2>5. CASE DeinitLow
    BY <2>5, <2>4, BootAssumption DEF DeinitLow, TypeOK
  <2>6. CASE DeinitMap
    <3>1. max_blocks \div BlocksPerByte \in Nat
      BY <2>0, DivNat, GeometryAssumption
    <3> QED BY <2>6, <2>4, <3>1, BootAssumption DEF DeinitMap, TypeOK
  <2>7. CASE DeinitKernel
    <3>1. KernelSectors * SectorSize \in Nat
      BY BootAssumption
    <3> QED BY <2>7, <2>4, <3>1, BootAssumption DEF DeinitKernel, TypeOK
  <2>8. ASSUME NEW n \in Requests, pmmngr_alloc_blocks(n) PROVE TypeOK'
    <3>0. n \in Nat
      BY BootAssumption
    <3>1. CASE Refused(n)
      <4>1. answer' = [n |-> n, start |-> 0]
        BY <2>8, <3>1 DEF pmmngr_alloc_blocks
      <4>2. answer' \in [n : Nat, start : Nat]
        BY <3>0, <4>1
      <4> QED BY <2>8, <3>1, <4>2 DEF pmmngr_alloc_blocks, TypeOK
    <3>2. CASE ~Refused(n)
      <4>1. mmap_first_free_blocks(n) \in Nat
        BY <3>2, StartType
      <4>2. (used_blocks + n) % UintMod \in 0 .. (UintMod - 1)
        BY <2>0, <3>0, Wraps
      <4>3. Run(mmap_first_free_blocks(n), n) \subseteq Nat
        BY <4>1 DEF Run
      <4>4. answer' = [n |-> n, start |-> mmap_first_free_blocks(n)]
        BY <2>8, <3>2 DEF pmmngr_alloc_blocks
      <4>5. answer' \in [n : Nat, start : Nat]
        BY <3>0, <4>1, <4>4
      <4> QED BY <2>8, <3>2, <4>2, <4>3, <4>5 DEF pmmngr_alloc_blocks, TypeOK
    <3> QED BY <3>1, <3>2
  <2>9. ASSUME NEW n \in Requests, NEW b \in owned, pmmngr_free_blocks(b, n) PROVE TypeOK'
    <3>1. (used_blocks - n) % UintMod \in 0 .. (UintMod - 1)
      <4>1. used_blocks - n \in Int
        BY <2>0, BootAssumption
      <4> QED BY <4>1, Wraps
    <3> QED BY <2>9, <3>1 DEF pmmngr_free_blocks, TypeOK, NoAnswer
  <2>10. CASE UNCHANGED vars
    BY <2>10 DEF vars, TypeOK
  <2> QED BY <2>1, <2>2, <2>3, <2>5, <2>6, <2>7, <2>8, <2>9, <2>10 DEF Next, Boot, Serve
<1> QED BY <1>1, <1>2, PTL DEF Spec

---------------------------------------------------------------------------
(* Ownership.  MapTracksOwners speaks of the finished boot only; the       *)
(* invariant that carries it says what the map holds at every point of     *)
(* kmain.                                                                  *)

\* The blocks that have been taken out of the pool so far.
Withheld ==
  (IF pc \in {"map", "kernel", "up"} THEN LowBlocks ELSE {})
    \cup (IF pc \in {"kernel", "up"} THEN MapBlocks ELSE {})
    \cup (IF pc = "up" THEN KernelBlocks ELSE {})
    \cup owned

BootShape == /\ pc # "init" => max_blocks = total_memory \div BlockSize
             /\ pc = "init" => entry = 1
             /\ pc \notin {"init", "regions"} => entry = Len(SMAP) + 1
             /\ pc # "up" => owned = {}

MapShape == pc # "init" =>
              \A b \in Searched : b \notin memory_map <=> b \in FreedBefore(entry) \ Withheld

OwnedInPool == owned \subseteq Pool

IInv == TypeOK /\ BootShape /\ MapShape /\ OwnedInPool

\* Once kmain knows the number of blocks, the scanned blocks are fixed.
LEMMA SearchedIs ==
  ASSUME BootShape, pc # "init"
  PROVE  Searched = 0 .. ((((total_memory \div BlockSize) \div WordBits) * WordBits) - 1)
BY DEF BootShape, Searched, MapWords

\* A freed block lies in an available region of an entry already walked.
LEMMA FreedMember ==
  ASSUME NEW i, NEW x
  PROVE  x \in FreedBefore(i) <=>
           /\ x # 0
           /\ \E k \in 1 .. (i - 1) : SMAP[k].type = 1 /\ x \in Region(SMAP[k].base, SMAP[k].size)
<1> DEFINE Ks == {j \in 1 .. (i - 1) : SMAP[j].type = 1}
           Rs == {Region(SMAP[k].base, SMAP[k].size) : k \in Ks}
<1>1. FreedBefore(i) = (UNION Rs) \ {0}
  BY DEF FreedBefore
<1>2. x \in UNION Rs <=> \E k \in Ks : x \in Region(SMAP[k].base, SMAP[k].size)
  OBVIOUS
<1>3. \A k : k \in Ks <=> k \in 1 .. (i - 1) /\ SMAP[k].type = 1
  OBVIOUS
<1> HIDE DEF Ks, Rs
<1>4. x \in FreedBefore(i) <=> x # 0 /\ \E k \in Ks : x \in Region(SMAP[k].base, SMAP[k].size)
  BY <1>1, <1>2
<1> QED BY <1>3, <1>4

\* One more entry of the walk frees that entry's region and no other block.
LEMMA FreedStep ==
  ASSUME NEW i \in 1 .. Len(SMAP), NEW x
  PROVE  x \in FreedBefore(i + 1) <=>
           \/ x \in FreedBefore(i)
           \/ SMAP[i].type = 1 /\ x # 0 /\ x \in Region(SMAP[i].base, SMAP[i].size)
<1>1. 1 .. ((i + 1) - 1) = (1 .. (i - 1)) \cup {i}
  BY SMAPLength
<1> DEFINE In(k) == SMAP[k].type = 1 /\ x \in Region(SMAP[k].base, SMAP[k].size)
<1>2. x \in FreedBefore(i + 1) <=> x # 0 /\ \E k \in 1 .. ((i + 1) - 1) : In(k)
  BY FreedMember
<1>3. x \in FreedBefore(i) <=> x # 0 /\ \E k \in 1 .. (i - 1) : In(k)
  BY FreedMember
<1>4. (\E k \in 1 .. ((i + 1) - 1) : In(k)) <=> (\E k \in 1 .. (i - 1) : In(k)) \/ In(i)
  <2> HIDE DEF In
  <2> QED BY <1>1
<1> QED BY <1>2, <1>3, <1>4

\* Before the first entry of the walk nothing is freed.
LEMMA FreedAtStart == FreedBefore(1) = {}
<1>1. 1 .. (1 - 1) = {}
  OBVIOUS
<1> QED BY <1>1 DEF FreedBefore

\* With the top block reserved, a run that the scan accepts lies inside the
\* scanned part of the map and all of it is free: the clamped word index of
\* mmap_first_free_blocks is never reached.
LEMMA RunIsFree ==
  ASSUME IInv, TopReserved, pc = "up", NEW n \in Nat, NEW start \in FreeRuns(n), n # 0
  PROVE  Run(start, n) \subseteq Pool \ owned
<1> DEFINE top == MapWords * WordBits - 1
<1>0. WordBits \in Nat \ {0} /\ MapWords \in Nat /\ max_blocks \in Nat
  BY SearchType, GeometryAssumption DEF IInv
<1>1. start \in Nat /\ start <= top /\ top \in Int /\ start \in Searched
  BY <1>0 DEF FreeRuns, Searched
<1>2. \A b \in Searched : b \notin memory_map <=> b \in Pool \ owned
  <2>1. \A b \in Searched : b \notin memory_map <=> b \in FreedBefore(Len(SMAP) + 1) \ Withheld
    BY DEF IInv, MapShape, BootShape
  <2>2. Searched = 0 .. ((((total_memory \div BlockSize) \div WordBits) * WordBits) - 1)
    BY SearchedIs DEF IInv
  <2>3. Withheld = LowBlocks \cup MapBlocks \cup KernelBlocks \cup owned
    BY DEF Withheld
  <2> QED BY <2>1, <2>2, <2>3 DEF Pool
<1>3. top \notin Pool
  BY DEF TopReserved, MapWords, IInv, BootShape
<1> HIDE DEF top
<1>4. \A c \in 0 .. (n - 1) : start + c <= top => start + c \in Pool \ owned
  <2> SUFFICES ASSUME NEW c \in 0 .. (n - 1), start + c <= top PROVE start + c \in Pool \ owned
    OBVIOUS
  <2>1. c \in Nat /\ start + c < MapWords * WordBits /\ start + c \in Searched
    BY <1>0, <1>1 DEF Searched, top
  <2>2. Probe(start, c) = start + c
    BY <1>0, <1>1, <2>1, ProbeInside
  <2>3. Probe(start, c) \notin memory_map
    BY DEF FreeRuns
  <2> QED BY <1>2, <2>1, <2>2, <2>3
<1>5. start + n - 1 < top
  <2> SUFFICES ASSUME start + n - 1 >= top PROVE FALSE
    BY <1>1
  <2>1. top - start \in 0 .. (n - 1) /\ start + (top - start) = top
    BY <1>1
  <2>2. start + (top - start) \in Pool
    <3>1. start + (top - start) <= top
      BY <1>1, <2>1
    <3> QED BY <1>4, <2>1, <3>1
  <2> QED BY <1>3, <2>1, <2>2
<1> SUFFICES ASSUME NEW x \in Run(start, n) PROVE x \in Pool \ owned
  OBVIOUS
<1>6. x - start \in 0 .. (n - 1) /\ start + (x - start) = x /\ x <= top
  BY <1>1, <1>5 DEF Run
<1> QED BY <1>4, <1>6

\* After memset every scanned bit is 1, whatever the memory held.
LEMMA InitSetsMap ==
  ASSUME TypeOK, BootShape, pmmngr_init
  PROVE  MapShape'
<1> DEFINE count == total_memory \div BlockSize
<1>1. count \in Nat
  BY BlockCount, GeometryAssumption
<1>2. (count \div WordBits) * WordBits <= (count \div BlocksPerByte) * BlocksPerByte
  BY <1>1, WordsInsideBytes
<1>3. (count \div WordBits) * WordBits \in Int /\ (count \div BlocksPerByte) * BlocksPerByte \in Int
  BY <1>1, DivNat, GeometryAssumption
<1>4. Searched' = 0 .. ((count \div WordBits) * WordBits - 1)
  BY DEF pmmngr_init, Searched, MapWords
<1>5. Run(0, (count \div BlocksPerByte) * BlocksPerByte) \subseteq memory_map'
  BY DEF pmmngr_init
<1> HIDE DEF count
<1>6. Searched' \subseteq memory_map'
  BY <1>2, <1>3, <1>4, <1>5 DEF Run
<1>7. FreedBefore(entry)' = {}
  BY FreedAtStart DEF pmmngr_init, BootShape, FreedBefore
<1> QED BY <1>6, <1>7 DEF MapShape

\* A region that kmain reserves is taken out of the free blocks and nothing
\* else changes.
LEMMA DeinitShape ==
  ASSUME NEW base \in Nat, NEW size \in Nat, pmmngr_deinit_region(base, size),
         pc # "init", MapShape, UNCHANGED <<entry, max_blocks>>,
         Withheld' = Withheld \cup Region(base, size)
  PROVE  MapShape'
<1>1. memory_map' = memory_map \cup Region(base, size)
  BY DEF pmmngr_deinit_region
<1>2. Searched' = Searched /\ FreedBefore(entry)' = FreedBefore(entry)
  BY DEF Searched, MapWords, FreedBefore
<1> QED BY <1>1, <1>2 DEF MapShape

\* The strengthened invariant is preserved.
LEMMA IInvStep ==
  ASSUME TopReserved, IInv, TypeOK', [Next]_vars
  PROVE  IInv'
<1> USE DEF IInv
<1>t. TopReserved' <=> TopReserved
  BY DEF TopReserved, Pool
<1>p. Pool' = Pool
  BY DEF Pool
<1>1. CASE pmmngr_init
  <2>1. MapShape'
    BY <1>1, InitSetsMap
  <2> QED BY <1>1, <2>1 DEF pmmngr_init, BootShape, OwnedInPool, Pool
<1>2. CASE ScanEntry
  <2>1. entry \in 1 .. Len(SMAP) /\ entry' = entry + 1 /\ pc = "regions" /\ pc' = "regions"
    BY <1>2, SMAPLength DEF ScanEntry, TypeOK
  <2>2. Searched' = Searched /\ Withheld' = {} /\ Withheld = {}
    BY <1>2 DEF ScanEntry, Searched, MapWords, Withheld, BootShape
  <2>3. FreedBefore(entry)' = FreedBefore(entry + 1)
    BY <2>1 DEF FreedBefore
  <2>4. \A b \in Searched : b \notin memory_map' <=> b \in FreedBefore(entry + 1)
    <3> SUFFICES ASSUME NEW b \in Searched
                 PROVE  b \notin memory_map' <=> b \in FreedBefore(entry + 1)
      OBVIOUS
    <3>0. b \notin memory_map <=> b \in FreedBefore(entry)
      BY <2>1, <2>2 DEF MapShape
    <3>1. CASE SMAP[entry].type = 1
      <4>1. memory_map' = (memory_map \ Region(SMAP[entry].base, SMAP[entry].size)) \cup {0}
        BY <1>2, <3>1 DEF ScanEntry, pmmngr_init_region
      <4>2. b \in FreedBefore(entry) => b # 0
        BY FreedMember
      <4> QED BY <2>1, <3>0, <3>1, <4>1, <4>2, FreedStep
    <3>2. CASE SMAP[entry].type # 1
      <4>1. memory_map' = memory_map
        BY <1>2, <3>2 DEF ScanEntry
      <4> QED BY <2>1, <3>0, <3>2, <4>1, FreedStep
    <3> QED BY <3>1, <3>2
  <2>5. MapShape'
    BY <2>2, <2>3, <2>4 DEF MapShape
  <2> QED BY <1>2, <2>1, <2>5, <1>p DEF ScanEntry, BootShape, OwnedInPool
<1>3. CASE ScanDone
  <2>1. entry = Len(SMAP) + 1 /\ pc = "regions" /\ pc' = "low" /\ UNCHANGED <<entry, max_blocks, memory_map, owned>>
    BY <1>3, SMAPLength DEF ScanDone, TypeOK
  <2>2. MapShape'
    BY <2>1 DEF MapShape, Withheld, Searched, MapWords, FreedBefore
  <2> QED BY <2>1, <2>2, <1>p DEF BootShape, OwnedInPool
<1>4. CASE DeinitLow
  <2>1. Withheld' = Withheld \cup LowBlocks
    BY <1>4 DEF DeinitLow, Withheld, LowBlocks
  <2>2. MapShape'
    BY <1>4, <2>1, DeinitShape, BootAssumption DEF DeinitLow, LowBlocks
  <2> QED BY <1>4, <2>2, <1>p DEF DeinitLow, BootShape, OwnedInPool
<1>5. CASE DeinitMap
  <2>1. Withheld' = Withheld \cup MapBlocks
    BY <1>5 DEF DeinitMap, Withheld, LowBlocks, MapBlocks
  <2>2. max_blocks = total_memory \div BlockSize /\ max_blocks \div BlocksPerByte \in Nat
    BY <1>5, SearchType, DivNat, GeometryAssumption DEF DeinitMap, BootShape
  <2>3. MapShape'
    BY <1>5, <2>1, <2>2, DeinitShape, BootAssumption DEF DeinitMap, MapBlocks
  <2> QED BY <1>5, <2>3, <1>p DEF DeinitMap, BootShape, OwnedInPool
<1>6. CASE DeinitKernel
  <2>1. Withheld' = Withheld \cup KernelBlocks
    BY <1>6 DEF DeinitKernel, Withheld, LowBlocks, MapBlocks, KernelBlocks
  <2>2. KernelSectors * SectorSize \in Nat
    BY BootAssumption
  <2>3. MapShape'
    BY <1>6, <2>1, <2>2, DeinitShape, BootAssumption DEF DeinitKernel, KernelBlocks
  <2> QED BY <1>6, <2>3, <1>p DEF DeinitKernel, BootShape, OwnedInPool
<1>7. ASSUME NEW n \in Requests, pmmngr_alloc_blocks(n) PROVE IInv'
  <2>1. pc = "up" /\ pc' = "up" /\ UNCHANGED <<entry, max_blocks>>
    BY <1>7 DEF pmmngr_alloc_blocks
  <2>2. CASE Refused(n)
    <3>1. UNCHANGED <<memory_map, owned>>
      BY <1>7, <2>2 DEF pmmngr_alloc_blocks
    <3> QED BY <2>1, <3>1, <1>p DEF BootShape, MapShape, OwnedInPool, Withheld, Searched, MapWords, FreedBefore
  <2>3. CASE ~Refused(n)
    <3> DEFINE start == mmap_first_free_blocks(n)
    <3>0. n \in Nat
      BY BootAssumption
    <3>1. start \in FreeRuns(n) /\ n # 0
      BY <2>3, <3>0, FirstFree, SearchType DEF Refused
    <3>2. memory_map' = memory_map \cup Run(start, n) /\ owned' = owned \cup Run(start, n)
      BY <1>7, <2>3 DEF pmmngr_alloc_blocks
    <3> HIDE DEF start
    <3>3. Run(start, n) \subseteq Pool \ owned
      BY <2>1, <3>0, <3>1, RunIsFree
    <3>4. Withheld' = Withheld \cup Run(start, n)
      BY <2>1, <3>2 DEF Withheld, LowBlocks, MapBlocks, KernelBlocks
    <3>5. MapShape'
      BY <2>1, <3>2, <3>4 DEF MapShape, Searched, MapWords, FreedBefore
    <3> QED BY <2>1, <3>2, <3>3, <3>5, <1>p DEF BootShape, OwnedInPool
  <2> QED BY <2>2, <2>3
<1>8. ASSUME NEW n \in Requests, NEW b \in owned, pmmngr_free_blocks(b, n) PROVE IInv'
  <2>1. /\ pc = "up" /\ pc' = "up" /\ UNCHANGED <<entry, max_blocks>>
        /\ Run(b, n) \subseteq owned
        /\ memory_map' = memory_map \ Run(b, n) /\ owned' = owned \ Run(b, n)
    BY <1>8 DEF pmmngr_free_blocks
  <2>2. Run(b, n) \subseteq Pool
    BY <2>1 DEF OwnedInPool
  <2>3. entry = Len(SMAP) + 1
    BY <2>1 DEF BootShape
  <2>4. Pool \subseteq FreedBefore(entry) \ (LowBlocks \cup MapBlocks \cup KernelBlocks)
    BY <2>3 DEF Pool
  <2>5. Withheld = LowBlocks \cup MapBlocks \cup KernelBlocks \cup owned
    BY <2>1 DEF Withheld
  <2>6. Withheld' = LowBlocks \cup MapBlocks \cup KernelBlocks \cup (owned \ Run(b, n))
    BY <2>1 DEF Withheld, LowBlocks, MapBlocks, KernelBlocks
  <2>7. Searched' = Searched /\ FreedBefore(entry)' = FreedBefore(entry)
    BY <2>1 DEF Searched, MapWords, FreedBefore
  <2>8. MapShape'
    BY <2>1, <2>2, <2>4, <2>5, <2>6, <2>7 DEF MapShape
  <2> QED BY <2>1, <2>8, <1>p DEF BootShape, OwnedInPool
<1>9. CASE UNCHANGED vars
  BY <1>9, <1>p DEF vars, BootShape, MapShape, OwnedInPool, Withheld, Searched, MapWords, FreedBefore
<1> QED BY <1>1, <1>2, <1>3, <1>4, <1>5, <1>6, <1>7, <1>8, <1>9 DEF Next, Boot, Serve

\* The strengthened invariant holds throughout.
LEMMA Invariant == TopReserved => (Spec => []IInv)
<1> SUFFICES ASSUME TopReserved PROVE Spec => []IInv
  OBVIOUS
<1>1. Init => IInv
  <2>1. Init => TypeOK
    BY BootAssumption, GeometryAssumption, SMAPLength DEF Init, TypeOK, NoAnswer
  <2> QED BY <2>1 DEF Init, IInv, BootShape, MapShape, OwnedInPool
<1>2. IInv /\ TypeOK' /\ [Next]_vars => IInv'
  BY IInvStep
<1>3. Spec => []TypeOK
  BY TypeCorrect
<1> QED BY <1>1, <1>2, <1>3, PTL DEF Spec

\* Once kmain is done, the scanned blocks whose bit is clear are those of the
\* pool that nobody owns.
LEMMA ClearBlocks ==
  ASSUME IInv, pc = "up"
  PROVE  /\ Pool \subseteq Searched
         /\ \A b \in Searched : b \notin memory_map <=> b \in Pool \ owned
<1>1. Searched = 0 .. ((((total_memory \div BlockSize) \div WordBits) * WordBits) - 1)
  BY SearchedIs DEF IInv
<1>2. Withheld = LowBlocks \cup MapBlocks \cup KernelBlocks \cup owned
  BY DEF Withheld
<1>3. entry = Len(SMAP) + 1
  BY DEF IInv, BootShape
<1> QED BY <1>1, <1>2, <1>3 DEF IInv, MapShape, Pool

\* On every machine whose last scanned block is not memory, once kmain is done
\* the bit map tells exactly which pool blocks are unowned: no block is handed
\* out twice, none that the BIOS map or kmain reserved, and none is lost.
THEOREM NoBlockHandedOutTwice == TopReserved => (Spec => []MapTracksOwners)
<1> SUFFICES ASSUME TopReserved PROVE Spec => []MapTracksOwners
  OBVIOUS
<1>1. IInv => MapTracksOwners
  BY ClearBlocks DEF IInv, OwnedInPool, MapTracksOwners
<1> QED BY <1>1, Invariant, PTL

---------------------------------------------------------------------------
(* What a block holds.  Regions are rounded to blocks, so these need to    *)
(* know which regions begin and end on one.                                *)

\* Every region of available memory begins on a block, below 4 GB.
EntriesOnBlocks ==
  \A k \in 1 .. Len(SMAP) :
    SMAP[k].type = 1 => SMAP[k].base < UintMod /\ SMAP[k].base % BlockSize = 0

\* A number below 4 GB is a uint32_t as it is.
LEMMA NoWrap ==
  ASSUME NEW a \in Nat, a < UintMod
  PROVE  a % UintMod = a
BY GeometryAssumption, SMT

\* Where the region of an entry that begins on a block lies in memory.
LEMMA RegionStartsAt ==
  ASSUME NEW base \in Nat, base < UintMod, base % BlockSize = 0
  PROVE  RegionStart(base) * BlockSize = base /\ RegionStart(base) \in Nat
<1>1. RegionStart(base) = base \div BlockSize
  BY NoWrap DEF RegionStart
<1>2. base \div BlockSize \in Nat
  BY DivNat, GeometryAssumption
<1>3. base = BlockSize * (base \div BlockSize) + (base % BlockSize)
  BY DivMod, GeometryAssumption
<1> QED BY <1>1, <1>2, <1>3, GeometryAssumption, SMT

\* The whole blocks of a region take up no more bytes than it has.
LEMMA RegionFits ==
  ASSUME NEW size \in Nat
  PROVE  RegionCount(size) * BlockSize <= size /\ RegionCount(size) \in Nat
<1> DEFINE small == size % UintMod
           q == small \div BlockSize
<1>1. small \in Nat /\ small <= size
  BY GeometryAssumption, SMT
<1>2. RegionCount(size) = q
  BY DEF RegionCount
<1> HIDE DEF small
<1>3. q \in Nat /\ small = BlockSize * q + (small % BlockSize) /\ small % BlockSize \in Nat
  BY <1>1, DivNat, DivMod, GeometryAssumption
<1> HIDE DEF q
<1>4. q * BlockSize = BlockSize * q /\ BlockSize * q \in Int
  BY <1>3, GeometryAssumption, SMT
<1> QED BY <1>1, <1>2, <1>3, <1>4

\* The bytes of a block of an entry's region are listed by that entry.
LEMMA BlockIsListed ==
  ASSUME NEW base \in Nat, NEW size \in Nat, base < UintMod, base % BlockSize = 0,
         NEW b \in Region(base, size)
  PROVE  base <= b * BlockSize /\ (b + 1) * BlockSize <= base + size
<1> DEFINE first == RegionStart(base)
           count == RegionCount(size)
<1>1. first * BlockSize = base /\ first \in Nat
  BY RegionStartsAt
<1>2. count * BlockSize <= size /\ count \in Nat
  BY RegionFits
<1>3. b \in first .. (first + count - 1)
  BY DEF Region, Run
<1> HIDE DEF first, count
<1>4. BlockSize \in Nat \ {0}
  BY GeometryAssumption
<1>5. b \in Int /\ first <= b /\ b + 1 <= first + count
  BY <1>1, <1>2, <1>3
<1>6. first * BlockSize <= b * BlockSize
  BY <1>1, <1>4, <1>5, FactorLeq
<1>7. (b + 1) * BlockSize <= (first + count) * BlockSize
  BY <1>1, <1>2, <1>4, <1>5, FactorLeq
<1>8. (first + count) * BlockSize = first * BlockSize + count * BlockSize
  BY <1>1, <1>2, <1>4, SMT
<1>9. (b + 1) * BlockSize \in Int /\ count * BlockSize \in Int
  BY <1>2, <1>4, <1>5, SMT
<1> QED BY <1>1, <1>2, <1>6, <1>7, <1>8, <1>9

\* A client is given only whole blocks of memory that a type-1 entry of the
\* BIOS map lists, provided such entries begin on a block.
THEOREM HandsOutListedMemory == TopReserved /\ EntriesOnBlocks => (Spec => []OnlyListedMemory)
<1> SUFFICES ASSUME TopReserved, EntriesOnBlocks PROVE Spec => []OnlyListedMemory
  OBVIOUS
<1>1. IInv => OnlyListedMemory
  <2> SUFFICES ASSUME IInv, NEW b \in owned
               PROVE  \E k \in 1 .. Len(SMAP) : /\ SMAP[k].type = 1
                                                /\ SMAP[k].base <= b * BlockSize
                                                /\ (b + 1) * BlockSize <= SMAP[k].base + SMAP[k].size
    BY DEF OnlyListedMemory
  <2>1. b \in FreedBefore(Len(SMAP) + 1)
    BY DEF IInv, OwnedInPool, Pool
  <2>2. PICK k \in 1 .. ((Len(SMAP) + 1) - 1) : SMAP[k].type = 1 /\ b \in Region(SMAP[k].base, SMAP[k].size)
    BY <2>1, FreedMember
  <2>3. k \in 1 .. Len(SMAP)
    BY SMAPLength
  <2>4. SMAP[k].base \in Nat /\ SMAP[k].size \in Nat
    BY <2>3, SMAPEntry
  <2>5. SMAP[k].base < UintMod /\ SMAP[k].base % BlockSize = 0
    BY <2>2, <2>3 DEF EntriesOnBlocks
  <2>6. SMAP[k].base <= b * BlockSize /\ (b + 1) * BlockSize <= SMAP[k].base + SMAP[k].size
    BY <2>2, <2>4, <2>5, BlockIsListed
  <2> QED BY <2>2, <2>3, <2>6
<1> QED BY <1>1, Invariant, PTL

\* The blocks that a region fills are among those that pmmngr_deinit_region
\* takes out, when it begins on a block.
LEMMA FilledBlocks ==
  ASSUME NEW base \in Nat, NEW size \in Nat, base < UintMod, size < UintMod, base % BlockSize = 0
  PROVE  Filled(base, size) \subseteq Region(base, size)
<1> DEFINE first == RegionStart(base)
           count == RegionCount(size)
<1>0. BlockSize \in Nat \ {0}
  BY GeometryAssumption
<1>1. first * BlockSize = base /\ first \in Nat
  BY RegionStartsAt
<1>2. /\ size = BlockSize * count + (size % BlockSize)
      /\ count \in Nat /\ size % BlockSize \in 0 .. (BlockSize - 1)
  <2>1. count = size \div BlockSize
    BY NoWrap DEF RegionCount
  <2> DEFINE q == size \div BlockSize
             left == size % BlockSize
  <2>2. q \in Nat /\ size = BlockSize * q + left /\ left \in 0 .. (BlockSize - 1)
    <3>1. q \in 0 .. size
      BY <1>0, DivNat
    <3>2. size \in Int
      OBVIOUS
    <3>3. left \in 0 .. (BlockSize - 1) /\ size = BlockSize * q + left
      BY <1>0, <3>2, DivMod
    <3> HIDE DEF q, left
    <3> QED BY ONLY <3>1, <3>3
  <2> HIDE DEF q, left
  <2>3. count = q
    BY <2>1 DEF q
  <2> HIDE DEF count
  <2>4. size = BlockSize * count + left /\ count \in Nat /\ left \in 0 .. (BlockSize - 1)
    BY ONLY <2>2, <2>3
  <2> QED BY <2>4 DEF left
<1>3. Region(base, size) = first .. (first + count - 1)
  BY DEF Region, Run
<1> HIDE DEF first, count
<1> DEFINE left == size % BlockSize
<1>4. (first + count + 1) * BlockSize = base + BlockSize * count + BlockSize
  BY <1>0, <1>1, <1>2, SMT
<1>5. left \in Nat /\ left < BlockSize /\ size = BlockSize * count + left /\ BlockSize * count \in Nat
  BY <1>0, <1>2, SMT
<1> HIDE DEF left
<1> SUFFICES ASSUME NEW b \in Filled(base, size) PROVE b \in Region(base, size)
  OBVIOUS
<1>6. b \in Int /\ base <= b * BlockSize /\ (b + 1) * BlockSize <= base + size
  BY <1>0 DEF Filled
<1>7. (b + 1) * BlockSize \in Int /\ b * BlockSize \in Int /\ (b + 1) * BlockSize = b * BlockSize + BlockSize
  BY <1>0, <1>6, SMT
<1>8. (b + 1) * BlockSize < (first + count + 1) * BlockSize
  BY <1>0, <1>4, <1>5, <1>6, <1>7
<1>9. b + 1 < first + count + 1
  BY <1>0, <1>1, <1>2, <1>6, <1>8, LessFactor
<1>10. first * BlockSize < (b + 1) * BlockSize
  BY <1>0, <1>1, <1>6, <1>7
<1>11. first < b + 1
  BY <1>0, <1>1, <1>6, <1>10, LessFactor
<1> QED BY <1>1, <1>2, <1>3, <1>6, <1>9, <1>11

\* No client is given a block that the bit map or the kernel image fills.
THEOREM KernelAndMapKept == TopReserved => (Spec => []WholeBlocksKept)
<1> SUFFICES ASSUME TopReserved PROVE Spec => []WholeBlocksKept
  OBVIOUS
<1> DEFINE bytes == (total_memory \div BlockSize) \div BlocksPerByte
           image == KernelSectors * SectorSize
<1>0. bytes \in Nat /\ bytes < UintMod
  <2> DEFINE blocks == total_memory \div BlockSize
  <2>1. blocks \in 0 .. (UintMod - 1) /\ blocks \in Nat
    BY BlockCount, GeometryAssumption
  <2> HIDE DEF blocks
  <2>2. blocks \div BlocksPerByte \in Nat /\ blocks \div BlocksPerByte <= blocks
    BY <2>1, DivNat, GeometryAssumption, SMT
  <2> QED BY <2>1, <2>2, GeometryAssumption DEF blocks
<1>1. image \in Nat /\ image < UintMod /\ KernelAddr < UintMod /\ MemMapAddr < UintMod
  <2>1. image \in Nat
    BY BootAssumption
  <2> HIDE DEF image
  <2>2. KernelAddr + image < UintMod
    BY BootAssumption DEF image
  <2>3. KernelAddr \in Nat /\ MemMapAddr < UintMod /\ UintMod \in Nat
    BY BootAssumption, GeometryAssumption
  <2> QED BY ONLY <2>1, <2>2, <2>3
<1>2. Filled(MemMapAddr, bytes) \subseteq MapBlocks /\ Filled(KernelAddr, image) \subseteq KernelBlocks
  <2> HIDE DEF bytes, image
  <2>1. Filled(MemMapAddr, bytes) \subseteq Region(MemMapAddr, bytes)
    BY <1>0, <1>1, FilledBlocks, BootAssumption
  <2>2. Filled(KernelAddr, image) \subseteq Region(KernelAddr, image)
    BY <1>1, FilledBlocks, BootAssumption
  <2> QED BY <2>1, <2>2 DEF MapBlocks, KernelBlocks, bytes, image
<1>3. IInv => WholeBlocksKept
  <2> SUFFICES ASSUME IInv PROVE WholeBlocksKept
    OBVIOUS
  <2>1. owned \cap (MapBlocks \cup KernelBlocks) = {}
    BY DEF IInv, OwnedInPool, Pool
  <2>2. CASE pc = "init"
    BY <2>2 DEF IInv, BootShape, WholeBlocksKept
  <2>3. CASE pc # "init"
    <3>1. max_blocks \div BlocksPerByte = bytes
      BY <2>3 DEF IInv, BootShape
    <3> HIDE DEF bytes, image
    <3> QED BY <1>2, <2>1, <3>1 DEF WholeBlocksKept, image
  <2> QED BY <2>2, <2>3
<1> QED BY <1>3, Invariant, PTL

---------------------------------------------------------------------------
(* What kmain takes for granted of the BIOS map and of the kernel's        *)
(* layout.                                                                 *)

Available(k) == Region(SMAP[k].base, SMAP[k].size)
Scanned == 0 .. ((((total_memory \div BlockSize) \div WordBits) * WordBits) - 1)

\* Regions of available memory lie in the scanned part of the map and apart
\* from each other, and block 0 is in one of them.
ConsistentMap ==
  /\ \A k \in 1 .. Len(SMAP) : SMAP[k].type = 1 => Available(k) \subseteq Scanned
  /\ \A j, k \in 1 .. Len(SMAP) :
       SMAP[j].type = 1 /\ SMAP[k].type = 1 /\ j # k => Available(j) \cap Available(k) = {}
  /\ \E k \in 1 .. Len(SMAP) : SMAP[k].type = 1 /\ 0 \in Available(k)

\* What kmain reserves is available memory, and lies apart.
ConsistentLayout ==
  /\ LowBlocks \cup MapBlocks \cup KernelBlocks \subseteq FreedBefore(Len(SMAP) + 1)
  /\ LowBlocks \cap MapBlocks = {} /\ LowBlocks \cap KernelBlocks = {} /\ MapBlocks \cap KernelBlocks = {}

Consistent == TopReserved /\ ConsistentMap /\ ConsistentLayout

---------------------------------------------------------------------------
(* Counting.                                                               *)

\* Adding blocks that are not there yet adds their number.
LEMMA CountAdded ==
  ASSUME NEW S, NEW T, IsFiniteSet(S), IsFiniteSet(T), S \cap T = {}
  PROVE  IsFiniteSet(S \cup T) /\ Cardinality(S \cup T) = Cardinality(S) + Cardinality(T)
<1>1. Cardinality(S) \in Nat /\ Cardinality(T) \in Nat
  BY FS_CardinalityType
<1>2. IsFiniteSet(S \cup T) /\ Cardinality(S \cup T) = Cardinality(S) + Cardinality(T) - Cardinality(S \cap T)
  BY FS_Union
<1>3. Cardinality(S \cap T) = 0
  BY FS_EmptySet
<1> QED BY <1>1, <1>2, <1>3

\* Removing blocks that are there takes off their number.
LEMMA CountRemoved ==
  ASSUME NEW S, NEW T, IsFiniteSet(S), T \subseteq S
  PROVE  IsFiniteSet(S \ T) /\ Cardinality(S \ T) = Cardinality(S) - Cardinality(T)
<1>1. S \cap T = T
  OBVIOUS
<1> QED BY <1>1, FS_Difference

\* A run of n blocks is n blocks.
LEMMA RunCount ==
  ASSUME NEW b \in Nat, NEW n \in Nat
  PROVE  IsFiniteSet(Run(b, n)) /\ Cardinality(Run(b, n)) = n
<1>1. b \in Int /\ b + n - 1 \in Int
  OBVIOUS
<1>2. /\ IsFiniteSet(b .. (b + n - 1))
      /\ Cardinality(b .. (b + n - 1)) = IF b > b + n - 1 THEN 0 ELSE (b + n - 1) - b + 1
  BY <1>1, FS_Interval
<1> QED BY <1>2 DEF Run

\* A region is as many blocks as used_blocks is changed by.
LEMMA RegionSize ==
  ASSUME NEW base \in Nat, NEW size \in Nat
  PROVE  IsFiniteSet(Region(base, size)) /\ Cardinality(Region(base, size)) = RegionCount(size)
BY RegionType, RunCount DEF Region

---------------------------------------------------------------------------
(* The invariant: used_blocks and the map's clear bits add up, but for     *)
(* block 0, which init_region counts as free and sets again.               *)

\* An entry already walked lists block 0.
ZeroFreed(i) == \E k \in 1 .. (i - 1) : SMAP[k].type = 1 /\ 0 \in Available(k)
Zero(i) == IF ZeroFreed(i) THEN 1 ELSE 0

Clear == Searched \ memory_map
FreeCount == Cardinality(Clear) + Zero(entry)

Counted == pc # "init" => used_blocks = max_blocks - FreeCount

\* The clear bits are of blocks in the walked regions, and not of block 0.
LEMMA ClearIs ==
  ASSUME IInv, pc # "init"
  PROVE  /\ Searched = Scanned
         /\ Clear = (FreedBefore(entry) \ Withheld) \cap Scanned
         /\ 0 \notin Clear
         /\ IsFiniteSet(Clear) /\ Cardinality(Clear) \in Nat
<1>1. Searched = Scanned
  BY SearchedIs DEF IInv, Scanned
<1>2. Clear = (FreedBefore(entry) \ Withheld) \cap Scanned
  BY <1>1 DEF IInv, MapShape, Clear
<1>3. 0 \notin FreedBefore(entry)
  BY FreedMember
<1>4. IsFiniteSet(Searched)
  <2>1. 0 \in Int /\ MapWords * WordBits - 1 \in Int
    BY SearchType, GeometryAssumption DEF IInv
  <2> QED BY <2>1, FS_Interval DEF Searched
<1>5. Clear \in SUBSET Searched
  BY DEF Clear
<1>6. IsFiniteSet(Clear)
  BY <1>4, <1>5, FS_Subset
<1> QED BY <1>1, <1>2, <1>3, <1>6, FS_CardinalityType

\* The count never exceeds the number of blocks, so 32-bit arithmetic does
\* not wrap around.
LEMMA CountFits ==
  ASSUME IInv, ConsistentMap, pc # "init"
  PROVE  FreeCount \in 0 .. max_blocks /\ Zero(entry) \in {0, 1}
<1> DEFINE total == MapWords * WordBits
<1>0. WordBits \in Nat \ {0} /\ MapWords \in Nat /\ max_blocks \in Nat
  BY SearchType, GeometryAssumption DEF IInv
<1>1. total \in Nat /\ total <= max_blocks
  <2>1. max_blocks = WordBits * MapWords + (max_blocks % WordBits) /\ max_blocks % WordBits \in Nat
    BY <1>0, DivMod DEF MapWords
  <2>2. total = WordBits * MapWords /\ total \in Nat
    BY <1>0, SMT
  <2> HIDE DEF total
  <2> QED BY <1>0, <2>1, <2>2
<1>2. Searched = Run(0, total)
  BY <1>0 DEF Searched, Run
<1>3. IsFiniteSet(Searched) /\ Cardinality(Searched) = total
  BY <1>1, <1>2, RunCount
<1> HIDE DEF total
<1>4. Cardinality(Clear) \in Nat /\ 0 \notin Clear /\ IsFiniteSet(Clear)
  BY ClearIs
<1>5. CASE ZeroFreed(entry)
  <2>1. PICK k \in 1 .. (entry - 1) : SMAP[k].type = 1 /\ 0 \in Available(k)
    BY <1>5 DEF ZeroFreed
  <2>2. k \in 1 .. Len(SMAP)
    BY SMAPLength DEF IInv, TypeOK
  <2>3. 0 \in Searched
    BY <2>1, <2>2, ClearIs DEF ConsistentMap
  <2>4. IsFiniteSet(Searched \ {0}) /\ Cardinality(Searched \ {0}) = total - 1
    BY <1>3, <2>3, FS_RemoveElement
  <2>5. Clear \in SUBSET (Searched \ {0})
    BY <1>4 DEF Clear
  <2>6. Cardinality(Clear) <= total - 1
    BY <2>4, <2>5, FS_Subset
  <2> QED BY <1>0, <1>1, <1>4, <1>5, <2>6 DEF FreeCount, Zero
<1>6. CASE ~ZeroFreed(entry)
  <2>1. Clear \in SUBSET Searched
    BY DEF Clear
  <2>2. Cardinality(Clear) <= total
    BY <1>3, <2>1, FS_Subset
  <2> QED BY <1>0, <1>1, <1>4, <1>6, <2>2 DEF FreeCount, Zero
<1> QED BY <1>5, <1>6

\* The same, as a formula that holds of every state.
LEMMA CountFitsAlways ==
  IInv /\ ConsistentMap /\ pc # "init" => FreeCount \in 0 .. max_blocks
BY CountFits

\* When used_blocks is changed by what the count is changed by, they still
\* add up.
LEMMA StillCounted ==
  ASSUME IInv', ConsistentMap, pc' # "init", max_blocks' \in Nat, NEW used \in Int,
         used_blocks' = used % UintMod, used = max_blocks' - FreeCount'
  PROVE  Counted'
<1>1. FreeCount' \in 0 .. max_blocks'
  <2>1. (IInv /\ ConsistentMap /\ pc # "init" => FreeCount \in 0 .. max_blocks)'
    BY CountFitsAlways, PTL
  <2>2. ConsistentMap'
    BY DEF ConsistentMap, Available, Scanned
  <2> QED BY <2>1, <2>2
<1>2. max_blocks' \in 0 .. (UintMod - 1)
  BY DEF IInv, TypeOK
<1>3. used \in Nat /\ used < UintMod
  <2> DEFINE f == FreeCount'
             m == max_blocks'
  <2>1. f \in Nat /\ f <= m /\ m \in Nat /\ m < UintMod /\ used = m - f
    BY <1>1, <1>2, GeometryAssumption
  <2> HIDE DEF f, m
  <2> QED BY <2>1, GeometryAssumption
<1>4. used_blocks' = used
  BY <1>3, NoWrap
<1> QED BY <1>4 DEF Counted

\* After memset no bit is clear, and no block counts as free.
LEMMA InitCounts ==
  ASSUME IInv, IInv', ConsistentMap, pmmngr_init
  PROVE  Counted'
<1>1. pc' # "init" /\ entry' = 1 /\ used_blocks' = max_blocks'
  BY DEF IInv, BootShape, pmmngr_init
<1>2. Clear' = {}
  <2>1. \A b \in Searched' : b \notin memory_map' <=> b \in FreedBefore(entry)' \ Withheld'
    BY <1>1 DEF IInv, MapShape
  <2>2. FreedBefore(entry)' = {}
    BY <1>1, FreedAtStart DEF FreedBefore
  <2> QED BY <2>1, <2>2 DEF Clear
<1>3. Cardinality(Clear') = 0
  BY <1>2, FS_EmptySet
<1>4. ~ZeroFreed(entry')
  <2>1. 1 .. (1 - 1) = {}
    OBVIOUS
  <2> QED BY <1>1, <2>1 DEF ZeroFreed
<1>5. FreeCount' = 0
  <2>1. Zero(entry') = 0
    BY <1>4 DEF Zero
  <2> QED BY <1>3, <2>1 DEF FreeCount, Zero, ZeroFreed, Available
<1>6. max_blocks' \in Nat
  BY GeometryAssumption DEF IInv, TypeOK
<1>7. max_blocks' = max_blocks' - 0
  <2>1. \A m \in Nat : m = m - 0
    OBVIOUS
  <2> QED BY <1>6, <2>1, Zenon
<1>8. used_blocks' = max_blocks' - FreeCount'
  BY <1>1, <1>5, <1>7, Zenon
<1> QED BY <1>8 DEF Counted

\* An entry of available memory adds its blocks to the clear bits, but for
\* block 0, and all of them to the count.
LEMMA EntryCounts ==
  ASSUME IInv, IInv', ConsistentMap, Counted, ScanEntry
  PROVE  Counted'
<1>1. entry \in 1 .. Len(SMAP) /\ entry' = entry + 1 /\ pc = "regions" /\ pc' = "regions" /\ max_blocks' = max_blocks
  BY SMAPLength DEF ScanEntry, IInv, TypeOK
<1>2. SMAP[entry].base \in Nat /\ SMAP[entry].size \in Nat
  BY <1>1, SMAPEntry
<1>3. Searched' = Searched /\ max_blocks \in Nat /\ used_blocks \in Int
  BY <1>1, GeometryAssumption DEF Searched, MapWords, IInv, TypeOK
<1> DEFINE R == Available(entry)
           n == RegionCount(SMAP[entry].size)
<1>4. IsFiniteSet(R) /\ Cardinality(R) = n /\ n \in Nat
  BY <1>2, RegionSize, RegionType DEF Available
<1>5. IsFiniteSet(Clear) /\ Cardinality(Clear) \in Nat /\ 0 \notin Clear
  BY <1>1, ClearIs
<1>6. used_blocks = max_blocks - FreeCount /\ FreeCount \in Nat
  BY <1>1, <1>3, CountFits DEF Counted
<1>7. ZeroFreed(entry') <=> ZeroFreed(entry) \/ (SMAP[entry].type = 1 /\ 0 \in R)
  <2>1. 1 .. ((entry + 1) - 1) = (1 .. (entry - 1)) \cup {entry}
    BY <1>1, SMAPLength
  <2> QED BY <1>1, <2>1 DEF ZeroFreed
<1>8. FreeCount' = Cardinality(Clear') + Zero(entry')
  BY DEF FreeCount, Zero, ZeroFreed, Available
<1>9. CASE SMAP[entry].type = 1
  <2>1. memory_map' = (memory_map \ R) \cup {0} /\ used_blocks' = (used_blocks - n) % UintMod
    BY <1>9 DEF ScanEntry, pmmngr_init_region, Available
  <2>2. R \subseteq Searched
    BY <1>1, <1>9, ClearIs DEF ConsistentMap
  <2>3. \A k \in 1 .. (entry - 1) : SMAP[k].type = 1 => Available(k) \cap R = {}
    BY <1>1, <1>9, SMAPLength DEF ConsistentMap
  <2>4. Clear \cap R = {}
    <3>1. Clear \subseteq FreedBefore(entry)
      BY <1>1, ClearIs
    <3>2. ASSUME NEW x \in FreedBefore(entry) PROVE x \notin R
      BY <2>3, FreedMember DEF Available
    <3> QED BY <3>1, <3>2
  <2>5. Clear' = Clear \cup (R \ {0})
    BY <1>3, <1>5, <2>1, <2>2 DEF Clear
  <2> HIDE DEF n, R
  <2>6. CASE 0 \in R
    <3>1. IsFiniteSet(R \ {0}) /\ Cardinality(R \ {0}) = n - 1
      BY <1>4, <2>6, FS_RemoveElement
    <3>2. Cardinality(Clear') = Cardinality(Clear) + (n - 1)
      <4>1. Clear \cap (R \ {0}) = {}
        BY <2>4
      <4> QED BY <1>5, <2>5, <3>1, <4>1, CountAdded
    <3>3. ~ZeroFreed(entry)
      BY <2>3, <2>6 DEF ZeroFreed
    <3>4. Zero(entry) = 0 /\ Zero(entry') = 1
      BY <1>7, <1>9, <2>6, <3>3 DEF Zero
    <3>5. FreeCount' = FreeCount + n
      BY <1>4, <1>5, <1>8, <3>2, <3>4 DEF FreeCount
    <3>6. used_blocks - n = max_blocks' - FreeCount' /\ used_blocks - n \in Int
      BY <1>1, <1>3, <1>4, <1>6, <3>5
    <3> QED BY <1>1, <1>3, <2>1, <3>6, StillCounted
  <2>7. CASE 0 \notin R
    <3>1. R \ {0} = R
      BY <2>7
    <3>2. Cardinality(Clear') = Cardinality(Clear) + n
      BY <1>4, <1>5, <2>4, <2>5, <3>1, CountAdded
    <3>3. Zero(entry') = Zero(entry) /\ Zero(entry) \in {0, 1}
      BY <1>7, <2>7 DEF Zero
    <3>4. FreeCount' = FreeCount + n
      BY <1>4, <1>5, <1>8, <3>2, <3>3 DEF FreeCount
    <3>5. used_blocks - n = max_blocks' - FreeCount' /\ used_blocks - n \in Int
      BY <1>1, <1>3, <1>4, <1>6, <3>4
    <3> QED BY <1>1, <1>3, <2>1, <3>5, StillCounted
  <2> QED BY <2>6, <2>7
<1>10. CASE SMAP[entry].type # 1
  <2>1. memory_map' = memory_map /\ used_blocks' = used_blocks
    BY <1>10 DEF ScanEntry
  <2>2. Clear' = Clear
    BY <1>3, <2>1 DEF Clear
  <2>3. Zero(entry') = Zero(entry)
    BY <1>7, <1>10 DEF Zero
  <2>4. FreeCount' = FreeCount
    BY <1>8, <2>2, <2>3 DEF FreeCount
  <2> QED BY <1>1, <1>6, <2>1, <2>4 DEF Counted
<1> QED BY <1>9, <1>10

\* A region that is reserved loses its blocks' clear bits and is taken off the
\* count, once.
LEMMA DeinitCounts ==
  ASSUME IInv, IInv', ConsistentMap, Counted, NEW base \in Nat, NEW size \in Nat,
         pmmngr_deinit_region(base, size), pc # "init", pc' # "init",
         UNCHANGED <<entry, max_blocks>>, Region(base, size) \subseteq Clear
  PROVE  Counted'
<1> DEFINE R == Region(base, size)
           n == RegionCount(size)
<1>1. memory_map' = memory_map \cup R /\ used_blocks' = (used_blocks + n) % UintMod
  BY DEF pmmngr_deinit_region
<1>2. IsFiniteSet(R) /\ Cardinality(R) = n /\ n \in Nat
  BY RegionSize, RegionType
<1>3. IsFiniteSet(Clear) /\ Cardinality(Clear) \in Nat
  BY ClearIs
<1>4. used_blocks = max_blocks - FreeCount /\ FreeCount \in Nat /\ Zero(entry) \in {0, 1} /\ max_blocks \in Nat
  BY CountFits, GeometryAssumption DEF Counted, IInv, TypeOK
<1>5. Searched' = Searched
  BY DEF Searched, MapWords
<1>6. Clear' = Clear \ R
  BY <1>1, <1>5 DEF Clear
<1>7. R \subseteq Clear
  OBVIOUS
<1> HIDE DEF R, n
<1>8. Cardinality(Clear') = Cardinality(Clear) - n
  BY <1>2, <1>3, <1>6, <1>7, CountRemoved
<1>9. FreeCount' = Cardinality(Clear') + Zero(entry)
  BY DEF FreeCount, Zero, ZeroFreed, Available
<1>10. FreeCount' = FreeCount - n
  BY <1>2, <1>3, <1>4, <1>8, <1>9 DEF FreeCount
<1>11. used_blocks + n = max_blocks' - FreeCount' /\ used_blocks + n \in Int
  BY <1>2, <1>4, <1>10
<1> QED BY <1>1, <1>4, <1>11, StillCounted

\* What kmain reserves is clear until it does.
LEMMA ReservesClear ==
  ASSUME IInv, Consistent
  PROVE  /\ pc = "low" => LowBlocks \subseteq Clear
         /\ pc = "map" => MapBlocks \subseteq Clear
         /\ pc = "kernel" => KernelBlocks \subseteq Clear
<1> SUFFICES ASSUME pc \in {"low", "map", "kernel"}
             PROVE  /\ pc = "low" => LowBlocks \subseteq Clear
                    /\ pc = "map" => MapBlocks \subseteq Clear
                    /\ pc = "kernel" => KernelBlocks \subseteq Clear
  OBVIOUS
<1>1. entry = Len(SMAP) + 1 /\ owned = {}
  BY DEF IInv, BootShape
<1>2. FreedBefore(Len(SMAP) + 1) \subseteq Scanned
  <2> SUFFICES ASSUME NEW x \in FreedBefore(Len(SMAP) + 1) PROVE x \in Scanned
    OBVIOUS
  <2>1. PICK k \in 1 .. ((Len(SMAP) + 1) - 1) : SMAP[k].type = 1 /\ x \in Available(k)
    BY FreedMember DEF Available
  <2>2. k \in 1 .. Len(SMAP)
    BY SMAPLength
  <2> QED BY <2>1, <2>2 DEF Consistent, ConsistentMap
<1>3. Clear = FreedBefore(Len(SMAP) + 1) \ Withheld
  BY <1>1, <1>2, ClearIs
<1>4. Withheld = (IF pc \in {"map", "kernel"} THEN LowBlocks ELSE {}) \cup (IF pc = "kernel" THEN MapBlocks ELSE {})
  BY <1>1 DEF Withheld
<1>5. LowBlocks \cup MapBlocks \cup KernelBlocks \subseteq FreedBefore(Len(SMAP) + 1)
  BY DEF Consistent, ConsistentLayout
<1>6. LowBlocks \cap MapBlocks = {} /\ LowBlocks \cap KernelBlocks = {} /\ MapBlocks \cap KernelBlocks = {}
  BY DEF Consistent, ConsistentLayout
<1> QED BY <1>3, <1>4, <1>5, <1>6

\* A request that is granted takes n clear blocks.
LEMMA AllocTakesClear ==
  ASSUME IInv, TopReserved, pc = "up", NEW n \in Requests, pmmngr_alloc_blocks(n), ~Refused(n)
  PROVE  LET start == mmap_first_free_blocks(n)
         IN  /\ start \in Nat /\ n \in Nat \ {0}
             /\ Run(start, n) \subseteq Clear /\ start \in Run(start, n)
             /\ Clear' = Clear \ Run(start, n)
<1> DEFINE start == mmap_first_free_blocks(n)
<1>1. n \in Nat
  BY BootAssumption
<1>2. start \in FreeRuns(n) /\ n # 0
  BY <1>1, FirstFree, SearchType DEF Refused, IInv
<1>3. start \in Nat
  BY StartType DEF IInv
<1>4. memory_map' = memory_map \cup Run(start, n) /\ max_blocks' = max_blocks
  BY DEF pmmngr_alloc_blocks
<1> HIDE DEF start
<1>5. Run(start, n) \subseteq Pool \ owned
  BY <1>1, <1>2, RunIsFree
<1>6. Run(start, n) \subseteq Clear
  BY <1>5, ClearBlocks DEF Clear
<1>7. Clear' = Clear \ Run(start, n)
  <2>1. Searched' = Searched
    BY <1>4 DEF Searched, MapWords
  <2> QED BY <1>4, <2>1 DEF Clear
<1>8. start \in Run(start, n)
  BY <1>1, <1>2, <1>3 DEF Run
<1> QED BY <1>1, <1>2, <1>3, <1>6, <1>7, <1>8 DEF start

\* What is freed was not clear, and is afterwards.
LEMMA FreeGivesClear ==
  ASSUME IInv, pc = "up", NEW n \in Requests, NEW b \in owned, pmmngr_free_blocks(b, n)
  PROVE  /\ b \in Nat /\ n \in Nat
         /\ Run(b, n) \cap Clear = {}
         /\ Clear' = Clear \cup Run(b, n)
<1>1. b \in Nat /\ n \in Nat
  BY BootAssumption DEF IInv, TypeOK
<1>2. Run(b, n) \subseteq owned /\ memory_map' = memory_map \ Run(b, n) /\ max_blocks' = max_blocks
  BY DEF pmmngr_free_blocks
<1>3. owned \subseteq Searched /\ owned \cap Clear = {}
  BY ClearBlocks DEF IInv, OwnedInPool, Clear
<1>4. Searched' = Searched
  BY <1>2 DEF Searched, MapWords
<1> QED BY <1>1, <1>2, <1>3, <1>4 DEF Clear

\* Every step keeps the count.
LEMMA CountedStep ==
  ASSUME Consistent, IInv, IInv', Counted, [Next]_vars
  PROVE  Counted'
<1>0. ConsistentMap /\ TopReserved
  BY DEF Consistent
<1>1. CASE pmmngr_init
  BY <1>0, <1>1, InitCounts
<1>2. CASE ScanEntry
  BY <1>0, <1>2, EntryCounts
<1>3. CASE ScanDone \/ UNCHANGED vars
  <2>1. UNCHANGED <<entry, memory_map, used_blocks, max_blocks>> /\ (pc = "init" => pc' = "init")
    BY <1>3 DEF ScanDone, vars
  <2>2. FreeCount' = FreeCount
    BY <2>1 DEF FreeCount, Clear, Searched, MapWords, Zero, ZeroFreed, Available
  <2> QED BY <2>1, <2>2 DEF Counted
<1>4. CASE DeinitLow
  <2>1. LowBlocks \subseteq Clear
    BY <1>4, ReservesClear DEF DeinitLow
  <2> QED BY <1>0, <1>4, <2>1, DeinitCounts, BootAssumption DEF DeinitLow, LowBlocks
<1>5. CASE DeinitMap
  <2>1. MapBlocks \subseteq Clear
    BY <1>5, ReservesClear DEF DeinitMap
  <2>2. max_blocks = total_memory \div BlockSize /\ max_blocks \div BlocksPerByte \in Nat
    BY <1>5, SearchType, DivNat, GeometryAssumption DEF DeinitMap, IInv, BootShape
  <2> QED BY <1>0, <1>5, <2>1, <2>2, DeinitCounts, BootAssumption DEF DeinitMap, MapBlocks
<1>6. CASE DeinitKernel
  <2>1. KernelBlocks \subseteq Clear
    BY <1>6, ReservesClear DEF DeinitKernel
  <2>2. KernelSectors * SectorSize \in Nat
    BY BootAssumption
  <2> QED BY <1>0, <1>6, <2>1, <2>2, DeinitCounts, BootAssumption DEF DeinitKernel, KernelBlocks
<1>7. ASSUME pc = "up", UNCHANGED <<pc, entry, max_blocks>>, NEW d \in Int,
             used_blocks' = (used_blocks - d) % UintMod, Cardinality(Clear') = Cardinality(Clear) + d
      PROVE  Counted'
  <2>1. used_blocks = max_blocks - FreeCount /\ FreeCount \in Nat /\ Zero(entry) \in {0, 1} /\ max_blocks \in Nat
    BY <1>0, <1>7, CountFits, GeometryAssumption DEF Counted, IInv, TypeOK
  <2>2. FreeCount' = Cardinality(Clear') + Zero(entry)
    BY <1>7 DEF FreeCount, Zero, ZeroFreed, Available
  <2>3. Cardinality(Clear) \in Nat
    BY <1>7, ClearIs
  <2>4. FreeCount' = FreeCount + d
    BY <1>7, <2>1, <2>2, <2>3 DEF FreeCount
  <2>5. used_blocks - d = max_blocks' - FreeCount' /\ used_blocks - d \in Int
    BY <1>7, <2>1, <2>4
  <2> QED BY <1>0, <1>7, <2>1, <2>5, StillCounted
<1>8. ASSUME NEW n \in Requests, pmmngr_alloc_blocks(n) PROVE Counted'
  <2>1. pc = "up" /\ UNCHANGED <<pc, entry, max_blocks>>
    BY <1>8 DEF pmmngr_alloc_blocks
  <2>2. CASE Refused(n)
    <3>1. UNCHANGED <<memory_map, used_blocks>>
      BY <1>8, <2>2 DEF pmmngr_alloc_blocks
    <3>2. FreeCount' = FreeCount
      BY <2>1, <3>1 DEF FreeCount, Clear, Searched, MapWords, Zero, ZeroFreed, Available
    <3> QED BY <2>1, <3>1, <3>2 DEF Counted
  <2>3. CASE ~Refused(n)
    <3> DEFINE R == Run(mmap_first_free_blocks(n), n)
    <3>1. R \subseteq Clear /\ Clear' = Clear \ R /\ n \in Nat /\ mmap_first_free_blocks(n) \in Nat
      BY <1>0, <1>8, <2>1, <2>3, AllocTakesClear
    <3>2. IsFiniteSet(R) /\ Cardinality(R) = n
      BY <3>1, RunCount
    <3> HIDE DEF R
    <3>3. Cardinality(Clear) \in Nat /\ IsFiniteSet(Clear)
      BY <2>1, ClearIs
    <3>4. Cardinality(Clear') = Cardinality(Clear) + (-n) /\ -n \in Int
      <4>1. Cardinality(Clear \ R) = Cardinality(Clear) - Cardinality(R)
        BY <3>1, <3>3, CountRemoved
      <4> QED BY <3>1, <3>2, <3>3, <4>1
    <3>5. used_blocks' = (used_blocks + n) % UintMod
      BY <1>8, <2>3 DEF pmmngr_alloc_blocks
    <3>6. used_blocks + n = used_blocks - (-n)
      BY <3>1, GeometryAssumption DEF IInv, TypeOK
    <3> QED BY <1>7, <2>1, <3>4, <3>5, <3>6
  <2> QED BY <2>2, <2>3
<1>9. ASSUME NEW n \in Requests, NEW b \in owned, pmmngr_free_blocks(b, n) PROVE Counted'
  <2>1. pc = "up" /\ UNCHANGED <<pc, entry, max_blocks>> /\ used_blocks' = (used_blocks - n) % UintMod
    BY <1>9 DEF pmmngr_free_blocks
  <2>2. b \in Nat /\ n \in Nat /\ Run(b, n) \cap Clear = {} /\ Clear' = Clear \cup Run(b, n)
    BY <1>9, <2>1, FreeGivesClear
  <2>3. IsFiniteSet(Run(b, n)) /\ Cardinality(Run(b, n)) = n
    BY <2>2, RunCount
  <2>4. IsFiniteSet(Clear) /\ Clear \cap Run(b, n) = {}
    BY <2>1, <2>2, ClearIs
  <2>5. Cardinality(Clear') = Cardinality(Clear) + n
    BY <2>2, <2>3, <2>4, CountAdded
  <2> QED BY <1>7, <2>1, <2>2, <2>5
<1> QED BY <1>1, <1>2, <1>3, <1>4, <1>5, <1>6, <1>8, <1>9 DEF Next, Boot, Serve

\* When the walk is over, block 0 has been counted as free and set again.
LEMMA OneMore ==
  ASSUME IInv, Counted, Consistent, pc = "up"
  PROVE  pmmngr_get_free_block_count = Cardinality(Clear) + 1 /\ Cardinality(Clear) \in Nat
<1>1. entry = Len(SMAP) + 1
  BY DEF IInv, BootShape
<1>2. ZeroFreed(entry)
  <2>1. PICK k \in 1 .. Len(SMAP) : SMAP[k].type = 1 /\ 0 \in Available(k)
    BY DEF Consistent, ConsistentMap
  <2>2. k \in 1 .. (entry - 1)
    BY <1>1, SMAPLength
  <2> QED BY <2>1, <2>2 DEF ZeroFreed
<1>3. FreeCount = Cardinality(Clear) + 1 /\ Cardinality(Clear) \in Nat
  BY <1>2, ClearIs DEF FreeCount, Zero
<1>4. FreeCount \in 0 .. max_blocks /\ max_blocks \in 0 .. (UintMod - 1)
  BY CountFits DEF Consistent, IInv, TypeOK
<1>5. used_blocks = max_blocks - FreeCount
  BY DEF Counted
<1>6. max_blocks - used_blocks = FreeCount
  BY <1>3, <1>4, <1>5, GeometryAssumption
<1>7. FreeCount \in Nat /\ FreeCount < UintMod
  BY <1>3, <1>4, GeometryAssumption
<1> QED BY <1>3, <1>6, <1>7, NoWrap DEF pmmngr_get_free_block_count

\* Both invariants together hold throughout.
LEMMA CountInvariant == Consistent => (Spec => [](IInv /\ Counted))
<1> SUFFICES ASSUME Consistent PROVE Spec => [](IInv /\ Counted)
  OBVIOUS
<1>1. Spec => []IInv
  BY Invariant DEF Consistent
<1>2. Init => Counted
  BY DEF Init, Counted
<1>3. IInv /\ IInv' /\ Counted /\ [Next]_vars => Counted'
  BY CountedStep
<1> QED BY <1>1, <1>2, <1>3, PTL DEF Spec

---------------------------------------------------------------------------
(* The refinement.  Until kmain is done the abstract pool is untouched;    *)
(* from then on the clear bits are the frames nobody owns.                 *)

Avail == IF pc = "up" THEN Clear ELSE Pool

\* A request is refused only if no run that long is clear: the count's error
\* of one and the strict comparison cancel out, and the search misses nothing.
LEMMA RefusedOnlyIfNone ==
  ASSUME IInv, Counted, Consistent, pc = "up", NEW n \in Nat \ {0}, Refused(n),
         NEW b \in Clear
  PROVE  ~(Run(b, n) \subseteq Clear)
<1> SUFFICES ASSUME Run(b, n) \subseteq Clear PROVE FALSE
  OBVIOUS
<1>0. IsFiniteSet(Clear) /\ Cardinality(Clear) \in Nat
  BY ClearIs
<1>1. b \in Searched /\ b \in Nat /\ WordBits \in Nat /\ MapWords \in Nat /\ max_blocks \in Nat
  BY SearchType, GeometryAssumption DEF Clear, IInv
<1>2. Cardinality(Run(b, n)) = n
  BY <1>1, RunCount
<1>3. n <= Cardinality(Clear)
  <2>1. Run(b, n) \in SUBSET Clear
    OBVIOUS
  <2> QED BY <1>0, <1>2, <2>1, FS_Subset
<1>4. ~(pmmngr_get_free_block_count <= n)
  BY <1>0, <1>3, OneMore
<1>5. b \in FreeRuns(n)
  <2> SUFFICES ASSUME NEW c \in 0 .. (n - 1) PROVE Probe(b, c) \notin memory_map
    BY <1>1 DEF FreeRuns
  <2>1. c \in Nat /\ b + c \in Run(b, n)
    BY <1>1 DEF Run
  <2>2. b + c \in Searched /\ b + c \notin memory_map
    BY <2>1 DEF Clear
  <2>3. b + c < MapWords * WordBits
    BY <1>1, <2>1, <2>2 DEF Searched
  <2>4. Probe(b, c) = b + c
    BY <1>1, <2>1, <2>3, ProbeInside
  <2> QED BY <2>2, <2>4
<1>6. mmap_first_free_blocks(n) # -1
  <2>1. FreeRuns(n) # {} /\ FreeRuns(n) \subseteq Nat
    BY <1>5, SearchType DEF FreeRuns, IInv
  <2>2. mmap_first_free_blocks(n) = Min(FreeRuns(n))
    BY <2>1 DEF mmap_first_free_blocks
  <2>3. Min(FreeRuns(n)) \in FreeRuns(n)
    BY <2>1, LeastFree
  <2> QED BY <2>1, <2>2, <2>3
<1> QED BY <1>4, <1>6 DEF Refused

\* An allocation is one of the abstract allocator, granted or refused.
LEMMA AllocRefines ==
  ASSUME IInv, Counted, Consistent, NEW n \in Requests, pmmngr_alloc_blocks(n)
  PROVE  Frames!Alloc(n) \/ Frames!Refuse(n)
<1>0. pc = "up" /\ pc' = "up" /\ max_blocks' = max_blocks /\ n \in Nat
  BY BootAssumption DEF pmmngr_alloc_blocks
<1>1. CASE Refused(n)
  <2>1. UNCHANGED <<memory_map, owned>> /\ answer' = [n |-> n, start |-> 0]
    BY <1>1 DEF pmmngr_alloc_blocks
  <2>2. ~\E b \in Clear : n > 0 /\ Run(b, n) \subseteq Clear
    BY <1>0, <1>1, RefusedOnlyIfNone
  <2>3. (Searched \ memory_map)' = Searched \ memory_map
    BY <1>0, <2>1 DEF Searched, MapWords
  <2> QED BY <1>0, <2>1, <2>2, <2>3 DEF Frames!Refuse, Frames!Run, Run, Clear
<1>2. CASE ~Refused(n)
  <2> DEFINE start == mmap_first_free_blocks(n)
  <2>1. /\ start \in Nat /\ n \in Nat \ {0}
        /\ Run(start, n) \subseteq Clear /\ start \in Run(start, n)
        /\ Clear' = Clear \ Run(start, n)
    BY <1>0, <1>2, AllocTakesClear DEF Consistent
  <2>2. owned' = owned \cup Run(start, n) /\ answer' = [n |-> n, start |-> start]
    BY <1>2 DEF pmmngr_alloc_blocks
  <2> HIDE DEF start
  <2>3. start \in Clear /\ n > 0
    BY <2>1
  <2> QED BY <1>0, <2>1, <2>2, <2>3 DEF Frames!Alloc, Frames!Run, Run, Clear
<1> QED BY <1>1, <1>2

\* Freeing is freeing.
LEMMA FreeRefines ==
  ASSUME IInv, NEW n \in Requests, NEW b \in owned, pmmngr_free_blocks(b, n)
  PROVE  Frames!Free(b, n)
<1>0. pc = "up" /\ pc' = "up"
  BY DEF pmmngr_free_blocks
<1>1. Clear' = Clear \cup Run(b, n)
  BY <1>0, FreeGivesClear
<1>2. Run(b, n) \subseteq owned /\ owned' = owned \ Run(b, n) /\ answer' = NoAnswer
  BY DEF pmmngr_free_blocks
<1> QED BY <1>0, <1>1, <1>2 DEF Frames!Free, Frames!Run, Frames!NoAnswer, Run, NoAnswer, Clear

\* ClearBlocks as a formula that holds of every state.
LEMMA ClearBlocksAlways ==
  IInv /\ pc = "up" => Pool \subseteq Searched /\ \A b \in Searched : b \notin memory_map <=> b \in Pool \ owned
BY ClearBlocks

\* Nothing of kmain's set-up is seen: with its last step the clear bits become
\* the whole pool.
LEMMA BootRefines ==
  ASSUME IInv, IInv', Boot
  PROVE  UNCHANGED <<Avail, owned, answer>>
<1>1. UNCHANGED <<owned, answer>> /\ pc # "up"
  BY DEF Boot, pmmngr_init, ScanEntry, ScanDone, DeinitLow, DeinitMap, DeinitKernel
<1>2. owned' = {}
  BY <1>1 DEF IInv, BootShape
<1>3. Pool' = Pool
  BY DEF Pool
<1>4. CASE pc' = "up"
  <2>1. (IInv /\ pc = "up" => Pool \subseteq Searched /\ \A b \in Searched : b \notin memory_map <=> b \in Pool \ owned)'
    BY ClearBlocksAlways, PTL
  <2>2. Clear' = Pool
    BY <1>2, <1>3, <1>4, <2>1 DEF Clear
  <2> QED BY <1>1, <1>4, <2>2 DEF Avail
<1>5. CASE pc' # "up"
  BY <1>1, <1>3, <1>5 DEF Avail
<1> QED BY <1>4, <1>5

\* The bit map implements the frame allocator: on every machine with a
\* consistent memory map and layout each step of the manager is a step of the
\* abstract pool or leaves it alone, and pmmngr_alloc_blocks refuses a request
\* only when no run of free blocks is long enough.
THEOREM Implements == Consistent => (Spec => ImplementsFrameAllocator)
<1> SUFFICES ASSUME Consistent PROVE Spec => ImplementsFrameAllocator
  OBVIOUS
<1>1. Init => Frames!Init
  BY DEF Init, Frames!Init, NoAnswer, Frames!NoAnswer
<1>2. IInv /\ IInv' /\ Counted /\ [Next]_vars => [Frames!Next]_(Frames!vars)
  <2> SUFFICES ASSUME IInv, IInv', Counted, [Next]_vars PROVE [Frames!Next]_(Frames!vars)
    OBVIOUS
  <2>1. CASE Boot
    BY <2>1, BootRefines DEF Avail, Clear, Frames!vars
  <2>2. CASE Serve
    <3>1. PICK n \in Requests : pmmngr_alloc_blocks(n) \/ \E b \in owned : pmmngr_free_blocks(b, n)
      BY <2>2 DEF Serve
    <3>2. CASE pmmngr_alloc_blocks(n)
      BY <3>2, AllocRefines DEF Frames!Next
    <3>3. CASE \E b \in owned : pmmngr_free_blocks(b, n)
      BY <3>3, FreeRefines DEF Frames!Next
    <3> QED BY <3>1, <3>2, <3>3
  <2>3. CASE UNCHANGED vars
    BY <2>3 DEF vars, Frames!vars, Searched, MapWords, Pool
  <2> QED BY <2>1, <2>2, <2>3 DEF Next
<1>3. Spec => [](IInv /\ Counted)
  BY CountInvariant
<1> QED BY <1>1, <1>2, <1>3, PTL DEF Spec, ImplementsFrameAllocator, Frames!Spec
===========================================================================
