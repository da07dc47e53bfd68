-------------------------- MODULE PhysicalMemory --------------------------
(***************************************************************************)
(* physical_mmngr.c, and the part of kmain (kernel.c) that fills it in.    *)
(*                                                                         *)
(* memory_map is the set of blocks whose bit is 1.  Addresses and counts   *)
(* are uint32_t: they are reduced modulo UintMod.  The loops over a region *)
(* run before any client of the manager exists, and alloc/free run inside  *)
(* an interrupt gate (IF = 0), so each operation is one step.              *)
(***************************************************************************)
EXTENDS Integers, Sequences, FiniteSets, FiniteSetsExt

CONSTANTS BlockSize,       \* bytes in a block (BLOCK_SIZE, 4096)
          BlocksPerByte,   \* bits in a byte of the map (8)
          WordBits,        \* bits in a word of the map (32)
          UintMod,         \* values of a uint32_t (2^32)
          SectorSize,      \* bytes in a sector of the kernel image (512)
          SMAP,            \* the BIOS memory map, as loaded by the boot loader
          LowBase, LowSize,\* BIOS and boot loader (0x1000, 0x15000)
          MemMapAddr,      \* where the bit map lives (0x30000)
          KernelAddr,      \* where the kernel image lives (0x100000)
          KernelSectors,   \* sectors of the kernel image
          Junk,            \* what the map's memory may hold before kmain
          Requests         \* run lengths clients ask for

ASSUME GeometryAssumption ==
  /\ BlockSize \in Nat \ {0}
  /\ BlocksPerByte \in Nat \ {0}
  /\ UintMod \in Nat \ {0}
  /\ WordBits \in Nat \ {0}
  /\ \E bytes \in 1 .. WordBits : WordBits = BlocksPerByte * bytes

ASSUME BootAssumption ==
  /\ SMAP \in Seq([base : Nat, size : Nat, type : Nat])
  /\ SMAP # <<>>
  /\ {LowBase, LowSize, MemMapAddr, KernelAddr, KernelSectors, SectorSize} \subseteq Nat
  /\ MemMapAddr < UintMod /\ KernelAddr + KernelSectors * SectorSize < UintMod
  /\ MemMapAddr % BlockSize = 0 /\ KernelAddr % BlockSize = 0
  /\ Junk \subseteq SUBSET Nat
  /\ Requests \subseteq Nat

VARIABLES pc,            \* how far kmain has come
          entry,         \* the SMAP entry kmain looks at next
          memory_map,    \* the blocks whose bit is set
          used_blocks,
          max_blocks,
          owned,         \* the blocks handed out and not freed (history)
          answer         \* the last request and the answer it got (history)

vars == <<pc, entry, memory_map, used_blocks, max_blocks, owned, answer>>

---------------------------------------------------------------------------
(* Blocks, runs and regions.                                               *)

Run(b, n) == b .. (b + n - 1)

\* The blocks a region stands for: base and size arrive as uint32_t and are
\* both rounded down, so a partial last block is left out.
RegionStart(base) == (base % UintMod) \div BlockSize
RegionCount(size) == (size % UintMod) \div BlockSize
Region(base, size) == Run(RegionStart(base), RegionCount(size))

total_memory == (SMAP[Len(SMAP)].base + SMAP[Len(SMAP)].size - 1) % UintMod

\* The words that mmap_first_free_blocks scans, and the blocks in them.
MapWords == max_blocks \div WordBits
Searched == 0 .. (MapWords * WordBits - 1)

\* The block whose bit the scan reads for the c-th block of a run that
\* starts at b: the word index stops at the last word, the bit index does not.
Probe(b, c) ==
  LET bit == (b % WordBits) + c
      idx == (b \div WordBits) + (bit \div WordBits)
  IN (IF idx < MapWords THEN idx ELSE MapWords - 1) * WordBits + (bit % WordBits)

FreeRuns(n) == {b \in Searched : \A c \in 0 .. (n - 1) : Probe(b, c) \notin memory_map}

mmap_first_free_blocks(n) ==
  IF n = 0 \/ FreeRuns(n) = {} THEN -1 ELSE Min(FreeRuns(n))

pmmngr_get_free_block_count == (max_blocks - used_blocks) % UintMod

---------------------------------------------------------------------------
(* kmain.                                                                  *)

NoAnswer == [n |-> 0, start |-> 0]

Init == /\ pc = "init"
        /\ entry = 1
        /\ memory_map \in Junk
        /\ used_blocks = 0
        /\ max_blocks = 0
        /\ owned = {}
        /\ answer = NoAnswer

\* memset writes whole bytes only: bits past the last whole byte keep
\* whatever the memory held.
pmmngr_init ==
  /\ pc = "init"
  /\ LET count == total_memory \div BlockSize
     IN /\ max_blocks' = count
        /\ used_blocks' = count
        /\ memory_map' = memory_map \cup Run(0, (count \div BlocksPerByte) * BlocksPerByte)
  /\ pc' = "regions"
  /\ UNCHANGED <<entry, owned, answer>>

\* The bit of block 0 is set again, used_blocks is not corrected for it.
pmmngr_init_region(base, size) ==
  /\ memory_map' = (memory_map \ Region(base, size)) \cup {0}
  /\ used_blocks' = (used_blocks - RegionCount(size)) % UintMod

pmmngr_deinit_region(base, size) ==
  /\ memory_map' = memory_map \cup Region(base, size)
  /\ used_blocks' = (used_blocks + RegionCount(size)) % UintMod

\* Broken: the entry's type is not looked at.
ScanEntryAnyType ==
  /\ pc = "regions"
  /\ entry <= Len(SMAP)
  /\ pmmngr_init_region(SMAP[entry].base, SMAP[entry].size)
  /\ entry' = entry + 1
  /\ UNCHANGED <<pc, max_blocks, owned, answer>>

ScanEntry ==
  /\ pc = "regions"
  /\ entry <= Len(SMAP)
  /\ IF SMAP[entry].type = 1
       THEN pmmngr_init_region(SMAP[entry].base, SMAP[entry].size)
       ELSE UNCHANGED <<memory_map, used_blocks>>
  /\ entry' = entry + 1
  /\ UNCHANGED <<pc, max_blocks, owned, answer>>

ScanDone ==
  /\ pc = "regions"
  /\ entry > Len(SMAP)
  /\ pc' = "low"
  /\ UNCHANGED <<entry, memory_map, used_blocks, max_blocks, owned, answer>>

DeinitLow ==
  /\ pc = "low"
  /\ pmmngr_deinit_region(LowBase, LowSize)
  /\ pc' = "map"
  /\ UNCHANGED <<entry, max_blocks, owned, answer>>

\* Broken: the size of the map in words, not bytes.
DeinitMapWords ==
  /\ pc = "map"
  /\ pmmngr_deinit_region(MemMapAddr, max_blocks \div WordBits)
  /\ pc' = "kernel"
  /\ UNCHANGED <<entry, max_blocks, owned, answer>>

DeinitMap ==
  /\ pc = "map"
  /\ pmmngr_deinit_region(MemMapAddr, max_blocks \div BlocksPerByte)
  /\ pc' = "kernel"
  /\ UNCHANGED <<entry, max_blocks, owned, answer>>

DeinitKernel ==
  /\ pc = "kernel"
  /\ pmmngr_deinit_region(KernelAddr, KernelSectors * SectorSize)
  /\ pc' = "up"
  /\ UNCHANGED <<entry, max_blocks, owned, answer>>

Boot == pmmngr_init \/ ScanEntry \/ ScanDone \/ DeinitLow \/ DeinitMap \/ DeinitKernel

---------------------------------------------------------------------------
(* The clients' operations, once kmain has handed the manager over.        *)

\* Broken: the result of the search is not looked at.
RefusedByCountOnly(n) == pmmngr_get_free_block_count <= n

\* Broken: the count is taken for exact and a spare block is kept.
RefusedTooEarly(n) ==
  \/ pmmngr_get_free_block_count <= n + 1
  \/ mmap_first_free_blocks(n) = -1

Refused(n) ==
  \/ pmmngr_get_free_block_count <= n      \* not enough blocks to allocate
  \/ mmap_first_free_blocks(n) = -1        \* out of memory

pmmngr_alloc_blocks(n) ==
  /\ pc = "up"
  /\ IF Refused(n)
       THEN /\ answer' = [n |-> n, start |-> 0]
            /\ UNCHANGED <<memory_map, used_blocks, owned>>
       ELSE LET start == mmap_first_free_blocks(n)
            IN /\ memory_map' = memory_map \cup Run(start, n)
               /\ used_blocks' = (used_blocks + n) % UintMod
               /\ owned' = owned \cup Run(start, n)
               /\ answer' = [n |-> n, start |-> start]
  /\ UNCHANGED <<pc, entry, max_blocks>>

\* Broken: the loop clears one bit too many.
FreeOneMore(b, n) ==
  /\ pc = "up"
  /\ Run(b, n) \subseteq owned
  /\ memory_map' = memory_map \ Run(b, n + 1)
  /\ used_blocks' = (used_blocks - n) % UintMod
  /\ owned' = owned \ Run(b, n)
  /\ answer' = NoAnswer
  /\ UNCHANGED <<pc, entry, max_blocks>>

\* Clients return only what they were given.
pmmngr_free_blocks(b, n) ==
  /\ pc = "up"
  /\ Run(b, n) \subseteq owned
  /\ memory_map' = memory_map \ Run(b, n)
  /\ used_blocks' = (used_blocks - n) % UintMod
  /\ owned' = owned \ Run(b, n)
  /\ answer' = NoAnswer
  /\ UNCHANGED <<pc, entry, max_blocks>>

Serve == \E n \in Requests : \/ pmmngr_alloc_blocks(n)
                             \/ \E b \in owned : pmmngr_free_blocks(b, n)

Next == Boot \/ Serve

Spec == Init /\ [][Next]_vars

---------------------------------------------------------------------------
(* What is claimed.                                                        *)

TypeOK == /\ pc \in {"init", "regions", "low", "map", "kernel", "up"}
          /\ entry \in 1 .. (Len(SMAP) + 1)
          /\ memory_map \subseteq Nat
          /\ used_blocks \in 0 .. (UintMod - 1)
          /\ max_blocks \in 0 .. (UintMod - 1)
          /\ owned \subseteq Nat
          /\ answer \in [n : Nat, start : Nat]

\* The pool kmain leaves behind: what type-1 entries free, minus block 0 and
\* minus the three reserved regions.
FreedBefore(i) ==
  (UNION {Region(SMAP[k].base, SMAP[k].size) : k \in {j \in 1 .. (i - 1) : SMAP[j].type = 1}}) \ {0}

LowBlocks    == Region(LowBase, LowSize)
MapBlocks    == Region(MemMapAddr, (total_memory \div BlockSize) \div BlocksPerByte)
KernelBlocks == Region(KernelAddr, KernelSectors * SectorSize)

Pool == (FreedBefore(Len(SMAP) + 1) \ (LowBlocks \cup MapBlocks \cup KernelBlocks))
          \cap (0 .. ((((total_memory \div BlockSize) \div WordBits) * WordBits) - 1))

\* The last block of the last word scanned is not memory.  True of a PC, whose
\* memory map ends with the reserved firmware area below 4 GB.
TopReserved == ((total_memory \div BlockSize) \div WordBits) * WordBits - 1 \notin Pool

\* Once kmain has finished, a scanned block's bit is clear exactly when the
\* block belongs to the pool and nobody owns it, and only pool blocks are ever
\* owned: pmmngr_alloc_blocks never hands out a block twice, never one that
\* the BIOS map or kmain reserved, and pmmngr_free_blocks loses none.
MapTracksOwners ==
  pc = "up" => /\ owned \subseteq Pool
               /\ \A b \in Searched : b \notin memory_map <=> b \in Pool \ owned

\* The blocks that bytes base .. base+size-1 lie in, the partial ones included.
Touched(base, size) ==
  {b \in 0 .. ((base + size) \div BlockSize) :
     b * BlockSize < base + size /\ base < (b + 1) * BlockSize}

\* The blocks that hold nothing but bytes base .. base+size-1.
Filled(base, size) ==
  {b \in 0 .. ((base + size) \div BlockSize) :
     base <= b * BlockSize /\ (b + 1) * BlockSize <= base + size}

\* No client is given a block that the bit map or the kernel image fills,
\* through every sequence of allocations and frees and whatever the BIOS map
\* lists: only the last, partial block of either is left unreserved.
WholeBlocksKept ==
  owned \cap (Filled(MemMapAddr, max_blocks \div BlocksPerByte)
                \cup Filled(KernelAddr, KernelSectors * SectorSize)) = {}

\* The bytes of the bit map and of the kernel image stay out of clients' hands.
ReservedNeverHandedOut ==
  owned \cap (Touched(MemMapAddr, max_blocks \div BlocksPerByte)
                \cup Touched(KernelAddr, KernelSectors * SectorSize)) = {}

\* A client is given only whole blocks of memory that some type-1 entry lists.
OnlyListedMemory ==
  \A b \in owned : \E k \in 1 .. Len(SMAP) :
     /\ SMAP[k].type = 1
     /\ SMAP[k].base <= b * BlockSize
     /\ (b + 1) * BlockSize <= SMAP[k].base + SMAP[k].size

\* Before kmain is done nothing is asked of the manager; from then on its bit
\* map behaves as a pool of frames.
Frames == INSTANCE FrameAllocator
            WITH avail <- IF pc = "up" THEN Searched \ memory_map ELSE Pool

\* The bit map implements the allocator the rest of the kernel relies on,
\* refusals included: a request is refused only when no free run is left.
ImplementsFrameAllocator == Frames!Spec
===========================================================================
