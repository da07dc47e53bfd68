---------------------------- MODULE BootLoader ----------------------------
(***************************************************************************)
(* boot.asm (stage 1) and stage2.asm with fat12.inc, floppy16.inc and      *)
(* memory.inc (stage 2).  Each stage reads the root directory, looks up an *)
(* image, reads both copies of the FAT and follows the image's chain,      *)
(* loading its clusters one after the other; stage 2 also fetches the BIOS *)
(* memory map and copies the kernel above 1 MB.  The two stages have the   *)
(* same steps and differ in the addresses.                                 *)
(*                                                                         *)
(* Memory below 1 MB is an array of cells of one sector; a cell says what  *)
(* was last put there.  The loaders place code, tables, stack and image in *)
(* it by constants, and nothing but those constants keeps them apart.      *)
(* A FAT entry is unpacked from the cells it is found in, with nibbles of  *)
(* Nibble values (16): from a cell that no longer holds the table comes    *)
(* anything.  The BIOS is external: it reads a sector or fails.            *)
(***************************************************************************)
EXTENDS Integers, Sequences

CONSTANTS Nibble, SectorSize,      \* values of a nibble, bytes in a sector
          Reserved, FatSectors, RootSectors,  \* BIOS parameter block
          SectorsPerTrack, Heads,
          EndMark,                 \* the least entry that ends a chain (0xFF0)
          Retries,                 \* tries of a sector read (5)
          BootCell,                \* 0x7C00, where stage 1 runs
          TablesCell,              \* 0x7E00, where it puts directory and FAT
          Stage2Base,              \* 0x500, where it loads stage 2
          SmapCell,                \* 0x1000, the memory map
          FatSeg, RootSeg,         \* 0x2C00 and 0x2E00
          KernelBase,              \* KERNEL_RMODE_BASE, 0x3000
          SizeCell,                \* 0x8000, the kernel's size
          StackCell,               \* the stack, below 0xFFFF
          Segment,                 \* cells in a segment of 64 KB
          Dirs,                    \* directories: the images' first clusters,
                                   \* 0 for an image that is not there
          FATs,                    \* tables a disk may have
          BiosMaps,                \* memory maps the BIOS may report: lengths
          HalfWord,                \* values of a 16-bit register (65536)
          Leftovers                \* what the two bytes at 0x1002 may hold

ASSUME LoaderAssumption ==
  /\ {Nibble, SectorSize, Reserved, FatSectors, RootSectors, SectorsPerTrack,
      Heads, EndMark, Retries, Segment} \subseteq Nat \ {0}
  /\ {BootCell, TablesCell, Stage2Base, SmapCell, FatSeg, RootSeg, KernelBase,
      SizeCell, StackCell} \subseteq 0 .. (Segment - 1)
  /\ HalfWord \in Nat /\ Leftovers \subseteq Nat

VARIABLES fat, dir, bios,  \* the disk and the BIOS's memory map
          stage,           \* 1 or 2
          pc, after,       \* where the stage is, and where read_sectors returns
          mem,             \* [cells -> what is in them]
          lba, left, dest, \* read_sectors: next sector, sectors to go, cell
          tries,
          cluster,
          image,           \* the cell for the next cluster of the image
          sectors,         \* sectors of the image read so far
          reported,        \* entries of the memory map the BIOS has given
          smap,            \* the ones kept
          kernel,          \* what was copied to KERNEL_PMODE_BASE
          chain            \* history: the clusters loaded by each stage, in order;
                           \* no step depends on it

disk == <<fat, dir, bios>>
job == <<after, lba, left, dest, tries>>
map == <<reported, smap>>
vars == <<disk, stage, pc, mem, job, cluster, image, sectors, map, kernel, chain>>

Cells == 0 .. (Segment - 1)
Bytes == 0 .. (Nibble * Nibble - 1)
Names == <<"krnldr", "krnl">>

---------------------------------------------------------------------------
(* The disk (external).                                                    *)

RootStart == 2 * FatSectors + Reserved
datasector == RootStart + RootSectors

OnDisk(n) ==
  CASE n < Reserved   -> <<"boot", n>>
    [] n >= Reserved /\ n < RootStart -> <<"fat", (n - Reserved) % FatSectors>>
    [] n >= RootStart /\ n < datasector -> <<"root", n - RootStart>>
    [] OTHER          -> <<"data", n - datasector + 2>>

Power(n) == IF n = 0 THEN 1 ELSE IF n = 1 THEN Nibble ELSE Nibble * Nibble
NibbleAt(k) == IF k \div 3 \in DOMAIN fat THEN (fat[k \div 3] \div Power(k % 3)) % Nibble ELSE 0
ByteAt(k) == NibbleAt(2 * k) + Nibble * NibbleAt(2 * k + 1)

---------------------------------------------------------------------------
(* Where the stages put things.                                            *)

RootBase(s) == IF s = 1 THEN TablesCell ELSE RootSeg
FatBase(s)  == IF s = 1 THEN TablesCell ELSE FatSeg

ImageBase(s) == IF s = 1 THEN Stage2Base ELSE KernelBase

\* Memory with x put into cell c.
Put(m, c, x) == [m EXCEPT ![c] = x]

---------------------------------------------------------------------------
(* read_sectors.                                                           *)

ClusterLBA(c) == (c - 2) + datasector

\* LBACHS, and the sector that the BIOS reads for it.
absoluteSector(n) == (n % SectorsPerTrack) + 1
absoluteHead(n)   == (n \div SectorsPerTrack) % Heads
absoluteTrack(n)  == (n \div SectorsPerTrack) \div Heads
BiosSector(track, head, sector) == (track * Heads + head) * SectorsPerTrack + sector - 1

\* Broken: the count is tested before it is decremented, one sector too many.
ReadOneMore(first, n, c, return) ==
  /\ pc' = "read"
  /\ after' = return
  /\ lba' = first
  /\ left' = n + 1
  /\ dest' = c
  /\ tries' = Retries

\* Calls read_sectors for n sectors from number first into cell c on.
read_sectors(first, n, c, return) ==
  /\ pc' = "read"
  /\ after' = return
  /\ lba' = first
  /\ left' = n
  /\ dest' = c
  /\ tries' = Retries

\* The offset is 16 bits wide: past the segment it begins again.
ReadSector ==
  /\ pc = "read"
  /\ mem' = Put(mem, dest, OnDisk(BiosSector(absoluteTrack(lba), absoluteHead(lba), absoluteSector(lba))))
  /\ lba' = lba + 1
  /\ left' = left - 1
  /\ dest' = (dest + 1) % Segment
  /\ tries' = Retries
  /\ pc' = IF left = 1 THEN after ELSE "read"
  /\ UNCHANGED <<disk, stage, after, cluster, image, sectors, map, kernel, chain>>

\* Broken: the tries are not counted.
FailForever ==
  /\ pc = "read"
  /\ UNCHANGED <<disk, stage, pc, after, mem, lba, left, dest, cluster, image, sectors, map, kernel, chain>>
  /\ tries' = IF tries = 1 THEN Retries ELSE tries - 1

\* A read error: the disk is reset and the sector tried again, or the BIOS is
\* told that there is nothing to boot from (int 0x18).
ReadFails ==
  /\ pc = "read"
  /\ tries' = tries - 1
  /\ pc' = IF tries = 1 THEN "no_boot" ELSE "read"
  /\ UNCHANGED <<disk, stage, after, mem, lba, left, dest, cluster, image, sectors, map, kernel, chain>>

---------------------------------------------------------------------------
(* load_root, find_image, load_FAT, load_image.                            *)

load_root ==
  /\ pc = "root"
  /\ read_sectors(RootStart, RootSectors, RootBase(stage), "find")
  /\ UNCHANGED <<disk, stage, mem, cluster, image, sectors, map, kernel, chain>>

\* The image is not in the directory: wait for a key and reboot.
ImageMissing ==
  /\ pc = "find"
  /\ dir[Names[stage]] = 0
  /\ pc' = "reboot"
  /\ UNCHANGED <<disk, stage, mem, job, cluster, image, sectors, map, kernel, chain>>

\* The first cluster is taken from the directory before load_FAT, which in
\* stage 2 overwrites the directory.
load_FAT ==
  /\ pc = "find"
  /\ dir[Names[stage]] # 0
  /\ cluster' = dir[Names[stage]]
  /\ image' = ImageBase(stage)
  /\ sectors' = 0
  /\ read_sectors(Reserved, 2 * FatSectors, FatBase(stage), "load")
  /\ chain' = [chain EXCEPT ![stage] = <<>>]
  /\ UNCHANGED <<disk, stage, mem, map, kernel>>

load_image ==
  /\ pc = "load"
  /\ read_sectors(ClusterLBA(cluster), 1, image, "next")
  /\ UNCHANGED <<disk, stage, mem, cluster, image, sectors, map, kernel, chain>>

\* What byte k of the table in memory may be.
TableByte(k) ==
  LET c == mem[FatBase(stage) + (k \div SectorSize)]
  IN IF c[1] = "fat" THEN {ByteAt(c[2] * SectorSize + (k % SectorSize))} ELSE Bytes

Entry(low, high, c) ==
  LET word == low + Nibble * Nibble * high
  IN IF c % 2 = 0 THEN word % (Nibble * Nibble * Nibble) ELSE word \div Nibble

NextCluster ==
  LET k == cluster + (cluster \div 2)
  IN /\ pc = "next"
     /\ sectors' = sectors + 1
     /\ image' = dest
     /\ \E low \in TableByte(k), high \in TableByte(k + 1) : cluster' = Entry(low, high, cluster)
     /\ pc' = IF cluster' < EndMark THEN "load" ELSE "loaded"
     /\ chain' = [chain EXCEPT ![stage] = Append(@, cluster)]
     /\ UNCHANGED <<disk, stage, mem, job, map, kernel>>

---------------------------------------------------------------------------
(* From stage 1 to stage 2, and the memory map.                            *)

EnterStage2 ==
  /\ pc = "loaded"
  /\ stage = 1
  /\ stage' = 2
  /\ pc' = "map_first"
  /\ UNCHANGED <<disk, mem, job, cluster, image, sectors, map, kernel, chain>>

\* Broken: empty entries are kept.
KeepEmpty == /\ reported' = reported + 1
             /\ smap' = Append(smap, bios[reported + 1])

\* An entry is kept unless it is empty: the next one overwrites it.
KeepEntry == /\ reported' = reported + 1
             /\ smap' = IF bios[reported + 1] = 0 THEN smap ELSE Append(smap, bios[reported + 1])

\* The kernel reads 32 bits at 0x1000; the loader stores the 16 of bp, and
\* nobody has ever written the other two bytes.
StoreCount(n) ==
  \E high \in Leftovers : mem' = Put(mem, SmapCell, <<"smap", (n % HalfWord) + HalfWord * high>>)

\* A list of one entry counts as an error, as a BIOS without the call does;
\* the caller does not look at the carry flag and stores a count of 0.
MapError ==
  /\ pc = "map_first"
  /\ Len(bios) < 2
  /\ StoreCount(0)
  /\ pc' = "root"
  /\ UNCHANGED <<disk, stage, job, cluster, image, sectors, map, kernel, chain>>

\* Broken: the first entry is not looked at.
SkipFirst ==
  /\ pc = "map_first"
  /\ Len(bios) >= 2
  /\ reported' = 1
  /\ pc' = "map_next"
  /\ UNCHANGED <<disk, stage, mem, job, cluster, image, sectors, smap, kernel, chain>>

MapFirst ==
  /\ pc = "map_first"
  /\ Len(bios) >= 2
  /\ KeepEntry
  /\ pc' = "map_next"
  /\ UNCHANGED <<disk, stage, mem, job, cluster, image, sectors, kernel, chain>>

MapNext ==
  /\ pc = "map_next"
  /\ reported < Len(bios)
  /\ KeepEntry
  /\ UNCHANGED <<disk, stage, pc, mem, job, cluster, image, sectors, kernel, chain>>

MapDone ==
  /\ pc = "map_next"
  /\ reported = Len(bios)
  /\ StoreCount(Len(smap))
  /\ pc' = "root"
  /\ UNCHANGED <<disk, stage, job, cluster, image, sectors, map, kernel, chain>>

---------------------------------------------------------------------------
(* copy_image: the size is stored first, then the image is copied.         *)

\* Broken: the last sector is not copied.
CopyAllButLast ==
  /\ pc = "loaded"
  /\ stage = 2
  /\ mem' = Put(mem, SizeCell, <<"size", sectors>>)
  /\ kernel' = [i \in 1 .. (sectors - 1) |-> mem[KernelBase + i - 1]]
  /\ pc' = "kernel"
  /\ UNCHANGED <<disk, stage, job, cluster, image, sectors, map, chain>>

copy_image ==
  LET sized == Put(mem, SizeCell, <<"size", sectors>>)
  IN /\ pc = "loaded"
     /\ stage = 2
     /\ mem' = sized
     /\ kernel' = [i \in 1 .. sectors |->
                     IF KernelBase + i - 1 \in Cells THEN sized[KernelBase + i - 1] ELSE <<"junk", 0>>]
     /\ pc' = "kernel"
     /\ UNCHANGED <<disk, stage, job, cluster, image, sectors, map, chain>>

---------------------------------------------------------------------------
Init == /\ fat \in FATs /\ dir \in Dirs /\ bios \in BiosMaps
        /\ stage = 1
        /\ pc = "root" /\ after = "find"
        /\ mem = [c \in Cells |-> IF c = BootCell THEN <<"boot", 0>>
                                  ELSE IF c = StackCell THEN <<"stack", 0>> ELSE <<"junk", 0>>]
        /\ lba = 0 /\ left = 0 /\ dest = 0 /\ tries = Retries
        /\ cluster = 0 /\ image = 0 /\ sectors = 0
        /\ reported = 0 /\ smap = <<>>
        /\ kernel = <<>>
        /\ chain = [s \in {1, 2} |-> <<>>]

Stopped == pc \in {"kernel", "reboot", "no_boot"}

Step == \/ ReadSector \/ ReadFails
        \/ load_root \/ ImageMissing \/ load_FAT \/ load_image \/ NextCluster
        \/ EnterStage2 \/ MapError \/ MapFirst \/ MapNext \/ MapDone
        \/ copy_image

\* The processor runs, and a BIOS call returns.
Spec == Init /\ [][Step]_vars /\ WF_vars(Step)

---------------------------------------------------------------------------
(* What is claimed.                                                        *)

TypeOK == /\ stage \in {1, 2}
          /\ mem \in [Cells -> {"boot", "stack", "junk", "fat", "root", "data", "smap", "size"} \X Nat]
          /\ tries \in 0 .. Retries
          /\ left \in Nat /\ dest \in Cells /\ image \in Cells
          /\ cluster \in 0 .. (Nibble * Nibble * Nibble - 1)
          /\ smap \in Seq(Nat \ {0})

\* The table leads along s from the image's first cluster, ...
Path(s, name) ==
  /\ s # <<>> /\ s[1] = dir[name]
  /\ \A i \in 1 .. Len(s) : s[i] \in DOMAIN fat
  /\ \A i \in 1 .. (Len(s) - 1) : s[i + 1] = fat[s[i]] /\ fat[s[i]] < EndMark

\* ... to the end of its chain.
IsChain(s, name) == Path(s, name) /\ fat[s[Len(s)]] >= EndMark

\* No entry of the chain says that the cluster is free.
NoFreeCluster(s) == \A i \in 1 .. Len(s) : s[i] >= 2

\* When the kernel is entered, it is the image on the disk, from the first
\* cluster of its chain to the last, and the size at 0x8000 is its size:
\* neither the table it was loaded by nor the image was overwritten on the way.
KernelIntact ==
  pc = "kernel" =>
    /\ IsChain(chain[2], "krnl")
    /\ mem[SizeCell] = <<"size", Len(chain[2])>>
    /\ NoFreeCluster(chain[2]) => kernel = [i \in 1 .. Len(chain[2]) |-> <<"data", chain[2][i]>>]

\* The code that runs and its stack are never overwritten by what it loads:
\* not stage 1, and not stage 2, which is the whole image from the disk.
RunningCodeIntact ==
  /\ mem[StackCell] = <<"stack", 0>>
  /\ stage = 1 => mem[BootCell] = <<"boot", 0>>
  /\ stage = 2 => /\ IsChain(chain[1], "krnldr")
                  /\ NoFreeCluster(chain[1]) =>
                       \A i \in 1 .. Len(chain[1]) : mem[Stage2Base + i - 1] = <<"data", chain[1][i]>>

\* s is what the first n entries of the BIOS's memory map leave without the
\* empty ones, in their order.
Kept(s, n) ==
  \E at \in [1 .. Len(s) -> 1 .. n] :
    /\ \A i, j \in 1 .. Len(s) : i < j => at[i] < at[j]
    /\ \A k \in 1 .. n : bios[k] # 0 <=> \E i \in 1 .. Len(s) : at[i] = k
    /\ \A i \in 1 .. Len(s) : s[i] = bios[at[i]]

\* The kernel finds every entry of the BIOS's memory map that is not empty, in
\* order, and their number in the lower half of the count it reads, though the
\* kernel was loaded after them.  A map of one entry is lost.
MemoryMapDelivered ==
  pc = "kernel" /\ Len(bios) # 1 =>
    /\ Kept(smap, Len(bios))
    /\ Len(smap) < HalfWord
    /\ \E high \in Leftovers : mem[SmapCell] = <<"smap", Len(smap) + HalfWord * high>>

\* The loader comes to an end: the kernel is entered, or the machine reboots or
\* gives up, however sector reads fail.
LoaderStops == <>Stopped
===========================================================================
