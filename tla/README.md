# A verification of fanOS

fanOS is a 32-bit x86 operating system for one processor: a boot loader, a
kernel that sets up memory, interrupts and a floppy disk, and a shell that runs
in user mode.  It has no tests.  This directory holds TLA+ models of the parts
whose correctness depends on long sequences of calls or on interrupts arriving
at the wrong moment, the TLC runs that check them on small machines, and proofs
for every machine.

File names below are those of the repository; `PROJECT.json` has their paths.

## The system

| Part | State | Operations | Interacts with |
|---|---|---|---|
| Boot loader (`boot/`) | registers, the memory it loads into | load FAT, load stage 2 and the kernel, read the BIOS memory map, enter protected mode | leaves the memory map at 0x1000, the kernel at 0x100000 |
| `kmain` (`kernel.c`) | none | initialise everything in order, jump to user space | calls all below |
| Physical memory manager (`physical_mmngr.c`) | bit map, `used_blocks`, `max_blocks` | init, init/deinit region, alloc, free | virtual memory manager, heap |
| Virtual memory manager (`virutal_mmngr.c`, `vmmngr_pte.c`, `vmmngr_pde.c`) | page directory, page tables, CR3/CR0 | init, alloc/free page, map, unmap | frames from the physical manager; the MMU and its TLB |
| Heap (`malloc.c`) | a linked list of blocks in the memory it manages, page count | init, malloc, free, merge, split | pages from both memory managers; reached by system calls |
| System calls (`syscall.c`, `stdlib.c`) | none | dispatch, test0, sleep, malloc, free, exit | int 0x80 is an interrupt gate: interrupts are off inside |
| Floppy driver (`floppydisk.c`) | `fd_irq6_stat`, `current_drive` | reset, calibrate, seek, read sector, IRQ6 handler | the controller, DMA, timer |
| DMA (`dma.c`) | none (registers of the chip) | program channel 2 | floppy driver |
| Timer (`pit.c`) | `pit_ticks` | tick (IRQ0), sleep | floppy driver, shell |
| FAT12 and volume manager (`fat12.c`, `file.c`) | mount info, the caller's `FILE` (the two-sector window of the FAT is filled anew by every read) | init, mount, open, read, close | floppy driver |
| Display (`display.c`) | frame buffer, cursor, VGA cursor registers | print, scroll, clear | called by the shell and by the keyboard handler |
| Keyboard (`keyboard.c`) | `scancode` | IRQ1 handler, get and discard last key | display, shell |
| Shell (`userspace.c`) | command buffer | read a line, run a command, read a file | all of the above |
| HAL (`gdt.c`, `idt.c`, `tss.c`, `pic.c`), exceptions | descriptor tables, masks, `TSS.esp0` | set up, set a gate, unmask, end of interrupt | every handler |
| C library (`stdio.c`, `string.c`) | `printf` buffer | format, compare, copy | heap, display, shell |

There is one processor and one program.  Concurrency is between that program
and the interrupt handlers (timer, keyboard, floppy), between the kernel and the
devices, and between the kernel's page tables and the processor's TLB.  The
hard behaviours are:

* memory: runs of blocks in a fragmented pool, the edges of a bit map that is
  written in bytes and read in words, regions that are not whole blocks, frames
  that are reused as page tables, translations that outlive their mapping, a
  block list that lives in the memory it describes;
* devices: an interrupt that is remembered too long, or lost between the test
  of a flag and its clearing; retries; a wait without a time limit;
* data: FAT12 entries across byte and sector boundaries, damaged chains, failed
  sector reads;
* the console: two contexts print through the same unprotected function;
* interrupts: controller, table and masks are set up while devices already raise
  their lines; a handler for everything else that never returns;
* the shell: edges of its line and of `printf`'s buffer, and names and sectors
  copied into buffers that are too small.

Nothing is persisted (the file system is read-only), so there is no recovery to
get right.

What makes each part correct:

* physical memory: each block has one owner, only listed and unreserved memory
  is handed out, none is lost, a request is refused only when it must be;
* virtual memory: every page leads where it was mapped and nowhere else, table
  frames are nobody else's, an operation faults only when it has no low frame left;
* heap: the blocks tile the heap, every pointer can be freed, live blocks are
  disjoint, free neighbours become one block;
* floppy: a wait means that *this* command is done, a read delivers *that*
  sector, and the driver comes back;
* file system: what is opened is the file of that name, reading follows the disk's
  table and ends;
* boot loader: the kernel that is entered is the one on the disk, with the memory
  map the BIOS gave and its length, and the loader never overwrites itself;
* console: the screen shows what was printed, the cursor is on it, keys come
  once and in order;
* interrupts: a line that is let through has its handler, handlers push on a
  stack nobody else uses, and every interrupt is served;
* shell: the command that is run is the line that was typed, and the prompt comes
  back.

`PROJECT.json` lists, under `hazards`, the places in the code where these can go
wrong, with the properties that watch over each.

## The modules

Each definition carries the name of the function it models where that is
possible; `PROJECT.json` maps every one to its lines.  Definitions marked
*Broken* are the code with one plausible mistake in it; they take no part in the
specification and serve to show that the properties would notice.

**FrameAllocator** is the abstract specification of the physical memory manager:
a pool, runs handed out and returned, and refusals only when no run is left.

**PhysicalMemory** is `physical_mmngr.c` with `kmain`'s use of it.  `memory_map`
is the set of blocks whose bit is 1.  `pc` follows `kmain`: `pmmngr_init`, one
`ScanEntry` for each entry of the BIOS map, then the three reserved regions
(`DeinitLow`, `DeinitMap`, `DeinitKernel`); after that clients allocate and free.
Sizes are rounded as the code rounds them, counts are `uint32_t`, the bytes of
`memset` and the words of the search are kept apart, and the memory of the map
starts with junk.  `owned` and `answer` are history.  Clients free only what
they own: the code does not check, and no caller frees anything else.  The number
of entries is taken to be right, which it is where 0x1002 holds zeros (see the
known limits).

**VirtualMemory** is the virtual memory manager over an array of physical frames.
The kernel finds tables through their physical addresses, so every access is
translated (`Reach`) by the MMU, which is external: first the TLB, then the
tables.  An access that reaches nothing sets `crashed`, as `page_fault_handler`
halts; the pool may go on past the 4 MB that `vmmngr_init` maps to themselves,
and then this happens.  Clients may map pages of directory entry 0, as `malloc.c`
does.  The frame mask that misses bit 31 is in `set_frame` and `pfn`.  Frames
come from the abstract allocator with first fit.

**Heap** is `malloc.c` and the two system calls.  The fields of the
headers are kept in memory, because headers are overwritten when sizes go wrong.
The heap starts at address 0, since `malloc_virt_addr` is never assigned; this makes
the loop of `merge_free_blocks` end at its first test.  A system call runs with
interrupts off, so calls do not interleave; the turns of the two loops over the
list are steps (`SearchNext`, `ReleaseNext`) that move `cur`, and
`malloc_next_block` and `malloc_free` are what happens where the loop stops.
Nothing in the code keeps it inside its memory: `overrun` is set by the call that
splits a block without room for a header (`malloc.c:125`) or goes on with pages it
did not get (`malloc.c:57`, `malloc.c:101`), and the model takes no further call
then.  `live` (pointers clients hold) and `blocks` (headers ever put on the list)
are history.

**Dma** is `dma.c`: each function maps the registers of the first 8237 chip to
new ones.  The chip and its transfers are external.  Three functions write to
the ports of the second chip, and `dma_mask_channel` writes a bit where a number
is expected; both are modelled as what the chip makes of them.

**Floppy** is the driver, its handler and its sleeps, against an external
controller that executes commands in its own time, may end a seek anywhere and
may fail a read.  `fd_wait_irq6` is two steps, so that IRQ6 can come between
them.  A command with its parameter bytes is one step.  The bytes of a sector go
through the chip of `Dma` into memory, which is kept byte by byte.  The driver
programs the channel once, in `fd_init`, and a failed read may stop after any
byte; the next transfer then begins where that one stopped.

**FileSystem** is mounting, opening, reading and closing.  The disk (external)
stores a table of any content in packed form; `Entry` unpacks it from the two
sectors the code reads.  Any sector read may fail, and what is then taken from
address 0 is arbitrary: the offsets that `fat_mount` computes (`StrayMounts`), a
name and an entry in the directory (`Strays`, `StrayEntries`), the table or the data.
The history variable `astray` says that the open file rests on such a thing, or on
a handle that nobody wrote, which is what a path with a backslash returns;
`opened` is the path.

**Console** is `display.c` and `keyboard.c`.  The shell's `print_char` is cut at
every load and store of a shared variable, as `gcc -O0` compiles it (the build
has no other level), and at every access to the VGA board; the handler runs
whole between any two of these steps.  `paper` is the reference: an endless
sheet that the same characters are printed on.

**BootLoader** is `boot.asm` and `stage2.asm` with their include files.  Both
stages take the same steps (directory, look-up, FAT, chain) and differ in the
addresses; stage 2 also fetches the memory map and copies the kernel above 1 MB.
Memory is an array of cells of one sector that say what was last put there, and
the layout is a set of constants, because nothing else keeps the parts apart.
In stage 2 the kernel image overwrites all but the first two sectors of the FAT
it is being loaded by (0x3000 is inside the table that starts at 0x2C00), so an
entry read from there is anything.  The BIOS is external: it reads a sector or
fails.  `chain`, the clusters each stage has loaded, is a history variable: no
step depends on it, and the properties compare it, link by link, with the table
on the disk.
`StoreCount` is the 16-bit store of the number of entries; the other half of the
word that `kmain` reads holds one of `Leftovers`.

**Interrupts** is `pic.c`, `idt.c`, `tss.c` and `pit.c` with the part of `kmain`
that uses them: what controller, table, masks, interrupt flag and `esp0` are
after each of its calls.  Devices raise their lines from the first state on.
Delivery is external: the first unmasked line with nothing before it in service.
All three handlers are behind interrupt gates and none turns interrupts on, so a
handler with its end of interrupt is one step.  The second controller stays
masked.  A line that drops too early comes as line 7 and finds
`default_int_handler`, which sleeps on the timer with interrupts off: `hung`.
`early` records a key that was pressed before the controller was initialised; it
is never read, and the keyboard raises its line no more.

**Shell** extends `Interrupts` with `userspace.c`: banner, prompt, line editor,
commands, `exit`, and the sleep between two keys.  Keys are the codes the key
table holds.  For `printf` the model has the sizes: the lengths of the formats in
the program and the buffer's growth, which looks at the length once per character
of the format.  The program ends, and the model with it,

* in `corrupted`, when the editor stores outside its buffer (a backspace on an
  empty line, or a full one); a zero byte just below the buffer is harmless, as
  the high bytes of the heap's `next` pointer are zero already;
* in `overwritten`, when `read` copies a sector of 512 bytes into a buffer of 128,
  or prints a file name that is not terminated past `printf`'s buffer;
* in `astray`, when `exit` comes back from a system call that is refused;
  `halted` is where it should be, and `hung` is above.

`overrun` is what a print of a fixed text past `printf`'s buffer would lead to.  It
is no end, so `AlwaysReachesInput` would notice.

`MCPhysicalMemory`, `MCVirtualMemory`, `MCFileSystem`, `MCBootLoader` and `MCShell`
hold the constants of the runs that a `.cfg` cannot express.  The modules whose
names end in `Proofs` hold theorems (see The proofs).  `MCBootLoader` extends
`BootLoaderProofs`, and TLC evaluates the theorems' hypotheses on its disks.

How the parts join: `PhysicalMemory` implements `FrameAllocator`, and
`VirtualMemory` relies on nothing else of it; `Heap` takes pages by count;
`Floppy` is composed with `Dma`, and `Shell` with `Interrupts`; `FileSystem` takes
from `Floppy` that a read delivers the sector or fails; `Shell` takes from `Floppy`
that an operation of the disk is a command and a wait for IRQ6, and leaves the
loads and stores of a print to `Console` and the two heap calls to `Heap`;
`BootLoader` leaves the list of entries that `PhysicalMemory` scans.

## The runs

Run `tlc -config X.cfg M` with the module `PROJECT.json` names.

| Run | Shows |
|---|---|
| `pmm` | boot with junk in the map, then all sequences of allocations and frees of 1, 2 and 3 blocks: `MapTracksOwners`, `WholeBlocksKept`, `OnlyListedMemory`, and the refinement `ImplementsFrameAllocator` |
| `vmm` | from empty or junk frames, all sequences of alloc, map, remap, unmap, free until the pool is dry, in the first 4 MB too, with a TLB that caches a client's page and the page of a table: `TablesMatchMappings`, `FramesApart`, `FaultsOnlyWhenLowMemoryGone` |
| `heap` | all sequences of malloc and free of four sizes, up to the first overrun: `BlocksTileHeap`, `FreeFindsItsBlock`, `GrowsOnlyWhenNothingFits` |
| `floppy` | reset, calibration, reads with retries, transfers that stop anywhere: `NoStaleInterrupt`, `WaitMeansDone`, `ReadsTheRightSector`, `TransfersInBuffer` and, with fairness, `DriverReturns` |
| `fs_read` | every table of three data clusters and a directory of two sectors, with the boot sector, directory, table and data reads failing at will: `ReadFollowsTable`, `OpenFindsFile`, `SoundReadingEnds` |
| `console` | printing, clearing and get_key against the keyboard handler: `CursorOnScreen`, `ScreenIsPaper`, `CursorShown`, `KeysInOrder` |
| `boot` | both stages on disks with every acyclic chain, missing images, failing reads and odd memory maps: `KernelIntact`, `RunningCodeIntact`, `MemoryMapDelivered` and, with fairness, `LoaderStops` |
| `shell` | from `hal_init` to commands typed, edited and run, with timer, keyboard and disk interrupting anywhere: `IrqGetsItsHandler`, `StacksApart`, `LineAsTyped` and, with fairness, `EveryIrqServed`, `AlwaysReachesInput` |
| `pmm_partial_block` | **violated**: a kernel image that is not a whole number of blocks loses its last block to a client |
| `vmm_stale_tlb` | **violated**: after a remap an access reaches the old frame |
| `heap_tail_twice` | **violated**: the last block is handed out twice |
| `shell_exit` | **violated**: `exit` is refused by the dispatcher, which knows four calls of the five, and the program returns to nowhere |

The four violations are disagreements between the code and its own comments; each
is described under `findings` with the line it quotes.

### Bounds, and why they are enough

* `pmm`: 21 blocks in words of 4 and bytes of 2 bits.  21 is a multiple of
  neither, so `memset` leaves a bit of junk and the search an unscanned
  word; the pool has two parts, and runs of three blocks cross words.  The bit map
  takes one block and a part of the next, and so does the kernel, as on a PC; what
  happens to the parts is `pmm_partial_block`.
* `vmm`: tables of ten entries and a pool of nine frames, 2 to 10, of which
  `vmmngr_init` takes five; the last one is above the identity map.
  Targets are page 0, where the heap begins, and two pages that share a table of
  their own.  The TLB may hold page 0, whose translation goes stale, and page 2,
  through which the kernel reaches the first table.  `vmm_stale_tlb` looks at
  clients' accesses.
* `heap`: pages of 16 bytes and headers of 3; requests of 0, 1, 4 and 13 bytes,
  which make blocks that fit exactly, leave a remainder, leave one smaller than a
  header, and need a second page.  Four pages run out.  `MaxLive` bounds the
  sequence; `heap_tail_twice` has one more.
* `floppy`: two tracks, both heads, three sectors a track; requests on either
  track and head.  Two attempts stand for nine: a first and a last one.  A byte
  has three values, so an address is two of them and both halves of the buffer's,
  at 5, are used; memory has nine bytes, and a transfer that went past the
  buffer's three would show.  The chip starts with either state of its flip-flop,
  which `dma_reset` clears, and with its channel masked or not.
  `ReadsTheRightSector` speaks of transfers that begin at the buffer's start.
* `fs_read`: one-bit nibbles, sectors of four bytes.  The clusters are an even
  and an odd one whose entries straddle sectors, and one that does not.  Tables
  hold every assignment, cyclic and broken chains included.  `SoundReadingEnds`
  speaks of chains that end: a cyclic one is read for ever (`fat12.c:176`).  The
  directory has two sectors; one name is in both, another is a directory first and a
  file after it, and paths are found, missing, of a device without a file system, or
  have a backslash.  `Offsets` is what a failed mount may compute: a wrong place.
* `boot`: three sectors of FAT, of which the third lies under the kernel, as
  sectors three to nine do on the floppy.  The kernel has up to three clusters
  and stays below the cell of its size (see the known limits).
  No entry of the kernel's chain lies under the image (on the floppy: clusters
  up to 681), and chains are acyclic: a cyclic one is loaded for ever.  A half word
  has four values, and the half that is not written is 0 or 1.
* `console`: a screen of 2 by 2 cells, three prints, two keys; a byte of the
  hardware cursor has two values, so that locations need both registers.  The
  line after the screen is part of the frame buffer, because a print that the
  handler interrupts can write there.
* `shell`: two letters, return, backspace and tab, whose code has a zero
  low byte; a buffer of three and four keys, so that a line can be filled,
  emptied, edited and entered, and a second one begun.  The tick count has two
  values and wraps in every sleep.  Each command is one or two letters.  The
  stack is 48 bytes high and a half word 16: as with 0x90000 and 65536, the
  truncated stack pointer lies below the memory that is handed out (22, for
  0x16000).  Texts have their real lengths.

`heap`, `vmm`, `console`, `boot` and `shell` do not check for deadlock: the bounded
clients of `console` come to their end, a heap that has run out of its memory stops, the loader hands over or
gives up, the shell ends as described above, and `vmmngr_init` of a pool that is too
small leaves paging off and nothing to do.

### Fairness

`Floppy`: the driver's own steps (the processor runs), the two handlers
(interrupts are on while the driver waits; it runs before user space and from
it, never inside a system call), and the controller, which answers each
command it has taken.  The last is an assumption about hardware; the code has no
time limit, so without it `fd_wait_irq6` waits for ever.  No fairness is assumed
of requests.  `FileSystem`: a client that has opened a file goes on reading it,
as `cmd_read` does.  `BootLoader`: the processor runs and BIOS calls return.
`Shell`: the timer ticks and the disk answers (weak fairness); the program and each
handler are strongly fair, because a tick can take its turn from them again and
again, but a tick lasts a millisecond and its handler a few instructions.  Nothing
is assumed of keys.  The other modules state safety only.

## The proofs

`tlapm M.tla` checks module M.  Each proof module extends the component's, states
an inductive invariant `IInv`, shows that `Init` implies it and each action keeps
it, and draws the theorems from it.  Every `IInv` has also been checked by TLC on
the instance of its run.  The theorems hold for every value of the constants that
the named `ASSUME`s allow, and under the hypotheses in the table; these say what
the code takes for granted of the machine or the disk, and each holds in the
instance of the run.

| Module | Theorem | Hypothesis | States |
|---|---|---|---|
| `PhysicalMemoryProofs` | `TypeCorrect` | | `TypeOK` |
| | `NoBlockHandedOutTwice`, `KernelAndMapKept` | `TopReserved` | `MapTracksOwners`, `WholeBlocksKept` |
| | `HandsOutListedMemory` | `TopReserved`, `EntriesOnBlocks` | `OnlyListedMemory` |
| | `Implements` | `Consistent` | `ImplementsFrameAllocator` |
| `VirtualMemoryProofs` | `TypeCorrect`, `FaultsOnlyAbove`, `TablesAreRight`, `FramesStayApart` | `KeepOut` | `TypeOK`, `FaultsOnlyWhenLowMemoryGone`, `TablesMatchMappings`, `FramesApart` |
| `HeapProofs` | `TypeCorrect`, `BlocksTile`, `FreeFinds`, `GrowsOnlyWhenFull` | | `TypeOK`, `BlocksTileHeap`, `FreeFindsItsBlock`, `GrowsOnlyWhenNothingFits` |
| `FloppyProofs` | `TypeCorrect`, `NoWaitIsStale`, `WaitsEndWithTheirCommand`, `NoByteOutsideBuffer`, `DeliversTheSector` | | `TypeOK`, `NoStaleInterrupt`, `WaitMeansDone`, `TransfersInBuffer`, `ReadsTheRightSector` |
| `FileSystemProofs` | `TypeCorrect`, `ReadsFollowTheTable`, `OpensTheFile` | `SoundDisk` | `TypeOK`, `ReadFollowsTable`, `OpenFindsFile` |
| `BootLoaderProofs` | `TypeCorrect`, `KernelArrives`, `CodeStaysIntact`, `MapArrives` | `Layout(room)`, `Disks(room)` | `TypeOK`, `KernelIntact`, `RunningCodeIntact`, `MemoryMapDelivered` |
| | `NoStepRepeats` | `Layout(room)`, `Disks(room)` | every step lowers `Phase`, `ToCome`, `Within`, `left`, `tries` |
| `ConsoleProofs` | `TypeCorrect`, `CursorReturns`, `BoardKnowsCursor`, `ScreenShowsPaper`, `KeysReturnedInOrder` | | `TypeOK`, `CursorOnScreen`, `CursorShown`, `ScreenIsPaper`, `KeysInOrder` |
| `ShellProofs` | `TypeCorrect`, `LinesReachHandlers`, `CommandIsLine` | | `TypeOK`, `IrqGetsItsHandler`, `LineAsTyped` |
| | `StacksStayApart` | `StacksFit` | `StacksApart` |

**Physical memory.**  `MapTracksOwners` says nothing about booting and is not
inductive.  The invariant is `TypeOK /\ BootShape /\ MapShape /\ OwnedInPool`:
`BootShape` fixes `max_blocks` once `pmmngr_init` has run, `MapShape` gives, for
every stage of `kmain`, the scanned bits that are clear (the blocks freed by the
entries walked so far, less the regions reserved so far), and `OwnedInPool` says
that owners have pool blocks.  The step from `pmmngr_init` needs that all the
blocks scanned by words were written by bytes (`WordsInsideBytes`); the step of
`pmmngr_alloc_blocks` needs that the run found is free (`RunIsFree`).

That last fact is where `TopReserved` is used.  The search clamps the word index
of a run at the last word but not the bit index (`physical_mmngr.c:44`), so a run
that would leave the map is judged by bits of the last word, read again.  If the
last scanned block is not in the pool, every such run meets it first and is
given up.  A PC satisfies this: its map ends with the firmware area below 4 GB.
Without it the theorem is false.  `EntriesOnBlocks` (available regions begin below
4 GB on a block) is there because bases are rounded down.  `WholeBlocksKept` has no
such hypothesis: whatever the sizes of bit map and kernel, a block that either
fills is reserved (`FilledBlocks`).  Their last, partial blocks are not, and
`pmm_partial_block` shows it.

**The refinement.**  The count is right only if no block is counted twice, so
`Consistent` adds that available regions are disjoint and within the map, that
one of them holds block 0, and
that what `kmain` reserves is available memory and lies apart.  `Counted` then
says `used_blocks` is the size of the map less the clear bits, block 0 counted if
its region was listed: that is the one too many.  With it a step of
`pmmngr_alloc_blocks` maps to `FrameAllocator`'s `Alloc` or, if the count refuses
or the search finds nothing, to `Refuse`: no run of free blocks is long enough.
(`FrameAllocator` also refuses requests of no blocks, as the search does.)

**Virtual memory.**  The kernel reaches a table by the page whose number is the
table's frame.  Nothing keeps clients away from that page; if one maps it, the next
entry is written into the client's frame instead of the table, and TLC finds
`TablesMatchMappings` violated with targets from 0 up to the first table.  So
`KeepOut` says that clients map no page with the number of a frame of the pool.  The pool starts at 0x16 and the heap, the one client, at page 0:
this is a heap of up to 22 pages (88 KB).  `KeepOut` also says that no frame of the
pool has bit 31, which the mask of `pte_set_frame` loses: memory below 2 GB.  Where
the pool lies, in the identity map or above it, does not matter.  `InReach` is why:
first fit hands out low frames first, so a directory that the kernel reaches has
tables that it reaches, until no low frame is free, and that is what the step that
faults finds (`OutOfReach`).  The invariant describes the directory (its tables are
in frames of the pool, one each, the first maps the pool's low frames to
themselves), says who owns each frame, that a walk of the tables gives what was
mapped, and that the TLB, which may be stale for pages of clients, is not for pages
the kernel reaches tables by: those are never remapped.

**Heap.**  The theorems have no hypothesis on requests or pages.  Up to the first
overrun (`InBounds`) the invariant `List` says of each block that it ends where the
list goes on, with no block in between, or where the heap ends; it is kept by a split
with room for a header (`SplitKeepsList`), by pages added to the last block
(`GrowKeepsList`) and by a flag written (`FlagKeepsList`), the last because headers do
not overlap (`HeadersApart`).  `Searching` says that no block before `cur` will do:
where the search stops at a last block that is too small, none does.  `Releasing`
says that the block `malloc_free` looks for is not behind it.  The walk is never
unfolded, so no induction over the list is needed.  The overrun itself is no rare
case: a request that is 1 to 11 bytes smaller than the block found is enough on the
machine.

**Floppy.**  `Control` says, for each point of the driver, what the controller and
the interrupt are doing: quiet before a command; after it either busy and quiet or
done and signalled, at the line or in the flag but not both; seen between the two
halves of `fd_wait_irq6`.  `Chip` says that the
channel's address and count always add up to the end of the buffer, so that
auto-initialisation brings it back; `Sound` carries the bytes from the transfer to the
return.

**File system.**  `SoundDisk` says that one sector is reserved (the code adds 1 where
it means `reserved_sectors`), every entry of the table lies within one copy of
it, the entries of data clusters are 0, end marks or data clusters, and files are not
empty.  It says nothing of reads: all may fail, at any time.  Under it
`WindowHoldsEntry` shows that what `fat_read_file` unpacks from its two sectors is the entry: by `ThreeDigits` an
entry is its three nibbles, by `LowFirst` and `HighFirst` the two bytes give
them back for even and odd clusters, and the second byte is in the window even
when it is the first of the next sector.  After a failed read anything may be
unpacked; `EntryRange` shows that it is still an entry.  For `OpenFindsFile`,
`SearchFindsFirst` shows that a search that met no unreadable sector on its way ends
at the first entry of the name (`EntryIsFirst`), whatever happened to later sectors.

**Console.**  A print is cut into its loads and stores, so `Printing` says of each
point what the *rest* of the call will make of the screen: running the rest of
`print_char` to its end from here gives what the paper shows.  Each step then
keeps it because the rest of the rest is the rest; `PrintsAsTyped` shows it for
the whole call at its start.  `Position` bounds the cursor at each point although
the handler may have moved it, `Showing` follows the halves of the hardware cursor, and
`Keyboard` orders the keys returned, held and waiting.

**Interrupts and shell.**  `Vectored` gives masks, base and gates for each stage
of `kmain`: interrupts come on only in the last step of
`setup_interrupt_handlers`.  `Stacked` is `esp0` after `tss_set_stack`; with
`StacksFit` (the stack top is a multiple of 64 KB, at least twice, as 0x90000 is;
frames are less than 64 KB deep, with the eight bytes that `jmp_userspace` leaves;
the lowest 64 KB are never handed out) the
truncated pointer puts the handlers' stack into the lowest 64 KB and the user's
above it.  `Edited` says that the characters before the index are the line, and
that an index below the buffer means an empty line, a zero in the first byte, and a
backspace too many (`beyond`).  `line` and `beyond` are history variables of
`Shell`: what the keys should have made of the line.

**Boot loader.**  `room` says how many clusters each stage has room for.
`Layout(room)` is what the constants of the two sources have to get right, and no
more: no area runs into the end of its segment, the stack, the running code, the
memory map and the size are not under what is loaded later, and stage 2 stays
whole.  Directory and tables may share cells, and the kernel may lie over both, as
on the floppy, where the layout holds with room for 5 clusters (0x500 to the memory
map at 0x1000) and 40 (0x3000 to the size at 0x8000).  `Disks(room)` is about the
disk and the BIOS: its map has fewer than 65536 entries, the chain of an image ends within its room (`EndsWithin`: a set of clusters
closed under the table, with a rank that falls along it), and the two bytes of each
of its entries are not under the image.  A chain may run through clusters that are
marked free; the loader then loads sectors of the directory, and the properties
claim that only for the chain, not for the data.

`KernelIntact` speaks of the last state only.  Its invariant follows the load:
`Reading` gives, for each of the three uses of `read_sectors`, the sector and cell
it has come to, so that a failed read is tried again at the same place; the two
copies of the table are in memory as far as they have been read (`TableRead`), and
from then on what the image does not cover of the first copy (`TableKept`);
`Progress` says that the clusters loaded and the next one are a path of the table,
that each is in its cell (`Held`), and that the rest of the chain ends within the
rest of the room.  A step of the chain (`NextCluster`) needs that entries are
unpacked right for every size of nibble and sector (`EntryUnpacked`), that both
bytes come from cells that still hold the table (`ByteRead`), and that the room
shrinks with the chain (`ChainStep`).  `SectorAddressed` shows that `LBACHS` names
the sector that was meant on every geometry.  For the memory map, `Kept` exhibits
the positions of the entries that were kept; `KeepEntryKeeps` extends them by one, and
`CountHeld` says that the lower half of the count is their number.

`NoStepRepeats` is the part of `LoaderStops` that needs no fairness: the numbers
`Phase`, `ToCome`, `Within`, `left` and `tries` never fall below zero, and every step
lowers them in their lexicographic order, so that an infinite loading, or retrying,
is impossible on a disk that fits.

Only model-checked, because the prover has no fairness: liveness (`DriverReturns`,
`SoundReadingEnds`, `LoaderStops`, `EveryIrqServed`, `AlwaysReachesInput`).  Every
other property of a passing run is stated by a theorem.

## Known limits of the code

The models contain the following, besides what the four violations show, as the code
has it; the properties except it, or the inputs stay clear of it:

* `used_blocks` is one too low from boot on, as `physical_mmngr.c:85` sets the bit of
  block 0 without counting it, although line 10 calls it the "number of blocks
  currently used".  `ImplementsFrameAllocator` shows that no request is refused or
  granted wrongly for it;
* consecutive free blocks are never merged, although `malloc.c:71` says so: the loop
  takes the head of the list, address 0, for its end.  If it made a turn it would
  absorb blocks in use (the mutant of `FreeFindsItsBlock`);
* a block that is larger than a request by less than a header is split all the same,
  and the size of the rest wraps (`malloc.c:125`): `overrun`;
* a heap of 23 pages is mapped over the pages by which page tables are reached;
* a path with a backslash is never looked up, and opens a `FILE` that nobody wrote if
  the flags left on the stack say so (`fat12.c:252`): `astray`;
* of the number of memory map entries the loader writes 16 bits (`stage2.asm:51`) and
  `kmain` reads 32 (`kernel.c:42`): it is right where memory held zeros at 0x1002, and
  `MemoryMapDelivered` is about the half that is written;
* a kernel of more than 40 sectors gets its own size written into it, at 0x8000,
  before it is copied (`stage2.asm:127`);
* a cyclic chain is read, or loaded, for ever (`fat12.c:176`);
* after a transfer that was cut short the next one begins in the middle of the
  buffer, since the channel is programmed once (`dma.c`, `floppydisk.c`);
* a page that cannot be had is skipped (`malloc.c:57`);
* the heap begins at virtual address 0, so that its pages are mapped over the
  identity mapping of the first pages, the DMA buffer's included; with the 16th page
  it reaches the stack of the handlers below 0x10000, which `StacksApart`, that
  speaks of physical memory, does not see;
* the stack below 0x90000 is part of the pool that is handed out;
* the table of key codes gives some keys the code of a neighbour.

## Not modelled

Port I/O and inline assembly are seen through what the devices make of them.  Of
the HAL the descriptors of the GDT; of the DMA code `dma_set_write`,
`dma_unmask_channel` and `dma_set_external_page_register`, and of the rest
`set_irq_mask`, `vmmngr_virt_to_phys`, `vmmngr_flush_tlb_entry`,
`vol_register_filesystem_by_id`, `vol_unregister_filesystem` and the system calls
`test0` and `sleep`, none of which has a caller; `fat_parse_subdir`, which cannot be
reached.  The text `printf` makes of a number, the table of key codes, the colours of characters, the writable and
user bits of page entries; `cmd_read` after its first sector, which has overwritten
the heap; the loader's A20 switch, first descriptor table and messages; exceptions
other than the page fault.

## Plan

1. Done: the memory managers with the abstract allocator, heap, DMA and floppy,
   file system, boot loader, console, interrupts and shell, and the theorems
   above.
2. Compositions: `Heap` over `VirtualMemory` (the heap maps over the identity
   pages at address 0); `FileSystem` over `Floppy`.
