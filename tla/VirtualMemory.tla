--------------------------- MODULE VirtualMemory ---------------------------
(***************************************************************************)
(* virutal_mmngr.c with vmmngr_pte.c and vmmngr_pde.c: page tables in      *)
(* physical memory, walked by the MMU and by the kernel itself.            *)
(*                                                                         *)
(* Physical memory is an array of frames, a frame an array of entries.     *)
(* The kernel uses the physical address of a table as a virtual one, so    *)
(* every access it makes goes through Reach: untranslated while paging is  *)
(* off, then through the TLB or the tables.  An access to a page that is   *)
(* not mapped is a page fault, which the kernel does not survive.          *)
(*                                                                         *)
(* Frames come from physical_mmngr.c at the level of FrameAllocator, with  *)
(* the first fit that PhysicalMemory shows.  The writable and user bits of *)
(* an entry are left out.                                                  *)
(***************************************************************************)
EXTENDS Integers, FiniteSets, FiniteSetsExt

CONSTANTS TableSize,    \* entries in a table and in the directory (1024)
          TopBit,       \* frame number of bit 31: the first one the frame
                        \* mask 0x7FFFF000 does not cover (2^19)
          Frames,       \* the frames of physical memory
          Pool,         \* the ones the physical memory manager owns
          KernelIndex,  \* directory index of 0xC0000000
          KernelFrame,  \* frame of the kernel image (0x100000)
          Targets,      \* virtual pages that clients map
          TlbPages      \* virtual pages whose translations the TLB may hold

ASSUME GeometryAssumption ==
  /\ TableSize \in Nat \ {0} /\ TopBit \in Nat \ {0}
  /\ Frames \subseteq Nat /\ Pool \subseteq Frames \ {0}
  /\ KernelIndex \in 1 .. (TableSize - 1) /\ KernelFrame \in Frames
  /\ TableSize <= TopBit /\ KernelFrame + TableSize <= TopBit
  /\ TopBit <= KernelIndex * TableSize
  /\ Targets \subseteq 0 .. (TableSize * TableSize - 1)
  /\ TlbPages \subseteq 0 .. (TableSize * TableSize - 1)

Index == 0 .. (TableSize - 1)
Pages == 0 .. (TableSize * TableSize - 1)

PAGE_DIR_INDEX(v)   == v \div TableSize
PAGE_TABLE_INDEX(v) == v % TableSize

Fault == -1     \* what an access to an unmapped page reaches
None  == -2     \* no translation cached; a page as vmmngr_init left it

VARIABLES mem,      \* [Frames -> [Index -> entry]]: physical memory
          avail,    \* the frames of the pool that nobody owns
          inited,   \* has kmain called vmmngr_init?
          curdir,   \* frame of the page directory, 0 before vmmngr_init
          paging,   \* CR0.PG
          tlb,      \* [TlbPages -> frame or None]: cached translations
          crashed,  \* has the kernel taken a page fault?
          held,     \* frames clients were given and have not freed (history)
          mapped    \* [Targets -> frame, Fault or None]: what clients mapped, Fault
                    \* where they took a mapping away (history)

vars == <<mem, avail, inited, curdir, paging, tlb, crashed, held, mapped>>

---------------------------------------------------------------------------
(* Entries.                                                                *)

ZeroEntry == [present |-> FALSE, frame |-> 0]

\* *e = (*e & ~FRAME) | addr.  Bit 31 is outside FRAME: an old one stays.
set_frame(e, f) ==
  [e EXCEPT !.frame = (f % TopBit) + (IF f >= TopBit \/ e.frame >= TopBit THEN TopBit ELSE 0)]

add_present(e) == [e EXCEPT !.present = TRUE]
del_present(e) == [e EXCEPT !.present = FALSE]

\* pt_entry_pfn masks with FRAME and loses bit 31.  (PAGE_GET_PHYSICAL_ADDRESS
\* masks with ~0xFFF and keeps it: that one is e.frame.)
pfn(e) == e.frame % TopBit

---------------------------------------------------------------------------
(* The MMU.                                                                *)

Walk(m, v) ==
  LET pde == m[curdir][PAGE_DIR_INDEX(v)]
      pte == m[pde.frame][PAGE_TABLE_INDEX(v)]
  IN IF pde.present /\ pde.frame \in Frames /\ pte.present THEN pte.frame ELSE Fault

\* The frame that an access to virtual page v reaches when memory is m.
Reach(m, v) ==
  CASE ~paging                            -> v
    [] v \in TlbPages /\ tlb[v] # None    -> tlb[v]
    [] OTHER                              -> Walk(m, v)

\* What the kernel reads and writes at entry i of the table it finds at
\* physical frame f, by way of virtual page f.
ReadEntry(m, f, i) == m[Reach(m, f)][i]
WriteEntry(m, f, i, e) == [m EXCEPT ![Reach(m, f)][i] = e]

\* Broken: a new table keeps what the frame held.
LeaveTable(m, f) == m
ZeroTable(m, f) == [m EXCEPT ![Reach(m, f)] = [i \in Index |-> ZeroEntry]]

Accessible(m, f) == f \in Pages /\ Reach(m, f) \in Frames

---------------------------------------------------------------------------
(* Frames, as FrameAllocator hands them out.                               *)

Run(b, n) == b .. (b + n - 1)

\* Broken: the search goes down from the last frame.
LastFit(free, n) ==
  LET runs == {b \in free : Run(b, n) \subseteq free}
  IN IF runs = {} THEN 0 ELSE Max(runs)

FirstFit(free, n) ==
  LET runs == {b \in free : Run(b, n) \subseteq free}
  IN IF runs = {} THEN 0 ELSE Min(runs)

---------------------------------------------------------------------------
(* vmmngr_init, called by kmain with paging off.                           *)

Init == /\ mem \in {[f \in Frames |-> [i \in Index |-> e]] :
                      e \in {ZeroEntry, [present |-> TRUE, frame |-> TableSize]}}
        /\ avail = Pool
        /\ inited = FALSE
        /\ curdir = 0
        /\ paging = FALSE
        /\ tlb = [v \in TlbPages |-> None]
        /\ crashed = FALSE
        /\ held = {}
        /\ mapped = [v \in Targets |-> None]

IdentityTable == [i \in Index |-> set_frame(add_present(ZeroEntry), i)]
KernelTable == [i \in Index |-> set_frame(add_present(ZeroEntry), KernelFrame + i)]

\* Returns early, with the frames it already has left allocated and paging off,
\* when an allocation fails; the tables are filled in before the directory is
\* asked for.
vmmngr_init ==
  LET table  == FirstFit(avail, 1)
      ktable == FirstFit(avail \ {table}, 1)
      rest   == avail \ {table, ktable}
      dir    == FirstFit(rest, 3)
      tables == [mem EXCEPT ![table] = IdentityTable, ![ktable] = KernelTable]
      entries == [i \in Index |->
                    CASE i = 0           -> set_frame(add_present(ZeroEntry), table)
                      [] i = KernelIndex -> set_frame(add_present(ZeroEntry), ktable)
                      [] OTHER           -> ZeroEntry]
  IN /\ ~inited
     /\ inited' = TRUE
     /\ IF dir = 0
          THEN /\ avail' = rest
               /\ mem' = IF ktable = 0 THEN mem ELSE tables
               /\ UNCHANGED <<curdir, paging, tlb>>
          ELSE /\ avail' = rest \ Run(dir, 3)
               /\ mem' = [tables EXCEPT ![dir] = entries]
               /\ curdir' = dir
               /\ paging' = TRUE
               /\ tlb' = [v \in TlbPages |-> None]
     /\ UNCHANGED <<crashed, held, mapped>>

---------------------------------------------------------------------------
(* The operations of the manager, called by the heap.                      *)

Running == paging /\ ~crashed

\* A page fault: what the operation had written stays, nothing else happens.
PageFault(m) == /\ crashed' = TRUE
                /\ mem' = m
                /\ UNCHANGED <<held, mapped>>

\* Broken: the null pointer is taken for a frame.
AllocPageUnchecked ==
  /\ Running
  /\ avail' = avail \ {FirstFit(avail, 1)}
  /\ held' = held \cup {FirstFit(avail, 1)}
  /\ UNCHANGED <<mem, inited, curdir, paging, tlb, crashed, mapped>>

\* vmmngr_alloc_page on an entry of the caller's own: the frame is what counts.
vmmngr_alloc_page ==
  /\ Running
  /\ avail # {}
  /\ avail' = avail \ {FirstFit(avail, 1)}
  /\ held' = held \cup {FirstFit(avail, 1)}
  /\ UNCHANGED <<mem, inited, curdir, paging, tlb, crashed, mapped>>

\* The last two steps of vmmngr_map_page, with the table present in m.
SetPage(m, p, v) ==
  LET table == ReadEntry(m, curdir, PAGE_DIR_INDEX(v)).frame
      i     == PAGE_TABLE_INDEX(v)
  IN IF Accessible(m, table)
       THEN /\ mem' = WriteEntry(m, table, i, set_frame(add_present(ReadEntry(m, table, i)), p))
            /\ mapped' = [mapped EXCEPT ![v] = p]
            /\ UNCHANGED <<crashed, held>>
       ELSE PageFault(m)

\* The table is missing: allocate it, clear it, enter it, then set the page.
NewTable(p, v) ==
  LET table   == FirstFit(avail, 1)
      zeroed  == ZeroTable(mem, table)
      pde     == ReadEntry(zeroed, curdir, PAGE_DIR_INDEX(v))
      entered == WriteEntry(zeroed, curdir, PAGE_DIR_INDEX(v), set_frame(add_present(pde), table))
  IN /\ avail' = avail \ {table}
     /\ IF Accessible(mem, table) THEN SetPage(entered, p, v) ELSE PageFault(mem)

DirEntry(v) == ReadEntry(mem, curdir, PAGE_DIR_INDEX(v))

vmmngr_map_page(p, v) ==
  /\ Running
  /\ IF ~Accessible(mem, curdir)
       THEN PageFault(mem) /\ UNCHANGED avail
       ELSE \/ /\ DirEntry(v).present
               /\ SetPage(mem, p, v)
               /\ UNCHANGED avail
            \/ /\ ~DirEntry(v).present
               /\ IF avail = {}
                    THEN UNCHANGED <<mem, avail, held, mapped, crashed>>
                    ELSE NewTable(p, v)
  /\ UNCHANGED <<inited, curdir, paging, tlb>>

\* vmmngr_get_page: the table's frame is used without a test of present, and
\* frame 0 is the null pointer.
PageEntry(v) == ReadEntry(mem, DirEntry(v).frame, PAGE_TABLE_INDEX(v))
SetPageEntry(v, e) == mem' = WriteEntry(mem, DirEntry(v).frame, PAGE_TABLE_INDEX(v), e)
PageAccessible(v) == /\ Accessible(mem, curdir)
                     /\ DirEntry(v).frame = 0 \/ Accessible(mem, DirEntry(v).frame)

\* Broken: unmapping a page frees its frame, which the client still holds.
UnmapFrees(v) ==
  /\ Running
  /\ IF ~PageAccessible(v)
       THEN PageFault(mem) /\ UNCHANGED avail
       ELSE /\ SetPageEntry(v, del_present(set_frame(PageEntry(v), 0)))
            /\ mapped' = [mapped EXCEPT ![v] = Fault]
            /\ avail' = avail \cup {pfn(PageEntry(v))}
            /\ UNCHANGED <<held, crashed>>
  /\ UNCHANGED <<inited, curdir, paging, tlb>>

vmmngr_unmap_page(v) ==
  /\ Running
  /\ IF ~PageAccessible(v)
       THEN PageFault(mem)
       ELSE /\ IF DirEntry(v).frame = 0
                 THEN UNCHANGED <<mem, mapped>>
                 ELSE /\ SetPageEntry(v, del_present(set_frame(PageEntry(v), 0)))
                      /\ mapped' = [mapped EXCEPT ![v] = Fault]
            /\ UNCHANGED <<held, crashed>>
  /\ UNCHANGED <<avail, inited, curdir, paging, tlb>>

\* vmmngr_free_page on the entry of a page that a client mapped.
vmmngr_free_page(v) ==
  /\ Running
  /\ IF PageAccessible(v)
       THEN /\ avail' = IF pfn(PageEntry(v)) # 0 THEN avail \cup {pfn(PageEntry(v))} ELSE avail
            /\ SetPageEntry(v, del_present(PageEntry(v)))
            /\ held' = held \ {mapped[v]}
            /\ mapped' = [mapped EXCEPT ![v] = Fault]
            /\ UNCHANGED crashed
       ELSE PageFault(mem) /\ UNCHANGED avail
  /\ UNCHANGED <<inited, curdir, paging, tlb>>

---------------------------------------------------------------------------
(* The processor may cache a valid translation at any time, and drop it.   *)

TlbFill(v) == /\ Running
              /\ tlb[v] = None
              /\ Walk(mem, v) # Fault
              /\ tlb' = [tlb EXCEPT ![v] = Walk(mem, v)]
              /\ UNCHANGED <<mem, avail, inited, curdir, paging, crashed, held, mapped>>

TlbEvict(v) == /\ tlb[v] # None
               /\ tlb' = [tlb EXCEPT ![v] = None]
               /\ UNCHANGED <<mem, avail, inited, curdir, paging, crashed, held, mapped>>

\* A client maps a frame it holds and has not mapped elsewhere, over whatever
\* the page had (malloc.c maps over identity pages), and frees only what it
\* mapped.
Client == \/ vmmngr_alloc_page
          \/ \E p \in held, v \in Targets :
               /\ \A u \in Targets : mapped[u] # p
               /\ vmmngr_map_page(p, v)
          \/ \E v \in Targets : /\ mapped[v] \in held
                                /\ vmmngr_unmap_page(v) \/ vmmngr_free_page(v)

Next == \/ vmmngr_init
        \/ Client
        \/ \E v \in TlbPages : TlbFill(v) \/ TlbEvict(v)

Spec == Init /\ [][Next]_vars

---------------------------------------------------------------------------
(* What is claimed.                                                        *)

Entry == [present : BOOLEAN, frame : Nat]

TypeOK == /\ mem \in [Frames -> [Index -> Entry]]
          /\ avail \subseteq Pool
          /\ inited \in BOOLEAN
          /\ curdir \in Pool \cup {0}
          /\ paging \in BOOLEAN
          /\ tlb \in [TlbPages -> Nat \cup {None}]
          /\ crashed \in BOOLEAN
          /\ held \subseteq Pool
          /\ mapped \in [Targets -> Nat \cup {None, Fault}]

\* The frame a page was meant to have.
Intended(v) ==
  IF v \in Targets /\ mapped[v] # None THEN mapped[v]
  ELSE CASE PAGE_DIR_INDEX(v) = 0           -> v
         [] PAGE_DIR_INDEX(v) = KernelIndex -> KernelFrame + PAGE_TABLE_INDEX(v)
         [] OTHER                           -> Fault

\* The tables the MMU walks give every page of the address space the frame it
\* was mapped to and no other page any frame at all: a new table starts empty,
\* tables are never shared, and mapping one page leaves the others alone.
TablesMatchMappings == paging => \A v \in Pages : Walk(mem, v) = Intended(v)

\* The frames the directory uses as tables.
TableFrames == {mem[curdir][i].frame : i \in {j \in Index : mem[curdir][j].present}}

\* Frames that hold tables are neither free nor in a client's hands, no frame
\* is free and held at once, and no two directory entries share a table.
FramesApart ==
  paging => /\ TableFrames \cap (avail \cup held) = {}
            /\ curdir \notin avail \cup held \cup TableFrames
            /\ avail \cap held = {}
            /\ \A i, j \in Index : /\ i # j
                                   /\ mem[curdir][i].present /\ mem[curdir][j].present
                                   => mem[curdir][i].frame # mem[curdir][j].frame

\* An operation takes a page fault only where the directory lies above the
\* pages vmmngr_init maps to themselves or no frame below their end is free: the
\* allocator gives out the lowest frame, so a table gets one that the kernel
\* reaches as long as there is one.
FaultsOnlyWhenLowMemoryGone ==
  [][~crashed /\ crashed' => curdir >= TableSize \/ avail \cap Index = {}]_vars

\* An access to a page that a client mapped reaches the frame it mapped there,
\* though no operation ever calls vmmngr_flush_tlb_entry.
AccessReachesMapping ==
  paging => \A v \in Targets : mapped[v] \in held => Reach(mem, v) = mapped[v]

===========================================================================
