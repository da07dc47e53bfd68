------------------------ MODULE VirtualMemoryProofs ------------------------
(***************************************************************************)
(* Proofs about VirtualMemory for every size of table and every pool below *)
(* 2 GB, inside vmmngr_init's identity mapping or not.                     *)
(***************************************************************************)
EXTENDS VirtualMemory, WellFoundedInduction, TLAPS

(* The kernel reaches a table by the page whose number is the table's      *)
(* frame.  Clients map any page, of directory entry 0 too, but not one     *)
(* that has the number of a frame of the pool: on the machine the pool     *)
(* starts at frame 0x16 and malloc.c maps pages from 0 up, so this is a    *)
(* heap of at most 22 pages.  No frame of the pool has bit 31.             *)
KeepOut == /\ \A f \in Pool : f < TopBit
           /\ Targets \cap Pool = {}

---------------------------------------------------------------------------
(* The invariant.                                                          *)

\* The directory of memory m: its first entry leads to a table that maps the
\* frames of the pool to themselves, its entries to tables of their own.
Directory(m) ==
  /\ m \in [Frames -> [Index -> Entry]]
  /\ m[curdir][0].present
  /\ \A i \in Index : IF m[curdir][i].present
                      THEN m[curdir][i].frame \in Pool /\ m[curdir][i].frame # curdir
                      ELSE m[curdir][i] = ZeroEntry
  /\ \A i, j \in Index : m[curdir][i].present /\ m[curdir][j].present /\ i # j
                         => m[curdir][i].frame # m[curdir][j].frame
  /\ \A i \in Pool \cap Index : m[m[curdir][0].frame][i] = [present |-> TRUE, frame |-> i]

\* No entry of a table has bit 31.
NoTopBit(m) ==
  \A i \in Index, j \in Index : m[curdir][i].present => m[m[curdir][i].frame][j].frame < TopBit

\* A directory that the kernel reaches has tables that it reaches.
InReach(m) ==
  curdir \in Index => \A i \in Index : m[curdir][i].present => m[curdir][i].frame \in Index

\* Frames that hold tables are neither free nor held.
Owned(m, free) ==
  \A i \in Index : m[curdir][i].present => m[curdir][i].frame \notin free \cup held

\* What clients mapped they hold, and each frame of it once.
Mappings ==
  /\ \A v \in Targets : mapped[v] \in Nat => mapped[v] \in held
  /\ \A u, v \in Targets : mapped[u] \in Nat /\ mapped[u] = mapped[v] => u = v

\* The TLB may be stale, but not for the pages the kernel reaches tables by.
IdentityCached == \A v \in TlbPages \cap Pool : tlb[v] = None \/ (v \in Index /\ tlb[v] = v)

Paged == /\ inited /\ curdir \in Pool
         /\ Directory(mem) /\ NoTopBit(mem) /\ InReach(mem) /\ Owned(mem, avail)
         /\ mem[curdir][KernelIndex].present
         /\ \A v \in Pages : Walk(mem, v) = Intended(v)
         /\ curdir \notin avail \cup held /\ avail \cap held = {}
         /\ Mappings /\ IdentityCached

Unpaged == held = {} /\ \A v \in Targets : mapped[v] = None

IInv == TypeOK /\ (IF paging THEN Paged ELSE Unpaged)

---------------------------------------------------------------------------
(* Pages, entries and frames.                                              *)

\* What the constants are.
LEMMA Geometry ==
  /\ TableSize \in Nat \ {0} /\ TopBit \in Nat \ {0}
  /\ Frames \subseteq Nat /\ Pool \subseteq Frames /\ 0 \notin Pool
  /\ KernelIndex \in Index /\ KernelIndex # 0 /\ 0 \in Index /\ KernelFrame \in Nat
  /\ Targets \subseteq Pages /\ TlbPages \subseteq Pages /\ Index \subseteq Nat
  /\ TableSize <= TopBit /\ KernelFrame + TableSize <= TopBit
BY GeometryAssumption DEF Index, Pages

\* A page is a directory index and a table index.
LEMMA Places ==
  ASSUME NEW v \in Pages
  PROVE  /\ PAGE_DIR_INDEX(v) \in Index /\ PAGE_TABLE_INDEX(v) \in Index /\ v \in Nat
         /\ v = TableSize * PAGE_DIR_INDEX(v) + PAGE_TABLE_INDEX(v)
<1> DEFINE q == v \div TableSize
           r == v % TableSize
<1>0. TableSize \in Nat \ {0}
  BY Geometry
<1>1. TableSize * TableSize \in Nat
  BY <1>0, SMT
<1>2. v \in Nat /\ v < TableSize * TableSize
  BY <1>1 DEF Pages
<1>3. q \in Nat /\ r \in 0 .. (TableSize - 1) /\ v = TableSize * q + r
  BY <1>0, <1>2, SMT
<1> HIDE DEF q, r
<1>4. q < TableSize
  <2> SUFFICES ASSUME ~(q < TableSize) PROVE FALSE
    OBVIOUS
  <2>1. PICK n \in Nat : q = TableSize + n
    <3>1. q - TableSize \in Nat /\ q = TableSize + (q - TableSize)
      BY <1>0, <1>3
    <3> QED BY <3>1
  <2>2. TableSize * q = TableSize * TableSize + TableSize * n /\ TableSize * n \in Nat
    BY <1>0, <2>1, SMT
  <2> QED BY <1>1, <1>2, <1>3, <2>2
<1>5. q \in Index /\ r \in Index
  BY <1>0, <1>3, <1>4 DEF Index
<1> QED BY <1>2, <1>3, <1>5 DEF q, r, PAGE_DIR_INDEX, PAGE_TABLE_INDEX

\* The pages of the first directory entry are the first pages.
LEMMA LowPlaces ==
  ASSUME NEW v \in Index
  PROVE  v \in Pages /\ PAGE_DIR_INDEX(v) = 0 /\ PAGE_TABLE_INDEX(v) = v
<1>0. TableSize \in Nat \ {0} /\ v \in Nat /\ v < TableSize
  BY Geometry DEF Index
<1>1. TableSize * TableSize \in Nat /\ TableSize <= TableSize * TableSize
  <2>1. PICK n \in Nat : TableSize = n + 1
    <3>1. TableSize - 1 \in Nat /\ TableSize = (TableSize - 1) + 1
      BY <1>0
    <3> QED BY <3>1
  <2>2. TableSize * TableSize = TableSize * n + TableSize /\ TableSize * n \in Nat
    BY <1>0, <2>1, SMT
  <2> QED BY <1>0, <2>2
<1>2. v \in Pages
  BY <1>0, <1>1 DEF Pages
<1>3. v \div TableSize = 0 /\ v % TableSize = v
  BY <1>0, SMT
<1> QED BY <1>2, <1>3 DEF PAGE_DIR_INDEX, PAGE_TABLE_INDEX

\* A page whose directory index is 0 is its own table index.
LEMMA FirstTable ==
  ASSUME NEW v \in Pages, PAGE_DIR_INDEX(v) = 0
  PROVE  v = PAGE_TABLE_INDEX(v) /\ v \in Index
<1>1. /\ PAGE_TABLE_INDEX(v) \in Index /\ v \in Nat
      /\ v = TableSize * 0 + PAGE_TABLE_INDEX(v)
  BY Places
<1>2. PAGE_TABLE_INDEX(v) \in Nat /\ TableSize \in Nat
  BY <1>1, Geometry
<1> QED BY <1>1, <1>2

\* No two pages have both indices in common.
LEMMA PagesApart ==
  ASSUME NEW u \in Pages, NEW v \in Pages,
         PAGE_DIR_INDEX(u) = PAGE_DIR_INDEX(v), PAGE_TABLE_INDEX(u) = PAGE_TABLE_INDEX(v)
  PROVE  u = v
BY Places

\* An entry is its two fields.
LEMMA EntryIs ==
  ASSUME NEW e \in Entry
  PROVE  /\ e = [present |-> e.present, frame |-> e.frame] /\ e.frame \in Nat /\ e.present \in BOOLEAN
         /\ add_present(e) = [present |-> TRUE, frame |-> e.frame]
         /\ del_present(e) = [present |-> FALSE, frame |-> e.frame]
         /\ add_present(e) \in Entry /\ del_present(e) \in Entry /\ ZeroEntry \in Entry
<1>1. e = [present |-> e.present, frame |-> e.frame] /\ e.frame \in Nat /\ e.present \in BOOLEAN
  BY DEF Entry
<1>2. ASSUME NEW b PROVE [e EXCEPT !.present = b] = [present |-> b, frame |-> e.frame]
  BY DEF Entry
<1>3. /\ add_present(e) = [present |-> TRUE, frame |-> e.frame]
      /\ del_present(e) = [present |-> FALSE, frame |-> e.frame]
  BY <1>2, Zenon DEF add_present, del_present
<1>4. \A n \in Nat : [present |-> TRUE, frame |-> n] \in Entry /\ [present |-> FALSE, frame |-> n] \in Entry
  BY DEF Entry
<1>5. ZeroEntry \in Entry
  BY DEF Entry, ZeroEntry
<1> QED BY <1>1, <1>3, <1>4, <1>5

\* Setting a frame keeps an entry one; without bit 31 about, the frame is the
\* one that was set.
LEMMA SetFrame ==
  ASSUME NEW e \in Entry, NEW f \in Nat
  PROVE  /\ set_frame(e, f) \in Entry
         /\ set_frame(e, f).present = e.present
         /\ f < TopBit /\ e.frame < TopBit => set_frame(e, f) = [present |-> e.present, frame |-> f]
<1> DEFINE g == (f % TopBit) + (IF f >= TopBit \/ e.frame >= TopBit THEN TopBit ELSE 0)
<1>0. TopBit \in Nat \ {0} /\ e.frame \in Nat
  BY Geometry DEF Entry
<1>1. set_frame(e, f) = [e EXCEPT !.frame = g]
  BY DEF set_frame
<1>2. f % TopBit \in Nat /\ (f < TopBit => f % TopBit = f)
  BY <1>0, SMT
<1>3. g \in Nat /\ (f < TopBit /\ e.frame < TopBit => g = f)
  BY <1>0, <1>2
<1> HIDE DEF g
<1>4. [e EXCEPT !.frame = g] = [present |-> e.present, frame |-> g]
  BY DEF Entry
<1>5. [e EXCEPT !.frame = g] \in Entry
  BY <1>3 DEF Entry
<1> QED BY <1>1, <1>3, <1>4, <1>5

\* A present entry built from nothing.
LEMMA FreshEntry ==
  ASSUME NEW f \in Nat, f < TopBit
  PROVE  /\ set_frame(add_present(ZeroEntry), f) = [present |-> TRUE, frame |-> f]
         /\ set_frame(add_present(ZeroEntry), f) \in Entry
<1> DEFINE a == add_present(ZeroEntry)
<1>1. ZeroEntry \in Entry /\ ZeroEntry.frame = 0
  BY DEF Entry, ZeroEntry
<1>2. a = [present |-> TRUE, frame |-> ZeroEntry.frame] /\ a \in Entry
  BY <1>1, EntryIs
<1>3. a.present = TRUE /\ a.frame = 0 /\ 0 < TopBit
  BY <1>1, <1>2, Geometry
<1> HIDE DEF a
<1>4. set_frame(a, f) = [present |-> a.present, frame |-> f] /\ set_frame(a, f) \in Entry
  BY <1>2, <1>3, SetFrame
<1> QED BY <1>3, <1>4 DEF a

\* A frame number without bit 31 survives pt_entry_pfn.
LEMMA PfnIs ==
  ASSUME NEW e, e.frame \in Nat, e.frame < TopBit
  PROVE  pfn(e) = e.frame
<1>0. TopBit \in Nat \ {0}
  BY Geometry
<1> QED BY <1>0 DEF pfn

\* A set of frames has a least one.
LEMMA LeastFrame ==
  ASSUME NEW S \in SUBSET Nat, S # {}
  PROVE  Min(S) \in S /\ \A k \in S : Min(S) <= k
<1>1. PICK m \in S : \A k \in S : <<k, m>> \notin OpToRel(<, Nat)
  BY NatLessThanWellFounded, WFMin
<1>2. \A k \in S : m <= k
  <2> SUFFICES ASSUME NEW k \in S PROVE m <= k
    OBVIOUS
  <2>1. k \in Nat /\ m \in Nat
    OBVIOUS
  <2>2. <<k, m>> \in Nat \X Nat /\ <<k, m>>[1] = k /\ <<k, m>>[2] = m
    BY <2>1
  <2>3. <<k, m>> \notin {ss \in Nat \X Nat : ss[1] < ss[2]}
    BY <1>1 DEF OpToRel
  <2> QED BY <2>1, <2>2, <2>3
<1> QED BY <1>2 DEF Min

\* First fit finds free frames, or is 0.
LEMMA Fits ==
  ASSUME NEW free \in SUBSET Pool, NEW n \in Nat
  PROVE  /\ FirstFit(free, n) # 0 => FirstFit(free, n) \in free /\ Run(FirstFit(free, n), n) \subseteq free
         /\ n = 1 /\ free # {} => FirstFit(free, n) \in free /\ FirstFit(free, n) # 0
         /\ free = {} => FirstFit(free, n) = 0
         /\ n = 1 => \A g \in free : FirstFit(free, n) <= g
<1> DEFINE runs == {b \in free : Run(b, n) \subseteq free}
<1>1. FirstFit(free, n) = IF runs = {} THEN 0 ELSE Min(runs)
  BY DEF FirstFit
<1>2. runs \subseteq Nat /\ 0 \notin free
  BY Geometry
<1>3. runs # {} => Min(runs) \in runs /\ \A k \in runs : Min(runs) <= k
  BY <1>2, LeastFrame
<1>4. ASSUME n = 1 PROVE runs = free
  <2>1. ASSUME NEW b \in free PROVE Run(b, n) = {b}
    <3>1. b \in Nat
      BY Geometry
    <3> QED BY <1>4, <3>1 DEF Run
  <2> QED BY <2>1
<1> HIDE DEF Run
<1> QED BY <1>1, <1>2, <1>3, <1>4

---------------------------------------------------------------------------
(* Memory and the MMU.                                                     *)

\* The kernel reaches the frames of the pool below the end of the identity
\* mapping under their own addresses.
LEMMA Reaches ==
  ASSUME KeepOut, NEW m, Directory(m), IdentityCached, paging, NEW f \in Pool \cap Index
  PROVE  Reach(m, f) = f /\ Accessible(m, f)
<1>0. f \in Frames
  BY Geometry
<1>1. f \in Pages /\ PAGE_DIR_INDEX(f) = 0 /\ PAGE_TABLE_INDEX(f) = f
  BY LowPlaces
<1>2. /\ m[curdir][0].present /\ m[curdir][0].frame \in Frames
      /\ m[m[curdir][0].frame][f] = [present |-> TRUE, frame |-> f]
  BY Geometry DEF Directory
<1>3. Walk(m, f) = f
  BY <1>1, <1>2 DEF Walk
<1>4. f \in TlbPages => tlb[f] \in {None, f}
  BY DEF IdentityCached
<1>5. Reach(m, f) = f
  <2>1. CASE f \in TlbPages /\ tlb[f] # None
    BY <1>4, <2>1 DEF Reach
  <2>2. CASE ~(f \in TlbPages /\ tlb[f] # None)
    BY <1>3, <2>2 DEF Reach
  <2> QED BY <2>1, <2>2
<1> QED BY <1>0, <1>1, <1>5 DEF Accessible

\* So the kernel's reads and writes of a table there are of that table.
LEMMA KernelAccess ==
  ASSUME KeepOut, NEW m, Directory(m), IdentityCached, paging, NEW f \in Pool \cap Index, NEW i, NEW e
  PROVE  /\ ReadEntry(m, f, i) = m[f][i]
         /\ WriteEntry(m, f, i, e) = [m EXCEPT ![f][i] = e]
         /\ ZeroTable(m, f) = [m EXCEPT ![f] = [j \in Index |-> ZeroEntry]]
         /\ Accessible(m, f)
BY Reaches DEF ReadEntry, WriteEntry, ZeroTable

\* A page above the identity mapping and below 2 GB is not the kernel's.
LEMMA Between ==
  ASSUME NEW f \in Pages, f \notin Index, f < TopBit
  PROVE  PAGE_DIR_INDEX(f) # 0 /\ PAGE_DIR_INDEX(f) # KernelIndex
<1>1. /\ PAGE_DIR_INDEX(f) \in Nat /\ PAGE_TABLE_INDEX(f) \in Nat /\ f \in Nat
      /\ f = TableSize * PAGE_DIR_INDEX(f) + PAGE_TABLE_INDEX(f)
  BY Places, Geometry
<1>2. PAGE_DIR_INDEX(f) # 0
  BY FirstTable
<1>3. TopBit <= KernelIndex * TableSize /\ TopBit \in Nat /\ KernelIndex \in Nat /\ TableSize \in Nat
  BY GeometryAssumption
<1>4. KernelIndex * TableSize = TableSize * KernelIndex /\ TableSize * KernelIndex \in Nat
  BY <1>3, SMT
<1>5. ASSUME PAGE_DIR_INDEX(f) = KernelIndex PROVE FALSE
  <2>1. f = TableSize * KernelIndex + PAGE_TABLE_INDEX(f)
    BY <1>1, <1>5
  <2> QED BY <1>1, <1>3, <1>4, <2>1
<1> QED BY <1>2, <1>5

\* It does not reach the frames of the pool above.
LEMMA OutOfReach ==
  ASSUME KeepOut, \A v \in Pages : Walk(mem, v) = Intended(v), IdentityCached, paging,
         NEW f \in Pool, f \notin Index
  PROVE  ~Accessible(mem, f)
<1> SUFFICES ASSUME f \in Pages PROVE Reach(mem, f) \notin Frames
  BY DEF Accessible
<1>1. PAGE_DIR_INDEX(f) # 0 /\ PAGE_DIR_INDEX(f) # KernelIndex /\ f \notin Targets
  BY Between DEF KeepOut
<1>2. Walk(mem, f) = Fault
  BY <1>1 DEF Intended
<1>3. ~(f \in TlbPages /\ tlb[f] # None)
  BY DEF IdentityCached
<1>4. Reach(mem, f) = Fault
  BY <1>2, <1>3 DEF Reach
<1> QED BY <1>4, Geometry DEF Fault

\* Two memories agree on a page when they agree on its two entries.
LEMMA SameWalk ==
  ASSUME NEW m, NEW n, NEW v, NEW pde, pde = m[curdir][PAGE_DIR_INDEX(v)], pde = n[curdir][PAGE_DIR_INDEX(v)],
         pde.present => m[pde.frame][PAGE_TABLE_INDEX(v)] = n[pde.frame][PAGE_TABLE_INDEX(v)]
  PROVE  Walk(n, v) = Walk(m, v)
<1>1. CASE ~pde.present
  BY <1>1 DEF Walk
<1>2. CASE pde.present
  <2> DEFINE pte == m[pde.frame][PAGE_TABLE_INDEX(v)]
  <2>1. pte = n[pde.frame][PAGE_TABLE_INDEX(v)]
    BY <1>2
  <2> HIDE DEF pte
  <2>2. Walk(m, v) = IF pde.present /\ pde.frame \in Frames /\ pte.present THEN pte.frame ELSE Fault
    BY DEF Walk, pte
  <2>3. Walk(n, v) = IF pde.present /\ pde.frame \in Frames /\ pte.present THEN pte.frame ELSE Fault
    BY <2>1 DEF Walk
  <2> QED BY <2>2, <2>3
<1> QED BY <1>1, <1>2

\* n is m with the entry of page v written, in the table the directory gives.
Written(m, n, v, e) ==
  /\ m[curdir][PAGE_DIR_INDEX(v)].present
  /\ n = [m EXCEPT ![m[curdir][PAGE_DIR_INDEX(v)].frame][PAGE_TABLE_INDEX(v)] = e]

\* To the MMU n differs from m in page v alone.
OnlyPage(m, n, v, e) ==
  /\ Directory(n) /\ n[curdir] = m[curdir]
  /\ Walk(n, v) = IF e.present THEN e.frame ELSE Fault
  /\ \A u \in Pages : u # v => Walk(n, u) = Walk(m, u)
  /\ \A i, j \in Index : m[curdir][i].present
        => n[m[curdir][i].frame][j] = m[m[curdir][i].frame][j] \/ n[m[curdir][i].frame][j] = e

\* Writing the entry of a page that the kernel reaches no table by changes what
\* the MMU makes of that page and of no other.
LEMMA PageWrite ==
  ASSUME NEW m, NEW n, NEW v \in Pages, NEW e \in Entry, curdir \in Pool, Directory(m),
         v \notin Pool, Written(m, n, v, e)
  PROVE  OnlyPage(m, n, v, e)
<1> DEFINE d == PAGE_DIR_INDEX(v)
           k == PAGE_TABLE_INDEX(v)
           t == m[curdir][d].frame
<1>0. d \in Index /\ k \in Index /\ 0 \in Index /\ m[curdir][d].present
  BY Places, Geometry DEF Written
<1>00. d = 0 => k \notin Pool
  BY FirstTable
<1>1. t \in Pool /\ t # curdir /\ t \in Frames /\ curdir \in Frames
  BY <1>0, Geometry DEF Directory
<1>2. n = [m EXCEPT ![t][k] = e] /\ m \in [Frames -> [Index -> Entry]]
  BY DEF Directory, Written
<1> HIDE DEF d, k, t
<1> DEFINE row == [m[t] EXCEPT ![k] = e]
<1>a. n = [m EXCEPT ![t] = row]
  BY <1>2
<1>b. row \in [Index -> Entry]
  BY <1>0, <1>1, <1>2
<1>3. n \in [Frames -> [Index -> Entry]]
  <2> HIDE DEF row
  <2> QED BY <1>2, <1>a, <1>b
<1>4. /\ n[curdir] = m[curdir] /\ n[t][k] = e
      /\ \A f \in Frames : f # t => n[f] = m[f]
      /\ \A j \in Index : j # k => n[t][j] = m[t][j]
  BY <1>0, <1>1, <1>2
<1>5. /\ m[curdir][0].present /\ m[curdir][0].frame \in Frames
      /\ m[curdir][0].frame = t => d = 0
  BY <1>0, Geometry DEF Directory, t
<1>6. Directory(n)
  <2>1. \A i \in Pool \cap Index : n[m[curdir][0].frame][i] = m[m[curdir][0].frame][i]
    BY <1>00, <1>4, <1>5
  <2> DEFINE dir == m[curdir]
  <2>2. n[curdir] = dir
    BY <1>4
  <2>3. /\ dir[0].present
        /\ \A i \in Index : IF dir[i].present THEN dir[i].frame \in Pool /\ dir[i].frame # curdir
                           ELSE dir[i] = ZeroEntry
        /\ \A i, j \in Index : dir[i].present /\ dir[j].present /\ i # j => dir[i].frame # dir[j].frame
    BY DEF Directory
  <2>4. \A i \in Pool \cap Index : n[dir[0].frame][i] = [present |-> TRUE, frame |-> i]
    BY <2>1 DEF Directory
  <2> HIDE DEF dir
  <2> QED BY ONLY <1>3, <2>2, <2>3, <2>4 DEF Directory
<1>7. Walk(n, v) = IF e.present THEN e.frame ELSE Fault
  <2> DEFINE pde == n[curdir][PAGE_DIR_INDEX(v)]
  <2>1. pde = m[curdir][d]
    BY <1>4 DEF d
  <2>2. pde.present /\ pde.frame = t /\ n[pde.frame][PAGE_TABLE_INDEX(v)] = e
    BY <1>0, <1>4, <2>1 DEF t, k
  <2> HIDE DEF pde
  <2>3. Walk(n, v) = IF pde.present /\ pde.frame \in Frames /\ e.present THEN e.frame ELSE Fault
    BY ONLY <2>2 DEF Walk, pde
  <2> QED BY ONLY <1>1, <2>2, <2>3
<1>8. ASSUME NEW u \in Pages, u # v PROVE Walk(n, u) = Walk(m, u)
  <2>0. PAGE_DIR_INDEX(u) \in Index /\ PAGE_TABLE_INDEX(u) \in Index
    BY Places
  <2>1. CASE ~m[curdir][PAGE_DIR_INDEX(u)].present
    BY <1>4, <2>1 DEF Walk
  <2>2. CASE m[curdir][PAGE_DIR_INDEX(u)].present /\ PAGE_DIR_INDEX(u) = d
    <3>1. PAGE_TABLE_INDEX(u) # k
      BY <1>8, <2>2, PagesApart DEF d, k
    <3>2. m[curdir][PAGE_DIR_INDEX(u)].frame = t
      BY <2>2 DEF t
    <3>3. n[t][PAGE_TABLE_INDEX(u)] = m[t][PAGE_TABLE_INDEX(u)]
      BY <1>4, <2>0, <3>1
    <3>4. n[curdir] = m[curdir]
      BY <1>4
    <3> QED BY ONLY <3>2, <3>3, <3>4, SameWalk
  <2>3. CASE m[curdir][PAGE_DIR_INDEX(u)].present /\ PAGE_DIR_INDEX(u) # d
    <3>1. m[curdir][PAGE_DIR_INDEX(u)].frame # t /\ m[curdir][PAGE_DIR_INDEX(u)].frame \in Frames
      BY <1>0, <2>0, <2>3, Geometry DEF Directory, t
    <3>2. n[m[curdir][PAGE_DIR_INDEX(u)].frame] = m[m[curdir][PAGE_DIR_INDEX(u)].frame]
      BY <1>4, <3>1
    <3>3. n[curdir] = m[curdir]
      BY <1>4
    <3> QED BY ONLY <3>2, <3>3, SameWalk
  <2> QED BY <2>1, <2>2, <2>3
<1>9. ASSUME NEW i \in Index, NEW j \in Index, m[curdir][i].present
      PROVE  n[m[curdir][i].frame][j] = m[m[curdir][i].frame][j] \/ n[m[curdir][i].frame][j] = e
  <2>1. m[curdir][i].frame \in Frames
    BY <1>9, Geometry DEF Directory
  <2> QED BY <1>4, <2>1
<1> QED BY <1>4, <1>6, <1>7, <1>8, <1>9 DEF OnlyPage

\* z is m with frame t emptied, n is z with t entered as table d.
Emptied(m, z, t) == z = [m EXCEPT ![t] = [j \in Index |-> ZeroEntry]]
Entered(z, n, d, t) == n = [z EXCEPT ![curdir][d] = [present |-> TRUE, frame |-> t]]

\* No table of m, nor its directory, is in frame t.
Unused(m, t) == t # curdir /\ \A i \in Index : m[curdir][i].present => m[curdir][i].frame # t

\* n has one more table than m and maps no more pages.
OneMoreTable(m, n, d, t) ==
  /\ Directory(n) /\ n[curdir] = [m[curdir] EXCEPT ![d] = [present |-> TRUE, frame |-> t]]
  /\ \A u \in Pages : Walk(n, u) = Walk(m, u)
  /\ \A i, j \in Index : m[curdir][i].present => n[m[curdir][i].frame][j] = m[m[curdir][i].frame][j]
  /\ \A j \in Index : n[t][j] = ZeroEntry

\* An emptied frame of the pool entered as the table of a missing directory
\* entry: the MMU still finds nothing there, and what it did elsewhere.
LEMMA TableEntered ==
  ASSUME NEW m, NEW z, NEW n, NEW d \in Index, NEW t \in Pool, curdir \in Pool, Directory(m),
         ~m[curdir][d].present, Unused(m, t), Emptied(m, z, t)
  PROVE  /\ Directory(z) /\ z[curdir] = m[curdir]
         /\ Entered(z, n, d, t) => OneMoreTable(m, n, d, t)
<1> DEFINE new == [present |-> TRUE, frame |-> t]
           empty == [j \in Index |-> ZeroEntry]
<1>0. t \in Frames /\ curdir \in Frames /\ t \in Nat /\ 0 \in Index /\ d # 0
  BY Geometry DEF Directory
<1>1. new \in Entry /\ new.present /\ new.frame = t
  BY <1>0 DEF Entry
<1>2. empty \in [Index -> Entry] /\ \A j \in Index : empty[j] = ZeroEntry
  BY DEF Entry, ZeroEntry
<1>a. m \in [Frames -> [Index -> Entry]] /\ z = [m EXCEPT ![t] = empty]
  BY DEF Directory, Emptied
<1>b. t # curdir /\ \A i \in Index : m[curdir][i].present => m[curdir][i].frame # t
  BY DEF Unused
<1>c. Entered(z, n, d, t) => n = [z EXCEPT ![curdir][d] = new]
  BY DEF Entered
<1> HIDE DEF new, empty
<1>4. z \in [Frames -> [Index -> Entry]] /\ z[t] = empty /\ \A f \in Frames : f # t => z[f] = m[f]
  BY <1>0, <1>2, <1>a
<1>7. \A i \in Index : m[curdir][i].present => /\ i # d
                                               /\ m[curdir][i].frame \in Frames /\ m[curdir][i].frame # t
                                               /\ m[curdir][i].frame # curdir
  BY <1>b, Geometry DEF Directory
<1>8. Directory(z) /\ z[curdir] = m[curdir]
  <2> DEFINE dir == m[curdir]
  <2>1. z[curdir] = dir /\ z[dir[0].frame] = m[dir[0].frame]
    BY <1>0, <1>4, <1>7, <1>b DEF Directory
  <2>2. /\ dir[0].present
        /\ \A i \in Index : IF dir[i].present THEN dir[i].frame \in Pool /\ dir[i].frame # curdir
                           ELSE dir[i] = ZeroEntry
        /\ \A i, j \in Index : dir[i].present /\ dir[j].present /\ i # j => dir[i].frame # dir[j].frame
    BY DEF Directory
  <2>3. \A i \in Pool \cap Index : z[dir[0].frame][i] = [present |-> TRUE, frame |-> i]
    BY <2>1 DEF Directory
  <2>4. z \in [Frames -> [Index -> Entry]]
    BY <1>4
  <2> HIDE DEF dir
  <2>5. Directory(z)
    BY ONLY <2>1, <2>2, <2>3, <2>4 DEF Directory
  <2> QED BY <2>1, <2>5 DEF dir
<1> SUFFICES ASSUME Entered(z, n, d, t) PROVE OneMoreTable(m, n, d, t)
  BY <1>8
<1>3. n = [z EXCEPT ![curdir][d] = new] /\ m \in [Frames -> [Index -> Entry]] /\ t # curdir
  BY <1>a, <1>b, <1>c
<1>5. /\ n \in [Frames -> [Index -> Entry]] /\ n[curdir] = [m[curdir] EXCEPT ![d] = new]
      /\ n[t] = empty /\ \A f \in Frames : f # t /\ f # curdir => n[f] = m[f]
  <2> DEFINE row == [m[curdir] EXCEPT ![d] = new]
  <2>1. z[curdir] = m[curdir]
    BY <1>8
  <2>2. n = [z EXCEPT ![curdir] = row]
    BY <1>3, <2>1
  <2>3. row \in [Index -> Entry]
    BY <1>0, <1>1, <1>3
  <2> HIDE DEF row
  <2>4. n \in [Frames -> [Index -> Entry]] /\ n[curdir] = row /\ \A f \in Frames : f # curdir => n[f] = z[f]
    BY ONLY <1>0, <1>4, <2>2, <2>3
  <2> QED BY <1>0, <1>3, <1>4, <2>4 DEF row
<1>6. /\ n[curdir][d] = new
      /\ \A i \in Index : i # d => n[curdir][i] = m[curdir][i]
  BY <1>0, <1>3, <1>5
<1>9. Directory(n)
  <2>1. n[curdir][0].present /\ n[curdir][0] = m[curdir][0] /\ n[n[curdir][0].frame] = m[m[curdir][0].frame]
    BY <1>0, <1>5, <1>6, <1>7 DEF Directory
  <2>2. ASSUME NEW i \in Index
        PROVE  IF n[curdir][i].present
                 THEN n[curdir][i].frame \in Pool /\ n[curdir][i].frame # curdir
                 ELSE n[curdir][i] = ZeroEntry
    <3>1. CASE i = d
      BY <1>1, <1>3, <1>6, <3>1
    <3>2. CASE i # d
      <4>1. n[curdir][i] = m[curdir][i]
        BY <1>6, <3>2
      <4> QED BY <4>1 DEF Directory
    <3> QED BY <3>1, <3>2
  <2>3. ASSUME NEW i \in Index, NEW j \in Index, n[curdir][i].present, n[curdir][j].present, i # j
        PROVE  n[curdir][i].frame # n[curdir][j].frame
    <3>1. CASE i = d
      BY <1>1, <1>6, <1>7, <2>3, <3>1
    <3>2. CASE j = d
      BY <1>1, <1>6, <1>7, <2>3, <3>2
    <3>3. CASE i # d /\ j # d
      <4>1. n[curdir][i] = m[curdir][i] /\ n[curdir][j] = m[curdir][j]
        BY <1>6, <3>3
      <4> QED BY <2>3, <4>1 DEF Directory
    <3> QED BY <3>1, <3>2, <3>3
  <2>4. \A i \in Pool \cap Index : n[n[curdir][0].frame][i] = [present |-> TRUE, frame |-> i]
    BY <2>1 DEF Directory
  <2> QED BY <1>5, <2>1, <2>2, <2>3, <2>4 DEF Directory
<1>10. ASSUME NEW u \in Pages PROVE Walk(n, u) = Walk(m, u)
  <2>0. PAGE_DIR_INDEX(u) \in Index /\ PAGE_TABLE_INDEX(u) \in Index
    BY Places
  <2>1. CASE PAGE_DIR_INDEX(u) = d
    <3>1. Walk(m, u) = Fault
      BY <2>1 DEF Walk
    <3>2. ~empty[PAGE_TABLE_INDEX(u)].present
      BY <1>2, <2>0 DEF ZeroEntry
    <3>3. Walk(n, u) = Fault
      BY <1>1, <1>5, <1>6, <2>1, <3>2 DEF Walk
    <3> QED BY <3>1, <3>3
  <2>2. CASE PAGE_DIR_INDEX(u) # d
    <3>1. n[curdir][PAGE_DIR_INDEX(u)] = m[curdir][PAGE_DIR_INDEX(u)]
      BY <1>6, <2>0, <2>2
    <3>2. CASE ~m[curdir][PAGE_DIR_INDEX(u)].present
      BY <3>1, <3>2 DEF Walk
    <3>3. CASE m[curdir][PAGE_DIR_INDEX(u)].present
      BY <1>5, <1>7, <2>0, <3>1, <3>3 DEF Walk
    <3> QED BY <3>2, <3>3
  <2> QED BY <2>1, <2>2
<1>11. \A i, j \in Index : m[curdir][i].present => n[m[curdir][i].frame][j] = m[m[curdir][i].frame][j]
  BY <1>5, <1>7
<1> QED BY <1>2, <1>5, <1>9, <1>10, <1>11 DEF new, OneMoreTable

---------------------------------------------------------------------------
(* The steps.                                                              *)

\* The tables of memory m are in order when the frames of free are free.
Good(m, free) ==
  /\ Directory(m) /\ NoTopBit(m) /\ InReach(m) /\ Owned(m, free)
  /\ m[curdir][KernelIndex].present
  /\ \A v \in Pages : Walk(m, v) = Intended(v)

\* Writing a client's page entry and noting the mapping keeps them in order.
LEMMA WriteKeeps ==
  ASSUME KeepOut, curdir \in Pool, mapped \in [Targets -> Nat \cup {None, Fault}],
         NEW free, NEW m, Good(m, free), NEW v \in Targets, m[curdir][PAGE_DIR_INDEX(v)].present,
         NEW e \in Entry, e.frame < TopBit,
         NEW w, w = IF e.present THEN e.frame ELSE Fault,
         mem' = [m EXCEPT ![m[curdir][PAGE_DIR_INDEX(v)].frame][PAGE_TABLE_INDEX(v)] = e],
         mapped' = [mapped EXCEPT ![v] = w], curdir' = curdir
  PROVE  /\ mapped' \in [Targets -> Nat \cup {None, Fault}]
         /\ Directory(mem)' /\ NoTopBit(mem)' /\ mem'[curdir'] = m[curdir]
         /\ \A u \in Pages : Walk(mem, u)' = Intended(u)'
<1>0. v \in Pages /\ v \notin Pool
  BY Geometry DEF KeepOut
<1>1. e.frame \in Nat /\ w \in Nat \cup {Fault} /\ w # None
  BY DEF Entry, None, Fault
<1> DEFINE n == mem'
<1>2. Directory(m)
  BY DEF Good
<1>3. /\ Directory(n) /\ n[curdir] = m[curdir]
      /\ Walk(n, v) = IF e.present THEN e.frame ELSE Fault
      /\ \A u \in Pages : u # v => Walk(n, u) = Walk(m, u)
      /\ \A i, j \in Index : m[curdir][i].present
            => n[m[curdir][i].frame][j] = m[m[curdir][i].frame][j] \/ n[m[curdir][i].frame][j] = e
  <2>1. Written(m, n, v, e) /\ curdir \in Pool
    BY DEF Written
  <2> HIDE DEF n
  <2>2. OnlyPage(m, n, v, e)
    BY ONLY <1>0, <1>2, <2>1, PageWrite
  <2> QED BY ONLY <2>2 DEF OnlyPage
<1>4. Directory(mem)'
  <2>1. Directory(n) /\ curdir' = curdir
    BY <1>3
  <2> QED BY ONLY <2>1 DEF Directory
<1>5. NoTopBit(mem)'
  <2> SUFFICES ASSUME NEW i \in Index, NEW j \in Index, n[curdir][i].present
               PROVE  n[n[curdir][i].frame][j].frame < TopBit
    BY DEF NoTopBit
  <2>1. m[curdir][i].present /\ m[m[curdir][i].frame][j].frame < TopBit
    BY <1>3 DEF Good, NoTopBit
  <2> HIDE DEF n
  <2>2. n[n[curdir][i].frame] = n[m[curdir][i].frame]
    BY <1>3
  <2>3. n[m[curdir][i].frame][j] = m[m[curdir][i].frame][j] \/ n[m[curdir][i].frame][j] = e
    BY <1>3, <2>1
  <2> QED BY <2>1, <2>2, <2>3
<1>6. mapped' \in [Targets -> Nat \cup {None, Fault}] /\ mapped'[v] = w /\ \A u \in Targets : u # v => mapped'[u] = mapped[u]
  BY <1>1
<1>7. ASSUME NEW u \in Pages PROVE Walk(mem, u)' = Intended(u)'
  <2>1. Walk(mem, u)' = Walk(n, u)
    BY DEF Walk
  <2> HIDE DEF n
  <2>2. CASE u = v
    <3>1. Intended(v)' = w
      BY <1>1, <1>6 DEF Intended
    <3>2. Walk(n, v) = IF e.present THEN e.frame ELSE Fault
      BY <1>3
    <3> QED BY <1>1, <2>1, <2>2, <3>1, <3>2
  <2>3. CASE u # v
    <3>1. Intended(u)' = Intended(u)
      BY <1>6, <2>3 DEF Intended
    <3>2. Walk(n, u) = Walk(m, u) /\ Walk(m, u) = Intended(u)
      BY <1>3, <2>3 DEF Good
    <3> QED BY <2>1, <3>1, <3>2
  <2> QED BY <2>2, <2>3
<1> QED BY <1>3, <1>4, <1>5, <1>6, <1>7

\* Where paging is on, what the invariant says.
LEMMA PagedIs ==
  ASSUME IInv, paging
  PROVE  /\ inited /\ curdir \in Pool /\ Good(mem, avail) /\ Directory(mem)
         /\ curdir \notin avail \cup held /\ avail \cap held = {} /\ Mappings /\ IdentityCached
         /\ avail \subseteq Pool /\ held \subseteq Pool
         /\ mapped \in [Targets -> Nat \cup {None, Fault}]
BY DEF IInv, Paged, Good, TypeOK

\* A client's page is mapped only by a table that is there.
LEMMA MappedHasTable ==
  ASSUME KeepOut, IInv, paging, NEW v \in Targets, curdir \in Index, mapped[v] \in held
  PROVE  /\ v \in Pages /\ PAGE_DIR_INDEX(v) \in Index /\ PAGE_TABLE_INDEX(v) \in Index
         /\ mapped[v] \in held /\ mapped[v] \in Nat /\ mapped[v] < TopBit
         /\ mem[curdir][PAGE_DIR_INDEX(v)].present
         /\ mem[curdir][PAGE_DIR_INDEX(v)].frame \in Pool
         /\ DirEntry(v) = mem[curdir][PAGE_DIR_INDEX(v)] /\ PageAccessible(v) /\ DirEntry(v).frame # 0
         /\ PageEntry(v) = mem[mem[curdir][PAGE_DIR_INDEX(v)].frame][PAGE_TABLE_INDEX(v)]
         /\ PageEntry(v) \in Entry /\ PageEntry(v).present /\ PageEntry(v).frame = mapped[v]
         /\ \A e : SetPageEntry(v, e) <=>
              mem' = [mem EXCEPT ![mem[curdir][PAGE_DIR_INDEX(v)].frame][PAGE_TABLE_INDEX(v)] = e]
<1> DEFINE d == PAGE_DIR_INDEX(v)
           k == PAGE_TABLE_INDEX(v)
           pde == mem[curdir][d]
           t == pde.frame
           pte == mem[t][k]
<1>0. v \in Pages /\ d \in Index /\ k \in Index
  BY Places, Geometry
<1>1. /\ curdir \in Pool /\ Good(mem, avail) /\ Directory(mem) /\ Mappings /\ IdentityCached
      /\ held \subseteq Pool /\ mapped \in [Targets -> Nat \cup {None, Fault}]
  BY PagedIs
<1>2. mapped[v] \in held /\ mapped[v] \in Nat /\ mapped[v] < TopBit
  BY <1>1, Geometry DEF KeepOut
<1>3. Walk(mem, v) = mapped[v] /\ mapped[v] # Fault
  <2>1. Intended(v) = mapped[v]
    BY <1>2 DEF Intended, None
  <2> QED BY <1>0, <1>1, <1>2, <2>1 DEF Good, Fault
<1>4. pde.present /\ t \in Frames /\ pte.present /\ pte.frame = mapped[v]
  BY <1>3 DEF Walk
<1>5. t \in Pool /\ t # 0 /\ t \in Index
  BY <1>0, <1>1, <1>4, Geometry DEF Directory, Good, InReach
<1>6. pte \in Entry
  BY <1>0, <1>1, <1>4 DEF Directory
<1> HIDE DEF k, d
<1>7. DirEntry(v) = pde /\ Accessible(mem, curdir)
  BY <1>1, Reaches DEF DirEntry, ReadEntry, d
<1> HIDE DEF pde
<1>8. Accessible(mem, t) /\ ReadEntry(mem, t, k) = mem[t][k] /\ \A e : WriteEntry(mem, t, k, e) = [mem EXCEPT ![t][k] = e]
  <2> HIDE DEF t
  <2> QED BY <1>1, <1>5, KernelAccess
<1>9. PageAccessible(v)
  BY <1>7, <1>8 DEF PageAccessible
<1>10. PageEntry(v) = mem[t][k]
  BY <1>7, <1>8 DEF PageEntry, k
<1>11. \A e : SetPageEntry(v, e) <=> mem' = [mem EXCEPT ![t][k] = e]
  BY <1>7, <1>8 DEF SetPageEntry, k
<1> QED BY <1>0, <1>2, <1>4, <1>5, <1>6, <1>7, <1>9, <1>10, <1>11 DEF k, d, pde

\* vmmngr_alloc_page hands out a frame that is free.
LEMMA AllocStep ==
  ASSUME KeepOut, IInv, vmmngr_alloc_page
  PROVE  IInv'
<1> DEFINE f == FirstFit(avail, 1)
<1>1. /\ paging /\ avail' = avail \ {f} /\ held' = held \cup {f}
      /\ UNCHANGED <<mem, inited, curdir, paging, tlb, crashed, mapped>>
  BY DEF vmmngr_alloc_page, Running
<1>2. /\ curdir \in Pool /\ Good(mem, avail) /\ curdir \notin avail \cup held /\ avail \cap held = {}
      /\ Mappings /\ IdentityCached /\ avail \subseteq Pool /\ held \subseteq Pool
  BY <1>1, PagedIs
<1>3. f \in avail
  BY <1>2, Fits DEF vmmngr_alloc_page
<1> HIDE DEF f
<1>4. TypeOK'
  BY <1>1, <1>2, <1>3 DEF IInv, TypeOK
<1>5. Owned(mem, avail)'
  BY <1>1, <1>2, <1>3 DEF Owned, Good
<1>6. Directory(mem)' /\ NoTopBit(mem)' /\ InReach(mem)' /\ mem'[curdir'][KernelIndex].present
  BY <1>1, <1>2 DEF Good, Directory, NoTopBit, InReach
<1>7. \A v \in Pages : Walk(mem, v)' = Intended(v)'
  <2> SUFFICES ASSUME NEW v \in Pages PROVE Walk(mem, v)' = Intended(v)'
    OBVIOUS
  <2>1. Walk(mem, v)' = Walk(mem, v) /\ Intended(v)' = Intended(v)
    BY <1>1 DEF Walk, Intended
  <2> QED BY <1>2, <2>1 DEF Good
<1>8. Mappings' /\ IdentityCached'
  BY <1>1, <1>2 DEF Mappings, IdentityCached
<1>9. curdir' \notin avail' \cup held' /\ avail' \cap held' = {} /\ inited' /\ curdir' \in Pool
  BY <1>1, <1>2, <1>3, PagedIs
<1> QED BY <1>1, <1>4, <1>5, <1>6, <1>7, <1>8, <1>9 DEF IInv, Paged

\* The end of vmmngr_map_page, with the table there.
LEMMA SetPageStep ==
  ASSUME KeepOut, IInv, paging, curdir \in Index,
         NEW p \in held, NEW v \in Targets, \A u \in Targets : mapped[u] # p,
         NEW m, NEW free, free \subseteq avail, Good(m, free), m[curdir][PAGE_DIR_INDEX(v)].present,
         SetPage(m, p, v), avail' = free, UNCHANGED <<inited, curdir, paging, tlb>>
  PROVE  IInv' /\ crashed' = crashed
<1> DEFINE d == PAGE_DIR_INDEX(v)
           k == PAGE_TABLE_INDEX(v)
           t == m[curdir][d].frame
<1>1. /\ inited /\ curdir \in Pool /\ curdir \notin avail \cup held /\ avail \cap held = {}
      /\ Mappings /\ IdentityCached /\ avail \subseteq Pool /\ held \subseteq Pool
      /\ mapped \in [Targets -> Nat \cup {None, Fault}]
  BY PagedIs
<1>2. Directory(m) /\ d \in Index /\ k \in Index /\ m[curdir][d].present
  BY Places, Geometry DEF Good
<1>3. t \in Pool \cap Index
  BY <1>2 DEF Directory, Good, InReach
<1>4. p \in Nat /\ p < TopBit
  BY <1>1, Geometry DEF KeepOut
<1> HIDE DEF d, k
<1>5. ReadEntry(m, curdir, d).frame = t
  BY <1>1, <1>2, Reaches DEF ReadEntry
<1> HIDE DEF t
<1>6. Reach(m, t) = t /\ Accessible(m, t)
  BY <1>1, <1>2, <1>3, Reaches
<1> DEFINE old == m[t][k]
           e == set_frame(add_present(old), p)
<1>7. e \in Entry /\ e.frame = p /\ e.present
  <2>1. old \in Entry
    BY <1>2, <1>3, Geometry DEF Directory
  <2>2. old.frame < TopBit
    BY <1>2 DEF Good, NoTopBit, t
  <2> HIDE DEF old
  <2>3. add_present(old) \in Entry /\ add_present(old) = [present |-> TRUE, frame |-> old.frame]
    BY <2>1, EntryIs
  <2> DEFINE a == add_present(old)
  <2>4. a \in Entry /\ a.present /\ a.frame < TopBit
    BY <2>2, <2>3
  <2> HIDE DEF a
  <2>5. /\ set_frame(a, p) \in Entry /\ set_frame(a, p).present = a.present
        /\ set_frame(a, p) = [present |-> a.present, frame |-> p]
    BY <1>4, <2>4, SetFrame
  <2>6. set_frame(a, p) \in Entry /\ set_frame(a, p).frame = p /\ set_frame(a, p).present
    BY <2>4, <2>5
  <2> QED BY <2>6 DEF a
<1>8. /\ mem' = WriteEntry(m, t, k, set_frame(add_present(ReadEntry(m, t, k)), p))
      /\ mapped' = [mapped EXCEPT ![v] = p] /\ UNCHANGED <<crashed, held>>
  BY <1>5, <1>6 DEF SetPage, d, k
<1>9. mem' = [m EXCEPT ![t][k] = e]
  BY <1>6, <1>8 DEF WriteEntry, ReadEntry
<1> HIDE DEF e
<1>10. /\ mapped' \in [Targets -> Nat \cup {None, Fault}]
       /\ Directory(mem)' /\ NoTopBit(mem)' /\ mem'[curdir'] = m[curdir]
       /\ \A u \in Pages : Walk(mem, u)' = Intended(u)'
  <2>1. /\ mem' = [m EXCEPT ![m[curdir][PAGE_DIR_INDEX(v)].frame][PAGE_TABLE_INDEX(v)] = e]
        /\ mapped' = [mapped EXCEPT ![v] = p] /\ curdir' = curdir /\ e.frame < TopBit
        /\ p = IF e.present THEN e.frame ELSE Fault
    BY <1>4, <1>7, <1>8, <1>9 DEF t, d, k
  <2> QED BY <1>1, <1>7, <2>1, WriteKeeps
<1>11. TypeOK'
  <2>1. mem' \in [Frames -> [Index -> Entry]]
    BY <1>10 DEF Directory
  <2> QED BY <1>1, <1>8, <1>10, <2>1 DEF IInv, TypeOK
<1>12. Owned(mem, avail)' /\ InReach(mem)' /\ mem'[curdir'][KernelIndex].present
  BY <1>8, <1>10 DEF Owned, Good, InReach
<1>13. Mappings' /\ IdentityCached'
  <2>1. mapped'[v] = p /\ \A u \in Targets : u # v => mapped'[u] = mapped[u]
    BY <1>1, <1>8
  <2>2. Mappings'
    BY <1>1, <1>8, <2>1 DEF Mappings
  <2> QED BY <1>1, <2>2 DEF IdentityCached
<1>14. curdir' \notin avail' \cup held' /\ avail' \cap held' = {} /\ inited' /\ curdir' \in Pool /\ paging'
  BY <1>1, <1>8
<1> QED BY <1>8, <1>10, <1>11, <1>12, <1>13, <1>14 DEF IInv, Paged

\* The first part of vmmngr_map_page, when the table is missing: the new table
\* is emptied and entered, and the tables are in order without its frame.
LEMMA NewTableGood ==
  ASSUME KeepOut, IInv, paging, curdir \in Index,
         NEW d \in Index, ~mem[curdir][d].present, NEW t \in avail, t \in Index,
         NEW z, z = ZeroTable(mem, t),
         NEW n, n = WriteEntry(z, curdir, d, set_frame(add_present(ReadEntry(z, curdir, d)), t))
  PROVE  Good(n, avail \ {t}) /\ n[curdir][d].present /\ Accessible(mem, t)
<1>1. /\ curdir \in Pool /\ Good(mem, avail) /\ Directory(mem) /\ curdir \notin avail \cup held
      /\ IdentityCached /\ avail \subseteq Pool /\ avail \cap held = {}
  BY PagedIs
<1>2. t \in Pool /\ t \in Nat /\ t < TopBit
  BY <1>1, Geometry DEF KeepOut
<1>3. Unused(mem, t)
  BY <1>1 DEF Unused, Good, Owned
<1>4. Emptied(mem, z, t) /\ Accessible(mem, t)
  BY <1>1, <1>2, Reaches DEF Emptied, ZeroTable
<1>5. /\ Directory(z) /\ z[curdir] = mem[curdir]
      /\ Entered(z, n, d, t) => OneMoreTable(mem, n, d, t)
  BY ONLY <1>1, <1>2, <1>3, <1>4, ~mem[curdir][d].present, d \in Index, TableEntered
<1>6. Reach(z, curdir) = curdir
  BY <1>1, <1>5, Reaches
<1>7. ReadEntry(z, curdir, d) = ZeroEntry
  BY <1>1, <1>5, <1>6 DEF ReadEntry, Directory
<1>8. 0 < TopBit
  BY Geometry
<1>9. set_frame(add_present(ZeroEntry), t) = [present |-> TRUE, frame |-> t]
  BY <1>2, FreshEntry
<1>10. Entered(z, n, d, t)
  BY <1>6, <1>7, <1>9 DEF Entered, WriteEntry
<1>11. OneMoreTable(mem, n, d, t)
  BY <1>5, <1>10
<1> DEFINE new == [present |-> TRUE, frame |-> t]
<1>12. new.present /\ new.frame = t
  OBVIOUS
<1>13. /\ Directory(n) /\ n[curdir] = [mem[curdir] EXCEPT ![d] = new]
       /\ \A u \in Pages : Walk(n, u) = Walk(mem, u)
       /\ \A i, j \in Index : mem[curdir][i].present => n[mem[curdir][i].frame][j] = mem[mem[curdir][i].frame][j]
       /\ \A j \in Index : n[t][j] = ZeroEntry
  BY <1>11 DEF OneMoreTable
<1> HIDE DEF new
<1>14. mem[curdir] \in [Index -> Entry]
  BY <1>1, Geometry DEF Directory
<1>15. n[curdir][d] = new /\ \A i \in Index : i # d => n[curdir][i] = mem[curdir][i]
  BY <1>13, <1>14
<1>16. NoTopBit(n)
  <2> SUFFICES ASSUME NEW i \in Index, NEW j \in Index, n[curdir][i].present
               PROVE  n[n[curdir][i].frame][j].frame < TopBit
    BY DEF NoTopBit
  <2>1. CASE i = d
    <3>1. n[n[curdir][i].frame][j] = ZeroEntry
      BY <1>12, <1>13, <1>15, <2>1
    <3> QED BY <1>8, <3>1 DEF ZeroEntry
  <2>2. CASE i # d
    <3>1. n[curdir][i] = mem[curdir][i]
      BY <1>15, <2>2
    <3>2. n[n[curdir][i].frame][j] = mem[mem[curdir][i].frame][j]
      BY <1>13, <3>1
    <3> QED BY <1>1, <3>1, <3>2 DEF Good, NoTopBit
  <2> QED BY <2>1, <2>2
<1>17. Owned(n, avail \ {t})
  <2> SUFFICES ASSUME NEW i \in Index, n[curdir][i].present
               PROVE  n[curdir][i].frame \notin (avail \ {t}) \cup held
    BY DEF Owned
  <2>1. CASE i = d
    BY <1>1, <1>12, <1>15, <2>1
  <2>2. CASE i # d
    BY <1>1, <1>15, <2>2 DEF Good, Owned
  <2> QED BY <2>1, <2>2
<1>18. n[curdir][KernelIndex].present
  BY <1>1, <1>15, Geometry DEF Good
<1>19. \A v \in Pages : Walk(n, v) = Intended(v)
  BY <1>1, <1>13 DEF Good
<1>20. InReach(n)
  BY <1>1, <1>12, <1>15 DEF Good, InReach
<1> QED BY <1>4, <1>12, <1>13, <1>15, <1>16, <1>17, <1>18, <1>19, <1>20 DEF Good

\* A page fault leaves the tables in order.
LEMMA FaultStep ==
  ASSUME KeepOut, IInv, paging, PageFault(mem), avail' \subseteq avail,
         UNCHANGED <<inited, curdir, paging, tlb>>
  PROVE  IInv'
<1>1. mem' = mem /\ crashed' = TRUE /\ UNCHANGED <<held, mapped>>
  BY DEF PageFault
<1>2. TypeOK'
  BY <1>1 DEF IInv, TypeOK
<1>3. Owned(mem, avail)'
  BY <1>1 DEF IInv, Paged, Owned
<1> QED BY <1>1, <1>2, <1>3
        DEF IInv, Paged, Directory, NoTopBit, InReach, Walk, Intended, Mappings, IdentityCached

\* When the kernel does not reach the directory no client operation gets far.
LEMMA NoDirectory ==
  ASSUME KeepOut, IInv, paging, curdir \notin Index
  PROVE  ~Accessible(mem, curdir)
<1>1. curdir \in Pool /\ Good(mem, avail) /\ IdentityCached
  BY PagedIs
<1> QED BY <1>1, OutOfReach DEF Good

\* What a step that takes a page fault has found.
LowMemoryGone == curdir >= TableSize \/ avail \cap Index = {}
HighDirectory == curdir \notin Index /\ curdir \in Nat => curdir >= TableSize
LEMMA DirectoryIsHigh == HighDirectory
BY Geometry DEF HighDirectory, Index

\* The whole of vmmngr_map_page.
LEMMA MapStep ==
  ASSUME KeepOut, IInv, NEW p \in held, NEW v \in Targets, \A u \in Targets : mapped[u] # p,
         vmmngr_map_page(p, v)
  PROVE  IInv' /\ (crashed' /\ ~crashed => LowMemoryGone)
<1> DEFINE d == PAGE_DIR_INDEX(v)
<1>1. paging /\ UNCHANGED <<inited, curdir, paging, tlb>>
  BY DEF vmmngr_map_page, Running
<1>2. /\ curdir \in Pool /\ Good(mem, avail) /\ Directory(mem) /\ IdentityCached
      /\ d \in Index /\ avail \subseteq Pool /\ curdir \in Nat
  BY <1>1, PagedIs, Places, Geometry
<1>3. CASE curdir \notin Index
  <2>1. PageFault(mem) /\ avail' = avail
    BY <1>1, <1>3, NoDirectory DEF vmmngr_map_page
  <2>2. LowMemoryGone
    BY <1>2, <1>3, DirectoryIsHigh DEF LowMemoryGone, HighDirectory
  <2> QED BY <1>1, <2>1, <2>2, FaultStep
<1>4. CASE curdir \in Index
  <2>3. Accessible(mem, curdir) /\ Reach(mem, curdir) = curdir
    BY <1>1, <1>2, <1>4, Reaches
  <2>4. DirEntry(v) = mem[curdir][d]
    BY <2>3 DEF DirEntry, ReadEntry
  <2>5. CASE DirEntry(v).present
    <3>1. SetPage(mem, p, v) /\ avail' = avail
      BY <2>3, <2>5 DEF vmmngr_map_page
    <3> QED BY <1>1, <1>2, <1>4, <2>4, <2>5, <3>1, SetPageStep
  <2>6. CASE ~DirEntry(v).present /\ avail = {}
    <3>1. UNCHANGED <<mem, avail, held, mapped, crashed>>
      BY <2>3, <2>6 DEF vmmngr_map_page
    <3>2. IInv'
      BY <1>1, <3>1 DEF IInv, TypeOK, Paged, Directory, NoTopBit, InReach, Owned, Walk, Intended, Mappings, IdentityCached
    <3> QED BY <3>1, <3>2
  <2>7. CASE ~DirEntry(v).present /\ avail # {}
    <3> DEFINE t == FirstFit(avail, 1)
               z == ZeroTable(mem, t)
               n == WriteEntry(z, curdir, d, set_frame(add_present(ReadEntry(z, curdir, d)), t))
    <3>1. NewTable(p, v)
      BY <2>3, <2>7 DEF vmmngr_map_page
    <3>2. t \in avail /\ \A g \in avail : t <= g
      BY <1>2, <2>7, Fits
    <3>3. CASE t \in Index
      <4>1. Good(n, avail \ {t}) /\ n[curdir][d].present /\ Accessible(mem, t)
        <5> HIDE DEF t
        <5>1. ~mem[curdir][d].present
          BY <2>4, <2>7
        <5> HIDE DEF d
        <5> QED BY <1>1, <1>2, <1>4, <3>2, <3>3, <5>1, NewTableGood
      <4>2. SetPage(n, p, v) /\ avail' = avail \ {t}
        BY <3>1, <4>1 DEF NewTable
      <4> HIDE DEF n, t
      <4> QED BY <1>1, <1>4, <4>1, <4>2, SetPageStep
    <3>4. CASE t \notin Index
      <4>1. ~Accessible(mem, t)
        <5> HIDE DEF t
        <5> QED BY <1>1, <1>2, <3>2, <3>4, OutOfReach DEF Good
      <4>2. PageFault(mem) /\ avail' = avail \ {t}
        BY <3>1, <4>1 DEF NewTable
      <4> HIDE DEF t
      <4>3. avail \cap Index = {}
        <5> SUFFICES ASSUME NEW g \in avail, g \in Index PROVE FALSE
          OBVIOUS
        <5>1. t <= g /\ t \in Nat
          BY <1>2, <3>2, Geometry
        <5> QED BY <3>4, <5>1, Geometry DEF Index
      <4> QED BY <1>1, <4>2, <4>3, FaultStep DEF LowMemoryGone
    <3> QED BY <3>3, <3>4
  <2> QED BY <2>5, <2>6, <2>7
<1> QED BY <1>3, <1>4

\* vmmngr_unmap_page and vmmngr_free_page: the client's page is gone, and the
\* frames of free are free and those of kept are held.
LEMMA Unmapping ==
  ASSUME KeepOut, IInv, paging, NEW v \in Targets, curdir \in Index, mapped[v] \in held,
         NEW e \in Entry, ~e.present, e.frame < TopBit, SetPageEntry(v, e),
         mapped' = [mapped EXCEPT ![v] = Fault], UNCHANGED <<inited, curdir, paging, tlb, crashed>>,
         \/ avail' = avail /\ held' = held
         \/ avail' = avail \cup {mapped[v]} /\ held' = held \ {mapped[v]}
  PROVE  IInv'
<1>1. /\ inited /\ curdir \in Pool /\ Good(mem, avail)
      /\ curdir \notin avail \cup held /\ avail \cap held = {} /\ Mappings /\ IdentityCached
      /\ avail \subseteq Pool /\ held \subseteq Pool
      /\ mapped \in [Targets -> Nat \cup {None, Fault}]
  BY PagedIs
<1>2. /\ mapped[v] \in held /\ mem[curdir][PAGE_DIR_INDEX(v)].present
      /\ mem' = [mem EXCEPT ![mem[curdir][PAGE_DIR_INDEX(v)].frame][PAGE_TABLE_INDEX(v)] = e]
  BY MappedHasTable
<1>3. /\ mapped' \in [Targets -> Nat \cup {None, Fault}]
      /\ Directory(mem)' /\ NoTopBit(mem)' /\ mem'[curdir'] = mem[curdir]
      /\ \A u \in Pages : Walk(mem, u)' = Intended(u)'
  <2>1. Fault = IF e.present THEN e.frame ELSE Fault
    OBVIOUS
  <2> QED BY <1>1, <1>2, <2>1, WriteKeeps
<1>4. avail' \subseteq avail \cup held /\ held' \subseteq held /\ avail' \cap held' = {}
  BY <1>1, <1>2
<1>5. TypeOK'
  <2>1. mem' \in [Frames -> [Index -> Entry]]
    BY <1>3 DEF Directory
  <2> QED BY <1>1, <1>3, <1>4, <2>1 DEF IInv, TypeOK
<1>6. Owned(mem, avail)' /\ InReach(mem)' /\ mem'[curdir'][KernelIndex].present
  BY <1>1, <1>3, <1>4 DEF Owned, Good, InReach
<1>7. Mappings'
  <2>1. mapped'[v] = Fault /\ Fault \notin Nat /\ \A u \in Targets : u # v => mapped'[u] = mapped[u]
    BY <1>1 DEF Fault
  <2>2. ASSUME NEW u \in Targets, mapped'[u] \in Nat PROVE mapped'[u] \in held'
    <3>1. u # v /\ mapped'[u] = mapped[u] /\ mapped[u] \in held /\ mapped[u] # mapped[v]
      BY <1>1, <2>1, <2>2 DEF Mappings
    <3> QED BY <3>1
  <2>3. ASSUME NEW u \in Targets, NEW w \in Targets, mapped'[u] \in Nat, mapped'[u] = mapped'[w] PROVE u = w
    BY <1>1, <2>1, <2>3 DEF Mappings
  <2> QED BY <2>2, <2>3 DEF Mappings
<1>8. curdir' \notin avail' \cup held' /\ inited' /\ curdir' \in Pool /\ paging' /\ IdentityCached'
  BY <1>1, <1>4 DEF IdentityCached
<1> QED BY <1>3, <1>4, <1>5, <1>6, <1>7, <1>8 DEF IInv, Paged

\* vmmngr_unmap_page and vmmngr_free_page where the directory is out of reach.
LEMMA UnmapFault ==
  ASSUME KeepOut, IInv, NEW v \in Targets, mapped[v] \in held,
         vmmngr_unmap_page(v) \/ vmmngr_free_page(v), curdir \notin Index
  PROVE  IInv' /\ LowMemoryGone
<1>1. paging /\ UNCHANGED <<inited, curdir, paging, tlb>>
  BY DEF vmmngr_unmap_page, vmmngr_free_page, Running
<1>2. ~PageAccessible(v)
  BY <1>1, NoDirectory DEF PageAccessible
<1>3. PageFault(mem) /\ avail' = avail
  BY <1>2 DEF vmmngr_unmap_page, vmmngr_free_page
<1>4. curdir \in Nat
  BY <1>1, PagedIs, Geometry
<1> QED BY <1>1, <1>3, <1>4, FaultStep, DirectoryIsHigh DEF LowMemoryGone, HighDirectory

\* vmmngr_unmap_page.
LEMMA UnmapStep ==
  ASSUME KeepOut, IInv, NEW v \in Targets, curdir \in Index, mapped[v] \in held, vmmngr_unmap_page(v)
  PROVE  IInv' /\ crashed' = crashed
<1> DEFINE e == del_present(set_frame(PageEntry(v), 0))
<1>1. paging
  BY DEF vmmngr_unmap_page, Running
<1>2. PageAccessible(v) /\ DirEntry(v).frame # 0 /\ PageEntry(v) \in Entry /\ PageEntry(v).frame < TopBit
  BY <1>1, MappedHasTable
<1>3. /\ SetPageEntry(v, e) /\ mapped' = [mapped EXCEPT ![v] = Fault]
      /\ UNCHANGED <<held, crashed, avail, inited, curdir, paging, tlb>>
  BY <1>2 DEF vmmngr_unmap_page
<1>4. e \in Entry /\ ~e.present /\ e.frame < TopBit
  <2> DEFINE a == set_frame(PageEntry(v), 0)
  <2>1. 0 \in Nat /\ 0 < TopBit
    BY Geometry
  <2>2. a \in Entry /\ a = [present |-> PageEntry(v).present, frame |-> 0]
    BY <1>2, <2>1, SetFrame
  <2>3. a.frame = 0
    BY <2>2
  <2> HIDE DEF a
  <2>4. del_present(a) \in Entry /\ del_present(a) = [present |-> FALSE, frame |-> a.frame]
    BY <2>2, EntryIs
  <2>5. ~del_present(a).present /\ del_present(a).frame < TopBit
    BY <2>1, <2>3, <2>4
  <2> QED BY <2>4, <2>5 DEF a
<1> HIDE DEF e
<1> QED BY <1>1, <1>3, <1>4, Unmapping

\* vmmngr_free_page.
LEMMA FreeStep ==
  ASSUME KeepOut, IInv, NEW v \in Targets, curdir \in Index, mapped[v] \in held, vmmngr_free_page(v)
  PROVE  IInv' /\ crashed' = crashed
<1> DEFINE e == del_present(PageEntry(v))
<1>1. paging
  BY DEF vmmngr_free_page, Running
<1>2. /\ PageAccessible(v) /\ PageEntry(v) \in Entry /\ PageEntry(v).frame < TopBit
      /\ PageEntry(v).frame \in Nat /\ PageEntry(v).frame = mapped[v] /\ mapped[v] \in held
  BY <1>1, MappedHasTable
<1>3. pfn(PageEntry(v)) = mapped[v] /\ mapped[v] # 0
  BY <1>1, <1>2, PfnIs, PagedIs, Geometry
<1>4. /\ avail' = avail \cup {mapped[v]} /\ SetPageEntry(v, e) /\ held' = held \ {mapped[v]}
      /\ mapped' = [mapped EXCEPT ![v] = Fault] /\ UNCHANGED <<crashed, inited, curdir, paging, tlb>>
  BY <1>2, <1>3 DEF vmmngr_free_page
<1>5. e \in Entry /\ ~e.present /\ e.frame < TopBit
  <2>1. e \in Entry /\ e = [present |-> FALSE, frame |-> PageEntry(v).frame]
    BY <1>2, EntryIs
  <2> QED BY <1>2, <2>1
<1> HIDE DEF e
<1> QED BY <1>1, <1>4, <1>5, Unmapping

\* The processor's own steps: what it caches of the identity mapping is right.
LEMMA TlbStep ==
  ASSUME KeepOut, IInv, NEW v \in TlbPages, TlbFill(v) \/ TlbEvict(v)
  PROVE  IInv'
<1>1. UNCHANGED <<mem, avail, inited, curdir, paging, crashed, held, mapped>>
  BY DEF TlbFill, TlbEvict
<1>2. tlb' \in [TlbPages -> Nat \cup {None}] /\ (paging => IdentityCached')
  <2>0. tlb \in [TlbPages -> Nat \cup {None}] /\ v \in Pages
    BY Geometry DEF IInv, TypeOK
  <2>1. CASE TlbEvict(v)
    <3>1. tlb' = [tlb EXCEPT ![v] = None]
      BY <2>1 DEF TlbEvict
    <3>2. paging => IdentityCached
      BY PagedIs
    <3> QED BY <2>0, <3>1, <3>2 DEF IdentityCached
  <2>2. CASE TlbFill(v)
    <3>1. paging /\ Walk(mem, v) # Fault /\ tlb' = [tlb EXCEPT ![v] = Walk(mem, v)]
      BY <2>2 DEF TlbFill, Running
    <3>2. Good(mem, avail) /\ Directory(mem) /\ IdentityCached /\ curdir \in Pool
      BY <3>1, PagedIs
    <3>3. Walk(mem, v) \in Nat
      <4>1. /\ mem[curdir][PAGE_DIR_INDEX(v)].frame \in Frames
            /\ Walk(mem, v) = mem[mem[curdir][PAGE_DIR_INDEX(v)].frame][PAGE_TABLE_INDEX(v)].frame
        BY <3>1 DEF Walk
      <4>2. PAGE_TABLE_INDEX(v) \in Index
        BY <2>0, Places
      <4>3. mem[mem[curdir][PAGE_DIR_INDEX(v)].frame][PAGE_TABLE_INDEX(v)] \in Entry
        BY <3>2, <4>1, <4>2 DEF Directory
      <4> QED BY <4>1, <4>3 DEF Entry
    <3>4. v \in Pool => v \in Index /\ Walk(mem, v) = v
      <4> SUFFICES ASSUME v \in Pool PROVE v \in Index /\ Walk(mem, v) = v
        OBVIOUS
      <4>1. Walk(mem, v) = Intended(v) /\ v \notin Targets /\ v < TopBit
        BY <2>0, <3>2 DEF Good, KeepOut
      <4>2. CASE v \notin Index
        BY <2>0, <3>1, <4>1, <4>2, Between DEF Intended
      <4>3. CASE v \in Index
        BY <4>1, <4>3, LowPlaces, Geometry DEF Intended
      <4> QED BY <4>2, <4>3
    <3> QED BY <2>0, <3>1, <3>2, <3>3, <3>4 DEF IdentityCached
  <2> QED BY <2>1, <2>2
<1>3. TypeOK'
  BY <1>1, <1>2 DEF IInv, TypeOK
<1>4. CASE paging
  BY <1>1, <1>2, <1>3, <1>4 DEF IInv, Paged, Directory, NoTopBit, InReach, Owned, Walk, Intended, Mappings
<1>5. CASE ~paging
  BY <1>1, <1>3, <1>5 DEF IInv, Unpaged
<1> QED BY <1>4, <1>5

---------------------------------------------------------------------------
(* vmmngr_init.                                                            *)

\* The tables it fills in.
LEMMA FirstTables ==
  ASSUME KeepOut
  PROVE  /\ IdentityTable \in [Index -> Entry] /\ KernelTable \in [Index -> Entry]
         /\ \A i \in Index : /\ IdentityTable[i] = [present |-> TRUE, frame |-> i]
                             /\ KernelTable[i] = [present |-> TRUE, frame |-> KernelFrame + i]
<1>1. ASSUME NEW i \in Index
      PROVE  i \in Nat /\ i < TopBit /\ KernelFrame + i \in Nat /\ KernelFrame + i < TopBit
  BY Geometry DEF Index
<1>2. ASSUME NEW i \in Index
      PROVE  /\ set_frame(add_present(ZeroEntry), i) = [present |-> TRUE, frame |-> i]
             /\ set_frame(add_present(ZeroEntry), i) \in Entry
             /\ set_frame(add_present(ZeroEntry), KernelFrame + i) = [present |-> TRUE, frame |-> KernelFrame + i]
             /\ set_frame(add_present(ZeroEntry), KernelFrame + i) \in Entry
  BY <1>1, FreshEntry
<1> QED BY <1>2 DEF IdentityTable, KernelTable

\* Memory as vmmngr_init leaves it when it got its frames.
FirstTwo(m, table, ktable) == [m EXCEPT ![table] = IdentityTable, ![ktable] = KernelTable]
FirstEntries(table, ktable) ==
  [i \in Index |-> CASE i = 0           -> set_frame(add_present(ZeroEntry), table)
                     [] i = KernelIndex -> set_frame(add_present(ZeroEntry), ktable)
                     [] OTHER           -> ZeroEntry]

\* The two tables are where they were put.
LEMMA TwoTables ==
  ASSUME KeepOut, mem \in [Frames -> [Index -> Entry]],
         NEW table \in Pool, NEW ktable \in Pool, table # ktable
  PROVE  /\ FirstTwo(mem, table, ktable) \in [Frames -> [Index -> Entry]]
         /\ FirstTwo(mem, table, ktable)[table] = IdentityTable
         /\ FirstTwo(mem, table, ktable)[ktable] = KernelTable
<1>1. IdentityTable \in [Index -> Entry] /\ KernelTable \in [Index -> Entry]
  BY FirstTables
<1>2. table \in Frames /\ ktable \in Frames
  BY Geometry
<1> DEFINE one == [mem EXCEPT ![table] = IdentityTable]
           two == [one EXCEPT ![ktable] = KernelTable]
<1>3. one \in [Frames -> [Index -> Entry]] /\ one[table] = IdentityTable
  BY <1>1, <1>2
<1>4. FirstTwo(mem, table, ktable) = two
  BY DEF FirstTwo
<1> HIDE DEF one
<1>5. two \in [Frames -> [Index -> Entry]] /\ two[table] = IdentityTable /\ two[ktable] = KernelTable
  BY <1>1, <1>2, <1>3
<1> HIDE DEF two
<1> QED BY <1>4, <1>5

\* The directory it fills in.
LEMMA EntriesIs ==
  ASSUME KeepOut, NEW table \in Pool, NEW ktable \in Pool
  PROVE  /\ FirstEntries(table, ktable) \in [Index -> Entry]
         /\ FirstEntries(table, ktable)[0] = [present |-> TRUE, frame |-> table]
         /\ FirstEntries(table, ktable)[KernelIndex] = [present |-> TRUE, frame |-> ktable]
         /\ \A i \in Index : i # 0 /\ i # KernelIndex => FirstEntries(table, ktable)[i] = ZeroEntry
<1>1. table \in Nat /\ table < TopBit /\ ktable \in Nat /\ ktable < TopBit
  BY Geometry DEF KeepOut
<1> DEFINE a == set_frame(add_present(ZeroEntry), table)
           b == set_frame(add_present(ZeroEntry), ktable)
<1>2. a = [present |-> TRUE, frame |-> table] /\ a \in Entry /\ b = [present |-> TRUE, frame |-> ktable] /\ b \in Entry
  BY <1>1, FreshEntry
<1>3. ZeroEntry \in Entry
  BY DEF ZeroEntry, Entry
<1>4. FirstEntries(table, ktable) = [i \in Index |-> CASE i = 0 -> a [] i = KernelIndex -> b [] OTHER -> ZeroEntry]
  BY DEF FirstEntries
<1> HIDE DEF a, b
<1> DEFINE dir == [i \in Index |-> CASE i = 0 -> a [] i = KernelIndex -> b [] OTHER -> ZeroEntry]
<1>5. /\ dir[0] = a /\ dir[KernelIndex] = b
      /\ \A i \in Index : i # 0 /\ i # KernelIndex => dir[i] = ZeroEntry
  BY Geometry
<1>6. dir \in [Index -> Entry]
  <2> SUFFICES ASSUME NEW i \in Index PROVE dir[i] \in Entry
    OBVIOUS
  <2> HIDE DEF dir
  <2> QED BY <1>2, <1>3, <1>5
<1> HIDE DEF dir
<1> QED BY <1>2, <1>4, <1>5, <1>6 DEF dir

\* The address space it makes: the identity mapping, the kernel, nothing else.
LEMMA FirstSpace ==
  ASSUME KeepOut, mem \in [Frames -> [Index -> Entry]], NEW dir \in Pool,
         NEW table \in Pool, NEW ktable \in Pool, table # ktable, dir # table, dir # ktable,
         mem' = [FirstTwo(mem, table, ktable) EXCEPT ![dir] = FirstEntries(table, ktable)],
         curdir' = dir, mapped' = mapped, \A v \in Targets : mapped[v] = None
  PROVE  /\ Directory(mem)' /\ NoTopBit(mem)' /\ mem'[curdir'][KernelIndex].present
         /\ \A i \in Index : mem'[curdir'][i].present => mem'[curdir'][i].frame \in {table, ktable}
         /\ \A v \in Pages : Walk(mem, v)' = Intended(v)'
<1> DEFINE two == FirstTwo(mem, table, ktable)
           entries == FirstEntries(table, ktable)
           n == mem'
<1>1. two \in [Frames -> [Index -> Entry]] /\ two[table] = IdentityTable /\ two[ktable] = KernelTable
  BY TwoTables
<1>2. /\ entries \in [Index -> Entry]
      /\ entries[0] = [present |-> TRUE, frame |-> table]
      /\ entries[KernelIndex] = [present |-> TRUE, frame |-> ktable]
      /\ \A i \in Index : i # 0 /\ i # KernelIndex => entries[i] = ZeroEntry
  BY EntriesIs
<1>3. n = [two EXCEPT ![dir] = entries]
  OBVIOUS
<1> HIDE DEF two, entries, n
<1>4. /\ n \in [Frames -> [Index -> Entry]] /\ n[dir] = entries
      /\ n[table] = IdentityTable /\ n[ktable] = KernelTable
  BY <1>1, <1>2, <1>3, Geometry
<1>5. /\ entries[0].present /\ entries[0].frame = table
      /\ entries[KernelIndex].present /\ entries[KernelIndex].frame = ktable
      /\ \A i \in Index : i # 0 /\ i # KernelIndex => ~entries[i].present /\ entries[i] = ZeroEntry
  BY <1>2 DEF ZeroEntry
<1>6. Directory(mem)'
  <2>1. ASSUME NEW i \in Index
        PROVE  IF entries[i].present THEN entries[i].frame \in Pool /\ entries[i].frame # dir
               ELSE entries[i] = ZeroEntry
    BY <1>5
  <2>2. ASSUME NEW i \in Index, NEW j \in Index, entries[i].present, entries[j].present, i # j
        PROVE  entries[i].frame # entries[j].frame
    BY <1>5, <2>2
  <2>3. \A i \in Pool \cap Index : n[entries[0].frame][i] = [present |-> TRUE, frame |-> i]
    BY <1>4, <1>5, FirstTables
  <2>4. n = mem' /\ curdir' = dir
    BY DEF n
  <2> QED BY ONLY <1>4, <1>5, <2>1, <2>2, <2>3, <2>4 DEF Directory
<1>7. NoTopBit(mem)'
  <2> SUFFICES ASSUME NEW i \in Index, NEW j \in Index, n[dir][i].present PROVE n[n[dir][i].frame][j].frame < TopBit
    BY DEF NoTopBit, n
  <2>1. n[dir][i].frame \in {table, ktable}
    BY <1>4, <1>5
  <2>2. /\ IdentityTable[j] = [present |-> TRUE, frame |-> j]
        /\ KernelTable[j] = [present |-> TRUE, frame |-> KernelFrame + j]
    BY FirstTables
  <2>3. IdentityTable[j].frame = j /\ KernelTable[j].frame = KernelFrame + j
    BY <2>2
  <2>4. j < TopBit /\ KernelFrame + j < TopBit
    BY Geometry DEF Index
  <2> QED BY <1>4, <2>1, <2>3, <2>4
<1>8. mem'[curdir'][KernelIndex].present /\ \A i \in Index : mem'[curdir'][i].present => mem'[curdir'][i].frame \in {table, ktable}
  BY <1>4, <1>5 DEF n
<1>9. ASSUME NEW v \in Pages PROVE Walk(mem, v)' = Intended(v)'
  <2> DEFINE d == PAGE_DIR_INDEX(v)
             k == PAGE_TABLE_INDEX(v)
             pde == entries[d]
             pte == n[pde.frame][k]
  <2>0. d \in Index /\ k \in Index /\ k \in Nat
    BY Places, Geometry
  <2>1. Walk(mem, v)' = IF pde.present /\ pde.frame \in Frames /\ pte.present THEN pte.frame ELSE Fault
    BY <1>4 DEF Walk, n
  <2>2. Intended(v)' = CASE d = 0 -> v [] d = KernelIndex -> KernelFrame + k [] OTHER -> Fault
    BY DEF Intended
  <2>3. CASE d = 0
    <3>1. v = k
      BY <2>3, FirstTable
    <3>2. pde.present /\ pde.frame = table /\ table \in Frames
      BY <1>5, <2>3, Geometry
    <3>3. pte = [present |-> TRUE, frame |-> k]
      BY <1>4, <2>0, <3>2, FirstTables
    <3>4. pte.present /\ pte.frame = k
      BY <3>3
    <3> HIDE DEF pde, pte, d, k
    <3>5. Walk(mem, v)' = v
      BY <2>1, <3>1, <3>2, <3>4
    <3> QED BY <2>2, <2>3, <3>5, Geometry
  <2>4. CASE d = KernelIndex
    <3>1. pde.present /\ pde.frame = ktable /\ ktable \in Frames
      BY <1>5, <2>4, Geometry
    <3>2. pte = [present |-> TRUE, frame |-> KernelFrame + k]
      BY <1>4, <2>0, <3>1, FirstTables
    <3>3. pte.present /\ pte.frame = KernelFrame + k
      BY <3>2
    <3> HIDE DEF pde, pte, d, k
    <3>4. Walk(mem, v)' = KernelFrame + k
      BY <2>1, <3>1, <3>3
    <3> QED BY <2>2, <2>4, <3>4, Geometry
  <2>5. CASE d # 0 /\ d # KernelIndex
    <3>1. ~pde.present
      BY <1>5, <2>0, <2>5
    <3> HIDE DEF pde, pte, d, k
    <3> QED BY <2>1, <2>2, <2>5, <3>1
  <2> QED BY <2>3, <2>4, <2>5
<1> QED BY <1>6, <1>7, <1>8, <1>9

\* The whole of vmmngr_init, with its early returns.
LEMMA InitStep ==
  ASSUME KeepOut, IInv, vmmngr_init
  PROVE  IInv'
<1> DEFINE table  == FirstFit(avail, 1)
           ktable == FirstFit(avail \ {table}, 1)
           rest   == avail \ {table, ktable}
           dir    == FirstFit(rest, 3)
<1>1. /\ ~inited /\ inited' = TRUE /\ UNCHANGED <<crashed, held, mapped>>
      /\ dir = 0 => /\ avail' = rest /\ mem' = IF ktable = 0 THEN mem ELSE FirstTwo(mem, table, ktable)
                    /\ UNCHANGED <<curdir, paging, tlb>>
      /\ dir # 0 => /\ avail' = rest \ Run(dir, 3)
                    /\ mem' = [FirstTwo(mem, table, ktable) EXCEPT ![dir] = FirstEntries(table, ktable)]
                    /\ curdir' = dir /\ paging' = TRUE /\ tlb' = [v \in TlbPages |-> None]
  BY DEF vmmngr_init, FirstTwo, FirstEntries
<1>2. /\ ~paging /\ held = {} /\ (\A v \in Targets : mapped[v] = None)
      /\ avail \subseteq Pool /\ mem \in [Frames -> [Index -> Entry]]
  BY <1>1 DEF IInv, Paged, Unpaged, TypeOK
<1>3. ktable # 0 => table \in avail /\ ktable \in avail /\ table # ktable
  <2>1. avail = {} => avail \ {table} = {}
    OBVIOUS
  <2>2. ktable # 0 => ktable \in avail \ {table}
    <3> HIDE DEF table
    <3> QED BY <1>2, Fits
  <2>3. avail # {} => table \in avail
    BY <1>2, Fits
  <2> HIDE DEF table, ktable
  <2> QED BY <2>2, <2>3
<1>4. dir # 0 => /\ dir \in rest /\ ktable # 0 /\ dir \in Run(dir, 3)
  <2>1. dir # 0 => dir \in rest
    <3> HIDE DEF table, ktable
    <3> QED BY <1>2, Fits
  <2>2. dir # 0 => ktable # 0
    <3> HIDE DEF dir, table
    <3>1. dir # 0 => avail \ {table} # {}
      BY <2>1
    <3>2. avail \ {table} # {} => ktable # 0
      BY <1>2, Fits
    <3> QED BY <3>1, <3>2
  <2>3. dir # 0 => dir \in Run(dir, 3)
    <3> HIDE DEF dir
    <3>1. dir # 0 => dir \in Nat
      BY <1>2, <2>1, Geometry
    <3> QED BY <3>1 DEF Run
  <2> QED BY <2>1, <2>2, <2>3
<1>7. dir # 0 => table <= dir /\ ktable <= dir
  <2>1. dir # 0 => dir \in avail /\ dir \in avail \ {table}
    BY <1>4
  <2>2. \A g \in avail : table <= g
    BY <1>2, Fits
  <2>3. \A g \in avail \ {table} : ktable <= g
    <3> HIDE DEF table
    <3> QED BY <1>2, Fits
  <2> HIDE DEF table, ktable, dir
  <2> QED BY <2>1, <2>2, <2>3
<1> HIDE DEF table, ktable, dir
<1>5. CASE dir = 0
  <2>1. mem' \in [Frames -> [Index -> Entry]]
    BY <1>1, <1>2, <1>3, <1>5, TwoTables
  <2>2. TypeOK'
    BY <1>1, <1>2, <1>5, <2>1 DEF IInv, TypeOK
  <2> QED BY <1>1, <1>2, <1>5, <2>2 DEF IInv, Unpaged
<1>6. CASE dir # 0
  <2>1. /\ table \in Pool /\ ktable \in Pool /\ dir \in Pool /\ table # ktable /\ dir # table /\ dir # ktable
        /\ table \notin avail' /\ ktable \notin avail' /\ dir \notin avail' /\ avail' \subseteq Pool
    BY <1>1, <1>2, <1>3, <1>4, <1>6
  <2>2. /\ Directory(mem)' /\ NoTopBit(mem)' /\ mem'[curdir'][KernelIndex].present
        /\ \A i \in Index : mem'[curdir'][i].present => mem'[curdir'][i].frame \in {table, ktable}
        /\ \A v \in Pages : Walk(mem, v)' = Intended(v)'
    BY <1>1, <1>2, <1>6, <2>1, FirstSpace
  <2>3. mem' \in [Frames -> [Index -> Entry]] /\ tlb' \in [TlbPages -> Nat \cup {None}]
    BY <1>1, <1>6, <2>2 DEF Directory
  <2>4. TypeOK'
    BY <1>1, <1>2, <1>6, <2>1, <2>3 DEF IInv, TypeOK
  <2>5. Owned(mem, avail)'
    BY <1>1, <1>2, <2>1, <2>2 DEF Owned
  <2>8. InReach(mem)'
    <3>1. table \in Nat /\ ktable \in Nat /\ dir \in Nat /\ table <= dir /\ ktable <= dir
      BY <1>4, <1>6, <1>7, <2>1, Geometry
    <3>2. dir \in Index => table \in Index /\ ktable \in Index
      BY <3>1, Geometry DEF Index
    <3> QED BY <1>1, <1>6, <2>2, <3>2 DEF InReach
  <2>6. Mappings' /\ IdentityCached'
    BY <1>1, <1>2, <1>6 DEF Mappings, IdentityCached, None
  <2>7. curdir' \notin avail' \cup held' /\ avail' \cap held' = {} /\ inited' /\ curdir' \in Pool /\ paging'
    BY <1>1, <1>2, <1>6, <2>1
  <2> QED BY <2>2, <2>4, <2>5, <2>6, <2>7, <2>8 DEF IInv, Paged
<1> QED BY <1>5, <1>6

---------------------------------------------------------------------------
(* The invariant holds.                                                    *)

\* It holds before vmmngr_init.
LEMMA InitHolds == Init => IInv
<1> SUFFICES ASSUME Init PROVE IInv
  OBVIOUS
<1>1. ZeroEntry \in Entry /\ [present |-> TRUE, frame |-> TableSize] \in Entry
  BY Geometry DEF ZeroEntry, Entry
<1>2. PICK e \in {ZeroEntry, [present |-> TRUE, frame |-> TableSize]} : mem = [f \in Frames |-> [i \in Index |-> e]]
  BY DEF Init
<1>3. e \in Entry
  BY <1>1
<1>4. mem \in [Frames -> [Index -> Entry]]
  BY ONLY <1>2, <1>3
<1>5. TypeOK
  BY <1>4 DEF Init, TypeOK
<1> QED BY <1>5 DEF Init, IInv, Unpaged

\* Every step keeps it, and takes a page fault only where the kernel cannot
\* reach the directory or is out of frames that it reaches.
LEMMA StepHolds == KeepOut /\ IInv /\ [Next]_vars => IInv' /\ (~crashed /\ crashed' => LowMemoryGone)
<1> SUFFICES ASSUME KeepOut, IInv, [Next]_vars PROVE IInv' /\ (~crashed /\ crashed' => LowMemoryGone)
  OBVIOUS
<1>1. CASE vmmngr_init
  <2>1. crashed' = crashed
    BY <1>1 DEF vmmngr_init
  <2> QED BY <1>1, <2>1, InitStep
<1>2. CASE vmmngr_alloc_page
  <2>1. crashed' = crashed
    BY <1>2 DEF vmmngr_alloc_page
  <2> QED BY <1>2, <2>1, AllocStep
<1>3. CASE \E p \in held, v \in Targets : (\A u \in Targets : mapped[u] # p) /\ vmmngr_map_page(p, v)
  BY <1>3, MapStep
<1>4. CASE \E v \in Targets : mapped[v] \in held /\ (vmmngr_unmap_page(v) \/ vmmngr_free_page(v))
  <2>1. PICK v \in Targets : mapped[v] \in held /\ (vmmngr_unmap_page(v) \/ vmmngr_free_page(v))
    BY <1>4
  <2>2. CASE curdir \in Index
    BY <2>1, <2>2, UnmapStep, FreeStep
  <2>3. CASE curdir \notin Index
    BY <2>1, <2>3, UnmapFault
  <2> QED BY <2>2, <2>3
<1>5. CASE \E v \in TlbPages : TlbFill(v) \/ TlbEvict(v)
  <2>1. crashed' = crashed
    BY <1>5 DEF TlbFill, TlbEvict
  <2> QED BY <1>5, <2>1, TlbStep
<1>6. CASE UNCHANGED vars
  BY <1>6 DEF vars, IInv, TypeOK, Paged, Unpaged, Directory, NoTopBit, InReach, Owned, Walk, Intended, Mappings,
              IdentityCached
<1> QED BY <1>1, <1>2, <1>3, <1>4, <1>5, <1>6 DEF Next, Client

\* The inductive invariant.
LEMMA Invariant == KeepOut => (Spec => []IInv)
<1> SUFFICES ASSUME KeepOut PROVE Spec => []IInv
  OBVIOUS
<1>1. Init => IInv
  BY InitHolds
<1>2. IInv /\ [Next]_vars => IInv'
  BY StepHolds
<1> QED BY <1>1, <1>2, PTL DEF Spec

\* For clients that keep out of the pages of the pool, the manager's variables
\* and the entries of all tables keep their types, and only frames of the pool
\* are free, wherever below 2 GB the pool lies and through page faults.
THEOREM TypeCorrect == KeepOut => (Spec => []TypeOK)
<1> SUFFICES ASSUME KeepOut PROVE Spec => []TypeOK
  OBVIOUS
<1>1. IInv => TypeOK
  BY DEF IInv
<1>2. Spec => []IInv
  BY Invariant
<1> QED BY <1>1, <1>2, PTL

\* For them, an operation of the manager takes a page fault only where the
\* directory is above the first 4 MB or no frame of those is free, though it uses
\* the physical addresses of tables as virtual ones and never flushes the TLB.
THEOREM FaultsOnlyAbove == KeepOut => (Spec => FaultsOnlyWhenLowMemoryGone)
<1> SUFFICES ASSUME KeepOut PROVE Spec => FaultsOnlyWhenLowMemoryGone
  OBVIOUS
<1>1. IInv /\ [Next]_vars => [~crashed /\ crashed' => curdir >= TableSize \/ avail \cap Index = {}]_vars
  BY StepHolds DEF LowMemoryGone
<1>2. Spec => []IInv
  BY Invariant
<1> QED BY <1>1, <1>2, PTL DEF Spec, FaultsOnlyWhenLowMemoryGone

\* For them, vmmngr_map_page, vmmngr_unmap_page and vmmngr_free_page leave tables
\* that give every page the frame it was mapped to, and no frame to the others.
THEOREM TablesAreRight == KeepOut => (Spec => []TablesMatchMappings)
<1> SUFFICES ASSUME KeepOut PROVE Spec => []TablesMatchMappings
  OBVIOUS
<1>1. IInv => TablesMatchMappings
  BY DEF IInv, Paged, TablesMatchMappings
<1>2. Spec => []IInv
  BY Invariant
<1> QED BY <1>1, <1>2, PTL

\* For them, no frame serves two ends: the directory, each of its tables, what the
\* allocator has free and what clients hold never share one.
THEOREM FramesStayApart == KeepOut => (Spec => []FramesApart)
<1> SUFFICES ASSUME KeepOut PROVE Spec => []FramesApart
  OBVIOUS
<1>1. IInv => FramesApart
  <2> SUFFICES ASSUME IInv, paging
               PROVE  /\ TableFrames \cap (avail \cup held) = {}
                      /\ curdir \notin avail \cup held \cup TableFrames
                      /\ avail \cap held = {}
                      /\ \A i, j \in Index : /\ i # j
                                             /\ mem[curdir][i].present /\ mem[curdir][j].present
                                             => mem[curdir][i].frame # mem[curdir][j].frame
    BY DEF FramesApart
  <2>1. /\ Good(mem, avail) /\ Directory(mem) /\ curdir \notin avail \cup held /\ avail \cap held = {}
    BY PagedIs
  <2>2. TableFrames \cap (avail \cup held) = {} /\ curdir \notin TableFrames
    BY <2>1 DEF TableFrames, Good, Owned, Directory
  <2> QED BY <2>1, <2>2 DEF Directory
<1>2. Spec => []IInv
  BY Invariant
<1> QED BY <1>1, <1>2, PTL
===========================================================================
