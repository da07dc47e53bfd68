---------------------------- MODULE FileSystem ----------------------------
(***************************************************************************)
(* fat12.c and the volume manager of file.c: opening, reading and closing  *)
(* one file of a FAT12 disk.                                               *)
(*                                                                         *)
(* A FAT entry is three nibbles and a byte is two, so entries straddle     *)
(* bytes and sectors; Nibble is the number of values of a nibble (16) and  *)
(* the arithmetic that unpacks an entry is kept.  A sector of a directory  *)
(* is a list of entries, the data of a cluster is the number of the        *)
(* cluster.                                                                *)
(*                                                                         *)
(* fd_read_sector may fail and return the null pointer.  Nobody looks:     *)
(* fat_mount, fat_parse_rootdir and fat_read_file all read on at address   *)
(* 0, and take whatever lies there.                                        *)
(***************************************************************************)
EXTENDS Integers, Sequences, FiniteSets

CONSTANTS Nibble,          \* values of a nibble (16)
          SectorSize,      \* bytes in a sector (512)
          Reserved,        \* bpb.reserved_sectors
          NumFats,         \* bpb.number_of_fats
          FatSectors,      \* bpb.sectors_per_fat
          RootSectors,     \* sectors of the root directory (14)
          EndOfChain,      \* the least end-of-file mark (0xFF8)
          FATs,            \* the tables a disk may have
          Root,            \* the root directory: entries of each of its sectors
          Paths,           \* the paths clients open
          Devices,         \* device letters; "a" is the default one
          Offsets,         \* what a boot sector read from address 0 may say
          Faults           \* may a sector read fail?

ASSUME FileSystemAssumption ==
  /\ {Nibble, SectorSize, Reserved, NumFats, FatSectors, RootSectors, EndOfChain} \subseteq Nat
  /\ Nibble > 1 /\ SectorSize > 0
  /\ Offsets \subseteq Nat
  /\ "a" \in Devices
  /\ Faults \in BOOLEAN

VARIABLES fat,          \* the disk's table: [clusters -> entry values]
          file_system,  \* [Devices -> BOOLEAN]: is a file system registered?
          mount_info,   \* the sector numbers fat_mount computed
          file,         \* the client's file handle
          buffer,       \* what the last read delivered
          lastRead,     \* the cluster the last read was of (history)
          opened,       \* the path opened last (history)
          astray        \* does the file rest on something nobody read or wrote? (history)

vars == <<fat, file_system, mount_info, file, buffer, lastRead, opened, astray>>

None == -1
Junk == -2
Bytes == 0 .. (Nibble * Nibble - 1)
EntryValues == 0 .. (Nibble * Nibble * Nibble - 1)
Clusters == DOMAIN fat

---------------------------------------------------------------------------
(* The disk (external): copies of the table, the root directory, data.     *)

Power(n) == IF n = 0 THEN 1 ELSE IF n = 1 THEN Nibble ELSE Nibble * Nibble

NibbleAt(k) == IF k \div 3 \in Clusters THEN (fat[k \div 3] \div Power(k % 3)) % Nibble ELSE 0
ByteAt(k) == NibbleAt(2 * k) + Nibble * NibbleAt(2 * k + 1)

TableSector(n) == [i \in 0 .. (SectorSize - 1) |-> ByteAt(n * SectorSize + i)]
RootStart == Reserved + NumFats * FatSectors
DataStart == RootStart + RootSectors

\* The bytes of sector n, when it is one of the table's.
DiskBytes(n) == IF n \in Reserved .. (RootStart - 1)
                  THEN TableSector((n - Reserved) % FatSectors)
                  ELSE [i \in 0 .. (SectorSize - 1) |-> 0]

\* The cluster whose data sector n holds.
DiskData(n) == IF n >= DataStart /\ n - DataStart + 2 \in Clusters THEN n - DataStart + 2 ELSE None

---------------------------------------------------------------------------
(* fd_read_sector, with the copy that follows it.                          *)

FailedBytes == {[i \in 0 .. (SectorSize - 1) |-> b] : b \in {0, Nibble * Nibble - 1}}

ReadBytes(n, ok) == IF ok THEN {DiskBytes(n)} ELSE FailedBytes
ReadData(n, ok) == IF ok THEN DiskData(n) ELSE Junk
ReadResults == IF Faults THEN BOOLEAN ELSE {TRUE}

---------------------------------------------------------------------------
(* fat12.c.                                                                *)

Handle == [flags : {"file", "directory", "invalid"},
           current_cluster : Nat, end : {0, 1}, device_id : Devices]

\* A handle that the code leaves uninitialised; vol_open_file_impl writes the
\* device.
AnyHandle == [flags : {"file", "directory", "invalid"},
              current_cluster : EntryValues, end : {0, 1}, device_id : {"a"}]

\* What is returned when nothing could be opened: flags only, and nobody looks
\* at the rest.
Closed == [flags |-> "invalid", current_cluster |-> 0, end |-> 0, device_id |-> "a"]
Invalid == {Closed}

\* The boot sector is read from the disk, or from address 0.  (A sector size of
\* zero found there is a division by zero, and nothing comes after it.)
TrueMount == [root_offset |-> RootStart, data_offset |-> DataStart]
StrayMounts == [root_offset : Offsets, data_offset : Offsets]

fat_mount == \E ok \in ReadResults : mount_info' \in IF ok THEN {TrueMount} ELSE StrayMounts

fat_init == /\ file_system["a"] = FALSE
            /\ file_system' = [file_system EXCEPT !["a"] = TRUE]
            /\ fat_mount
            /\ UNCHANGED <<fat, file, buffer, lastRead, opened, astray>>

\* fat_parse_rootdir.  ok is the set of turns of its outer loop whose sector
\* could be read.  A sector that could not, or that is not of the directory
\* because the mount went astray, may seem to hold the name; the search ends
\* there if no entry of the name comes before.
Turns == 0 .. (RootSectors - 1)
TurnResults == IF Faults THEN SUBSET Turns ELSE {Turns}

First(S) == CHOOSE i \in S : \A j \in S : i <= j
Sector(i) == mount_info.root_offset + i - RootStart
Matches(s, name) == {k \in 1 .. Len(Root[s]) : Root[s][k].name = name}

Good(ok) == {i \in ok : Sector(i) \in Turns}
Hits(name, ok) == {i \in Good(ok) : Matches(Sector(i), name) # {}}
Strays(name, ok) == {i \in Turns \ Good(ok) : \A j \in Hits(name, ok) : i < j}

StrayEntries == {h \in AnyHandle : h.flags # "invalid" /\ h.end = 0}

\* The first entry of the name in a sector of the directory.
EntryOf(s, name) == Root[s][First(Matches(s, name))]

\* Broken: a match ends the inner loop only, and the last sector with one wins.
ParseLastSector(name, ok) ==
  LET last == CHOOSE i \in Hits(name, ok) : \A j \in Hits(name, ok) : j <= i
      found == EntryOf(Sector(last), name)
  IN IF Hits(name, ok) = {} THEN Invalid
     ELSE {[flags |-> IF found.directory THEN "directory" ELSE "file",
            current_cluster |-> found.first_cluster, end |-> 0, device_id |-> "a"]}

fat_parse_rootdir(name, ok) ==
  LET found == EntryOf(Sector(First(Hits(name, ok))), name)
  IN (IF Hits(name, ok) = {} THEN Invalid
      ELSE {[flags |-> IF found.directory THEN "directory" ELSE "file",
             current_cluster |-> found.first_cluster, end |-> 0, device_id |-> "a"]})
     \cup (IF Strays(name, ok) = {} THEN {} ELSE StrayEntries)

\* fat_open_file gives the caller a file only, and nothing of a handle but its
\* flags otherwise.  With a '\' in the path the name is copied through a null
\* pointer, which then counts as no name at all: nothing is looked up, and the
\* flags of an uninitialised handle decide.
fat_open_file(path, ok) ==
  IF path.separator
    THEN Invalid \cup {h \in AnyHandle : h.flags = "file"}
    ELSE UNION {IF h.flags = "file" THEN {h} ELSE Invalid : h \in fat_parse_rootdir(path.name, ok)}

\* Does what was opened rest on a sector, a mount or a handle that is not real?
OpenedAstray(path, ok) ==
  path.separator \/ Strays(path.name, ok) # {} \/ mount_info # TrueMount

\* Broken: odd and even clusters are mixed up.
EntryOfOther(bytes, cluster) ==
  LET offset == ((cluster \div 2) + cluster) % SectorSize
      word == bytes[offset] + Nibble * Nibble * bytes[offset + 1]
  IN IF cluster % 2 = 1 THEN word % (Nibble * Nibble * Nibble) ELSE word \div Nibble

\* The entry of a cluster, from the two sectors of the table just read.
Entry(bytes, cluster) ==
  LET offset == ((cluster \div 2) + cluster) % SectorSize
      word == bytes[offset] + Nibble * Nibble * bytes[offset + 1]
  IN IF cluster % 2 = 0 THEN word % (Nibble * Nibble * Nibble) ELSE word \div Nibble

\* Broken: no test for corruption.
AdvanceToZero(f, next) ==
  IF next >= EndOfChain THEN [f EXCEPT !.end = 1] ELSE [f EXCEPT !.current_cluster = next]

\* Broken: neither the end mark nor corruption is looked for.
AdvanceAlways(f, next) == [f EXCEPT !.current_cluster = next]

\* Where a file is once the entry of its cluster is known: the entry of a
\* corrupt chain ends it as the end-of-file mark does.
Advance(f, next) ==
  IF next >= EndOfChain \/ next = 0
    THEN [f EXCEPT !.end = 1]
    ELSE [f EXCEPT !.current_cluster = next]

\* The window FAT is written in full before it is read, so it is no variable
\* but the bytes of the call.
fat_read_file ==
  LET cluster == file.current_cluster
      fat_sector == (((cluster \div 2) + cluster) \div SectorSize) + 1
  IN \E ok1, ok2, ok3 \in ReadResults :
     \E first \in ReadBytes(fat_sector, ok2), second \in ReadBytes(fat_sector + 1, ok3) :
       LET bytes == [i \in 0 .. (2 * SectorSize - 1) |->
                       IF i < SectorSize THEN first[i] ELSE second[i - SectorSize]]
       IN /\ buffer' = ReadData((cluster - 2) + mount_info.data_offset, ok1)
          /\ file' = Advance(file, Entry(bytes, cluster))
          /\ lastRead' = cluster
          /\ astray' = (astray \/ ~(ok1 /\ ok2 /\ ok3))

---------------------------------------------------------------------------
(* file.c, as a client uses it that reads what it could open.  (cmd_read,  *)
(* the only one, does not look at the flags, but opens a file that exists.) *)

vol_open_file(path) ==
  /\ file_system["a"]
  /\ file.flags # "file"
  /\ IF file_system[path.device]
       THEN \E ok \in TurnResults : \E h \in fat_open_file(path, ok) :
              /\ file' = [h EXCEPT !.device_id = path.device]
              /\ astray' = OpenedAstray(path, ok)
       ELSE file' \in Invalid /\ astray' = FALSE
  /\ opened' = path
  /\ buffer' = None
  /\ lastRead' = None
  /\ UNCHANGED <<fat, file_system, mount_info>>

vol_read_file ==
  /\ file.flags = "file"
  /\ file.end = 0
  /\ IF file_system[file.device_id]
       THEN fat_read_file
       ELSE UNCHANGED <<file, buffer, lastRead, astray>>
  /\ UNCHANGED <<fat, file_system, mount_info, opened>>

vol_close_file ==
  /\ file.flags = "file"
  /\ file' = IF file_system[file.device_id] THEN [file EXCEPT !.flags = "invalid"] ELSE file
  /\ UNCHANGED <<fat, file_system, mount_info, buffer, lastRead, opened, astray>>

Init == /\ fat \in FATs
        /\ file_system = [d \in Devices |-> FALSE]
        /\ mount_info = [root_offset |-> 0, data_offset |-> 0]
        /\ file = Closed
        /\ buffer = None
        /\ lastRead = None
        /\ opened = CHOOSE path \in Paths : TRUE
        /\ astray = FALSE

Next == fat_init \/ (\E path \in Paths : vol_open_file(path)) \/ vol_read_file \/ vol_close_file

\* A client that has opened a file goes on reading it.
Spec == Init /\ [][Next]_vars /\ WF_vars(vol_read_file)

---------------------------------------------------------------------------
(* What is claimed.  A file is astray when its handle came from an         *)
(* unwritten one, a directory or boot sector that could not be read, or a  *)
(* table that could not be; nothing is claimed of it but types.            *)

TypeOK == /\ file_system \in [Devices -> BOOLEAN]
          /\ file \in Handle
          /\ file.flags = "file" /\ ~astray => file.current_cluster \in Clusters \ {0, 1}
          /\ buffer \in Clusters \cup {None, Junk}
          /\ lastRead \in EntryValues \cup {None}
          /\ astray \in BOOLEAN

\* While the file is not astray, a read delivers the data of the cluster the
\* file was at, and leaves the file at that cluster's successor in the disk's
\* table, or ended if the table says so: the two-sector window and the odd and
\* even halves of FAT12 entries come out right for every cluster.
ReadFollowsTable ==
  lastRead # None /\ ~astray =>
    /\ buffer = lastRead
    /\ IF fat[lastRead] >= EndOfChain \/ fat[lastRead] = 0
         THEN file.end = 1
         ELSE file.end = 0 /\ file.current_cluster = fat[lastRead]

\* Following the chain from c comes to an end within as many steps as there
\* are clusters.
ChainEnds(c) ==
  LET ends[n \in 0 .. Cardinality(Clusters), k \in EntryValues] ==
        \/ k \notin Clusters \/ k = 0
        \/ n > 0 /\ ends[n - 1, fat[k]]
  IN ends[Cardinality(Clusters), c]

Reading == file.flags = "file" /\ file.end = 0

\* A client that keeps reading comes to the end of a file whose chain has one,
\* unless it goes astray under way.
SoundReadingEnds == (Reading /\ ChainEnds(file.current_cluster)) ~> (~Reading \/ astray)

\* The first entry of the directory with this name, sector by sector, is a file
\* that begins at cluster c.
BeginsAt(name, c) ==
  \E s \in Turns : \E k \in Matches(s, name) :
    /\ ~Root[s][k].directory /\ Root[s][k].first_cluster = c
    /\ \A t \in Turns : \A m \in Matches(t, name) : t > s \/ (t = s /\ m >= k)

\* A file that was opened, and not yet read, is at the first cluster of the first
\* entry of its name, and that entry is no directory, whichever of the later
\* directory sectors could not be read.
OpenFindsFile ==
  file.flags = "file" /\ lastRead = None /\ ~astray => BeginsAt(opened.name, file.current_cluster)

===========================================================================
