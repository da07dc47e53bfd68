------------------------- MODULE MCPhysicalMemory -------------------------
(***************************************************************************)
(* Scaled-down machines for PhysicalMemory: blocks of 8 bytes, map words   *)
(* of 4 bits, bytes of 2 bits, 256 values of a uint32_t.                   *)
(***************************************************************************)
EXTENDS PhysicalMemory

Entry(b, s, t) == [base |-> b, size |-> s, type |-> t]

\* Blocks 0-9 and 12-17 are memory.  The bit map describes 21 blocks and is ten
\* bytes long, the kernel image twelve: neither fills its last block.
SmallSMAP == << Entry(0, 80, 1), Entry(80, 16, 2), Entry(96, 48, 1), Entry(144, 32, 2) >>

AnyJunk == {{}, 0 .. 40}
===========================================================================
