-------------------------- MODULE MCVirtualMemory --------------------------
(***************************************************************************)
(* Tables of ten entries: identity pages 0-9, kernel pages 90-99.          *)
(***************************************************************************)
EXTENDS VirtualMemory

\* Frames 0-9 are identity mapped, 4-13 are the kernel's.  No frame has bit 31
\* (16 and up): memory is below 2 GB.  The pool starts above the reserved
\* frames, as on the machine (0x16), and goes on past the identity mapping.
\* vmmngr_init takes 2 and 3 for tables and 4-6 for the directory.
SmallFrames == 0 .. 13
SmallPool == 2 .. 10
============================================================================
