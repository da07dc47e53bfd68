--------------------------- MODULE MCBootLoader ---------------------------
(***************************************************************************)
(* Disks of clusters 2-5 with one-bit nibbles: FAT entries of three bits,  *)
(* sectors of four two-bit bytes, so that entry 2 lies across sectors 0    *)
(* and 1, entry 5 across 1 and 2.  6 stands for the marks 0xFF0 to 0xFF7,  *)
(* 7 for the end of a chain.  The loader's image starts at cluster 5, the  *)
(* kernel's at 2, and no chain leads back into itself.                     *)
(***************************************************************************)
EXTENDS BootLoaderProofs

Ends(f, c) ==
  LET within[n \in 0 .. 6, k \in 0 .. 7] == k \in {6, 7} \/ (n > 0 /\ within[n - 1, f[k]])
  IN within[6, c]

Table(k, five) == [c \in 0 .. 5 |-> IF c \in 2 .. 4 THEN k[c] ELSE IF c = 5 THEN five ELSE 7]

\* Any chain for the kernel; one cluster, or two, for the loader.
AcyclicFATs ==
  {f \in {Table(k, five) : k \in [2 .. 4 -> {0, 2, 3, 4, 6, 7}], five \in {4, 7}} :
     Ends(f, 2) /\ (f[5] = 7 \/ f[4] \in {6, 7})}

SomeDirs == {[krnldr |-> 5, krnl |-> 2], [krnldr |-> 5, krnl |-> 0], [krnldr |-> 0, krnl |-> 2]}
SomeMaps == {<<>>, <<3>>, <<3, 0, 2>>, <<0, 4>>, <<1, 2, 0>>}

\* The theorems of BootLoaderProofs are about these disks and this placement:
\* two clusters fit below the memory map, four below the kernel's size.
ASSUME WithinTheTheorems == Layout(<<2, 4>>) /\ Disks(<<2, 4>>)
===========================================================================
