--------------------------- MODULE MCFileSystem ---------------------------
(***************************************************************************)
(* A disk of data clusters 2, 4 and 5 with one-bit nibbles: FAT entries of *)
(* three bits, sectors of four two-bit bytes.  The entry of 2 (even) lies  *)
(* across sectors 0 and 1, the entry of 5 (odd) across 1 and 2; 7 marks    *)
(* the end of a chain.  The directory has two sectors, "krnl" is in both,  *)
(* and "docs" is a directory first and a file after it in one of them.     *)
(***************************************************************************)
EXTENDS FileSystem, TLC

Data == {2, 4, 5}
AllFATs == {[c \in 0 .. 5 |-> IF c \in Data THEN f[c] ELSE IF c = 3 THEN 0 ELSE 7] :
              f \in [Data -> Data \cup {0, 7}]}

Dir(n, c, d) == [name |-> n, first_cluster |-> c, directory |-> d]
Path(d, s, n) == [device |-> d, separator |-> s, name |-> n]

SmallRoot == 0 :> << Dir("docs", 5, TRUE), Dir("krnl", 2, FALSE), Dir("docs", 4, FALSE) >>
             @@ 1 :> << Dir("krnldr", 4, FALSE), Dir("krnl", 5, FALSE) >>

RootPaths == {Path("a", FALSE, "krnldr"), Path("a", FALSE, "krnl"), Path("a", FALSE, "docs"),
              Path("a", FALSE, "missing"), Path("b", FALSE, "krnl"), Path("a", TRUE, "krnl")}
===========================================================================
