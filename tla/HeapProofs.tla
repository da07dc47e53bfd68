----------------------------- MODULE HeapProofs -----------------------------
(***************************************************************************)
(* Proofs about Heap, for every size of page, of header and of request and *)
(* every number of pages: no assumption is made on the sequence of calls.  *)
(* What is proved of the list holds up to the first call that uses memory  *)
(* the heap does not have, which nothing in malloc.c prevents.             *)
(***************************************************************************)
EXTENDS Heap, WellFoundedInduction, TLAPS

---------------------------------------------------------------------------
(* The invariant.                                                          *)

(* In memory m, from block a of the blocks B the list goes on where a      *)
(* ends, or a is the last block and ends where the heap does.              *)
Linked(m, B, end, a) ==
  \/ /\ m[a + 2] = 0
     /\ a + Header + m[a] = end
     /\ \A b \in B : b <= a
  \/ /\ m[a + 2] \in B
     /\ m[a + 2] = a + Header + m[a]
     /\ \A b \in B : b <= a \/ m[a + 2] <= b

List(m, B, end) ==
  /\ malloc_list_head \in B
  /\ m[malloc_list_head] > 0
  /\ B \subseteq 0 .. (MemSize - Header)
  /\ \A a \in B : a + Header + m[a] <= end /\ Linked(m, B, end, a)

(* While the search runs, no block before cur will do.                     *)
Searching ==
  /\ malloc_iniited
  /\ arg \in Requests /\ arg > 0
  /\ cur \in blocks
  /\ \A a \in blocks : a < cur /\ free(mem, a) => size(mem, a) < arg

(* While free walks the list, the block it looks for is still before it.   *)
Releasing ==
  /\ malloc_iniited
  /\ cur \in blocks
  /\ \E b \in blocks : arg = b + Header /\ cur <= b

(* The list, and the loops over it, of a heap that keeps to its memory.    *)
InBounds ==
  /\ pages + total_malloc_pages = FreePages
  /\ malloc_iniited => List(mem, blocks, total_malloc_pages * PAGE_SIZE)
  /\ \A i \in 1 .. Len(live) : \E b \in blocks : live[i].ptr = b + Header
  /\ pc = "search" => Searching
  /\ pc = "release" => Releasing

IInv ==
  /\ TypeOK
  /\ ~malloc_iniited => blocks = {} /\ live = <<>> /\ total_malloc_pages = 0
  /\ ~overrun => InBounds
  /\ pc = "release" => ~overrun

---------------------------------------------------------------------------
(* Arithmetic.                                                             *)

LEMMA Remainder ==
  ASSUME NEW a \in Int, NEW d \in Nat \ {0}
  PROVE  a % d \in 0 .. (d - 1)
BY SMT

LEMMA SmallRemainder ==
  ASSUME NEW d \in Nat \ {0}, NEW a \in 0 .. (d - 1)
  PROVE  a % d = a
BY SMT

LEMMA Quotient ==
  ASSUME NEW a \in Nat, NEW d \in Nat \ {0}
  PROVE  /\ a \div d \in Nat
         /\ a % d \in 0 .. (d - 1)
         /\ a = d * (a \div d) + (a % d)
BY SMT

LEMMA TimesGrows ==
  ASSUME NEW d \in Nat, NEW a \in Nat, NEW b \in Nat, a <= b
  PROVE  a * d \in Nat /\ b * d \in Nat /\ a * d <= b * d
BY SMT

LEMMA TimesAdds ==
  ASSUME NEW d \in Nat, NEW a \in Int, NEW b \in Int
  PROVE  (a + b) * d = a * d + b * d /\ (a - b) * d = a * d - b * d
BY SMT

LEMMA PartOfSum ==
  ASSUME NEW a \in Nat, NEW b \in Nat, NEW c \in Nat, a + b = c
  PROVE  a \in 0 .. c
OBVIOUS

LEMMA Sizes ==
  /\ Header \in Nat /\ Header >= 3
  /\ PAGE_SIZE \in Nat /\ PAGE_SIZE > Header
  /\ UintMod \in Nat \ {0} /\ UintMod \in Nat
  /\ MemSize \in Nat /\ MemSize > Header /\ MemSize <= UintMod
  /\ FreePages \in Nat
  /\ Requests \subseteq Nat
<1>1. 1 * PAGE_SIZE <= FreePages * PAGE_SIZE /\ FreePages * PAGE_SIZE \in Nat
  BY HeapAssumption, TimesGrows
<1> QED
  BY <1>1, HeapAssumption DEF MemSize

\* Pages that the physical memory manager has lie in the memory modelled.
LEMMA PagesInMemory ==
  ASSUME NEW total \in Nat, total <= FreePages
  PROVE  total * PAGE_SIZE \in 0 .. MemSize
BY Sizes, TimesGrows DEF MemSize

---------------------------------------------------------------------------
(* Pages.                                                                  *)

\* There is a least count of pages that makes room.
LEMMA PageCountIsNat ==
  ASSUME NEW have \in Nat, NEW bytes \in Nat
  PROVE  PageCount(have, bytes) \in Nat
<1> DEFINE T == {k \in 1 .. (bytes + Header) : have + k * PAGE_SIZE >= bytes + Header}
<1>1. bytes + Header \in T
  <2>1. (bytes + Header) * 1 <= (bytes + Header) * PAGE_SIZE
    BY Sizes
  <2> QED
    BY <2>1, Sizes
<1>2. PICK m \in T : \A k \in T : <<k, m>> \notin OpToRel(<, Nat)
  <2>1. T \subseteq Nat /\ T # {}
    BY <1>1
  <2> QED
    BY <2>1, NatLessThanWellFounded, WFMin
<1>3. ASSUME NEW k \in T PROVE m <= k
  <2>1. k \in Nat /\ m \in Nat
    OBVIOUS
  <2>2. <<k, m>> \notin {ss \in Nat \X Nat : ss[1] < ss[2]}
    BY <1>2 DEF OpToRel
  <2> QED
    BY <2>1, <2>2
<1>4. \A j \in 1 .. (m - 1) : have + j * PAGE_SIZE < bytes + Header
  <2> TAKE j \in 1 .. (m - 1)
  <2>1. j \notin T /\ j \in 1 .. (bytes + Header) /\ j < m
    BY <1>3, Sizes
  <2>2. j * PAGE_SIZE \in Nat
    BY Sizes, TimesGrows
  <2> QED
    BY <2>1, <2>2, Sizes
<1>5. PageCount(have, bytes) \in 1 .. (bytes + Header)
  BY <1>2, <1>4 DEF PageCount
<1> QED
  BY <1>5, Sizes

\* malloc_init takes a number of pages, though it may be none.
LEMMA PagesForIsNat ==
  ASSUME NEW bytes \in Nat
  PROVE  PagesFor(bytes) \in Nat
<1>1. bytes \div PAGE_SIZE \in Nat
  BY Sizes, Quotient
<1> QED
  BY <1>1 DEF PagesFor

---------------------------------------------------------------------------
(* Memory.                                                                 *)

Memory == [0 .. (MemSize - 1) -> 0 .. (UintMod - 1)]

\* Memory p is m with a header stored at a.
Stored(m, a, s, f, n, p) ==
  /\ p \in Memory
  /\ p[a] = s % UintMod /\ p[a + 1] = f /\ p[a + 2] = n
  /\ \A x \in 0 .. (MemSize - 1) : x < a \/ a + Header <= x => p[x] = m[x]

LEMMA PutStores ==
  ASSUME NEW m \in Memory, NEW a \in 0 .. (MemSize - Header),
         NEW s \in Int, NEW f \in {0, 1}, NEW n \in 0 .. (UintMod - 1)
  PROVE  Stored(m, a, s, f, n, Put(m, a, s, f, n))
<1> USE Sizes
<1> DEFINE v == s % UintMod
           p == [m EXCEPT ![a] = v, ![a + 1] = f, ![a + 2] = n]
<1>1. UintMod \in Nat \ {0} /\ UintMod \in Nat /\ MemSize \in Nat /\ MemSize <= UintMod
  BY Sizes
<1>2. v \in 0 .. (UintMod - 1)
  BY <1>1, Remainder
<1>3. Put(m, a, s, f, n) = p
  BY DEF Put
<1>4. a \in Nat /\ a + 2 < MemSize /\ a # a + 1 /\ a # a + 2 /\ a + 1 # a + 2
  BY <1>1, Sizes
<1>5. {a, a + 1, a + 2} \subseteq 0 .. (MemSize - 1) /\ f \in 0 .. (UintMod - 1)
  BY <1>1, <1>4
<1> HIDE DEF v
<1>6. p \in Memory /\ p[a] = v /\ p[a + 1] = f /\ p[a + 2] = n
  BY <1>2, <1>4, <1>5 DEF Memory
<1>7. ASSUME NEW x \in 0 .. (MemSize - 1), x < a \/ a + Header <= x
      PROVE  p[x] = m[x]
  <2>1. x # a /\ x # a + 1 /\ x # a + 2
    BY <1>4, <1>7
  <2> QED
    BY <2>1 DEF Memory
<1> HIDE DEF p
<1> QED
  BY <1>3, <1>6, <1>7 DEF v, Stored

\* Splitting a block that has room keeps the list and adds the new block.
LEMMA SplitKeepsList ==
  ASSUME NEW m \in Memory, NEW B \in SUBSET (0 .. (MemSize - Header)),
         NEW end \in 0 .. MemSize, List(m, B, end),
         NEW node \in B, NEW bytes \in Nat \ {0}, m[node] >= bytes + Header
  PROVE  LET s == malloc_split(m, node, bytes)
         IN /\ s \in Memory
            /\ List(s, B \cup {NewNode(node, bytes)}, end)
<1> USE Sizes
<1> DEFINE new == NewNode(node, bytes)
           rest == m[node] - bytes - Header
           p == Put(m, new, rest, 1, m[node + 2])
           s == Put(p, node, bytes, 0, new)
<1>0. UintMod \in Nat \ {0} /\ UintMod \in Nat /\ MemSize \in Nat /\ MemSize <= UintMod
  BY Sizes
<1>1. /\ node \in Nat /\ node + 2 < MemSize
      /\ m[node] \in 0 .. (UintMod - 1) /\ m[node + 2] \in 0 .. (UintMod - 1)
      /\ node + Header + m[node] <= end
      /\ rest \in 0 .. (UintMod - 1) /\ bytes \in 0 .. (UintMod - 1)
  <2>1. node \in Nat /\ node + 2 < MemSize
    BY <1>0, Sizes
  <2>2. m[node] \in 0 .. (UintMod - 1) /\ m[node + 2] \in 0 .. (UintMod - 1)
    BY <2>1, <1>0 DEF Memory
  <2>3. node + Header + m[node] <= end
    BY DEF List
  <2> QED
    BY <2>1, <2>2, <2>3, <1>0, Sizes
<1>2. new = node + bytes + Header /\ new \in 0 .. (MemSize - Header) /\ new \in 0 .. (UintMod - 1)
  <2>1. node + bytes + Header \in 0 .. (UintMod - 1) /\ node + bytes + Header <= MemSize - Header
    BY <1>0, <1>1, Sizes
  <2>2. (node + bytes + Header) % UintMod = node + bytes + Header
    BY <2>1, <1>0, SmallRemainder
  <2>3. node + bytes + Header \in 0 .. (MemSize - Header)
    BY <2>1, <1>0
  <2> QED
    BY <2>1, <2>2, <2>3 DEF NewNode
<1>3. /\ p \in Memory
      /\ p[new] = rest /\ p[new + 1] = 1 /\ p[new + 2] = m[node + 2]
      /\ \A x \in 0 .. (MemSize - 1) : x < new \/ new + Header <= x => p[x] = m[x]
  <2>1. rest % UintMod = rest
    BY <1>0, <1>1, SmallRemainder
  <2>2. new \in 0 .. (MemSize - Header) /\ rest \in Int /\ m[node + 2] \in 0 .. (UintMod - 1)
    BY <1>1, <1>2
  <2> HIDE DEF new, rest
  <2>3. 1 \in {0, 1}
    OBVIOUS
  <2>4. Stored(m, new, rest, 1, m[node + 2], p)
    BY <2>2, <2>3, PutStores
  <2> HIDE DEF p
  <2> QED
    BY <2>1, <2>4 DEF Stored
<1>4. /\ s \in Memory
      /\ s[node] = bytes /\ s[node + 1] = 0 /\ s[node + 2] = new
      /\ \A x \in 0 .. (MemSize - 1) : x < node \/ node + Header <= x => s[x] = p[x]
  <2>1. bytes % UintMod = bytes
    BY <1>0, <1>1, SmallRemainder
  <2>2. new \in 0 .. (UintMod - 1) /\ bytes \in Int /\ node \in 0 .. (MemSize - Header) /\ p \in Memory
    BY <1>2, <1>3
  <2> HIDE DEF p, new
  <2>3. 0 \in {0, 1}
    OBVIOUS
  <2>4. Stored(p, node, bytes, 0, new, s)
    BY <2>2, <2>3, PutStores
  <2> HIDE DEF s
  <2> QED
    BY <2>1, <2>4 DEF Stored
<1>5. malloc_split(m, node, bytes) = s
  BY DEF malloc_split, size, next
<1> HIDE DEF s, p, new
<1>6. s[new] = rest /\ s[new + 2] = m[node + 2]
  BY <1>0, <1>2, <1>3, <1>4, <1>1, Sizes
<1>7. ASSUME NEW b \in B, b # node
      PROVE  s[b] = m[b] /\ s[b + 2] = m[b + 2] /\ (b < node \/ new + Header <= b) /\ b # new
  <2>1. b \in Nat /\ b + 2 < MemSize /\ m[b] \in Nat
    BY <1>0, Sizes DEF Memory
  <2>2. b < node => b + Header <= node
    BY <2>1, <1>1, Sizes DEF List, Linked
  <2>3. node < b => new + Header <= b
    BY <2>1, <1>1, <1>2, Sizes DEF List, Linked
  <2>4. b + Header <= node \/ new + Header <= b
    BY <2>1, <2>2, <2>3, <1>1, <1>7
  <2> QED
    BY <2>1, <2>4, <1>0, <1>1, <1>2, <1>3, <1>4
<1> DEFINE C == B \cup {new}
<1>8. ASSUME NEW a \in C
      PROVE  a + Header + s[a] <= end /\ Linked(s, C, end, a)
  <2>1. CASE a = node
    <3>1. Linked(s, C, end, a)
      <4>1. \A b \in C : b <= node \/ new <= b
        BY <1>7, <1>1, <1>2
      <4> QED
        BY <2>1, <1>1, <1>2, <1>4, <4>1, Sizes DEF Linked
    <3> QED
      BY <2>1, <3>1, <1>1, <1>4, Sizes
  <2>2. CASE a = new
    <3>1. new + Header + rest = node + Header + m[node]
      BY <1>1, <1>2, Sizes
    <3>2. Linked(s, C, end, a)
      <4>1. CASE m[node + 2] = 0 /\ node + Header + m[node] = end /\ \A b \in B : b <= node
        <5>1. \A b \in C : b <= new
          BY <4>1, <1>1, <1>2
        <5> QED
          BY <4>1, <5>1, <3>1, <2>2, <1>6, <1>1, <1>2, Sizes DEF Linked
      <4>2. CASE /\ m[node + 2] \in B /\ m[node + 2] = node + Header + m[node]
                 /\ \A b \in B : b <= node \/ m[node + 2] <= b
        <5>1. \A b \in C : b <= new \/ m[node + 2] <= b
          BY <4>2, <1>1, <1>2
        <5> QED
          BY <4>2, <5>1, <3>1, <2>2, <1>6, <1>1, <1>2, Sizes DEF Linked
      <4> QED
        BY <4>1, <4>2, Sizes DEF List, Linked
    <3> QED
      BY <2>2, <3>1, <3>2, <1>1, <1>2, <1>6, Sizes
  <2>3. CASE a \in B /\ a # node
    <3>1. s[a] = m[a] /\ s[a + 2] = m[a + 2] /\ (a < node \/ new + Header <= a)
      BY <1>7, <2>3
    <3>2. a \in Nat /\ m[a] \in Nat
      BY <2>3, <1>0, Sizes DEF Memory
    <3>3. Linked(s, C, end, a)
      <4>1. CASE m[a + 2] = 0 /\ a + Header + m[a] = end /\ \A b \in B : b <= a
        <5>1. new + Header <= a
          BY <3>1, <3>2, <4>1, <1>1
        <5>2. \A b \in C : b <= a
          BY <4>1, <5>1, <3>2, <1>2
        <5> QED
          BY <4>1, <5>2, <3>1, Sizes DEF Linked
      <4>2. CASE /\ m[a + 2] \in B /\ m[a + 2] = a + Header + m[a]
                 /\ \A b \in B : b <= a \/ m[a + 2] <= b
        <5>1. new <= a \/ m[a + 2] <= new
          BY <3>1, <3>2, <4>2, <1>1, <1>2
        <5>2. \A b \in C : b <= a \/ m[a + 2] <= b
          BY <4>2, <5>1
        <5> QED
          BY <4>2, <5>2, <3>1, Sizes DEF Linked
      <4> QED
        BY <2>3, <4>1, <4>2, Sizes DEF List, Linked
    <3> QED
      BY <2>3, <3>1, <3>3 DEF List
  <2> QED
    BY <2>1, <2>2, <2>3
<1>9. malloc_list_head \in C /\ s[malloc_list_head] > 0
  <2>1. CASE node = 0
    BY <2>1, <1>4 DEF malloc_list_head, List
  <2>2. CASE node # 0
    BY <2>2, <1>7 DEF malloc_list_head, List
  <2> QED
    BY <2>1, <2>2
<1>10. List(s, C, end)
  BY <1>2, <1>8, <1>9 DEF List
<1> QED
  BY <1>2, <1>4, <1>5, <1>10 DEF new

\* Headers do not overlap.
LEMMA HeadersApart ==
  ASSUME NEW m \in Memory, NEW B \in SUBSET (0 .. (MemSize - Header)),
         NEW end \in 0 .. MemSize, List(m, B, end),
         NEW a \in B, NEW b \in B, a < b
  PROVE  a + Header <= b
<1> USE Sizes
<1>1. a \in Nat /\ b \in Nat /\ a + 2 < MemSize
  BY Sizes, Sizes
<1>2. m[a] \in Nat
  BY <1>1, Sizes DEF Memory
<1> QED
  BY <1>1, <1>2, Sizes DEF List, Linked

GrownBy(m, node, w) == [m EXCEPT ![node] = (m[node] + w * PAGE_SIZE) % UintMod]

\* Pages added to the last block keep the list.
LEMMA GrowKeepsList ==
  ASSUME 
         NEW m \in Memory, NEW B \in SUBSET (0 .. (MemSize - Header)),
         NEW end \in 0 .. MemSize, List(m, B, end),
         NEW node \in B, m[node + 2] = 0, NEW w \in Nat, end + w * PAGE_SIZE <= MemSize
  PROVE  /\ GrownBy(m, node, w) \in Memory
         /\ GrownBy(m, node, w)[node] = m[node] + w * PAGE_SIZE
         /\ List(GrownBy(m, node, w), B, end + w * PAGE_SIZE)
<1> USE Sizes
<1> DEFINE more == w * PAGE_SIZE
           v == (m[node] + more) % UintMod
           grown == [m EXCEPT ![node] = v]
<1>0. UintMod \in Nat \ {0} /\ UintMod \in Nat /\ MemSize \in Nat /\ MemSize <= UintMod /\ PAGE_SIZE \in Nat
  BY Sizes
<1>1. more \in Nat
  BY <1>0, TimesGrows
<1>2. node \in 0 .. (MemSize - 1) /\ node \in Nat /\ node + 2 < MemSize /\ m[node] \in Nat
  BY <1>0, Sizes DEF Memory
<1>3. node + Header + m[node] = end /\ \A b \in B : b <= node
  BY <1>2, Sizes DEF List, Linked
<1>5. v = m[node] + more /\ v \in 0 .. (UintMod - 1)
  <2>1. m[node] + more \in 0 .. (UintMod - 1)
    BY <1>0, <1>1, <1>2, <1>3
  <2> QED
    BY <2>1, <1>0, SmallRemainder
<1> HIDE DEF v, more
<1>6. /\ grown \in Memory /\ grown[node] = m[node] + more
      /\ \A x \in 0 .. (MemSize - 1) : x # node => grown[x] = m[x]
  BY <1>2, <1>5 DEF Memory
<1>7. GrownBy(m, node, w) = grown
  BY DEF GrownBy, v, more
<1> HIDE DEF grown
<1>8. grown[node + 2] = 0
  BY <1>0, <1>2, <1>6
<1>9. ASSUME NEW a \in B
      PROVE  /\ a + Header + grown[a] <= end + more
             /\ Linked(grown, B, end + more, a)
  <2>0. a \in Nat /\ a + 2 < MemSize /\ m[a] \in Nat
    BY <1>0, Sizes DEF Memory
  <2>1. CASE a = node
    <3> QED
      BY <2>1, <1>1, <1>2, <1>3, <1>6, <1>8, Sizes DEF Linked
  <2>2. CASE a # node
    <3>1. a < node
      BY <2>0, <2>2, <1>2, <1>3
    <3>2. a + Header <= node
      BY <3>1, HeadersApart
    <3>3. grown[a] = m[a] /\ grown[a + 2] = m[a + 2]
      BY <1>0, <2>0, <3>2, <1>2, <1>6
    <3>4. /\ m[a + 2] \in B /\ m[a + 2] = a + Header + m[a]
          /\ \A b \in B : b <= a \/ m[a + 2] <= b
      BY <2>0, <3>1, <1>2 DEF List, Linked
    <3>5. a + Header + m[a] <= end
      BY DEF List
    <3> QED
      BY <2>0, <3>3, <3>4, <3>5, <1>1, Sizes DEF Linked
  <2> QED
    BY <2>1, <2>2
<1>10. malloc_list_head \in B /\ grown[malloc_list_head] > 0
  <2>1. malloc_list_head \in B /\ m[malloc_list_head] > 0 /\ malloc_list_head \in 0 .. (MemSize - 1)
    BY <1>0 DEF List, malloc_list_head
  <2> QED
    BY <2>1, <1>1, <1>2, <1>6
<1> QED
  BY <1>6, <1>7, <1>8, <1>9, <1>10 DEF List, more

\* A flag written into a block's header keeps the list.
LEMMA FlagKeepsList ==
  ASSUME NEW m \in Memory, NEW B \in SUBSET (0 .. (MemSize - Header)),
         NEW end \in 0 .. MemSize, List(m, B, end),
         NEW node \in B, NEW f \in {0, 1}
  PROVE  LET flagged == [m EXCEPT ![node + 1] = f]
         IN flagged \in Memory /\ List(flagged, B, end)
<1> USE Sizes
<1> DEFINE flagged == [m EXCEPT ![node + 1] = f]
<1>0. UintMod \in Nat /\ MemSize \in Nat /\ MemSize <= UintMod
  BY Sizes
<1>1. node \in Nat /\ node + 2 < MemSize /\ f \in 0 .. (UintMod - 1)
  BY <1>0, Sizes
<1>2. /\ flagged \in Memory
      /\ \A x \in 0 .. (MemSize - 1) : x # node + 1 => flagged[x] = m[x]
  BY <1>1 DEF Memory
<1> HIDE DEF flagged
<1>3. ASSUME NEW a \in B PROVE flagged[a] = m[a] /\ flagged[a + 2] = m[a + 2]
  <2>1. a \in Nat /\ a + 2 < MemSize
    BY <1>0, Sizes
  <2>2. a = node \/ a + Header <= node \/ node + Header <= a
    BY <2>1, <1>1, HeadersApart
  <2> QED
    BY <1>0, <2>1, <2>2, <1>1, <1>2
<1>4. List(flagged, B, end)
  BY <1>3 DEF List, Linked
<1> QED
  BY <1>2, <1>4 DEF flagged

\* What malloc_init makes of any memory is a list of one block.
LEMMA InitMakesList ==
  ASSUME NEW m \in Memory,
         NEW total \in Nat \ {0}, total * PAGE_SIZE <= MemSize
  PROVE  LET made == Put(m, malloc_list_head, total * PAGE_SIZE - Header, 1, 0)
         IN made \in Memory /\ List(made, {malloc_list_head}, total * PAGE_SIZE)
<1> USE Sizes
<1> DEFINE end == total * PAGE_SIZE
           made == Put(m, malloc_list_head, end - Header, 1, 0)
<1>0. /\ UintMod \in Nat \ {0} /\ UintMod \in Nat /\ MemSize \in Nat /\ MemSize <= UintMod
      /\ PAGE_SIZE \in Nat /\ PAGE_SIZE > Header
  BY Sizes
<1>1. end \in Nat /\ end > Header
  <2>1. 1 * PAGE_SIZE <= total * PAGE_SIZE /\ total * PAGE_SIZE \in Nat
    BY <1>0, TimesGrows
  <2> QED
    BY <2>1, <1>0
<1> HIDE DEF end
<1>3. Stored(m, malloc_list_head, end - Header, 1, 0, made)
  <2>1. /\ malloc_list_head \in 0 .. (MemSize - Header)
        /\ end - Header \in Int /\ 1 \in {0, 1} /\ 0 \in 0 .. (UintMod - 1)
    BY <1>0, <1>1, Sizes DEF malloc_list_head
  <2> QED
    BY <2>1, PutStores
<1> HIDE DEF made
<1>4. (end - Header) % UintMod = end - Header
  <2>1. end - Header \in 0 .. (UintMod - 1)
    BY <1>0, <1>1, Sizes DEF end
  <2> QED
    BY <2>1, <1>0, SmallRemainder
<1>5. made \in Memory /\ made[0] = end - Header /\ made[2] = 0
  BY <1>3, <1>4, Sizes DEF Stored, malloc_list_head
<1>7. List(made, {malloc_list_head}, end)
  BY <1>1, <1>5, Sizes DEF List, Linked, malloc_list_head
<1> QED
  BY <1>5, <1>7 DEF made, end

\* The merging loop ends before its first turn.
LEMMA MergeDoesNothing ==
  ASSUME NEW m
  PROVE  merge_free_blocks(m) = m
BY DEF merge_free_blocks, malloc_list_head

\* Whatever the address and the values, a store leaves memory memory.
LEMMA PutTyped ==
  ASSUME NEW m \in Memory, NEW a \in Nat, NEW s \in Int, NEW f \in {0, 1},
         NEW n \in 0 .. (UintMod - 1)
  PROVE  Put(m, a, s, f, n) \in Memory
<1> DEFINE v == s % UintMod
<1>1. v \in 0 .. (UintMod - 1) /\ f \in 0 .. (UintMod - 1)
  <2>1. f \in Nat /\ f <= 1 /\ UintMod > 3
    BY Sizes
  <2> QED
    BY <2>1, Sizes, Remainder
<1> HIDE DEF v
<1>2. [m EXCEPT ![a] = v, ![a + 1] = f, ![a + 2] = n] \in Memory
  BY <1>1 DEF Memory
<1> QED
  BY <1>2 DEF Put, v

LEMMA SplitTyped ==
  ASSUME NEW m \in Memory, NEW node \in 0 .. (MemSize - Header), NEW bytes \in Nat
  PROVE  /\ malloc_split(m, node, bytes) \in Memory
         /\ NewNode(node, bytes) \in 0 .. (UintMod - 1)
<1> DEFINE new == NewNode(node, bytes)
           rest == m[node] - bytes - Header
           p == Put(m, new, rest, 1, m[node + 2])
<1>1. new \in 0 .. (UintMod - 1)
  <2>1. node + bytes + Header \in Int
    BY Sizes
  <2> QED
    BY <2>1, Sizes, Remainder DEF NewNode
<1>2. node \in Nat /\ m[node] \in Nat /\ m[node + 2] \in 0 .. (UintMod - 1)
  BY Sizes DEF Memory
<1>3. rest \in Int /\ new \in Nat
  BY <1>1, <1>2, Sizes
<1>4. malloc_split(m, node, bytes) = Put(p, node, bytes, 0, new)
  BY DEF malloc_split, size, next
<1> HIDE DEF new, rest
<1>5. p \in Memory
  BY <1>2, <1>3, PutTyped
<1> HIDE DEF p
<1>6. Put(p, node, bytes, 0, new) \in Memory
  BY <1>1, <1>2, <1>5, PutTyped
<1> QED
  BY <1>1, <1>4, <1>6 DEF new

---------------------------------------------------------------------------
(* The invariant holds.                                                    *)

LEMMA Start ==
  ASSUME Init
  PROVE  IInv
<1>1. TypeOK
  <2>1. mem \in [0 .. (MemSize - 1) -> 0 .. (UintMod - 1)]
    BY Sizes DEF Init
  <2>2. live \in Seq([ptr : Nat, size : Requests])
    BY DEF Init
  <2>3. pages \in 0 .. FreePages
    BY Sizes DEF Init
  <2> QED
    BY <2>1, <2>2, <2>3 DEF Init, TypeOK, malloc_list_head
<1>2. InBounds
  <2>1. Len(live) = 0
    BY DEF Init
  <2> QED
    BY <2>1, Sizes DEF Init, InBounds
<1> QED
  BY <1>1, <1>2 DEF Init, IInv

\* A heap as the operations leave it: within its memory, the blocks are a list.
Sound(h) ==
  /\ h = Heap(h.mem, h.total, h.left, h.over, h.made)
  /\ h.mem \in Memory
  /\ h.made \in SUBSET (0 .. (UintMod - 1))
  /\ h.total \in Nat /\ h.left \in 0 .. FreePages /\ h.over \in BOOLEAN
  /\ ~h.over => /\ h.left + h.total = FreePages
                /\ List(h.mem, h.made, h.total * PAGE_SIZE)

LEMMA SoundHeap ==
  ASSUME NEW m \in Memory, NEW B \in SUBSET (0 .. (UintMod - 1)),
         NEW total \in Nat, NEW left \in 0 .. FreePages, NEW over \in BOOLEAN,
         ~over => left + total = FreePages /\ List(m, B, total * PAGE_SIZE)
  PROVE  Sound(Heap(m, total, left, over, B))
BY DEF Sound, Heap

\* malloc_init makes a list of one block, or asks for pages it cannot have.
LEMMA InitSound ==
  ASSUME NEW h, h.mem \in Memory, h.left = FreePages, h.made \in SUBSET {malloc_list_head},
         NEW bytes \in Nat
  PROVE  /\ Sound(malloc_init(h, bytes))
         /\ malloc_init(h, bytes).made = {malloc_list_head}
         /\ malloc_init(h, bytes).over => malloc_init(h, bytes).left = FreePages
<1> DEFINE total == PagesFor(bytes)
           made == Put(h.mem, malloc_list_head, total * PAGE_SIZE - Header, 1, 0)
           left == IF total <= FreePages THEN FreePages - total ELSE FreePages
           over == total > FreePages \/ total = 0
<1>1. total \in Nat
  BY PagesForIsNat
<1>2. malloc_init(h, bytes) = Heap(made, total, left, over, {malloc_list_head})
  BY DEF malloc_init
<1> HIDE DEF total
<1>3. made \in Memory
  <2>1. total * PAGE_SIZE \in Nat
    BY <1>1, Sizes, TimesGrows
  <2>2. malloc_list_head \in Nat /\ total * PAGE_SIZE - Header \in Int /\ 0 \in 0 .. (UintMod - 1)
    BY <2>1, Sizes DEF malloc_list_head
  <2> QED
    BY <2>2, PutTyped
<1>4. left \in 0 .. FreePages /\ (over => left = FreePages) /\ over \in BOOLEAN
  BY <1>1, Sizes
<1>5. ASSUME ~over
      PROVE  left + total = FreePages /\ List(made, {malloc_list_head}, total * PAGE_SIZE)
  <2>1. total \in Nat \ {0} /\ total <= FreePages
    BY <1>1, <1>5, Sizes
  <2>2. total * PAGE_SIZE <= MemSize
    BY <2>1, PagesInMemory, Sizes
  <2>3. List(made, {malloc_list_head}, total * PAGE_SIZE)
    BY <2>1, <2>2, InitMakesList
  <2> QED
    BY <2>1, <2>3, Sizes
<1>6. {malloc_list_head} \in SUBSET (0 .. (UintMod - 1))
  BY Sizes DEF malloc_list_head
<1> HIDE DEF made, left, over
<1>7. Sound(Heap(made, total, left, over, {malloc_list_head}))
  BY <1>1, <1>3, <1>4, <1>5, <1>6, SoundHeap
<1>8. /\ Heap(made, total, left, over, {malloc_list_head}).made = {malloc_list_head}
      /\ Heap(made, total, left, over, {malloc_list_head}).left = left
      /\ Heap(made, total, left, over, {malloc_list_head}).over = over
  BY DEF Heap
<1> QED
  BY <1>2, <1>4, <1>7, <1>8

\* The heap as it is.
LEMMA NowSound ==
  ASSUME IInv, malloc_iniited
  PROVE  /\ Sound(Now)
         /\ Now.mem = mem /\ Now.total = total_malloc_pages /\ Now.left = pages
         /\ Now.over = overrun /\ Now.made = blocks
<1>1. /\ mem \in Memory /\ blocks \in SUBSET (0 .. (UintMod - 1)) /\ total_malloc_pages \in Nat
      /\ pages \in 0 .. FreePages /\ overrun \in BOOLEAN
      /\ ~overrun => /\ pages + total_malloc_pages = FreePages
                     /\ List(mem, blocks, total_malloc_pages * PAGE_SIZE)
  BY DEF IInv, TypeOK, Memory, InBounds
<1>2. Sound(Now)
  BY <1>1, SoundHeap DEF Now
<1> QED
  BY <1>2 DEF Now, Heap

\* A call that leaves a sound heap in which the old blocks are blocks still.
LEMMA CallKeepsInvariant ==
  ASSUME IInv, NEW h, Sound(h), Becomes(h), blocks \subseteq h.made, malloc_iniited' = TRUE,
         cur' \in Nat, arg' \in Nat, live' \in Seq([ptr : Nat, size : Requests]),
         pc' \in {"user", "search"},
         ~overrun' => (pc' = "search" => Searching'),
         ~overrun' => \A i \in 1 .. Len(live') : \E b \in blocks' : live'[i].ptr = b + Header
  PROVE  IInv'
<1>1. /\ mem' = h.mem /\ total_malloc_pages' = h.total /\ pages' = h.left
      /\ overrun' = h.over /\ blocks' = h.made
  BY DEF Becomes
<1>2. TypeOK'
  BY <1>1 DEF TypeOK, Sound, Memory
<1>3. ~overrun' => InBounds'
  BY <1>1 DEF InBounds, Sound
<1> QED
  BY <1>2, <1>3 DEF IInv

LEMMA MallocStep ==
  ASSUME IInv, NEW bytes \in Requests, syscall_malloc(bytes)
  PROVE  IInv'
<1> DEFINE first == IF malloc_iniited THEN Now ELSE malloc_init(Now, bytes)
           h == IF size(first.mem, malloc_list_head) = 0 THEN malloc_init(first, bytes) ELSE first
<1>1. bytes \in Nat /\ ~overrun /\ TypeOK
  BY Sizes DEF syscall_malloc, At, IInv
<1>2. /\ Sound(first) /\ blocks \subseteq first.made
      /\ ~malloc_iniited => first.made = {malloc_list_head} /\ (first.over => first.left = FreePages)
      /\ malloc_iniited => ~first.over
  <2>1. CASE malloc_iniited
    BY <2>1, <1>1, NowSound
  <2>2. CASE ~malloc_iniited
    <3>1. Now.mem \in Memory /\ Now.left = FreePages /\ Now.made \in SUBSET {malloc_list_head}
      <4>1. /\ mem \in Memory /\ pages \in Nat /\ blocks = {} /\ total_malloc_pages = 0
            /\ pages + total_malloc_pages = FreePages
        BY <2>2, <1>1, Sizes DEF IInv, InBounds, TypeOK, Memory
      <4>2. pages = FreePages
        BY <4>1
      <4> QED
        BY <4>1, <4>2 DEF Now, Heap
    <3>2. blocks = {}
      BY <2>2 DEF IInv
    <3>3. first = malloc_init(Now, bytes)
      BY <2>2
    <3> HIDE DEF first
    <3> QED
      BY <2>2, <3>1, <3>2, <3>3, <1>1, InitSound
  <2> QED
    BY <2>1, <2>2
<1>3. /\ live' = live /\ malloc_iniited' = TRUE /\ cur' = 0
      /\ bytes = 0 => /\ pc' = "user" /\ arg' = 0
                      /\ Becomes([first EXCEPT !.mem = merge_free_blocks(first.mem)])
      /\ bytes # 0 => pc' = "search" /\ arg' = bytes /\ Becomes(h)
  BY DEF syscall_malloc, Return, Enter, malloc_list_head
<1>4. live' \in Seq([ptr : Nat, size : Requests]) /\ cur' \in Nat /\ arg' \in Nat
  BY <1>1, <1>3 DEF TypeOK
<1>5. ASSUME NEW k, Becomes(k), blocks \subseteq k.made
      PROVE  \A i \in 1 .. Len(live') : \E b \in blocks' : live'[i].ptr = b + Header
  <2>1. blocks \subseteq blocks'
    BY <1>5 DEF Becomes
  <2> QED
    BY <2>1, <1>1, <1>3 DEF IInv, InBounds
<1> HIDE DEF first
<1>6. CASE bytes = 0
  <2>1. [first EXCEPT !.mem = first.mem] = first
    BY <1>2 DEF Sound, Heap
  <2>2. Becomes(first)
    BY <2>1, <1>3, <1>6, MergeDoesNothing
  <2> QED
    BY <2>2, <1>2, <1>3, <1>4, <1>5, <1>6, CallKeepsInvariant
<1>7. CASE bytes # 0
  <2>1. Sound(h) /\ blocks \subseteq h.made
    <3>1. CASE size(first.mem, malloc_list_head) # 0
      BY <3>1, <1>2
    <3>2. CASE size(first.mem, malloc_list_head) = 0
      <4>1. first.over
        BY <3>2, <1>2 DEF Sound, List, size
      <4>2. /\ first.mem \in Memory /\ first.left = FreePages
            /\ first.made \in SUBSET {malloc_list_head} /\ blocks \subseteq {malloc_list_head}
        BY <4>1, <1>2 DEF Sound
      <4> QED
        BY <3>2, <4>2, <1>1, InitSound
    <3> QED
      BY <3>1, <3>2
  <2>2. Becomes(h)
    BY <1>3, <1>7
  <2> HIDE DEF h
  <2>3. ASSUME ~overrun' PROVE Searching'
    <3>1. List(h.mem, h.made, h.total * PAGE_SIZE) /\ blocks' = h.made
      BY <2>1, <2>2, <2>3 DEF Sound, Becomes
    <3>2. cur' \in blocks' /\ \A a \in blocks' : ~(a < cur')
      <4>1. blocks' \subseteq Nat /\ 0 \in blocks'
        BY <3>1, Sizes DEF List, malloc_list_head
      <4> QED
        BY <4>1, <1>3
    <3> QED
      BY <3>2, <1>1, <1>3, <1>7 DEF Searching
  <2>4. \A i \in 1 .. Len(live') : \E b \in blocks' : live'[i].ptr = b + Header
    BY <2>1, <2>2, <1>5
  <2> QED
    BY <2>1, <2>2, <2>3, <2>4, <1>3, <1>4, <1>7, CallKeepsInvariant
<1> QED
  BY <1>6, <1>7

\* What the list says of one block.
LEMMA BlockFacts ==
  ASSUME IInv, ~overrun, malloc_iniited, NEW a \in blocks
  PROVE  /\ mem \in Memory /\ a \in Nat /\ a \in 0 .. (MemSize - Header)
         /\ mem[a] \in Nat /\ mem[a + 2] \in Nat
         /\ Linked(mem, blocks, total_malloc_pages * PAGE_SIZE, a)
<1>1. /\ mem \in Memory /\ a \in 0 .. (MemSize - Header)
      /\ Linked(mem, blocks, total_malloc_pages * PAGE_SIZE, a)
  BY DEF IInv, TypeOK, InBounds, List, Memory
<1>2. a \in 0 .. (MemSize - 1) /\ a + 2 \in 0 .. (MemSize - 1) /\ a \in Nat
  BY <1>1, Sizes
<1> QED
  BY <1>1, <1>2 DEF Memory

\* A turn of a loop: the next block is on the list.
LEMMA NextBlock ==
  ASSUME IInv, ~overrun, malloc_iniited, cur \in blocks, next(mem, cur) # 0
  PROVE  /\ next(mem, cur) \in blocks /\ next(mem, cur) \in Nat
         /\ \A b \in blocks : b <= cur \/ next(mem, cur) <= b
BY BlockFacts DEF Linked, next

LEMMA SearchStep ==
  ASSUME IInv, SearchNext
  PROVE  IInv'
<1>1. ~overrun /\ InBounds /\ pc = "search" /\ Searching /\ malloc_iniited /\ cur \in blocks
  BY DEF IInv, InBounds, SearchNext, At, Searching
<1>2. /\ cur' = next(mem, cur) /\ overrun' = overrun
      /\ mem' = mem /\ malloc_iniited' = malloc_iniited /\ total_malloc_pages' = total_malloc_pages
      /\ pages' = pages /\ blocks' = blocks /\ pc' = pc /\ arg' = arg /\ live' = live
      /\ next(mem, cur) # 0 /\ (size(mem, cur) < arg \/ ~free(mem, cur))
  BY DEF SearchNext, heap, PassesOver
<1>3. /\ next(mem, cur) \in blocks /\ next(mem, cur) \in Nat
      /\ \A b \in blocks : b <= cur \/ next(mem, cur) <= b
  BY <1>1, <1>2, NextBlock
<1>4. TypeOK'
  BY <1>2, <1>3 DEF IInv, TypeOK
<1>5. Searching'
  <2>1. ASSUME NEW a \in blocks, a < next(mem, cur), free(mem, a) PROVE size(mem, a) < arg
    <3>1. a \in Nat /\ cur \in Nat
      BY <1>1, BlockFacts
    <3>2. a < cur \/ a = cur
      BY <2>1, <1>3, <3>1
    <3> QED
      BY <2>1, <3>2, <1>1, <1>2 DEF Searching
  <2> QED
    BY <2>1, <1>1, <1>2, <1>3 DEF Searching, free, size
<1>6. InBounds'
  BY <1>1, <1>2, <1>5 DEF InBounds, List, Linked
<1> QED
  BY <1>1, <1>2, <1>4, <1>6 DEF IInv

\* The block found, as the rest of malloc leaves it: taken, split, or grown and
\* then split, which uses memory past the heap's when the room is not there.
LEMMA PlaceSound ==
  ASSUME IInv, ~overrun, Searching, ~PassesOver(mem, cur, arg)
  PROVE  /\ Sound(Place(Now, cur, arg))
         /\ blocks \subseteq Place(Now, cur, arg).made
<1> DEFINE T == total_malloc_pages
           new == NewNode(cur, arg)
<1>1. arg \in Nat \ {0} /\ arg \in Nat /\ cur \in blocks /\ malloc_iniited
  BY Sizes DEF Searching
<1>2. /\ mem \in Memory /\ blocks \in SUBSET (0 .. (MemSize - Header))
      /\ blocks \in SUBSET (0 .. (UintMod - 1))
      /\ T \in Nat /\ pages \in 0 .. FreePages /\ pages \in Nat /\ pages + T = FreePages
      /\ List(mem, blocks, T * PAGE_SIZE)
  <2>1. mem \in Memory /\ T \in Nat /\ pages \in 0 .. FreePages /\ blocks \in SUBSET (0 .. (UintMod - 1))
    BY DEF IInv, TypeOK, Memory
  <2>2. pages + T = FreePages /\ List(mem, blocks, T * PAGE_SIZE)
    BY <1>1 DEF IInv, InBounds
  <2>3. pages \in Nat
    BY <2>1, Sizes
  <2> QED
    BY <2>1, <2>2, <2>3 DEF List
<1>3. /\ cur \in Nat /\ mem[cur] \in Nat /\ cur \in 0 .. (MemSize - Header)
      /\ cur \in 0 .. (MemSize - 1)
  <2>1. cur \in Nat /\ mem[cur] \in Nat /\ cur \in 0 .. (MemSize - Header)
    BY <1>1, BlockFacts
  <2> QED
    BY <2>1, Sizes
<1>4. T * PAGE_SIZE \in 0 .. MemSize
  <2>1. T <= FreePages
    BY <1>2, Sizes
  <2> QED
    BY <2>1, <1>2, PagesInMemory
<1>5. Now = Heap(mem, T, pages, FALSE, blocks)
  <2>1. overrun = FALSE
    BY DEF IInv, TypeOK
  <2> QED
    BY <2>1 DEF Now
<1>6. new \in 0 .. (UintMod - 1) /\ blocks \cup {new} \in SUBSET (0 .. (UintMod - 1))
  <2>1. new \in 0 .. (UintMod - 1)
    BY <1>1, <1>2, <1>3, SplitTyped
  <2> HIDE DEF new
  <2> QED
    BY <2>1, <1>2
<1>7. CASE mem[cur] = arg
  <2>1. Place(Now, cur, arg) = Heap([mem EXCEPT ![cur + 1] = 0], T, pages, FALSE, blocks)
    <3>1. ~(mem[cur] > arg) /\ ~(mem[cur] < arg)
      BY <1>1, <1>3, <1>7
    <3>2. Now.mem = mem
      BY <1>5 DEF Heap
    <3>3. Place(Now, cur, arg) = [Now EXCEPT !.mem[cur + 1] = 0]
      BY <3>1, <3>2, <1>7 DEF Place, size
    <3> QED
      BY <3>3, <1>5 DEF Heap
  <2>2. [mem EXCEPT ![cur + 1] = 0] \in Memory /\ List([mem EXCEPT ![cur + 1] = 0], blocks, T * PAGE_SIZE)
    BY <1>1, <1>2, <1>4, FlagKeepsList
  <2>3. Sound(Heap([mem EXCEPT ![cur + 1] = 0], T, pages, FALSE, blocks))
    BY <2>2, <1>2, SoundHeap
  <2> QED
    BY <2>1, <2>3 DEF Heap
<1>8. CASE mem[cur] > arg
  <2> DEFINE s == malloc_split(mem, cur, arg)
             over == NoRoom(mem, cur, arg)
  <2>1. Place(Now, cur, arg) = Heap(s, T, pages, over, blocks \cup {new})
    <3>1. ~(mem[cur] = arg) /\ ~(mem[cur] < arg)
      BY <1>1, <1>3, <1>8
    <3> QED
      BY <3>1, <1>5, <1>8 DEF Place, size, Heap
  <2>2. s \in Memory /\ over \in BOOLEAN
    BY <1>1, <1>2, <1>3, SplitTyped DEF NoRoom
  <2>3. ASSUME ~over PROVE List(s, blocks \cup {new}, T * PAGE_SIZE)
    <3>1. mem[cur] >= arg + Header
      BY <2>3, <1>1, <1>3, Sizes DEF NoRoom, size
    <3> QED
      BY <3>1, <1>1, <1>2, <1>4, SplitKeepsList
  <2> HIDE DEF s, over, new
  <2>4. Sound(Heap(s, T, pages, over, blocks \cup {new}))
    BY <2>2, <2>3, <1>2, <1>6, SoundHeap
  <2> QED
    BY <2>1, <2>4 DEF Heap
<1>9. CASE mem[cur] < arg
  <2> DEFINE wanted == PageCount(mem[cur], arg)
             got == IF wanted <= pages THEN wanted ELSE pages
             grown == GrownBy(mem, cur, got)
             s == malloc_split(grown, cur, arg)
             over == NoRoom(grown, cur, arg)
             end == T * PAGE_SIZE + got * PAGE_SIZE
  <2>1. mem[cur + 2] = 0
    BY <1>9, <1>1, <1>3 DEF PassesOver, size, next
  <2>2. wanted \in Nat
    BY <1>1, <1>3, PageCountIsNat
  <2>3. Place(Now, cur, arg) = Heap(s, T + got, pages - got, over, blocks \cup {new})
    <3>1. Place(Now, cur, arg) = Grow(Now, cur, arg)
      BY <1>1, <1>3, <1>5, <1>9 DEF Place, size, Heap
    <3>2. Now.mem = mem /\ Now.total = T /\ Now.left = pages /\ Now.made = blocks
      BY <1>5 DEF Heap
    <3> QED
      BY <3>1, <3>2 DEF Grow, GrownBy, size
  <2> HIDE DEF wanted
  <2>4. /\ got \in Nat /\ T + got \in Nat /\ T + got <= FreePages
        /\ pages - got \in 0 .. FreePages /\ (pages - got) + (T + got) = FreePages
    BY <2>2, <1>2, Sizes
  <2> HIDE DEF got
  <2>5. (T + got) * PAGE_SIZE = end /\ end \in 0 .. MemSize /\ end <= MemSize
    <3>1. (T + got) * PAGE_SIZE \in 0 .. MemSize
      BY <2>4, PagesInMemory
    <3>2. (T + got) * PAGE_SIZE = end
      BY <2>4, <1>2, Sizes, TimesAdds
    <3> QED
      BY <3>1, <3>2, Sizes
  <2>6. grown \in Memory /\ List(grown, blocks, end)
    BY <2>1, <2>4, <2>5, <1>1, <1>2, <1>4, GrowKeepsList
  <2>7. grown[cur] \in Nat
    BY <2>6, <1>3, Sizes DEF Memory
  <2> HIDE DEF grown, end
  <2>8. s \in Memory /\ over \in BOOLEAN
    BY <2>6, <1>1, <1>3, SplitTyped DEF NoRoom
  <2>9. ASSUME ~over PROVE List(s, blocks \cup {new}, (T + got) * PAGE_SIZE)
    <3>1. grown[cur] >= arg + Header
      BY <2>7, <2>9, <1>1, Sizes DEF NoRoom, size
    <3> QED
      BY <3>1, <2>5, <2>6, <1>1, <1>2, SplitKeepsList
  <2> HIDE DEF s, over, new
  <2>10. Sound(Heap(s, T + got, pages - got, over, blocks \cup {new}))
    BY <2>4, <2>8, <2>9, <1>6, SoundHeap
  <2> QED
    BY <2>3, <2>10 DEF Heap
<1> QED
  BY <1>1, <1>3, <1>7, <1>8, <1>9

LEMMA NextBlockStep ==
  ASSUME IInv, malloc_next_block
  PROVE  IInv'
<1> DEFINE h == Place(Now, cur, arg)
           E == [ptr : Nat, size : Requests]
           e == [ptr |-> cur + Header, size |-> arg]
<1>1. /\ ~overrun /\ InBounds /\ Searching /\ malloc_iniited /\ arg \in Requests
      /\ cur \in Nat /\ cur \in blocks /\ live \in Seq(E)
  BY DEF IInv, InBounds, TypeOK, malloc_next_block, At, Searching
<1>2. Sound(h) /\ blocks \subseteq h.made
  BY <1>1, PlaceSound DEF malloc_next_block
<1>3. Becomes(h)
  <2>1. Becomes([h EXCEPT !.mem = merge_free_blocks(h.mem)])
    BY DEF malloc_next_block
  <2> HIDE DEF h
  <2>2. [h EXCEPT !.mem = h.mem] = h
    BY <1>2 DEF Sound, Heap
  <2> QED
    BY <2>1, <2>2, MergeDoesNothing
<1> HIDE DEF h
<1>4. /\ pc' = "user" /\ cur' = 0 /\ arg' = 0 /\ malloc_iniited' = TRUE /\ live' = Append(live, e)
  BY <1>1 DEF malloc_next_block, Return, Enter, malloc_list_head
<1>5. e \in E /\ live' \in Seq(E) /\ Len(live') = Len(live) + 1 /\ Len(live) \in Nat
  <2>1. e \in E
    BY <1>1, Sizes
  <2> HIDE DEF E, e
  <2> QED
    BY <2>1, <1>1, <1>4
<1>6. ASSUME NEW i \in 1 .. Len(live') PROVE \E b \in blocks' : live'[i].ptr = b + Header
  <2>1. blocks \subseteq blocks'
    BY <1>2, <1>3 DEF Becomes
  <2>2. CASE i = Len(live) + 1
    <3>1. live'[i] = e
      BY <2>2, <1>1, <1>4, <1>5
    <3> QED
      BY <3>1, <2>1, <1>1
  <2>3. CASE i \in 1 .. Len(live)
    <3>1. live'[i] = live[i]
      BY <2>3, <1>1, <1>4, <1>5
    <3> QED
      BY <3>1, <2>1, <2>3, <1>1 DEF InBounds
  <2> QED
    BY <2>2, <2>3, <1>5
<1> QED
  BY <1>2, <1>3, <1>4, <1>5, <1>6, CallKeepsInvariant

LEMMA FreeCallStep ==
  ASSUME IInv, NEW i \in 1 .. Len(live), syscall_free(i)
  PROVE  IInv'
<1> DEFINE E == [ptr : Nat, size : Requests]
<1>1. live \in Seq(E) /\ Len(live) \in Nat /\ ~overrun /\ InBounds
  BY DEF IInv, TypeOK, syscall_free, At
<1> HIDE DEF E
<1>2. malloc_iniited
  <2>1. CASE live = <<>>
    <3>1. Len(live) = 0
      BY <2>1
    <3> QED
      BY <3>1
  <2> QED
    BY <2>1 DEF IInv
<1>3. /\ mem' = mem /\ malloc_iniited' = malloc_iniited /\ total_malloc_pages' = total_malloc_pages
      /\ pages' = pages /\ blocks' = blocks /\ overrun' = overrun
      /\ pc' = "release" /\ cur' = malloc_list_head /\ arg' = live[i].ptr
      /\ live' = [j \in 1 .. (Len(live) - 1) |-> IF j < i THEN live[j] ELSE live[j + 1]]
  BY DEF syscall_free, Enter, heap
<1>4. live' \in Seq(E) /\ Len(live') = Len(live) - 1
  <2>1. \A j \in 1 .. (Len(live) - 1) : live[j] \in E /\ live[j + 1] \in E
    BY <1>1
  <2>2. live' \in [1 .. (Len(live) - 1) -> E] /\ Len(live) - 1 \in Nat
    BY <2>1, <1>1, <1>3
  <2> QED
    BY <2>2
<1>5. arg' \in Nat
  <2>1. live[i] \in E
    BY <1>1
  <2> QED
    BY <2>1, <1>3 DEF E
<1>6. malloc_list_head \in blocks /\ blocks \subseteq Nat
  BY <1>1, <1>2, Sizes DEF InBounds, List
<1>7. TypeOK'
  BY <1>3, <1>4, <1>5 DEF IInv, TypeOK, malloc_list_head, E
<1>8. Releasing'
  <2>1. PICK b \in blocks : live[i].ptr = b + Header
    BY <1>1 DEF InBounds
  <2>2. 0 <= b
    BY <1>6
  <2> QED
    BY <2>1, <2>2, <1>2, <1>3, <1>6 DEF Releasing, malloc_list_head
<1>9. ASSUME NEW j \in 1 .. Len(live') PROVE \E b \in blocks' : live'[j].ptr = b + Header
  <2>1. j \in 1 .. Len(live) /\ j + 1 \in 1 .. Len(live) /\ j \in 1 .. (Len(live) - 1)
    BY <1>1, <1>4
  <2>2. live'[j] = live[j] \/ live'[j] = live[j + 1]
    BY <2>1, <1>3
  <2> QED
    BY <2>1, <2>2, <1>1, <1>3 DEF InBounds
<1>10. InBounds'
  BY <1>1, <1>3, <1>8, <1>9 DEF InBounds, List, Linked
<1> QED
  BY <1>1, <1>2, <1>3, <1>7, <1>10 DEF IInv

LEMMA ReleaseStep ==
  ASSUME IInv, ReleaseNext
  PROVE  IInv'
<1>1. ~overrun /\ InBounds /\ Releasing /\ malloc_iniited /\ cur \in blocks /\ pc = "release"
  BY DEF IInv, InBounds, Releasing, ReleaseNext, At
<1>2. /\ cur' = next(mem, cur) /\ next(mem, cur) # 0 /\ cur + Header # arg /\ overrun' = overrun
      /\ mem' = mem /\ malloc_iniited' = malloc_iniited /\ total_malloc_pages' = total_malloc_pages
      /\ pages' = pages /\ blocks' = blocks /\ pc' = pc /\ arg' = arg /\ live' = live
  BY DEF ReleaseNext, heap
<1>3. /\ next(mem, cur) \in blocks /\ next(mem, cur) \in Nat
      /\ \A b \in blocks : b <= cur \/ next(mem, cur) <= b
  BY <1>1, <1>2, NextBlock
<1>4. TypeOK'
  BY <1>2, <1>3 DEF IInv, TypeOK
<1>5. Releasing'
  <2>1. PICK b \in blocks : arg = b + Header /\ cur <= b
    BY <1>1 DEF Releasing
  <2>2. b \in Nat /\ cur \in Nat /\ b # cur
    BY <2>1, <1>1, <1>2, BlockFacts
  <2>3. next(mem, cur) <= b
    BY <2>1, <2>2, <1>3
  <2> QED
    BY <2>1, <2>3, <1>1, <1>2, <1>3 DEF Releasing
<1>6. InBounds'
  BY <1>1, <1>2, <1>5 DEF InBounds, List, Linked
<1> QED
  BY <1>1, <1>2, <1>4, <1>6 DEF IInv

LEMMA FreeStep ==
  ASSUME IInv, malloc_free
  PROVE  IInv'
<1>1. ~overrun /\ InBounds /\ malloc_iniited /\ cur \in blocks /\ pc = "release"
  BY DEF IInv, InBounds, Releasing, malloc_free, At
<1>2. /\ malloc_iniited' = malloc_iniited /\ total_malloc_pages' = total_malloc_pages
      /\ pages' = pages /\ blocks' = blocks /\ live' = live /\ overrun' = overrun
      /\ pc' = "user" /\ cur' = 0 /\ arg' = 0
      /\ mem' = mem \/ mem' = [mem EXCEPT ![cur + 1] = 1]
  BY MergeDoesNothing DEF malloc_free, Return, Enter, malloc_list_head
<1>3. /\ mem \in Memory /\ blocks \in SUBSET (0 .. (MemSize - Header))
      /\ total_malloc_pages * PAGE_SIZE \in 0 .. MemSize
      /\ List(mem, blocks, total_malloc_pages * PAGE_SIZE)
  <2>1. total_malloc_pages \in Nat /\ total_malloc_pages <= FreePages
    BY <1>1, Sizes DEF IInv, TypeOK, InBounds
  <2> QED
    BY <1>1, <2>1, PagesInMemory DEF IInv, TypeOK, InBounds, List, Memory
<1>4. mem' \in Memory /\ List(mem', blocks, total_malloc_pages * PAGE_SIZE)
  <2>1. [mem EXCEPT ![cur + 1] = 1] \in Memory
        /\ List([mem EXCEPT ![cur + 1] = 1], blocks, total_malloc_pages * PAGE_SIZE)
    BY <1>1, <1>3, FlagKeepsList
  <2> QED
    BY <2>1, <1>2, <1>3
<1>5. TypeOK'
  BY <1>2, <1>4 DEF IInv, TypeOK, Memory
<1>6. InBounds'
  BY <1>1, <1>2, <1>4 DEF InBounds
<1> QED
  BY <1>1, <1>2, <1>5, <1>6 DEF IInv

LEMMA Invariance ==
  Spec => []IInv
<1>1. Init => IInv
  BY Start
<1>2. IInv /\ [Next]_vars => IInv'
  <2> SUFFICES ASSUME IInv, [Next]_vars PROVE IInv'
    OBVIOUS
  <2>1. ASSUME NEW bytes \in Requests, syscall_malloc(bytes) PROVE IInv'
    BY <2>1, MallocStep
  <2>2. CASE SearchNext
    BY <2>2, SearchStep
  <2>3. CASE malloc_next_block
    BY <2>3, NextBlockStep
  <2>4. ASSUME NEW i \in 1 .. Len(live), syscall_free(i) PROVE IInv'
    BY <2>4, FreeCallStep
  <2>5. CASE ReleaseNext
    BY <2>5, ReleaseStep
  <2>6. CASE malloc_free
    BY <2>6, FreeStep
  <2>7. CASE UNCHANGED vars
    BY <2>7 DEF vars, heap, call, IInv, InBounds, TypeOK, List, Linked, Searching, Releasing, free, size
  <2> QED
    BY <2>1, <2>2, <2>3, <2>4, <2>5, <2>6, <2>7 DEF Next
<1> QED
  BY <1>1, <1>2, PTL DEF Spec

---------------------------------------------------------------------------
(* The theorems.                                                           *)

(* Every value malloc.c stores fits its word, and it never takes more      *)
(* pages than the physical memory manager has, whatever clients ask for.   *)
THEOREM TypeCorrect == Spec => []TypeOK
<1>1. IInv => TypeOK
  BY DEF IInv
<1> QED
  BY <1>1, Invariance, PTL

(* However malloc and free split, grow and mark the blocks, these cover    *)
(* the heap's pages exactly, until a call uses memory that is not there.   *)
THEOREM BlocksTile == Spec => []BlocksTileHeap
<1>1. ASSUME IInv PROVE BlocksTileHeap
  <2>1. ASSUME ~overrun, NEW a \in blocks
        PROVE  a + Header + size(mem, a) =
                 IF next(mem, a) = 0 THEN total_malloc_pages * PAGE_SIZE ELSE next(mem, a)
    <3>1. malloc_iniited
      BY <1>1 DEF IInv
    <3>2. a \in Nat /\ mem[a] \in Nat /\ Linked(mem, blocks, total_malloc_pages * PAGE_SIZE, a)
      BY <1>1, <2>1, <3>1, BlockFacts
    <3>3. mem[a + 2] = a + Header + mem[a] => mem[a + 2] # 0
      BY <3>2, Sizes
    <3> QED
      BY <3>2, <3>3 DEF Linked, size, next
  <2> QED
    BY <2>1 DEF BlocksTileHeap
<1> QED
  BY <1>1, Invariance, PTL

(* Every pointer that malloc returned, malloc_free finds when it walks the *)
(* list for it: the walk never passes the block by.                        *)
THEOREM FreeFinds == Spec => []FreeFindsItsBlock
<1>1. ASSUME IInv PROVE FreeFindsItsBlock
  <2> SUFFICES ASSUME pc = "release", next(mem, cur) = 0 PROVE cur + Header = arg
    BY DEF FreeFindsItsBlock
  <2>1. ~overrun /\ Releasing /\ malloc_iniited /\ cur \in blocks
    BY <1>1 DEF IInv, InBounds, Releasing
  <2>2. PICK b \in blocks : arg = b + Header /\ cur <= b
    BY <2>1 DEF Releasing
  <2>3. /\ cur \in Nat /\ mem[cur] \in Nat /\ b \in Nat
        /\ Linked(mem, blocks, total_malloc_pages * PAGE_SIZE, cur)
    BY <1>1, <2>1, BlockFacts
  <2>4. b <= cur
    BY <2>3, Sizes DEF Linked, next
  <2> QED
    BY <2>2, <2>3, <2>4
<1> QED
  BY <1>1, Invariance, PTL

(* No step of malloc or free takes a page while a free block would do.     *)
THEOREM GrowsOnlyWhenFull == Spec => GrowsOnlyWhenNothingFits
<1> DEFINE A == malloc_iniited /\ total_malloc_pages' > total_malloc_pages =>
                  \A a \in blocks : free(mem, a) => size(mem, a) < arg
<1>1. IInv /\ [Next]_vars => [A]_vars
  <2> SUFFICES ASSUME IInv, Next, malloc_iniited, total_malloc_pages' > total_malloc_pages,
                      NEW a \in blocks, free(mem, a)
               PROVE  size(mem, a) < arg
    OBVIOUS
  <2>0. total_malloc_pages \in Nat /\ ~(total_malloc_pages > total_malloc_pages)
    BY DEF IInv, TypeOK
  <2>1. ASSUME NEW bytes \in Requests, syscall_malloc(bytes) PROVE FALSE
    <3>1. ~overrun /\ List(mem, blocks, total_malloc_pages * PAGE_SIZE)
      BY <2>1 DEF IInv, InBounds, syscall_malloc, At
    <3>2. mem[malloc_list_head] # 0
      <4>1. malloc_list_head \in blocks /\ mem[malloc_list_head] > 0
        BY <3>1 DEF List
      <4>2. mem[malloc_list_head] \in Nat
        BY <3>1, <4>1, BlockFacts
      <4> QED
        BY <4>1, <4>2
    <3>3. total_malloc_pages' = total_malloc_pages
      BY <2>1, <3>2 DEF syscall_malloc, Becomes, Now, Heap, size
    <3> QED
      BY <2>0, <3>3
  <2>2. CASE malloc_next_block
    <3> DEFINE h == Place(Now, cur, arg)
    <3>1. ~overrun /\ Searching /\ cur \in blocks /\ ~PassesOver(mem, cur, arg) /\ arg \in Nat
      BY <2>2 DEF IInv, InBounds, TypeOK, malloc_next_block, At, Searching
    <3>2. cur \in Nat /\ mem[cur] \in Nat /\ a \in Nat
      BY <3>1, BlockFacts
    <3>3. total_malloc_pages' = h.total
      <4>1. Becomes([h EXCEPT !.mem = merge_free_blocks(h.mem)])
        BY <2>2 DEF malloc_next_block
      <4>2. Sound(h)
        BY <3>1, PlaceSound
      <4> HIDE DEF h
      <4>3. [h EXCEPT !.mem = h.mem] = h
        BY <4>2 DEF Sound, Heap
      <4> QED
        BY <4>1, <4>3, MergeDoesNothing DEF Becomes
    <3>4. mem[cur] < arg
      <4>1. ASSUME mem[cur] >= arg PROVE h.total = total_malloc_pages
        <5>1. mem[cur] = arg \/ mem[cur] > arg
          BY <4>1, <3>1, <3>2
        <5>2. ~(mem[cur] < arg) /\ (mem[cur] = arg => ~(mem[cur] > arg))
          BY <4>1, <3>1, <3>2
        <5> QED
          BY <5>1, <5>2 DEF Place, Now, Heap, size
      <4> QED
        BY <4>1, <3>1, <3>2, <3>3, <2>0
    <3>5. next(mem, cur) = 0
      BY <3>1, <3>2, <3>4 DEF PassesOver, size
    <3>6. a <= cur
      <4>1. Linked(mem, blocks, total_malloc_pages * PAGE_SIZE, cur)
        BY <3>1, BlockFacts
      <4> QED
        BY <4>1, <3>2, <3>5, Sizes DEF Linked, next
    <3>7. CASE a = cur
      BY <3>4, <3>7 DEF size
    <3>8. CASE a < cur
      BY <3>1, <3>8 DEF Searching
    <3> QED
      BY <3>2, <3>6, <3>7, <3>8
  <2>3. CASE SearchNext \/ ReleaseNext \/ malloc_free \/ \E i \in 1 .. Len(live) : syscall_free(i)
    <3>1. total_malloc_pages' = total_malloc_pages
      BY <2>3 DEF SearchNext, ReleaseNext, malloc_free, syscall_free, heap
    <3> QED
      BY <2>0, <3>1
  <2> QED
    BY <2>1, <2>2, <2>3 DEF Next
<1> QED
  BY <1>1, Invariance, PTL DEF Spec, GrowsOnlyWhenNothingFits
=============================================================================
