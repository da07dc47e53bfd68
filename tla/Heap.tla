------------------------------- MODULE Heap -------------------------------
(***************************************************************************)
(* malloc.c behind the malloc and free system calls.  The list of blocks   *)
(* lives in the memory it manages, so it is modelled as memory: mem maps   *)
(* addresses to values, a pointer is an address, and a block begins with a *)
(* header of Header bytes whose fields are kept in its first three.  Sizes *)
(* are in bytes on the machine (a header is 12, a page 4096) and smaller   *)
(* in an instance; arithmetic is modulo UintMod.                           *)
(*                                                                         *)
(* malloc_virt_addr is never assigned: the heap, and malloc_list_head with *)
(* it, is at address 0.  System calls run through an interrupt gate, so    *)
(* one call ends before the next begins; inside a call every turn of a     *)
(* loop over the list is a step, with the block it looks at in cur.  Pages *)
(* come from the physical memory manager, which is a count of free pages   *)
(* here; mapping them is VirtualMemory's part.                             *)
(*                                                                         *)
(* Nothing stops malloc.c from using memory that the heap does not have:   *)
(* it splits a block without a look at the room, and takes pages without a *)
(* look at the answer.  overrun says that this has happened; what is then  *)
(* overwritten is not the heap's, and the modelled machine stops there.    *)
(***************************************************************************)
EXTENDS Integers, Sequences

CONSTANTS PAGE_SIZE,
          Header,      \* sizeof(malloc_block_t)
          UintMod,     \* values of a uint32_t
          FreePages,   \* pages the physical memory manager has
          Requests,    \* the sizes clients ask for
          MaxLive      \* bound: allocations outstanding at once

MemSize == FreePages * PAGE_SIZE     \* as large as the heap can become

ASSUME HeapAssumption ==
  /\ Header \in Nat /\ Header >= 3
  /\ PAGE_SIZE \in Nat /\ PAGE_SIZE > Header
  /\ FreePages \in Nat \ {0}
  /\ UintMod \in Nat /\ MemSize <= UintMod
  /\ MaxLive \in Nat
  /\ Requests \subseteq 0 .. (UintMod - 1 - Header)

VARIABLES mem,                 \* [0 .. MemSize-1 -> 0 .. UintMod-1]
          malloc_iniited,
          total_malloc_pages,
          pages,               \* pages left to the physical memory manager
          pc,                  \* the loop the kernel is in, or "user"
          cur,                 \* the block that loop looks at
          arg,                 \* the call's argument: a size, or a pointer
          overrun,             \* memory that is not the heap's has been used
          live,                \* pointers handed out and not freed (history)
          blocks               \* every block ever put on the list (history)

heap == <<mem, malloc_iniited, total_malloc_pages, pages, overrun, blocks>>
call == <<pc, cur, arg>>
vars == <<heap, call, live>>

malloc_list_head == 0

size(m, a) == m[a]
free(m, a) == m[a + 1] # 0
next(m, a) == m[a + 2]

\* A store into the header of the block at a.
Put(m, a, s, f, n) == [m EXCEPT ![a] = s % UintMod, ![a + 1] = f, ![a + 2] = n]

---------------------------------------------------------------------------
\* Where malloc_split puts the header of the block it makes.
NewNode(node, bytes) == (node + bytes + Header) % UintMod

\* The header of the new block does not fit in the block that is split.
NoRoom(m, node, bytes) == size(m, node) < bytes + Header

\* Broken: the new block's own header is not taken off its size.
SplitKeepsHeader(m, node, bytes) ==
  LET new == NewNode(node, bytes)
  IN Put(Put(m, new, size(m, node) - bytes, 1, next(m, node)), node, bytes, 0, new)

malloc_split(m, node, bytes) ==
  LET new == NewNode(node, bytes)
  IN Put(Put(m, new, size(m, node) - bytes - Header, 1, next(m, node)),
         node, bytes, 0, new)

\* One turn of the merging loop, which takes the next block in without a look
\* at its flag.
MergeTurn(m, a) ==
  LET nxt == next(m, a)
  IN IF free(m, a)
       THEN [m EXCEPT ![a] = (@ + size(m, nxt) + Header) % UintMod, ![a + 2] = next(m, nxt)]
       ELSE m

\* Broken: address 0 is taken for a block, and the loop runs.
MergeFromZero(m) ==
  LET at[n \in Nat] ==
        IF n = 0 THEN [mem |-> m, cur |-> malloc_list_head]
        ELSE LET was == at[n - 1]
                 turned == MergeTurn(was.mem, was.cur)
             IN IF next(was.mem, was.cur) = 0 THEN was
                ELSE [mem |-> turned, cur |-> next(turned, was.cur)]
  IN at[MemSize \div Header].mem

\* The loop's first test is on the list head itself, which is address 0.
merge_free_blocks(m) ==
  LET at[n \in Nat] ==
        IF n = 0 THEN [mem |-> m, cur |-> malloc_list_head]
        ELSE LET was == at[n - 1]
                 turned == MergeTurn(was.mem, was.cur)
             IN IF was.cur = 0 \/ next(was.mem, was.cur) = 0 THEN was
                ELSE [mem |-> turned, cur |-> next(turned, was.cur)]
  IN IF malloc_list_head = 0 \/ next(m, malloc_list_head) = 0 THEN m
     ELSE at[MemSize \div Header].mem

\* The heap's variables, as the operations pass them on.
Heap(m, total, left, over, made) ==
  [mem |-> m, total |-> total, left |-> left, over |-> over, made |-> made]

Now == Heap(mem, total_malloc_pages, pages, overrun, blocks)

PagesFor(bytes) == (bytes \div PAGE_SIZE) + (IF bytes % PAGE_SIZE > 0 THEN 1 ELSE 0)

\* The result of pmmngr_alloc_blocks is not looked at, nor whether any page is
\* asked for.
malloc_init(h, bytes) ==
  LET total == PagesFor(bytes)
  IN Heap(Put(h.mem, malloc_list_head, total * PAGE_SIZE - Header, 1, 0),
          total,
          IF total <= h.left THEN h.left - total ELSE h.left,
          total > h.left \/ total = 0,
          h.made \cup {malloc_list_head})

PageCount(have, bytes) ==
  CHOOSE k \in 1 .. (bytes + Header) :
    /\ have + k * PAGE_SIZE >= bytes + Header
    /\ \A j \in 1 .. (k - 1) : have + j * PAGE_SIZE < bytes + Header

\* Broken: bytes are asked of the physical memory manager instead of pages.
GrowByBytes(h, node, bytes) ==
  LET wanted == PageCount(size(h.mem, node), bytes)
      grown == [h.mem EXCEPT ![node] = (@ + wanted * PAGE_SIZE) % UintMod]
  IN Heap(malloc_split(grown, node, bytes), h.total + wanted, h.left - wanted * PAGE_SIZE,
          h.over, h.made \cup {NewNode(node, bytes)})

\* Grow the last block page by page; a page that cannot be had is skipped, and
\* the block is split all the same.
Grow(h, node, bytes) ==
  LET wanted == PageCount(size(h.mem, node), bytes)
      got == IF wanted <= h.left THEN wanted ELSE h.left
      grown == [h.mem EXCEPT ![node] = (@ + got * PAGE_SIZE) % UintMod]
  IN Heap(malloc_split(grown, node, bytes), h.total + got, h.left - got,
          NoRoom(grown, node, bytes), h.made \cup {NewNode(node, bytes)})

Place(h, node, bytes) ==
  CASE size(h.mem, node) = bytes -> [h EXCEPT !.mem[node + 1] = 0]
    [] size(h.mem, node) > bytes ->
         [h EXCEPT !.mem = malloc_split(@, node, bytes),
                   !.over = NoRoom(h.mem, node, bytes),
                   !.made = @ \cup {NewNode(node, bytes)}]
    [] size(h.mem, node) < bytes -> Grow(h, node, bytes)

---------------------------------------------------------------------------
\* The machine is in a call's loop, or in user code, and goes on.
At(where) == pc = where /\ ~overrun

Becomes(h) == /\ mem' = h.mem
              /\ total_malloc_pages' = h.total
              /\ pages' = h.left
              /\ overrun' = h.over
              /\ blocks' = h.made

Enter(where, with) == pc' = where /\ cur' = malloc_list_head /\ arg' = with
Return == Enter("user", 0)

\* Up to the search; a request of nothing returns a null pointer.
syscall_malloc(bytes) ==
  /\ At("user")
  /\ Len(live) < MaxLive
  /\ LET first == IF malloc_iniited THEN Now ELSE malloc_init(Now, bytes)
     IN IF bytes = 0
          THEN Return /\ Becomes([first EXCEPT !.mem = merge_free_blocks(@)])
          ELSE /\ Enter("search", bytes)
               /\ Becomes(IF size(first.mem, malloc_list_head) = 0 THEN malloc_init(first, bytes)
                                                                  ELSE first)
  /\ malloc_iniited' = TRUE
  /\ UNCHANGED live

\* Broken: a block of exactly the size asked for is passed over.
PassesOverEqual(m, a, bytes) == next(m, a) # 0 /\ (size(m, a) <= bytes \/ ~free(m, a))

\* The search goes on: the last block stops it whatever its state.
PassesOver(m, a, bytes) == next(m, a) # 0 /\ (size(m, a) < bytes \/ ~free(m, a))

SearchNext ==
  /\ At("search")
  /\ PassesOver(mem, cur, arg)
  /\ cur' = next(mem, cur)
  /\ UNCHANGED <<heap, pc, arg, live>>

\* The rest of malloc_next_block, and of the system call.
malloc_next_block ==
  /\ At("search")
  /\ ~PassesOver(mem, cur, arg)
  /\ LET placed == Place(Now, cur, arg)
     IN Becomes([placed EXCEPT !.mem = merge_free_blocks(@)])
  /\ live' = Append(live, [ptr |-> cur + Header, size |-> arg])
  /\ Return
  /\ UNCHANGED malloc_iniited

\* Clients free each pointer they were given once.
syscall_free(i) ==
  /\ At("user")
  /\ Enter("release", live[i].ptr)
  /\ live' = [j \in 1 .. (Len(live) - 1) |-> IF j < i THEN live[j] ELSE live[j + 1]]
  /\ UNCHANGED heap

ReleaseNext ==
  /\ At("release")
  /\ next(mem, cur) # 0 /\ cur + Header # arg
  /\ cur' = next(mem, cur)
  /\ UNCHANGED <<heap, pc, arg, live>>

\* The loop ends before the last block, which is never freed.
malloc_free ==
  /\ At("release")
  /\ \/ next(mem, cur) = 0 /\ mem' = mem
     \/ /\ next(mem, cur) # 0 /\ cur + Header = arg
        /\ mem' = merge_free_blocks([mem EXCEPT ![cur + 1] = 1])
  /\ Return
  /\ UNCHANGED <<malloc_iniited, total_malloc_pages, pages, overrun, blocks, live>>

Init == /\ mem = [a \in 0 .. (MemSize - 1) |-> 0]
        /\ malloc_iniited = FALSE
        /\ total_malloc_pages = 0
        /\ pages = FreePages
        /\ overrun = FALSE
        /\ blocks = {}
        /\ live = <<>>
        /\ pc = "user" /\ cur = malloc_list_head /\ arg = 0

Next == \/ \E bytes \in Requests : syscall_malloc(bytes)
        \/ SearchNext
        \/ malloc_next_block
        \/ \E i \in 1 .. Len(live) : syscall_free(i)
        \/ ReleaseNext
        \/ malloc_free

Spec == Init /\ [][Next]_vars

---------------------------------------------------------------------------
(* What is claimed.                                                        *)

TypeOK == /\ mem \in [0 .. (MemSize - 1) -> 0 .. (UintMod - 1)]
          /\ malloc_iniited \in BOOLEAN
          /\ total_malloc_pages \in Nat
          /\ pages \in 0 .. FreePages
          /\ pc \in {"user", "search", "release"}
          /\ cur \in Nat /\ arg \in Nat
          /\ overrun \in BOOLEAN
          /\ blocks \subseteq 0 .. (UintMod - 1)
          /\ live \in Seq([ptr : Nat, size : Requests])

\* Block after block covers the heap's pages exactly: every block ends where
\* its successor begins and the last one at the end of the last page, so no
\* header lies inside another block and nothing is lost, however malloc and
\* free split, grow and mark the blocks.
BlocksTileHeap ==
  ~overrun =>
    \A a \in blocks : a + Header + size(mem, a) =
      IF next(mem, a) = 0 THEN total_malloc_pages * PAGE_SIZE ELSE next(mem, a)

\* A client's pointer can be freed: the walk of malloc_free from the head of
\* the list comes to the end of the list only at the pointer's own block.
FreeFindsItsBlock ==
  pc = "release" /\ next(mem, cur) = 0 => cur + Header = arg

\* The heap takes pages only when no free block is large enough.
GrowsOnlyWhenNothingFits ==
  [][malloc_iniited /\ total_malloc_pages' > total_malloc_pages =>
       \A a \in blocks : free(mem, a) => size(mem, a) < arg]_vars

Bytes(block) == block.ptr .. (block.ptr + block.size - 1)

\* Allocations that are live at the same time do not overlap: malloc hands out
\* blocks that are free.
LiveBlocksDisjoint ==
  \A i, j \in 1 .. Len(live) : i # j => Bytes(live[i]) \cap Bytes(live[j]) = {}

===========================================================================
