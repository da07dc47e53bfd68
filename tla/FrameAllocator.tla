-------------------------- MODULE FrameAllocator --------------------------
(***************************************************************************)
(* What the physical memory manager promises the rest of the kernel: a     *)
(* pool of page frames from which contiguous runs are handed out, each     *)
(* frame to one owner at a time, and a request that is refused only when   *)
(* no run of that length is left.  PhysicalMemory.tla (the bit map of      *)
(* physical_mmngr.c) is shown to implement this specification.             *)
(***************************************************************************)
EXTENDS Naturals

CONSTANTS Pool,      \* the frames that exist to be handed out
          Requests   \* the run lengths that clients ask for

VARIABLES avail,     \* frames nobody owns
          owned,     \* frames handed out and not returned
          answer     \* the last request and the answer it got

vars == <<avail, owned, answer>>

Run(b, n) == b .. (b + n - 1)

\* start = 0 is the null pointer: the request was refused.  n = 0: no request.
NoAnswer == [n |-> 0, start |-> 0]

Init == /\ avail = Pool
        /\ owned = {}
        /\ answer = NoAnswer

Alloc(n) == \E b \in avail :
              /\ n > 0
              /\ Run(b, n) \subseteq avail
              /\ avail' = avail \ Run(b, n)
              /\ owned' = owned \cup Run(b, n)
              /\ answer' = [n |-> n, start |-> b]

\* A request for nothing is refused too.
Refuse(n) == /\ ~\E b \in avail : n > 0 /\ Run(b, n) \subseteq avail
             /\ answer' = [n |-> n, start |-> 0]
             /\ UNCHANGED <<avail, owned>>

Free(b, n) == /\ Run(b, n) \subseteq owned
              /\ avail' = avail \cup Run(b, n)
              /\ owned' = owned \ Run(b, n)
              /\ answer' = NoAnswer

Next == \E n \in Requests : \/ Alloc(n)
                            \/ Refuse(n)
                            \/ \E b \in owned : Free(b, n)

Spec == Init /\ [][Next]_vars
===========================================================================
