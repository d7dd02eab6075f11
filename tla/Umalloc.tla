------------------------------- MODULE Umalloc -------------------------------
(***************************************************************************)
(* The memory allocator of user programs, umalloc.c: a circular free list  *)
(* in the order of addresses, from which malloc takes the end of the first *)
(* block that is large enough and into which free merges neighbours.  One  *)
(* round of the loops over the list is a step.                             *)
(*                                                                         *)
(* An address counts headers; address 0 is the static variable base, and   *)
(* the heap, which sbrk extends, begins above it.  ptr is defined for the  *)
(* headers in the list and size for all headers that are in use: to read   *)
(* any other one is an error.                                              *)
(***************************************************************************)
EXTENDS Integers, FiniteSets

CONSTANTS
  Sizes,         \* bytes that the program asks for
  HDR,           \* sizeof(Header)
  CORE,          \* headers that morecore asks sbrk for at least
  HeaderSpace,   \* headers in 2^32 bytes, where uint wraps around
  HeapEnd        \* BOUND: sbrk fails beyond this address

ASSUME HeapConstants ==
  /\ HDR \in Nat \ {0} /\ HeaderSpace \in Nat \ {0} /\ HeapEnd \in Nat
  /\ CORE \in Nat /\ 2 * CORE < HeaderSpace
  /\ Sizes \subseteq 0..(HeaderSpace * HDR - 1)

Base == 0
HeapStart == 2

VARIABLES
  ptr, size,     \* the fields of the headers
  freep,         \* where the search begins, -1 before the first malloc
  brk,           \* the end of the heap
  used,          \* headers of the blocks that the program has
  foreign,       \* addresses that the program took from sbrk itself
  call           \* the loop that malloc or free is in, with its variables

heapVars == <<ptr, size, freep, brk>>
mallocVars == <<heapVars, used, foreign, call>>

\* Not in a loop; searching for nu units behind prevp; looking for the place of block bp from p
\* on, after which malloc searches on for nu units, unless nu is 0.
Program == [at |-> "program"]
Searching(nu, prevp) == [at |-> "search", nu |-> nu, prevp |-> prevp]
Placing(bp, p, nu) == [at |-> "place", bp |-> bp, p |-> p, nu |-> nu]

\* The allocator has a header for more memory than sbrk gave: writing it or what it stands for
\* faults or hits pages that were freed, and the model ends.
Lost == [at |-> "lost"]

HeapInit ==
  /\ ptr = [a \in {Base} |-> Base] /\ size = [a \in {Base} |-> 0]
  /\ freep = -1
  /\ brk = HeapStart
  /\ used = {} /\ foreign = {}
  /\ call = Program

\* The free list as a record; the code below computes with it.
Heap == [ptr |-> ptr, size |-> size]

Become(h) == ptr' = h.ptr /\ size' = h.size

Set(f, a, v) == [x \in DOMAIN f \union {a} |-> IF x = a THEN v ELSE f[x]]
Without(f, a) == [x \in DOMAIN f \ {a} |-> f[x]]

----------------------------------------------------------------------------
(* free.                                                                   *)

\* Where the loop ends: the block is between p and the next one, or p is where the list turns
\* around and the block is before or behind all others.
IsPlace(bp, p) ==
  \/ bp > p /\ bp < ptr[p]
  \/ p >= ptr[p] /\ (bp > p \/ bp < ptr[p])

\* Block q, which follows block a in memory, becomes a part of it.
Join(h, a, q) ==
  [h EXCEPT !.size = Without(Set(@, a, @[a] + @[q]), q),
            !.ptr = Without(Set(@, a, @[q]), q)]

\* (mutant) the block is not merged with the one behind it.
MutJoinNext(h, bp, p) == [h EXCEPT !.ptr = Set(@, bp, @[p])]

JoinNext(h, bp, p) ==
  LET q == h.ptr[p]
  IN IF bp + h.size[bp] = q THEN Join(h, bp, q)
     ELSE [h EXCEPT !.ptr = Set(@, bp, q)]

JoinPrev(h, bp, p) ==
  IF p + h.size[p] = bp THEN Join(h, p, bp) ELSE [h EXCEPT !.ptr[p] = bp]

Free(bp) ==
  /\ call.at = "program" /\ bp \in used
  /\ used' = used \ {bp}
  /\ call' = Placing(bp, freep, 0)
  /\ UNCHANGED <<heapVars, foreign>>

\* One round of the loop, and behind it the return, to the search when morecore was the caller.
Place ==
  /\ call.at = "place"
  /\ LET bp == call.bp
         p == call.p
     IN IF IsPlace(bp, p)
        THEN /\ Become(JoinPrev(JoinNext(Heap, bp, p), bp, p))
             /\ freep' = p
             /\ call' = IF call.nu = 0 THEN Program ELSE Searching(call.nu, p)
        ELSE /\ call' = Placing(bp, ptr[p], call.nu)
             /\ UNCHANGED <<ptr, size, freep>>
  /\ UNCHANGED <<brk, used, foreign>>

----------------------------------------------------------------------------
(* malloc.                                                                 *)

\* nunits: the header and the bytes, computed in a uint.  The largest sizes wrap around to one unit.
Units(nbytes) == ((nbytes + HDR - 1) % (HeaderSpace * HDR)) \div HDR + 1

MaxOf(a, b) == IF a > b THEN a ELSE b

\* The first use makes base a list of itself.
Malloc(nbytes) ==
  /\ call.at = "program"
  /\ freep' = IF freep = -1 THEN Base ELSE freep
  /\ call' = Searching(Units(nbytes), freep')
  /\ UNCHANGED <<ptr, size, brk, used, foreign>>

\* The block behind prevp is taken whole, or its end is cut off.
Give(nu, prevp) ==
  LET p == ptr[prevp]
      q == p + size[p] - nu
  IN /\ IF size[p] = nu
        THEN ptr' = Without(Set(ptr, prevp, ptr[p]), p) /\ UNCHANGED size
        ELSE size' = Set(Set(size, p, size[p] - nu), q, nu) /\ UNCHANGED ptr
     /\ used' = used \union {q}
     /\ freep' = prevp

\* The argument of sbrk, an int: from half of 2^32 bytes on it is negative.
SbrkArg(n) == LET m == n % HeaderSpace IN IF 2 * m < HeaderSpace THEN m ELSE m - HeaderSpace

\* Only growing fails.  With a smaller size sbrk frees pages, with one below zero, which has wrapped
\* around, it does nothing, and it returns the old end of the heap as if it had grown.
CanGrow(nu) == brk + SbrkArg(MaxOf(nu, CORE)) <= HeapEnd

\* morecore: a header at the old end of the heap, for all the units asked for, is given to free.
Morecore(nu) ==
  LET n == MaxOf(nu, CORE)
      end == brk + SbrkArg(n)
  IN /\ size' = Set(size, brk, n)
     /\ brk' = IF end < 0 THEN brk ELSE end
     /\ call' = IF SbrkArg(n) = n THEN Placing(brk, freep, nu) ELSE Lost

\* One round of the loop of malloc.
Search ==
  /\ call.at = "search"
  /\ LET nu == call.nu
         p == ptr[call.prevp]
     IN IF size[p] >= nu
        THEN Give(nu, call.prevp) /\ call' = Program /\ UNCHANGED brk
        ELSE /\ IF p # freep THEN call' = Searching(nu, p) /\ UNCHANGED <<size, brk>>
                ELSE IF CanGrow(nu) THEN Morecore(nu)
                ELSE call' = Program /\ UNCHANGED <<size, brk>>
             /\ UNCHANGED <<ptr, freep, used>>
  /\ UNCHANGED foreign

\* The program extends its heap itself, between two calls.
SbrkOne ==
  /\ call.at = "program" /\ brk < HeapEnd
  /\ brk' = brk + 1
  /\ foreign' = foreign \union {brk}
  /\ UNCHANGED <<ptr, size, freep, used, call>>

HeapNext ==
  \/ \E nbytes \in Sizes : Malloc(nbytes)
  \/ \E bp \in used : Free(bp)
  \/ Search \/ Place \/ SbrkOne

HeapSpec == HeapInit /\ [][HeapNext]_mallocVars

----------------------------------------------------------------------------
(* Properties.                                                             *)

FreeBlocks == DOMAIN ptr \ {Base}

\* The block that free has not put into the list yet.
Loose == IF call.at = "place" THEN {call.bp} ELSE {}

Extent(a) == a..(a + size[a] - 1)

\* Whatever the order of the calls, and also in the middle of one, the blocks of the program, the
\* free ones and the memory that belongs to others share no address and leave none out; free
\* neighbours are one block; and the list goes through all of them once, in the order of addresses,
\* so that the searches of malloc and free end.  Sizes near 2^32, which wrap around to small blocks,
\* do not break it; what does is a request that sbrk takes for a negative one.
HeapSound ==
  call # Lost =>
  LET blocks == used \union FreeBlocks \union Loose
  IN /\ used \intersect FreeBlocks = {} /\ Loose \intersect (used \union FreeBlocks) = {}
     /\ \A a \in blocks : size[a] >= 1 /\ Extent(a) \intersect foreign = {}
     /\ \A a, b \in blocks : a # b => Extent(a) \intersect Extent(b) = {}
     /\ foreign \union UNION {Extent(a) : a \in blocks} = HeapStart..(brk - 1)
     /\ \A a, b \in FreeBlocks : a + size[a] # b
     /\ freep # -1 =>
          /\ freep \in FreeBlocks \union {Base}
          /\ \A a \in FreeBlocks \union {Base} :
               ptr[a] = IF \E b \in FreeBlocks : b > a
                        THEN CHOOSE b \in FreeBlocks :
                               b > a /\ \A c \in FreeBlocks : c > a => b <= c
                        ELSE Base

=============================================================================
