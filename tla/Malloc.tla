------------------------------- MODULE Malloc -------------------------------
(***************************************************************************)
(* The allocator of the C library of user programs (user/libc/malloc.c): a *)
(* circular list of free blocks in the order of their addresses.  A        *)
(* program has one thread: its calls follow one another, and a call takes  *)
(* one step for every turn of its loops.                                   *)
(*                                                                         *)
(* Addresses count headers: a block of size n at address a has its header  *)
(* at a and n - 1 headers' worth of data after it.  base is at address 0,  *)
(* below the heap.                                                         *)
(***************************************************************************)
EXTENDS Integers, FiniteSets

CONSTANTS HeaderBytes,     \* sizeof(Header)
          MoreUnits,       \* the least that morecore asks sbrk for: 4096
          Sizes,           \* the byte counts that programs ask for
          Gaps,            \* headers' worth a program takes with sbrk itself
          MaxBreak,        \* bound on the heap
          None

ASSUME MallocAssumption ==
  /\ HeaderBytes \in Nat \ {0, 1} /\ MoreUnits \in Nat \ {0}
  /\ Sizes \subseteq Nat \ {0} /\ Gaps \subseteq Nat \ {0} /\ MaxBreak \in Nat
  /\ None \notin Nat

VARIABLES ptr,     \* of the headers on the list of free blocks, base among them
          size,    \* of every header
          freep,   \* where the next search begins
          break,   \* the end of the heap
          live,    \* the blocks the program holds: address, the bytes it asked
                   \* for, and how many of its first bytes are what it had there
          taken,   \* the addresses the program has from its own calls of sbrk
          leaked,  \* those of the blocks that realloc has replaced: on no list,
                   \* and the program has given them up
          loop,    \* "idle" between two calls, else the loop that runs: the
                   \* "search" of malloc, or the one of free for a place on
                   \* the list, called from the program ("free") or "morecore"
          request, \* the bytes that malloc is called for, and the block to
                   \* realloc
          cursor,  \* p of the loop
          prevp,   \* of malloc
          bp       \* of free

list == <<ptr, size, freep>>
program == <<break, live, taken, leaked>>
locals == <<loop, request, cursor, prevp, bp>>
mallocVars == <<list, program, locals>>

base == 0

Idle == /\ loop' = "idle" /\ request' = None
        /\ cursor' = base /\ prevp' = base /\ bp' = base

MallocInit ==
  /\ ptr = [a \in {} |-> base] /\ size = [a \in {} |-> 0] /\ freep = None
  /\ break = 1 /\ live = {} /\ taken = {} /\ leaked = {}
  /\ loop = "idle" /\ request = None /\ cursor = base /\ prevp = base /\ bp = base

-----------------------------------------------------------------------------
Units(nbytes) == (nbytes + HeaderBytes - 1) \div HeaderBytes + 1
nunits == Units(request.bytes)

(* malloc is called: the first call makes base the whole list.              *)
Begin(nbytes, old) ==
  /\ loop = "idle"
  /\ \/ /\ freep = None
        /\ freep' = base /\ ptr' = [a \in {base} |-> base] /\ size' = [a \in {base} |-> 0]
     \/ freep # None /\ UNCHANGED list
  /\ prevp' = freep' /\ cursor' = ptr'[freep']
  /\ loop' = "search" /\ request' = [bytes |-> nbytes, old |-> old]
  /\ UNCHANGED <<program, bp>>

malloc(nbytes) == Begin(nbytes, {})

least(m, n) == IF m < n THEN m ELSE n

(* What malloc's caller finds in the new block of what it had: realloc      *)
(* copies as many bytes as the old block has units, or those asked for if   *)
(* they are fewer.                                                          *)
Kept ==
  IF request.old = {} THEN request.bytes
  ELSE LET b == CHOOSE b \in request.old : TRUE
       IN least(b.kept, least(request.bytes, size[b.addr]))

(* The block at addr is returned; realloc does not free the old one.        *)
Return(addr) ==
  /\ live' = (live \ request.old)
               \union {[addr |-> addr, bytes |-> request.bytes, kept |-> Kept]}
  /\ leaked' = leaked \union UNION {b.addr .. b.addr + size[b.addr] - 1 : b \in request.old}
  /\ freep' = prevp /\ Idle /\ UNCHANGED <<break, taken>>

OldHeaders == {b.addr : b \in request.old}

(* The block at the cursor is the size that was asked for: all of it.       *)
TakeBlock ==
  /\ loop = "search" /\ size[cursor] = nunits
  /\ ptr' = [a \in DOMAIN ptr \ {cursor} |-> IF a = prevp THEN ptr[cursor] ELSE ptr[a]]
  /\ size' = [a \in DOMAIN size \ OldHeaders |-> size[a]]
  /\ Return(cursor)

SplitKeepingSize ==
  /\ loop = "search" /\ size[cursor] > nunits
  /\ LET tail == cursor + size[cursor] - nunits
     IN /\ size' = [a \in (DOMAIN size \ OldHeaders) \union {tail} |->
                      IF a = tail THEN nunits ELSE size[a]]
        /\ Return(tail)
  /\ UNCHANGED ptr

(* It is larger: its tail.                                                  *)
Split ==
  /\ loop = "search" /\ size[cursor] > nunits
  /\ LET rest == size[cursor] - nunits
         tail == cursor + rest
     IN /\ size' = [a \in (DOMAIN size \ OldHeaders) \union {tail} |->
                      IF a = tail THEN nunits ELSE IF a = cursor THEN rest ELSE size[a]]
        /\ Return(tail)
  /\ UNCHANGED ptr

(* It is too small, and not yet the last of the list.                       *)
SearchOn ==
  /\ loop = "search" /\ size[cursor] < nunits /\ cursor # freep
  /\ prevp' = cursor /\ cursor' = ptr[cursor]
  /\ UNCHANGED <<list, program, loop, request, bp>>

(* The loop is around.  morecore gives the heap a new block, which free     *)
(* puts on the list.  Bound: sbrk has room below MaxBreak; it never fails,  *)
(* the kernel panics when it is out of memory.                              *)
morecore ==
  /\ loop = "search" /\ size[cursor] < nunits /\ cursor = freep
  /\ LET n == IF nunits < MoreUnits THEN MoreUnits ELSE nunits
     IN /\ break + n <= MaxBreak + 1
        /\ break' = break + n
        /\ size' = [a \in DOMAIN size \union {break} |-> IF a = break THEN n ELSE size[a]]
  /\ bp' = break /\ loop' = "morecore"
  /\ UNCHANGED <<ptr, freep, live, taken, leaked, request, cursor, prevp>>

-----------------------------------------------------------------------------
free(b) ==
  /\ loop = "idle"
  /\ live' = live \ {b} /\ bp' = b.addr /\ cursor' = freep /\ loop' = "free"
  /\ UNCHANGED <<list, break, taken, leaked, request, prevp>>

Placing == loop \in {"free", "morecore"}

(* bp comes after p: between two blocks, or at either end of the list.      *)
PlaceAfter(p) ==
  \/ bp > p /\ bp < ptr[p]
  \/ p >= ptr[p] /\ (bp > p \/ bp < ptr[p])

PlaceOn ==
  /\ Placing /\ ~PlaceAfter(cursor)
  /\ cursor' = ptr[cursor]
  /\ UNCHANGED <<list, program, loop, request, prevp, bp>>

(* free returns, to the program or to morecore in malloc, which goes on     *)
(* with the block after the one that freep is now at.                       *)
Placed ==
  /\ freep' = cursor
  /\ \/ loop = "free" /\ Idle
     \/ loop = "morecore" /\ loop' = "search" /\ prevp' = cursor /\ cursor' = ptr'[cursor]
        /\ UNCHANGED <<request, bp>>
  /\ UNCHANGED program

InsertWithoutJoining ==
  /\ Placing /\ PlaceAfter(cursor)
  /\ ptr' = [a \in DOMAIN ptr \union {bp} |->
               IF a = cursor THEN bp ELSE IF a = bp THEN ptr[cursor] ELSE ptr[a]]
  /\ UNCHANGED size
  /\ Placed

(* bp joins the free block above it, then the one below.                    *)
Insert ==
  /\ Placing /\ PlaceAfter(cursor)
  /\ LET upper == ptr[cursor]
         joinsUp == bp + size[bp] = upper
         joinsDown == cursor + size[cursor] = bp
         units == IF joinsUp THEN size[bp] + size[upper] ELSE size[bp]
         next == IF joinsUp THEN ptr[upper] ELSE upper
         joined == {a \in {upper} : joinsUp} \union {a \in {bp} : joinsDown}
     IN /\ size' = [a \in DOMAIN size \ joined |->
                      IF a = cursor /\ joinsDown THEN size[cursor] + units
                      ELSE IF a = bp THEN units ELSE size[a]]
        /\ ptr' = [a \in (DOMAIN ptr \union {bp}) \ joined |->
                     IF a = cursor THEN (IF joinsDown THEN next ELSE bp)
                     ELSE IF a = bp THEN next ELSE ptr[a]]
  /\ Placed

-----------------------------------------------------------------------------
(* realloc compares the bytes asked for with the units of the header and    *)
(* leaves the block alone if they agree, else it calls malloc.  Without a   *)
(* block it is malloc, and for zero bytes it is free.                       *)
realloc(b, nbytes) ==
  \/ /\ loop = "idle" /\ nbytes = size[b.addr]
     /\ live' = (live \ {b}) \union
          {[addr |-> b.addr, bytes |-> nbytes, kept |-> least(b.kept, nbytes)]}
     /\ UNCHANGED <<list, break, taken, leaked, locals>>
  \/ nbytes # size[b.addr] /\ Begin(nbytes, {b})

(* Programs call sbrk next to malloc (user/cat.c, user/bmp.c).              *)
sbrk(n) ==
  /\ loop = "idle" /\ break + n <= MaxBreak + 1
  /\ break' = break + n
  /\ taken' = taken \union (break .. break + n - 1)
  /\ UNCHANGED <<list, live, leaked, locals>>

MallocNext ==
  \/ \E nbytes \in Sizes : malloc(nbytes)
  \/ TakeBlock \/ Split \/ SearchOn \/ morecore \/ PlaceOn \/ Insert
  \/ \E b \in live : free(b) \/ \E nbytes \in Sizes : realloc(b, nbytes)
  \/ \E n \in Gaps : sbrk(n)

MallocSpec == MallocInit /\ [][MallocNext]_mallocVars

-----------------------------------------------------------------------------
(* The blocks: free, of the program, and the one that free is to place.     *)
Blocks == (DOMAIN ptr \ {base}) \union {b.addr : b \in live}
            \union {a \in {bp} : Placing}

UnitsAt(a) == a .. a + size[a] - 1

(* What is on no list and in no block any more.                             *)
Gone == taken \union leaked

(* At every turn of the loops of malloc and free, two blocks never overlap, *)
(* free or not, nor do they overlap what the program has from sbrk itself   *)
(* or what realloc has left behind; every block is as large as was asked    *)
(* for; and there is nothing else in the heap: malloc and free lose none.   *)
BlocksTileTheHeap ==
  /\ \A a, b \in Blocks : a # b => UnitsAt(a) \intersect UnitsAt(b) = {}
  /\ \A a \in Blocks : UnitsAt(a) \intersect Gone = {}
  /\ Gone \union UNION {UnitsAt(a) : a \in Blocks} = 1 .. break - 1
  /\ \A b \in live : b.bytes <= (size[b.addr] - 1) * HeaderBytes

(* The list of free blocks is circular in the order of their addresses,     *)
(* from base up and back to it, has freep on it, no two of its blocks       *)
(* touch, and every block that free is called for has a place on it: its    *)
(* loop over the list ends.                                                 *)
FreeListInOrder ==
  /\ freep # None => freep \in DOMAIN ptr /\ base \in DOMAIN ptr
  /\ \A a \in DOMAIN ptr :
       /\ ptr[a] \in DOMAIN ptr
       /\ ptr[a] # base => a + size[a] < ptr[a]
       /\ \A c \in DOMAIN ptr : a < c => ptr[a] # base /\ ptr[a] <= c
  /\ Placing => \E a \in DOMAIN ptr : PlaceAfter(a)

(* realloc says "Copy the minimum from the size before and requested size": *)
(* what fits into both blocks is in the new one.                            *)
ReallocKeepsData ==
  [][\A b \in live, c \in live' :
       /\ b \notin live' /\ c \notin live /\ Cardinality(live) = Cardinality(live')
       => c.kept >= (IF b.kept < c.bytes THEN b.kept ELSE c.bytes)]_mallocVars

(* realloc gives back what it replaces.                                     *)
ReallocLosesNothing == leaked = {}
=============================================================================
