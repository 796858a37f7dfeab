-------------------------------- MODULE Heap --------------------------------
(***************************************************************************)
(* kernel/mm/heap.c: the kernel pool as the memory it is, with boundary    *)
(* tags and a free list threaded through the free blocks.                  *)
(*                                                                         *)
(* Memory is a function from words of eight bytes to their contents, at    *)
(* addresses relative to s_heap_base.  A block is                          *)
(*    h: magic and flags   h+1: size   h+2 ...: user data   last: size     *)
(* and a free block keeps its list node (prev, next) at h+2 and h+3.       *)
(* A word holds a number, a pointer, a tag, or what a caller wrote there.  *)
(***************************************************************************)
EXTENDS Integers, FiniteSets, FiniteSetsExt

CONSTANTS Words,     (* size of the pool, in words                          *)
          Request,   (* the byte counts callers ask kmalloc for             *)
          FreeTag,   (* the first header word: HEAP_MAGIC, flags 0          *)
          UsedTag,   (*                        HEAP_MAGIC, flags 1          *)
          Data,      (* what a caller of kmalloc stores: never a tag        *)
          Null,      (* the NULL pointer                                    *)
          CounterMod (* s_free_bytes wraps here: 2^64 bytes in the code     *)

HdrWords == 2
FtrWords == 1
MinBlock == HdrWords + FtrWords + 2     (* HEAP_MIN_BLOCK: HEAP_ALIGN is two words *)

(* The magic is no size, no address and nothing a caller stores. *)
ASSUME HeapAssumption == /\ Words \in Nat /\ Words >= 4 * MinBlock
                         /\ Request \subseteq Nat
                         /\ CounterMod \in Nat \ {0}
                         /\ FreeTag # UsedTag
                         /\ {FreeTag, UsedTag} \cap (0 .. Words \cup {Data, Null}) = {}
                         /\ Null \notin 0 .. Words

VARIABLES mem,   (* the pool's memory                                       *)
          head,  (* s_free_list: the first node                             *)
          free,  (* s_free_bytes, in words                                  *)
          live   (* for each pointer a caller holds: the bytes it asked for      *)

vars == <<mem, head, free, live>>

Addr == 0 .. Words - 1

heap == [mem |-> mem, head |-> head, free |-> free]

IsTag(w) == w = FreeTag \/ w = UsedTag

-----------------------------------------------------------------------------
(* Helpers of heap.c on a heap H.                                           *)

Size(H, h) == H.mem[h + 1]

block_footer(H, h) == h + Size(H, h) - FtrWords

(* Bug: the count is signed and can fall below zero. *)
Count_Signed(H, n) == H.free + n

Count(H, n) == (H.free + n) % CounterMod

(* Size and tag of the block at h, and its footer. *)
SetBlock(H, h, tag, n) ==
    [H EXCEPT !.mem = [@ EXCEPT ![h] = tag, ![h + 1] = n, ![h + n - FtrWords] = n]]

(* Bug: the old first node does not learn of the new one. *)
free_list_insert_OneWay(H, h) ==
    LET n == h + HdrWords
    IN  [H EXCEPT !.head = n, !.mem = [@ EXCEPT ![n] = Null, ![n + 1] = H.head]]

free_list_insert(H, h) ==
    LET n == h + HdrWords
        m == [H.mem EXCEPT ![n] = Null, ![n + 1] = H.head]
    IN  [H EXCEPT !.head = n,
                  !.mem = IF H.head = Null THEN m ELSE [m EXCEPT ![H.head] = n]]

free_list_remove(H, h) ==
    LET n    == h + HdrWords
        prev == H.mem[n]
        next == H.mem[n + 1]
        m    == IF prev = Null THEN H.mem ELSE [H.mem EXCEPT ![prev + 1] = next]
        k    == IF next = Null THEN m ELSE [m EXCEPT ![next] = prev]
    IN  [H EXCEPT !.head = IF prev = Null THEN next ELSE @,
                  !.mem = [k EXCEPT ![n] = Null, ![n + 1] = Null]]

-----------------------------------------------------------------------------

(* kheap_init: one free block spans the pool.  The rest of the memory is
   whatever it was.                                                         *)
kheap_init ==
    LET H == free_list_insert(
                 SetBlock([mem |-> [a \in Addr |-> Data], head |-> Null, free |-> 0],
                          0, FreeTag, Words), 0)
    IN  /\ mem = H.mem
        /\ head = H.head
        /\ free = Count(H, Words - HdrWords - FtrWords)
        /\ live = << >>

(* Bug: the request is rounded down. *)
Needed_Short(n) == Max({2 * (n \div 16) + HdrWords + FtrWords, MinBlock})

(* Words needed for a request of n bytes: rounded up to HEAP_ALIGN. *)
Needed(n) == Max({2 * ((n + 15) \div 16) + HdrWords + FtrWords, MinBlock})

(* The words of a block that a caller who asked for n bytes may use. *)
Payload(n) == (n + 7) \div 8

(* The free list from its first node on; NULL from its end on. *)
ListNodes(H) ==
    LET node[k \in 0 .. Words] ==
            IF k = 0 THEN H.head
            ELSE LET n == node[k - 1] IN IF n = Null THEN Null ELSE H.mem[n + 1]
    IN  node

(* The first node on the list whose block is large enough; the search gives
   up at a header that has lost its magic.                                  *)
FirstFit(H, need) ==
    LET node     == ListNodes(H)
        Sound(n) == n = Null \/ IsTag(H.mem[n - HdrWords])
        Stops(k) == \/ node[k] = Null \/ ~ Sound(node[k])
                    \/ Size(H, node[k] - HdrWords) >= need
        last     == CHOOSE k \in 0 .. Words : Stops(k) /\ \A j \in 0 .. k - 1 : ~ Stops(j)
    IN  IF Sound(node[last]) THEN node[last] ELSE Null

(* The free block at h is taken for a request of need words; a remainder of
   at least HEAP_MIN_BLOCK becomes a free block.                            *)
Carve(H, h, need) ==
    LET size == Size(H, h)
        rest == size - need
        off  == free_list_remove(H, h)
        cut  == free_list_insert(SetBlock(off, h + need, FreeTag, rest), h + need)
    IN  IF size >= need + MinBlock
        THEN [SetBlock(cut, h, UsedTag, need) EXCEPT
                !.free = Count(cut, rest - HdrWords - FtrWords - need)]
        ELSE [SetBlock(off, h, UsedTag, size) EXCEPT !.free = Count(off, 0 - need)]

(* The caller stores its data at once, as kpcr_queue_dpc does. *)
kmalloc(n) ==
    LET ptr == FirstFit(heap, Needed(n))
        H   == Carve(heap, ptr - HdrWords, Needed(n))
    IN  /\ n > 0
        /\ ptr # Null
        /\ mem' = [a \in Addr |-> IF a \in ptr .. ptr + Payload(n) - 1
                                  THEN Data ELSE H.mem[a]]
        /\ head' = H.head
        /\ free' = H.free
        /\ live' = [p \in DOMAIN live \cup {ptr} |-> IF p = ptr THEN n ELSE live[p]]

(* Bug: the merged block keeps the footer it had. *)
MergeNext_OldFooter(H, h) ==
    LET next == h + Size(H, h)
    IN  IF next < Words /\ H.mem[next] = FreeTag
        THEN LET off == free_list_remove(H, next)
             IN  [off EXCEPT !.mem = [@ EXCEPT ![h + 1] = Size(H, h) + Size(H, next),
                                               ![block_footer(H, next)] = Data]]
        ELSE H

(* Bug: the block swallowed stays on the free list. *)
MergeNext_StaysListed(H, h) ==
    LET next == h + Size(H, h)
    IN  IF next < Words /\ H.mem[next] = FreeTag
        THEN SetBlock(H, h, FreeTag, Size(H, h) + Size(H, next))
        ELSE H

(* Coalesce the free block at h, which is on no list, with the next block. *)
MergeNext(H, h) ==
    LET next == h + Size(H, h)
    IN  IF next < Words /\ H.mem[next] = FreeTag
        THEN SetBlock(free_list_remove(H, next), h, FreeTag, Size(H, h) + Size(H, next))
        ELSE H

(* The block before h, found by its footer, or h itself if it is not free. *)
PrevFree(H, h) ==
    IF h > 0 /\ H.mem[h - H.mem[h - FtrWords]] = FreeTag
    THEN h - H.mem[h - FtrWords] ELSE h

(* kfree on a pointer whose header is a used block's: the block is marked
   free, merged with its free neighbours and put at the front of the list.  *)
Freed(ptr) ==
    LET h    == ptr - HdrWords
        size == Size(heap, h)
        one  == [SetBlock(heap, h, FreeTag, size) EXCEPT
                    !.free = Count(heap, size - HdrWords - FtrWords)]
        two  == MergeNext(one, h)
        prev == PrevFree(two, h)
        all  == IF prev = h THEN two
                ELSE SetBlock(free_list_remove(two, prev), prev, FreeTag,
                              Size(two, prev) + Size(two, h))
    IN  free_list_insert(all, prev)

(* Bug: the magic is checked, the flag is not, so a block is freed twice. *)
Honours_AnyTag(ptr) == IsTag(mem[ptr - HdrWords])

(* Anything but the header of a used block is ignored. *)
Honours(ptr) == mem[ptr - HdrWords] = UsedTag

(* kfree, on a pointer a caller holds or on any other: a pointer freed
   before, or one into the middle of a block.                               *)
kfree(ptr) ==
    /\ Honours(ptr)
    /\ mem' = Freed(ptr).mem
    /\ head' = Freed(ptr).head
    /\ free' = Freed(ptr).free
    /\ live' = [p \in DOMAIN live \ {ptr} |-> live[p]]

Next == \/ \E n \in Request : kmalloc(n)
        \/ \E ptr \in HdrWords .. Words - 1 : kfree(ptr)

Spec == kheap_init /\ [][Next]_vars

-----------------------------------------------------------------------------
(* What the pool looks like.                                                *)

(* Where the block after the one at a starts: Words after the last, and a
   itself where no block can end.                                           *)
BlockAfter(m) ==
    [a \in 0 .. Words |-> IF a < Words /\ m[a + 1] \in 1 .. Words - a THEN a + m[a + 1] ELSE a]

MaxBlocks == Words \div MinBlock

(* The blocks of a memory, found by walking the sizes from its start. *)
StartsOf(m) ==
    LET start[k \in 0 .. MaxBlocks] == IF k = 0 THEN 0 ELSE BlockAfter(m)[start[k - 1]]
    IN  {start[k] : k \in 0 .. MaxBlocks} \ {Words}

Starts == StartsOf(mem)

TypeOK == /\ mem \in [Addr -> 0 .. Words \cup {FreeTag, UsedTag, Data, Null}]
          /\ head \in Addr \cup {Null}
          /\ free \in 0 .. CounterMod - 1
          /\ \A p \in DOMAIN live : live[p] \in Request

(* The free list holds the nodes of the free blocks, each once, linked both
   ways: kmalloc finds every free block and nothing else, whatever merges
   and splits came before.                                                  *)
FreeListExact ==
    LET listed == {ListNodes(heap)[k] : k \in 0 .. Words} \ {Null}
    IN  /\ listed = {h + HdrWords : h \in {a \in Starts : mem[a] = FreeTag}}
        /\ head # Null => mem[head] = Null
        /\ \A n \in listed : mem[n + 1] # Null => mem[mem[n + 1]] = n

(* The footer mirrors the header (heap.c: "Mirror of header.size for backward
   traversal"), in free and used blocks: kfree finds the block before by it. *)
FootersMirror == \A h \in Starts : mem[h + mem[h + 1] - FtrWords] = mem[h + 1]

(* The tags, the footers and the free list of the pool agree over any
   sequence of allocations and frees, also of pointers nobody holds.        *)
PoolIntact == TypeOK /\ FreeListExact /\ FootersMirror

(* A pointer a caller holds is a used block's, with room for what it asked,
   and what it stored there is still there: no tag, footer or list node of
   another block was written over it.                                       *)
HeldMemoryIsKept ==
    /\ {p - HdrWords : p \in DOMAIN live} = {h \in Starts : mem[h] = UsedTag}
    /\ \A p \in DOMAIN live :
          /\ mem[p - 1] >= Payload(live[p]) + HdrWords + FtrWords
          /\ \A a \in p .. p + Payload(live[p]) - 1 : mem[a] = Data

(* The memory-level allocator implements the block-level one: a block is
   taken, split and merged as there, and a kfree of a pointer nobody holds
   changes nothing.                                                         *)
Blocks == INSTANCE HeapBlocks
            WITH Needs <- {Needed(n) : n \in Request \ {0}},
                 len   <- LET S == Starts
                          IN  [a \in Addr |-> IF a \in S THEN mem[a + 1] ELSE 0],
                 used  <- LET S == Starts
                          IN  [a \in Addr |-> a \in S /\ mem[a] = UsedTag]

ImplementsBlocks == Blocks!PoolSpec

=============================================================================
