----------------------------- MODULE HeapBlocks -----------------------------
(***************************************************************************)
(* What kernel/mm/heap.c promises about the kernel pool: the pool is cut   *)
(* into blocks, an allocation takes a free block that is large enough and  *)
(* gives back what it does not need, and a freed block is merged with its  *)
(* free neighbours.                                                        *)
(*                                                                         *)
(* Tags, footers and the free list are absent: which block an allocation   *)
(* gets is nondeterministic and a neighbour is found by its place.  Module *)
(* Heap is the detailed specification and implements this one.             *)
(***************************************************************************)
EXTENDS Naturals

CONSTANTS Words,   (* size of the pool, in words of eight bytes             *)
          MinBlock,(* HEAP_MIN_BLOCK in words: 5                            *)
          Needs    (* sizes kmalloc may look for, in words                  *)

ASSUME PoolAssumption == /\ Words \in Nat /\ MinBlock \in Nat \ {0}
                         /\ MinBlock <= Words
                         /\ Needs \subseteq {n \in Nat : n >= MinBlock}

VARIABLES len,   (* len[a]: the size of the block that starts at word a,
                    or 0 when no block starts there                         *)
          used   (* used[a]: a block that is allocated starts at a          *)

poolVars == <<len, used>>

Word == 0 .. Words - 1

Start == {a \in Word : len[a] > 0}

PoolTypeOK == /\ len \in [Word -> 0 .. Words]
              /\ used \in [Word -> BOOLEAN]
              /\ \A a \in Word : used[a] => a \in Start

(* One free block spans the pool. *)
PoolInit == /\ len = [a \in Word |-> IF a = 0 THEN Words ELSE 0]
            /\ used = [a \in Word |-> FALSE]

-----------------------------------------------------------------------------

Free(a) == a \in Start /\ ~ used[a]

(* Bug: the remainder starts one word early, inside the allocated block. *)
Allocate_Overlaps(a, n) ==
    /\ Free(a) /\ len[a] >= n
    /\ used' = [used EXCEPT ![a] = TRUE]
    /\ len' = IF len[a] >= n + MinBlock
              THEN [len EXCEPT ![a] = n, ![a + n - 1] = len[a] - n + 1]
              ELSE len

(* The free block at a serves a request of n words; a remainder that can
   hold a block of its own becomes one.                                     *)
Allocate(a, n) ==
    /\ Free(a) /\ len[a] >= n
    /\ used' = [used EXCEPT ![a] = TRUE]
    /\ len' = IF len[a] >= n + MinBlock
              THEN [len EXCEPT ![a] = n, ![a + n] = len[a] - n]
              ELSE len

(* Bug: the block before is never looked at. *)
First_Self(a) == a

(* Where the merged block starts and ends when the block at a is freed. *)
First(a) == IF \E p \in Word : Free(p) /\ p + len[p] = a
            THEN CHOOSE p \in Word : Free(p) /\ p + len[p] = a
            ELSE a

(* Bug: the block after is swallowed without asking whether it is free. *)
After_Unchecked(a) == LET n == a + len[a] IN IF n \in Word THEN n + len[n] ELSE n

(* Bug: the block after is never merged. *)
After_Kept(a) == a + len[a]

After(a) == LET n == a + len[a] IN IF n \in Word /\ Free(n) THEN n + len[n] ELSE n

Deallocate(a) ==
    /\ used[a]
    /\ used' = [used EXCEPT ![a] = FALSE]
    /\ len' = [b \in Word |-> IF b = First(a) THEN After(a) - First(a)
                              ELSE IF b \in First(a) .. After(a) - 1 THEN 0
                              ELSE len[b]]

PoolNext == \/ \E a \in Word, n \in Needs : Allocate(a, n)
            \/ \E a \in Word : Deallocate(a)

PoolSpec == PoolInit /\ [][PoolNext]_poolVars

-----------------------------------------------------------------------------

(* The blocks tile the pool: each begins where another ends, ends where the
   next begins, and no two share a word.  So no two callers of kmalloc share
   memory and no word is lost, whatever the order of the calls.             *)
Tiled == /\ 0 \in Start
         /\ \A a \in Start : a + len[a] = Words \/ a + len[a] \in Start
         /\ \A a, b \in Start : a < b => a + len[a] <= b
         /\ \A a \in Start \ {0} : \E p \in Start : p + len[p] = a

(* "Preventing heap fragmentation" (heap.c): no two free blocks touch. *)
Coalesced == \A a, b \in Start : a + len[a] = b => used[a] \/ used[b]

(* Once everything is freed the pool is one block again. *)
NothingLost == (\A a \in Word : ~ used[a]) => len[0] = Words

=============================================================================
