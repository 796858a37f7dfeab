------------------------------ MODULE MCMemory ------------------------------
(* The two memory managers, each alone: the pool's words, and the frames   *)
(* and pages that the pool and everything else are made of.  A behaviour   *)
(* exercises one of them and leaves the other in its initial state.        *)
EXTENDS Heap, Vmm

VARIABLE subject

Region(type, first, pages) == [type |-> type, first |-> first, pages |-> pages]

(* Twelve frames: low memory, the kernel in memory of its own, then
   conventional regions in one piece, in two pieces around a runtime region,
   or too small for the database.                                           *)
MCMaps == { << Region(7, 0, 2), Region(2, 2, 1), Region(7, 3, 8) >>,
            << Region(7, 0, 2), Region(2, 2, 1), Region(4, 3, 1), Region(5, 4, 1), Region(7, 5, 7) >>,
            << Region(7, 0, 2), Region(2, 2, 1), Region(3, 3, 1) >> }

(* Beside the pool one memory map is enough: the one without a database. *)
MCInit == /\ kheap_init /\ vmm_init
          /\ subject \in {"pool", "pages"}
          /\ subject = "pool" => database = {}

MCNext == /\ UNCHANGED subject
          /\ \/ subject = "pool" /\ Next /\ UNCHANGED vmmVars
             \/ subject = "pages" /\ VmmNext /\ UNCHANGED vars

MCSpec == MCInit /\ [][MCNext]_<<vars, vmmVars, subject>>

-----------------------------------------------------------------------------
(* What a comment of the memory manager says and the code does not do.      *)

(* vmm.h: "or 0 on failure"; vmm.c: "Rollback already-mapped pages".  A page
   that no call is mapping and no caller holds is not mapped.               *)
FailureUndone ==
    call = Idle => \A p \in Page : entry[Pte(p)] # Absent => \E r \in held : p \in Pages(r)
=============================================================================
