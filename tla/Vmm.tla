--------------------------------- MODULE Vmm ---------------------------------
(***************************************************************************)
(* kernel/mm/vmm.c: the frames of physical memory, the page tables of the  *)
(* kernel's pool region, and the allocation of pages with its failures.    *)
(*                                                                         *)
(* vmm_alloc_pages goes through its pages one step at a time; the kernel   *)
(* makes no other call meanwhile.  The region's page map (PML4 entry 511)  *)
(* is there from the boot loader on, so a walk meets two levels that may   *)
(* be absent: a directory, and in it a table.  A frame's ref_count is 1    *)
(* from its allocation to its release, for nothing raises it; the contents *)
(* of pages and the flags of entries are left out.                         *)
(***************************************************************************)
EXTENDS Naturals, Sequences, FiniteSets

CONSTANTS Frames,       (* g_pfn_count                                       *)
          LowFrames,    (* frames below 1 MB: 256                            *)
          KernelFrames, (* frames of the kernel's binary                     *)
          DbPages,      (* frames the frame database takes                   *)
          Maps,         (* memory maps the firmware may hand over            *)
          Fanout,       (* entries of a table: 512                           *)
          PoolPages,    (* bound: pages of the region the model can use      *)
          Sizes         (* numbers of pages callers ask for                  *)

Frame == 0 .. Frames - 1
Page  == 0 .. PoolPages - 1
Absent == 0     \* an entry that is not present; frame 0 is never handed out

(* The entries that page p is looked up by: of the directory above it, of the
   table above it, and its own.                                             *)
Dir(p) == <<"dir", p \div (Fanout * Fanout)>>
Tab(p) == <<"tab", p \div Fanout>>
Pte(p) == <<"pte", p>>

Entry == {Dir(p) : p \in Page} \cup {Tab(p) : p \in Page} \cup {Pte(p) : p \in Page}

ASSUME VmmAssumption ==
    /\ {Frames, LowFrames, DbPages, Fanout, PoolPages} \subseteq Nat \ {0}
    /\ Sizes \subseteq Nat \ {0}
    /\ \A m \in Maps : m \in Seq([type : 0 .. 14, first : Frame, pages : Nat])

VARIABLES database,    (* the frames of g_pfn_database                       *)
          free_list,   (* the frames from g_pfn_free_head on             *)
          free_count,  (* g_pfn_free_count                                   *)
          entry,       (* the frame each entry holds, or Absent              *)
          pool_next,   (* s_pool_next: the first page never handed out       *)
          call,        (* the call of vmm_alloc_pages under way: it asks for
                          n pages, and i of them are mapped; n = 0 for none  *)
          held         (* the regions callers got and have not freed         *)

vmmVars == <<database, free_list, free_count, entry, pool_next, call, held>>

(* The elements of the set S, pushed on a stack from the least to the greatest. *)
Stacks(S) == {s \in [1 .. Cardinality(S) -> S] :
                 \A i, j \in 1 .. Cardinality(S) : i < j => s[i] > s[j]}

-----------------------------------------------------------------------------
(* pfn_database_init.                                                      *)

Conventional(d) == d.type \in {3, 4, 7}

(* A region that can hold the database, and a frame of its own. *)
HoldsDb(d) == Conventional(d) /\ d.pages > DbPages /\ d.first >= LowFrames

(* The database is at the start of the first such region of the map m. *)
DbFrames(m) ==
    {f \in Frame : \E i \in DOMAIN m :
                      /\ HoldsDb(m[i])
                      /\ \A j \in 1 .. i - 1 : ~ HoldsDb(m[j])
                      /\ f \in m[i].first .. m[i].first + DbPages - 1}

(* The frames of conventional memory that are not low, the kernel's or the
   database's; with no room for the database no frame is known.             *)
FreeAtBoot(m) ==
    {f \in Frame \ (KernelFrames \cup DbFrames(m)) :
        /\ DbFrames(m) # {}
        /\ f >= LowFrames
        /\ \E i \in DOMAIN m : /\ Conventional(m[i])
                               /\ f \in m[i].first .. m[i].first + m[i].pages - 1}

Idle == [n |-> 0, i |-> 0, base |-> 0]

vmm_init == /\ \E m \in Maps : /\ database = DbFrames(m)
                              /\ free_list \in Stacks(FreeAtBoot(m))
            /\ free_count = Len(free_list)
            /\ entry = [e \in Entry |-> Absent]
            /\ pool_next = 0
            /\ call = Idle
            /\ held = {}

-----------------------------------------------------------------------------
(* Bug: the next caller gets the same addresses. *)
vmm_alloc_pages_SamePlace(n) ==
    /\ call = Idle
    /\ free_count >= n
    /\ pool_next + n <= PoolPages
    /\ call' = [n |-> n, i |-> 0, base |-> pool_next]
    /\ UNCHANGED <<database, free_list, free_count, entry, pool_next, held>>

(* vmm_alloc_pages is entered, with enough free frames for the pages. *)
vmm_alloc_pages(n) ==
    /\ call = Idle
    /\ free_count >= n
    /\ pool_next + n <= PoolPages
    /\ pool_next' = pool_next + n
    /\ call' = [n |-> n, i |-> 0, base |-> pool_next]
    /\ UNCHANGED <<database, free_list, free_count, entry, held>>

(* Bug: one page too many. *)
Mapping_OneMore == call.n > 0 /\ call.i <= call.n

Mapping == call.i < call.n
page == call.base + call.i          \* the page whose turn it is

(* How many of the two levels above the page are missing: without a directory
   there is no table in it.                                                 *)
Missing == IF entry[Dir(page)] = Absent THEN 2
           ELSE IF entry[Tab(page)] = Absent THEN 1 ELSE 0

(* The page gets a frame, and frames for the tables that are missing. *)
map_page ==
    /\ Mapping /\ Len(free_list) > Missing
    /\ entry' = [e \in Entry |-> IF e = Pte(page) THEN free_list[1]
                                 ELSE IF e = Dir(page) /\ Missing = 2 THEN free_list[2]
                                 ELSE IF e = Tab(page) /\ Missing > 0 THEN free_list[Missing + 1]
                                 ELSE entry[e]]
    /\ free_list' = SubSeq(free_list, Missing + 2, Len(free_list))
    /\ free_count' = free_count - (Missing + 1)
    /\ call' = [call EXCEPT !.i = @ + 1]
    /\ UNCHANGED <<database, pool_next, held>>

(* vmm_map_page runs out of frames for a table: a directory it has made stays,
   the page's own frame is freed and the call returns 0.  The pages mapped
   before stay mapped.                                                      *)
map_page_fails ==
    /\ Mapping /\ Len(free_list) \in 1 .. Missing
    /\ entry' = IF Len(free_list) = 2 THEN [entry EXCEPT ![Dir(page)] = free_list[2]] ELSE entry
    /\ free_list' = <<free_list[1]>>
    /\ free_count' = free_count - (Len(free_list) - 1)
    /\ pool_next' = call.base
    /\ call' = Idle
    /\ UNCHANGED <<database, held>>

(* Bug: the frames are freed and stay mapped. *)
Release_StaysMapped(va, n) ==
    /\ \E s \in Stacks({p \in va .. va + n - 1 : entry[Pte(p)] # Absent}) :
          /\ free_list' = [i \in DOMAIN s |-> entry[Pte(s[i])]] \o free_list
          /\ free_count' = free_count + Len(s)
    /\ UNCHANGED entry

(* The loop of vmm_free_pages and of the roll-back, over n pages from va on:
   the frames of those that are mapped are freed and the pages unmapped.
   Tables stay.                                                             *)
Release(va, n) ==
    /\ \E s \in Stacks({p \in va .. va + n - 1 : entry[Pte(p)] # Absent}) :
          /\ free_list' = [i \in DOMAIN s |-> entry[Pte(s[i])]] \o free_list
          /\ free_count' = free_count + Len(s)
    /\ entry' = [e \in Entry |-> IF \E p \in va .. va + n - 1 : e = Pte(p)
                                 THEN Absent ELSE entry[e]]

(* No frame is left for the page itself: the call is rolled back. *)
roll_back ==
    /\ Mapping /\ free_list = << >>
    /\ Release(call.base, call.i)
    /\ pool_next' = call.base
    /\ call' = Idle
    /\ UNCHANGED <<database, held>>

(* The call returns the region. *)
alloc_done ==
    /\ call.n > 0 /\ ~ Mapping
    /\ held' = held \cup {[va |-> call.base, n |-> call.n]}
    /\ call' = Idle
    /\ UNCHANGED <<database, free_list, free_count, entry, pool_next>>

(* vmm_free_pages, of a region its caller holds. *)
vmm_free_pages(r) ==
    /\ call = Idle
    /\ held' = held \ {r}
    /\ Release(r.va, r.n)
    /\ UNCHANGED <<database, pool_next, call>>

VmmNext == \/ \E n \in Sizes : vmm_alloc_pages(n)
           \/ map_page \/ map_page_fails \/ roll_back \/ alloc_done
           \/ \E r \in held : vmm_free_pages(r)

VmmSpec == vmm_init /\ [][VmmNext]_vmmVars

-----------------------------------------------------------------------------

VmmTypeOK ==
    /\ database \subseteq Frame
    /\ free_list \in Seq(Frame)
    /\ entry \in [Entry -> Frame]
    /\ pool_next \in 0 .. PoolPages
    /\ call \in [n : {0} \cup Sizes, i : Nat, base : 0 .. PoolPages]
    /\ call.i <= call.n
    /\ held \subseteq [va : Page, n : Sizes]

(* Frames that are never handed out; frame 0 is one of them. *)
Reserved == {f \in Frame : f < LowFrames} \cup KernelFrames \cup database

(* A frame is free once, or a table, or backs one page, and only one of
   these, after every failure half-way and every release; the frames of low
   memory, of the kernel and of the database are none of them.              *)
OneUse ==
    /\ \A i, j \in DOMAIN free_list : free_list[i] = free_list[j] => i = j
    /\ \A d, e \in Entry : entry[d] = entry[e] /\ entry[d] # Absent => d = e
    /\ \A i \in DOMAIN free_list, e \in Entry : free_list[i] # entry[e]
    /\ \A i \in DOMAIN free_list : free_list[i] \notin Reserved
    /\ \A e \in Entry : entry[e] # Absent => entry[e] \notin Reserved
    /\ free_count = Len(free_list)

Pages(r) == r.va .. r.va + r.n - 1

(* Page p is mapped, through the tables above it. *)
Backed(p) == \A e \in {Dir(p), Tab(p), Pte(p)} : entry[e] # Absent

(* A region that was handed out stays mapped, with the tables above it, until
   it is freed, and shares no page with another: a failed call gives its
   addresses back, and they must not be anyone's.                           *)
RegionsBacked ==
    /\ \A r \in held : \A p \in Pages(r) : p < pool_next /\ Backed(p)
    /\ \A r, s \in held : r # s => Pages(r) \cap Pages(s) = {}

=============================================================================
