---------------------------- MODULE MemoryProofs ----------------------------
(***************************************************************************)
(* Proofs about the two memory managers: module Vmm, for any number of     *)
(* frames, any memory map, any size of the tables and any numbers of pages *)
(* asked for, and module Heap, for a pool of any size and any requests.    *)
(***************************************************************************)
EXTENDS Heap, Vmm, FiniteSetTheorems, WellFoundedInduction, TLAPS

(***************************************************************************)
(* vmm.c: frames, page tables and regions.                                 *)
(***************************************************************************)

(* The call under way owns the last pages handed out; those it has mapped are
   backed; the regions callers hold end before it.                          *)
CallUnderWay ==
    /\ call.n > 0 => /\ call.base + call.n = pool_next
                     /\ \A p \in call.base .. call.base + call.i - 1 : Backed(p)
    /\ \A r \in held : r.va + r.n <= IF call.n > 0 THEN call.base ELSE pool_next

(* The inductive invariant. *)
IInv == VmmTypeOK /\ OneUse /\ RegionsBacked /\ CallUnderWay

-----------------------------------------------------------------------------
(* Facts about entries, frames and stacks.                                 *)

(* What the proofs need of the constants. *)
LEMMA ConstantFacts ==
    /\ Frames \in Nat /\ Frames > 0 /\ LowFrames \in Nat /\ LowFrames > 0
    /\ PoolPages \in Nat /\ PoolPages > 0
    /\ \A n \in Sizes : n \in Nat /\ n > 0
  <1>1. {Frames, LowFrames, DbPages, Fanout, PoolPages} \subseteq Nat \ {0} /\ Sizes \subseteq Nat \ {0}
    BY VmmAssumption
  <1> QED BY <1>1

(* An entry belongs to one level, and a page has an entry of its own in
   the tables vmm_map_page walks.                                           *)
LEMMA EntryFacts ==
    /\ \A p \in Page : Dir(p) \in Entry /\ Tab(p) \in Entry /\ Pte(p) \in Entry
    /\ \A p, q \in Page : Pte(p) = Pte(q) => p = q
    /\ \A p, q \in Page : Pte(p) # Dir(q) /\ Pte(p) # Tab(q) /\ Dir(p) # Tab(q)
  <1>1. \A p \in Page : Dir(p) \in Entry /\ Tab(p) \in Entry /\ Pte(p) \in Entry
    BY DEF Entry
  <1>2. \A p, q \in Page : Pte(p) = Pte(q) => p = q
    BY DEF Pte
  <1>3. \A p, q \in Page : Pte(p) # Dir(q) /\ Pte(p) # Tab(q) /\ Dir(p) # Tab(q)
    BY DEF Pte, Dir, Tab
  <1> QED BY <1>1, <1>2, <1>3

(* Frame 0, which stands for an absent entry, is below 1 MB and so never on
   the free list of pfn_database_init.                                      *)
LEMMA AbsentFacts == Absent \in Frame /\ Absent \in Reserved
  BY ConstantFacts DEF Absent, Frame, Reserved

(* The loop that pushes a set of frames or pages in ascending order leaves a
   sequence of distinct elements of the set.                                *)
LEMMA StackFacts ==
    ASSUME NEW S, S \subseteq Nat, IsFiniteSet(S), NEW s \in Stacks(S)
    PROVE  /\ s \in Seq(S)
           /\ DOMAIN s = 1 .. Len(s) /\ Len(s) \in Nat
           /\ \A i, j \in DOMAIN s : s[i] = s[j] => i = j
  <1>1. Cardinality(S) \in Nat
    BY FS_CardinalityType
  <1>2. s \in [1 .. Cardinality(S) -> S]
    BY DEF Stacks
  <1>3. s \in Seq(S) /\ Len(s) = Cardinality(S)
    BY <1>1, <1>2
  <1>4. ASSUME NEW i \in DOMAIN s, NEW j \in DOMAIN s, s[i] = s[j]
        PROVE  i = j
    <2>1. i \in 1 .. Cardinality(S) /\ j \in 1 .. Cardinality(S)
      BY <1>2
    <2>2. s[i] \in Nat /\ s[j] \in Nat
      BY <1>2, <2>1
    <2>3. (i < j => s[i] > s[j]) /\ (j < i => s[j] > s[i])
      BY <2>1 DEF Stacks
    <2> QED BY <1>1, <1>4, <2>1, <2>2, <2>3
  <1> QED BY <1>2, <1>3, <1>4

-----------------------------------------------------------------------------
(* What the steps do to the frames.                                        *)

(* vmm_alloc_physical, some times: the entries T get the frames at the places
   k of the free list, and those at the n places g stay on it.              *)
Take(T, k, n, g) ==
    /\ T \in SUBSET Entry
    /\ k \in [T -> DOMAIN free_list]
    /\ \A d, e \in T : k[d] = k[e] => d = e
    /\ n \in Nat
    /\ g \in [1 .. n -> DOMAIN free_list]
    /\ \A i, j \in 1 .. n : g[i] = g[j] => i = j
    /\ \A e \in T, i \in 1 .. n : k[e] # g[i]
    /\ entry' = [e \in Entry |-> IF e \in T THEN free_list[k[e]] ELSE entry[e]]
    /\ free_list' = [i \in 1 .. n |-> free_list[g[i]]]
    /\ free_count' = n
    /\ UNCHANGED database

(* Then every frame still has one use. *)
LEMMA TakeFrames ==
    ASSUME VmmTypeOK, OneUse, NEW T, NEW k, NEW n, NEW g, Take(T, k, n, g)
    PROVE  /\ OneUse'
           /\ entry' \in [Entry -> Frame]
           /\ free_list' \in Seq(Frame)
           /\ \A e \in Entry : entry[e] # Absent => entry'[e] # Absent
           /\ \A e \in T : entry'[e] # Absent
  <1> USE DEF Take
  <1>1. Reserved' = Reserved
    BY DEF Reserved
  <1>2. \A i \in DOMAIN free_list : free_list[i] \in Frame
    BY DEF VmmTypeOK
  <1>3. \A i \in DOMAIN free_list : free_list[i] # Absent
    BY AbsentFacts DEF OneUse
  <1>4. /\ \A e \in T : entry'[e] = free_list[k[e]] /\ k[e] \in DOMAIN free_list
        /\ \A e \in Entry \ T : entry'[e] = entry[e]
    OBVIOUS
  <1>5. entry' \in [Entry -> Frame]
    BY <1>2 DEF VmmTypeOK
  <1>6. free_list' \in [1 .. n -> Frame] /\ DOMAIN free_list' = 1 .. n
    BY <1>2
  <1>7. free_list' \in Seq(Frame) /\ Len(free_list') = n
    BY <1>6
  <1>8. \A i, j \in 1 .. n : free_list'[i] = free_list'[j] => i = j
    BY DEF OneUse
  <1>9. \A d, e \in Entry : entry'[d] = entry'[e] /\ entry'[d] # Absent => d = e
    BY <1>4 DEF OneUse
  <1>10. \A i \in 1 .. n, e \in Entry : free_list'[i] # entry'[e]
    BY <1>4 DEF OneUse
  <1>11. \A i \in 1 .. n : free_list'[i] \notin Reserved
    BY DEF OneUse
  <1>12. \A e \in Entry : entry'[e] # Absent => entry'[e] \notin Reserved
    BY <1>4 DEF OneUse
  <1>13. OneUse'
    BY <1>1, <1>6, <1>7, <1>8, <1>9, <1>10, <1>11, <1>12 DEF OneUse
  <1> QED BY <1>3, <1>4, <1>5, <1>7, <1>13

(* The loop of vmm_free_pages: frames go from entries to the free list. *)
LEMMA ReleaseFrames ==
    ASSUME VmmTypeOK, OneUse, UNCHANGED database,
           NEW va \in Nat, NEW n \in Nat, va + n <= PoolPages, Release(va, n)
    PROVE  /\ OneUse'
           /\ entry' \in [Entry -> Frame]
           /\ free_list' \in Seq(Frame)
           /\ \A p \in Page : /\ entry'[Dir(p)] = entry[Dir(p)]
                              /\ entry'[Tab(p)] = entry[Tab(p)]
                              /\ p \notin va .. va + n - 1 => entry'[Pte(p)] = entry[Pte(p)]
  <1> DEFINE S == {p \in va .. va + n - 1 : entry[Pte(p)] # Absent}
  <1>1. Reserved' = Reserved
    BY DEF Reserved
  <1>2. PICK s \in Stacks(S) :
            /\ free_list' = [i \in DOMAIN s |-> entry[Pte(s[i])]] \o free_list
            /\ free_count' = free_count + Len(s)
    BY DEF Release
  <1>3. entry' = [e \in Entry |-> IF \E p \in va .. va + n - 1 : e = Pte(p)
                                  THEN Absent ELSE entry[e]]
    BY DEF Release
  <1>4. va .. va + n - 1 \subseteq Page
    BY ConstantFacts DEF Page
  <1>5. S \subseteq Nat /\ IsFiniteSet(S)
    <2>1. IsFiniteSet(va .. va + n - 1)
      BY FS_Interval
    <2> QED BY <2>1, FS_Subset
  <1>6. /\ s \in Seq(S) /\ DOMAIN s = 1 .. Len(s) /\ Len(s) \in Nat
        /\ \A i, j \in DOMAIN s : s[i] = s[j] => i = j
    BY <1>5, StackFacts
  <1>7. \A i \in DOMAIN s : /\ s[i] \in Page /\ s[i] \in va .. va + n - 1
                            /\ entry[Pte(s[i])] # Absent /\ Pte(s[i]) \in Entry
    <2>1. \A i \in DOMAIN s : s[i] \in S
      BY <1>6
    <2> QED BY <2>1, <1>4, EntryFacts
  <1> DEFINE F == [i \in 1 .. Len(s) |-> entry[Pte(s[i])]]
  <1>8. F \in Seq(Frame) /\ Len(F) = Len(s)
    <2>1. F \in [1 .. Len(s) -> Frame]
      BY <1>6, <1>7 DEF VmmTypeOK
    <2> QED BY <2>1, <1>6
  <1>9. free_list' = F \o free_list
    BY <1>2, <1>6
  <1>10. \A i \in 1 .. Len(s) : F[i] = entry[Pte(s[i])] /\ F[i] # Absent
    BY <1>6, <1>7
  <1> HIDE DEF F, S
  <1>a. \A i \in 1 .. Len(s), j \in DOMAIN free_list : F[i] # free_list[j]
    <2> SUFFICES ASSUME NEW i \in 1 .. Len(s), NEW j \in DOMAIN free_list
                 PROVE  F[i] # free_list[j]
      OBVIOUS
    <2>1. Pte(s[i]) \in Entry /\ F[i] = entry[Pte(s[i])]
      BY <1>6, <1>7, <1>10
    <2> QED BY <2>1 DEF OneUse
  <1>11. free_list \in Seq(Frame)
    BY DEF VmmTypeOK
  <1>12. /\ free_list' \in Seq(Frame)
         /\ Len(free_list') = Len(s) + Len(free_list)
         /\ DOMAIN free_list' = 1 .. Len(s) + Len(free_list)
         /\ \A i \in DOMAIN free_list' :
               \/ i \in 1 .. Len(s) /\ free_list'[i] = F[i]
               \/ /\ i \notin 1 .. Len(s) /\ i - Len(s) \in DOMAIN free_list
                  /\ free_list'[i] = free_list[i - Len(s)]
    <2>1. F \o free_list \in Seq(Frame)
      BY <1>8, <1>11
    <2>2. Len(F \o free_list) = Len(s) + Len(free_list)
      BY <1>8, <1>11
    <2>3. DOMAIN (F \o free_list) = 1 .. Len(s) + Len(free_list)
      BY <1>8, <1>11
    <2>4. ASSUME NEW i \in 1 .. Len(s) + Len(free_list)
          PROVE  \/ i \in 1 .. Len(s) /\ (F \o free_list)[i] = F[i]
                 \/ /\ i \notin 1 .. Len(s) /\ i - Len(s) \in DOMAIN free_list
                    /\ (F \o free_list)[i] = free_list[i - Len(s)]
      BY <1>8, <1>11
    <2> QED BY <2>1, <2>2, <2>3, <2>4, <1>9
  <1>13. entry' \in [Entry -> Frame]
    BY <1>3, AbsentFacts DEF VmmTypeOK
  <1>14. \A e \in Entry : \/ entry'[e] = Absent
                          \/ entry'[e] = entry[e] /\ \A i \in 1 .. Len(s) : e # Pte(s[i])
    <2> SUFFICES ASSUME NEW e \in Entry, entry'[e] # Absent
                 PROVE  entry'[e] = entry[e] /\ \A i \in 1 .. Len(s) : e # Pte(s[i])
      OBVIOUS
    <2>1. ~ \E p \in va .. va + n - 1 : e = Pte(p)
      BY <1>3
    <2>2. entry'[e] = entry[e]
      BY <1>3, <2>1
    <2>3. \A i \in 1 .. Len(s) : e # Pte(s[i])
      BY <1>6, <1>7, <2>1
    <2> QED BY <2>2, <2>3
  <1>15. \A i, j \in DOMAIN free_list' : free_list'[i] = free_list'[j] => i = j
    <2> SUFFICES ASSUME NEW i \in DOMAIN free_list', NEW j \in DOMAIN free_list',
                        free_list'[i] = free_list'[j]
                 PROVE  i = j
      OBVIOUS
    <2>1. CASE i \in 1 .. Len(s) /\ j \in 1 .. Len(s)
      <3>1. /\ Pte(s[i]) \in Entry /\ Pte(s[j]) \in Entry
            /\ entry[Pte(s[i])] # Absent
            /\ entry[Pte(s[i])] = entry[Pte(s[j])]
        BY <1>6, <1>7, <1>10, <1>12, <2>1
      <3>2. Pte(s[i]) = Pte(s[j])
        BY <3>1 DEF OneUse
      <3> QED BY <3>2, <2>1, <1>6, <1>7, EntryFacts
    <2>2. CASE i \in 1 .. Len(s) /\ j \notin 1 .. Len(s)
      BY <2>2, <1>a, <1>12
    <2>3. CASE i \notin 1 .. Len(s) /\ j \in 1 .. Len(s)
      BY <2>3, <1>a, <1>12
    <2>4. CASE i \notin 1 .. Len(s) /\ j \notin 1 .. Len(s)
      <3>1. i - Len(s) = j - Len(s)
        BY <2>4, <1>12 DEF OneUse
      <3> QED BY <3>1, <1>6, <1>11, <1>12
    <2> QED BY <2>1, <2>2, <2>3, <2>4
  <1>16. \A d, e \in Entry : entry'[d] = entry'[e] /\ entry'[d] # Absent => d = e
    BY <1>14 DEF OneUse
  <1>17. \A i \in DOMAIN free_list', e \in Entry : free_list'[i] # entry'[e]
    <2> SUFFICES ASSUME NEW i \in DOMAIN free_list', NEW e \in Entry,
                        free_list'[i] = entry'[e]
                 PROVE  FALSE
      OBVIOUS
    <2>1. CASE i \in 1 .. Len(s)
      <3>1. /\ Pte(s[i]) \in Entry /\ entry[Pte(s[i])] # Absent
            /\ entry'[e] = entry[Pte(s[i])]
        BY <2>1, <1>6, <1>7, <1>10, <1>12
      <3>2. entry'[e] = entry[e] /\ e # Pte(s[i])
        BY <2>1, <3>1, <1>14
      <3> QED BY <3>1, <3>2 DEF OneUse
    <2>2. CASE i \notin 1 .. Len(s)
      BY <2>2, <1>12, <1>14, AbsentFacts DEF OneUse
    <2> QED BY <2>1, <2>2
  <1>18. \A i \in DOMAIN free_list' : free_list'[i] \notin Reserved
    BY SMTT(30), <1>6, <1>7, <1>10, <1>12 DEF OneUse
  <1>19. \A e \in Entry : entry'[e] # Absent => entry'[e] \notin Reserved
    BY <1>14 DEF OneUse
  <1>20. free_count' = Len(free_list')
    BY <1>2, <1>6, <1>11, <1>12 DEF OneUse
  <1>21. OneUse'
    BY <1>1, <1>15, <1>16, <1>17, <1>18, <1>19, <1>20 DEF OneUse
  <1>22. \A p \in Page : /\ entry'[Dir(p)] = entry[Dir(p)]
                         /\ entry'[Tab(p)] = entry[Tab(p)]
                         /\ p \notin va .. va + n - 1 => entry'[Pte(p)] = entry[Pte(p)]
    BY <1>3, <1>4, EntryFacts
  <1> QED BY <1>12, <1>13, <1>21, <1>22

-----------------------------------------------------------------------------
(* The pages a caller holds, or is being given, exist. *)
LEMMA PageFacts ==
    ASSUME VmmTypeOK, CallUnderWay
    PROVE  /\ call.n \in Nat /\ call.i \in Nat /\ call.base \in Nat
           /\ pool_next \in Nat /\ PoolPages \in Nat /\ pool_next <= PoolPages
           /\ call.n > 0 => call.base + call.n <= PoolPages
           /\ Mapping => call.n > 0 /\ page \in Page
           /\ \A r \in held : r.va \in Nat /\ r.n \in Nat /\ r.n > 0 /\ Pages(r) \subseteq Page
  <1>1. /\ call.n \in Nat /\ call.i \in Nat /\ call.base \in Nat
        /\ pool_next \in Nat /\ PoolPages \in Nat /\ pool_next <= PoolPages
        /\ call.n > 0 => call.base + call.n <= PoolPages
    BY ConstantFacts DEF VmmTypeOK, CallUnderWay
  <1>2. Mapping => call.n > 0 /\ page \in Page
    BY <1>1 DEF Mapping, page, Page
  <1>3. ASSUME NEW r \in held
        PROVE  r.va \in Nat /\ r.n \in Nat /\ r.n > 0 /\ Pages(r) \subseteq Page
    <2>1. r \in [va : Page, n : Sizes]
      BY DEF VmmTypeOK
    <2>2. r.va \in Nat /\ r.n \in Nat /\ r.n > 0
      BY <2>1, ConstantFacts DEF Page
    <2>3. r.va + r.n <= pool_next
      BY <1>1, <2>2 DEF CallUnderWay
    <2> QED BY <1>1, <2>2, <2>3 DEF Pages, Page
  <1> QED BY <1>1, <1>2, <1>3

(* A page is backed by three entries. *)
LEMMA BackedFacts ==
    /\ \A p : Backed(p) <=> /\ entry[Dir(p)] # Absent
                            /\ entry[Tab(p)] # Absent
                            /\ entry[Pte(p)] # Absent
    /\ \A p : Backed(p)' <=> /\ entry'[Dir(p)] # Absent
                             /\ entry'[Tab(p)] # Absent
                             /\ entry'[Pte(p)] # Absent
  BY DEF Backed, Absent, Dir, Tab, Pte

(* pfn_database_init leaves distinct frames on the free list, none reserved. *)
LEMMA InitIInv == vmm_init => IInv
  <1> SUFFICES ASSUME vmm_init PROVE IInv
    OBVIOUS
  <1>1. PICK m \in Maps : database = DbFrames(m) /\ free_list \in Stacks(FreeAtBoot(m))
    BY DEF vmm_init
  <1>2. FreeAtBoot(m) \subseteq Frame /\ database \subseteq Frame
    BY <1>1 DEF FreeAtBoot, DbFrames
  <1>3. FreeAtBoot(m) \subseteq Nat /\ IsFiniteSet(FreeAtBoot(m))
    <2>1. Frame \subseteq Nat /\ IsFiniteSet(Frame)
      BY FS_Interval, ConstantFacts DEF Frame
    <2> QED BY <1>2, <2>1, FS_Subset
  <1>4. /\ free_list \in Seq(FreeAtBoot(m)) /\ DOMAIN free_list = 1 .. Len(free_list)
        /\ \A i, j \in DOMAIN free_list : free_list[i] = free_list[j] => i = j
    BY <1>1, <1>3, StackFacts
  <1>5. \A i \in DOMAIN free_list : free_list[i] \in FreeAtBoot(m)
    BY <1>4
  <1>6. \A f \in FreeAtBoot(m) : f \notin Reserved /\ f # Absent
    BY <1>1, <1>3, AbsentFacts, ConstantFacts DEF FreeAtBoot, Reserved
  <1>7. \A e \in Entry : entry[e] = Absent
    BY DEF vmm_init
  <1>8. VmmTypeOK
    <2>1. free_list \in Seq(Frame)
      BY <1>2, <1>4
    <2>2. entry \in [Entry -> Frame]
      BY AbsentFacts DEF vmm_init
    <2>3. /\ pool_next \in 0 .. PoolPages
          /\ call \in [n : {0} \cup Sizes, i : Nat, base : 0 .. PoolPages]
          /\ call.i <= call.n
          /\ held \subseteq [va : Page, n : Sizes]
      BY ConstantFacts DEF vmm_init, Idle
    <2> QED BY <1>2, <2>1, <2>2, <2>3 DEF VmmTypeOK
  <1>9. OneUse
    BY <1>4, <1>5, <1>6, <1>7 DEF OneUse, vmm_init
  <1>10. RegionsBacked /\ CallUnderWay
    BY DEF RegionsBacked, CallUnderWay, vmm_init, Idle
  <1> QED BY <1>8, <1>9, <1>10 DEF IInv

-----------------------------------------------------------------------------
(* Each step keeps the invariant.                                          *)

(* A step that takes no frame from an entry unmaps no page. *)
LEMMA StaysBacked ==
    ASSUME \A e \in Entry : entry[e] # Absent => entry'[e] # Absent,
           NEW p \in Page, Backed(p)
    PROVE  Backed(p)'
  BY EntryFacts, BackedFacts

(* A call takes the pages from s_pool_next on, which no region reaches. *)
LEMMA AllocPagesIInv ==
    ASSUME IInv, NEW n \in Sizes, vmm_alloc_pages(n)
    PROVE  IInv'
  <1> USE DEF IInv, vmm_alloc_pages
  <1>1. n \in Nat /\ n > 0 /\ PoolPages \in Nat
    BY ConstantFacts
  <1>2. call.n = 0 /\ call'.n = n /\ call'.i = 0 /\ call'.base = pool_next
    BY DEF Idle
  <1>3. pool_next \in Nat /\ pool_next' = pool_next + n
    BY <1>1 DEF VmmTypeOK
  <1>4. VmmTypeOK'
    BY <1>1, <1>3 DEF VmmTypeOK
  <1>5. OneUse'
    BY DEF OneUse, Reserved
  <1>6. RegionsBacked'
    <2>1. \A r \in held : \A p \in Pages(r) : p \in Nat
      BY PageFacts DEF Page
    <2>2. \A p : Backed(p)' <=> Backed(p)
      BY DEF Backed
    <2>3. \A r : Pages(r)' = Pages(r)
      BY DEF Pages
    <2>4. held' = held
      OBVIOUS
    <2> QED BY <1>1, <1>3, <2>1, <2>2, <2>3, <2>4 DEF RegionsBacked
  <1>7. CallUnderWay'
    <2>1. \A r \in held : r.va + r.n <= pool_next
      BY <1>2 DEF CallUnderWay
    <2>2. call'.base .. call'.base + call'.i - 1 = {}
      BY <1>2, <1>3
    <2> QED BY <1>1, <1>2, <1>3, <2>1, <2>2 DEF CallUnderWay
  <1> QED BY <1>4, <1>5, <1>6, <1>7

(* The frames of one round of the loop. *)
LEMMA MapPageFrames ==
    ASSUME VmmTypeOK, OneUse, map_page, page \in Page
    PROVE  /\ OneUse'
           /\ entry' \in [Entry -> Frame]
           /\ free_list' \in Seq(Frame)
           /\ \A e \in Entry : entry[e] # Absent => entry'[e] # Absent
           /\ \A e \in {Dir(page), Tab(page), Pte(page)} : entry'[e] # Absent
  <1> USE DEF map_page
  <1>1. Dir(page) \in Entry /\ Tab(page) \in Entry /\ Pte(page) \in Entry
    BY EntryFacts
  <1>2. Pte(page) # Dir(page) /\ Pte(page) # Tab(page) /\ Dir(page) # Tab(page)
    BY EntryFacts
  <1>3. /\ free_list \in Seq(Frame) /\ Len(free_list) \in Nat
        /\ DOMAIN free_list = 1 .. Len(free_list) /\ free_count = Len(free_list)
    BY DEF VmmTypeOK, OneUse
  <1>4. /\ Missing \in {0, 1, 2}
        /\ Missing = 2 <=> entry[Dir(page)] = Absent
        /\ Missing = 0 => entry[Tab(page)] # Absent
    BY DEF Missing
  <1>a. PICK T : T = {Pte(page)} \cup (IF Missing > 0 THEN {Tab(page)} ELSE {})
                                \cup (IF Missing = 2 THEN {Dir(page)} ELSE {})
    OBVIOUS
  <1>b. PICK k : k = [e \in T |-> IF e = Pte(page) THEN 1
                                  ELSE IF e = Dir(page) THEN 2 ELSE Missing + 1]
    OBVIOUS
  <1>c. PICK n : n = Len(free_list) - (Missing + 1)
    OBVIOUS
  <1>d. PICK g : g = [i \in 1 .. n |-> i + (Missing + 1)]
    OBVIOUS
  <1>5. T \in SUBSET Entry /\ k \in [T -> DOMAIN free_list]
    BY <1>a, <1>b, <1>1, <1>3, <1>4
  <1>6. \A d, e \in T : k[d] = k[e] => d = e
    BY <1>a, <1>b, <1>2, <1>4
  <1>7. n \in Nat /\ g \in [1 .. n -> DOMAIN free_list]
    BY <1>c, <1>d, <1>3, <1>4
  <1>8. \A i, j \in 1 .. n : g[i] = g[j] => i = j
    BY <1>d, <1>4, <1>7
  <1>9. \A e \in T, i \in 1 .. n : k[e] # g[i]
    BY <1>a, <1>b, <1>d, <1>2, <1>4, <1>7
  <1>10. entry' = [e \in Entry |-> IF e \in T THEN free_list[k[e]] ELSE entry[e]]
    BY <1>a, <1>b, <1>2, <1>4
  <1>11. free_list' = [i \in 1 .. n |-> free_list[g[i]]]
    BY <1>c, <1>d, <1>3, <1>4, SMTT(30)
  <1>12. free_count' = n
    BY <1>c, <1>3, <1>4
  <1>13. /\ Pte(page) \in T
         /\ Tab(page) \in T \/ entry[Tab(page)] # Absent
         /\ Dir(page) \in T \/ entry[Dir(page)] # Absent
    BY <1>a, <1>4
  <1>14. UNCHANGED database
    OBVIOUS
  <1> HIDE DEF map_page
  <1>15. /\ OneUse'
         /\ entry' \in [Entry -> Frame]
         /\ free_list' \in Seq(Frame)
         /\ \A e \in Entry : entry[e] # Absent => entry'[e] # Absent
         /\ \A e \in T : entry'[e] # Absent
    <2>1. Take(T, k, n, g)
      BY <1>5, <1>6, <1>7, <1>8, <1>9, <1>10, <1>11, <1>12, <1>14 DEF Take
    <2>2. \A e \in T : e \in Entry
      BY <1>5
    <2> QED BY <2>1, <2>2, TakeFrames
  <1>16. \A e \in {Dir(page), Tab(page), Pte(page)} : entry'[e] # Absent
    BY <1>1, <1>13, <1>15
  <1> QED BY <1>15, <1>16

(* Whatever a step does to the frames, the regions stay as they are when it
   unmaps none of their pages and gives no page of theirs back.             *)
LEMMA RegionsStay ==
    ASSUME VmmTypeOK, CallUnderWay, RegionsBacked, UNCHANGED held,
           \A r \in held : \A p \in Pages(r) : p \in Page => Backed(p)',
           pool_next' \in Nat,
           \A r \in held : r.va + r.n <= pool_next'
    PROVE  RegionsBacked'
  <1>1. \A r : Pages(r)' = Pages(r)
    BY DEF Pages
  <1>2. ASSUME NEW r \in held, NEW p \in Pages(r)
        PROVE  p < pool_next' /\ Backed(p)'
    <2>1. p \in Page /\ p \in Nat /\ r.va \in Nat /\ r.n \in Nat
      BY <1>2, PageFacts, ConstantFacts DEF Page
    <2>2. p < pool_next'
      BY <1>2, <2>1 DEF Pages
    <2> QED BY <1>2, <2>1, <2>2
  <1> QED BY <1>1, <1>2 DEF RegionsBacked

(* A round that succeeds backs one page more of the call. *)
LEMMA MapPageIInv ==
    ASSUME IInv, map_page
    PROVE  IInv'
  <1> USE DEF IInv
  <1>1. /\ call.n \in Nat /\ call.i \in Nat /\ call.base \in Nat /\ pool_next \in Nat
        /\ call.n > 0 /\ page \in Page /\ call.i < call.n
    BY PageFacts DEF map_page, Mapping
  <1>2. /\ OneUse'
        /\ entry' \in [Entry -> Frame]
        /\ free_list' \in Seq(Frame)
        /\ \A e \in Entry : entry[e] # Absent => entry'[e] # Absent
        /\ \A e \in {Dir(page), Tab(page), Pte(page)} : entry'[e] # Absent
    BY <1>1, MapPageFrames
  <1>3. /\ UNCHANGED <<database, pool_next, held>>
        /\ call'.n = call.n /\ call'.base = call.base /\ call'.i = call.i + 1
        /\ call' \in [n : {0} \cup Sizes, i : Nat, base : 0 .. PoolPages]
    <2>1. UNCHANGED <<database, pool_next, held>> /\ call' = [call EXCEPT !.i = call.i + 1]
      BY DEF map_page
    <2>2. call \in [n : {0} \cup Sizes, i : Nat, base : 0 .. PoolPages]
      BY DEF VmmTypeOK
    <2> QED BY <2>1, <2>2, <1>1
  <1>4. VmmTypeOK'
    BY <1>1, <1>2, <1>3 DEF VmmTypeOK
  <1>5. \A p \in Page : Backed(p) => Backed(p)'
    BY <1>2, StaysBacked
  <1>6. RegionsBacked'
    <2>1. \A r \in held : r.va + r.n <= pool_next'
      <3> SUFFICES ASSUME NEW r \in held PROVE r.va + r.n <= pool_next
        BY <1>3
      <3> QED BY <1>1, PageFacts DEF CallUnderWay
    <2>2. \A r \in held : \A p \in Pages(r) : p \in Page => Backed(p)'
      BY <1>5 DEF RegionsBacked
    <2> QED BY <1>1, <1>3, <2>1, <2>2, RegionsStay
  <1>7. CallUnderWay'
    <2>1. ASSUME NEW p \in call.base .. call.base + call.i
          PROVE  Backed(p)'
      <3>1. CASE p = page
        BY <3>1, <1>2, BackedFacts
      <3>2. CASE p # page
        <4>1. p \in call.base .. call.base + call.i - 1 /\ p \in Page
          BY <1>1, <3>2, ConstantFacts, PageFacts DEF page, Page
        <4> QED BY <1>1, <1>5, <4>1 DEF CallUnderWay
      <3> QED BY <3>1, <3>2
    <2>2. call'.base + call'.i - 1 = call.base + call.i
      BY <1>1, <1>3
    <2>3. \A p \in call'.base .. call'.base + call'.i - 1 : Backed(p)'
      BY <1>3, <2>1, <2>2
    <2> QED BY <1>1, <1>3, <2>3 DEF CallUnderWay
  <1> QED BY <1>2, <1>4, <1>6, <1>7

(* The frames of a round that fails: the page's own goes back, and a
   directory may have been made.                                            *)
LEMMA MapFailsFrames ==
    ASSUME VmmTypeOK, OneUse, map_page_fails, page \in Page
    PROVE  /\ OneUse'
           /\ entry' \in [Entry -> Frame]
           /\ free_list' \in Seq(Frame)
           /\ \A e \in Entry : entry[e] # Absent => entry'[e] # Absent
  <1> USE DEF map_page_fails
  <1>1. Dir(page) \in Entry
    BY EntryFacts
  <1>2. /\ free_list \in Seq(Frame) /\ Len(free_list) \in {1, 2}
        /\ DOMAIN free_list = 1 .. Len(free_list) /\ free_count = Len(free_list)
        /\ entry \in [Entry -> Frame]
    BY SMTT(30) DEF VmmTypeOK, OneUse, Missing
  <1>a. PICK T : T = IF Len(free_list) = 2 THEN {Dir(page)} ELSE {}
    OBVIOUS
  <1>b. PICK k : k = [e \in T |-> 2]
    OBVIOUS
  <1>c. PICK g : g = [i \in 1 .. 1 |-> 1]
    OBVIOUS
  <1>3. T \in SUBSET Entry /\ k \in [T -> DOMAIN free_list]
    BY <1>a, <1>b, <1>1, <1>2
  <1>4. \A d, e \in T : k[d] = k[e] => d = e
    BY <1>a
  <1>5. g \in [1 .. 1 -> DOMAIN free_list] /\ \A i, j \in 1 .. 1 : g[i] = g[j] => i = j
    BY <1>c, <1>2
  <1>6. \A e \in T, i \in 1 .. 1 : k[e] # g[i]
    BY <1>b, <1>c
  <1>7. entry' = [e \in Entry |-> IF e \in T THEN free_list[k[e]] ELSE entry[e]]
    BY <1>a, <1>b, <1>1, <1>2
  <1>8. free_list' = [i \in 1 .. 1 |-> free_list[g[i]]] /\ free_count' = 1
    BY <1>c, <1>2
  <1>9. Take(T, k, 1, g)
    BY <1>3, <1>4, <1>5, <1>6, <1>7, <1>8 DEF Take
  <1> HIDE DEF map_page_fails
  <1> QED BY <1>9, TakeFrames

(* A round that fails unmaps nothing, and gives back pages no region reaches. *)
LEMMA MapFailsIInv ==
    ASSUME IInv, map_page_fails
    PROVE  IInv'
  <1> USE DEF IInv
  <1>1. /\ call.n \in Nat /\ call.i \in Nat /\ call.base \in Nat
        /\ call.n > 0 /\ page \in Page
    BY PageFacts DEF map_page_fails
  <1>2. /\ OneUse'
        /\ entry' \in [Entry -> Frame]
        /\ free_list' \in Seq(Frame)
        /\ \A e \in Entry : entry[e] # Absent => entry'[e] # Absent
    BY <1>1, MapFailsFrames
  <1>3. /\ UNCHANGED <<database, held>> /\ pool_next' = call.base
        /\ call' = [n |-> 0, i |-> 0, base |-> 0]
    BY DEF map_page_fails, Idle
  <1>4. call.base \in 0 .. PoolPages /\ 0 \in 0 .. PoolPages
    BY ConstantFacts DEF VmmTypeOK
  <1>5. VmmTypeOK'
    BY <1>2, <1>3, <1>4 DEF VmmTypeOK
  <1>6. \A r \in held : r.va + r.n <= call.base
    BY <1>1 DEF CallUnderWay
  <1>7. RegionsBacked'
    <2>1. \A r \in held : \A p \in Pages(r) : p \in Page => Backed(p)'
      BY <1>2, StaysBacked DEF RegionsBacked
    <2> QED BY <1>1, <1>3, <1>6, <2>1, RegionsStay
  <1>8. CallUnderWay'
    BY <1>3, <1>6 DEF CallUnderWay
  <1> QED BY <1>2, <1>5, <1>7, <1>8

(* The roll-back unmaps pages of the call only. *)
LEMMA RollBackIInv ==
    ASSUME IInv, roll_back
    PROVE  IInv'
  <1> USE DEF IInv
  <1>1. /\ call.n \in Nat /\ call.i \in Nat /\ call.base \in Nat /\ PoolPages \in Nat
        /\ call.n > 0 /\ call.i < call.n /\ call.base + call.n <= PoolPages
    BY PageFacts DEF roll_back, Mapping
  <1>2. Release(call.base, call.i) /\ UNCHANGED database
    BY DEF roll_back
  <1>3. /\ OneUse'
        /\ entry' \in [Entry -> Frame]
        /\ free_list' \in Seq(Frame)
        /\ \A p \in Page : /\ entry'[Dir(p)] = entry[Dir(p)]
                           /\ entry'[Tab(p)] = entry[Tab(p)]
                           /\ p \notin call.base .. call.base + call.i - 1
                                => entry'[Pte(p)] = entry[Pte(p)]
    <2>1. call.base + call.i <= PoolPages
      BY <1>1
    <2> QED BY <1>1, <1>2, <2>1, ReleaseFrames
  <1>4. /\ UNCHANGED held /\ pool_next' = call.base
        /\ call' = [n |-> 0, i |-> 0, base |-> 0]
    BY DEF roll_back, Idle
  <1>5. VmmTypeOK'
    <2>1. call.base \in 0 .. PoolPages /\ 0 \in 0 .. PoolPages
      BY <1>1
    <2> QED BY <1>2, <1>3, <1>4, <2>1 DEF VmmTypeOK
  <1>6. \A r \in held : r.va + r.n <= call.base
    BY <1>1 DEF CallUnderWay
  <1>7. RegionsBacked'
    <2>1. ASSUME NEW r \in held, NEW p \in Pages(r), p \in Page
          PROVE  Backed(p)'
      <3>1. r.va + r.n <= call.base /\ r.va \in Nat /\ r.n \in Nat
        BY <1>6, PageFacts
      <3>2. p \notin call.base .. call.base + call.i - 1
        BY <1>1, <3>1 DEF Pages
      <3> QED BY <1>3, <2>1, <3>2, BackedFacts DEF RegionsBacked
    <2> QED BY <1>1, <1>4, <1>6, <2>1, RegionsStay
  <1>8. CallUnderWay'
    BY <1>4, <1>6 DEF CallUnderWay
  <1> QED BY <1>3, <1>5, <1>7, <1>8

(* A region is handed out when all its pages are backed. *)
LEMMA AllocDoneIInv ==
    ASSUME IInv, alloc_done
    PROVE  IInv'
  <1> USE DEF IInv
  <1> DEFINE new == [va |-> call.base, n |-> call.n]
  <1>1. /\ call.n \in Nat /\ call.i \in Nat /\ call.base \in Nat /\ PoolPages \in Nat
        /\ call.n > 0 /\ call.i = call.n /\ call.base + call.n = pool_next
        /\ pool_next <= PoolPages
    <2>1. call.n > 0 /\ ~ (call.i < call.n) /\ call.i <= call.n
      BY DEF alloc_done, Mapping, VmmTypeOK
    <2> QED BY <2>1, PageFacts DEF CallUnderWay
  <1>2. /\ held' = held \cup {new}
        /\ call' = [n |-> 0, i |-> 0, base |-> 0]
        /\ UNCHANGED <<database, free_list, free_count, entry, pool_next>>
    BY DEF alloc_done, Idle
  <1>3. \A r : Pages(r)' = Pages(r)
    BY DEF Pages
  <1>4. \A p : Backed(p)' <=> Backed(p)
    BY <1>2 DEF Backed
  <1>5. VmmTypeOK'
    <2>1. new \in [va : Page, n : Sizes]
      BY <1>1 DEF VmmTypeOK, Page
    <2>2. 0 \in 0 .. PoolPages
      BY <1>1
    <2> QED BY <1>2, <2>1, <2>2 DEF VmmTypeOK
  <1>6. OneUse'
    BY <1>2 DEF OneUse, Reserved
  <1>7. \A r \in held : r.va \in Nat /\ r.n \in Nat /\ r.va + r.n <= call.base
    BY <1>1, PageFacts DEF CallUnderWay
  <1>8. RegionsBacked'
    <2>1. Pages(new) = call.base .. call.base + call.i - 1
      BY <1>1 DEF Pages
    <2>2. \A p \in Pages(new) : p < pool_next /\ Backed(p)
      BY <1>1, <2>1 DEF CallUnderWay
    <2>3. ASSUME NEW r \in held
          PROVE  Pages(r) \cap Pages(new) = {}
      BY <1>1, <1>7, <2>1 DEF Pages
    <2> HIDE DEF new
    <2> QED BY <1>2, <1>3, <1>4, <2>2, <2>3 DEF RegionsBacked
  <1>9. CallUnderWay'
    <2>1. new.va + new.n <= pool_next
      BY <1>1
    <2>2. \A r \in held : r.va + r.n <= pool_next
      BY <1>1, <1>7
    <2> HIDE DEF new
    <2> QED BY <1>2, <2>1, <2>2 DEF CallUnderWay
  <1> QED BY <1>5, <1>6, <1>8, <1>9

(* A release unmaps pages of one region, and regions share none. *)
LEMMA FreePagesIInv ==
    ASSUME IInv, NEW r \in held, vmm_free_pages(r)
    PROVE  IInv'
  <1> USE DEF IInv
  <1>1. /\ r.va \in Nat /\ r.n \in Nat /\ Pages(r) \subseteq Page
        /\ r.va + r.n <= PoolPages /\ PoolPages \in Nat /\ pool_next \in Nat
    <2>1. r.va + r.n <= pool_next
      BY PageFacts DEF CallUnderWay
    <2> QED BY <2>1, PageFacts
  <1>2. /\ Release(r.va, r.n) /\ held' = held \ {r}
        /\ UNCHANGED <<database, pool_next, call>> /\ call.n = 0
    BY DEF vmm_free_pages, Idle
  <1>3. /\ OneUse'
        /\ entry' \in [Entry -> Frame]
        /\ free_list' \in Seq(Frame)
        /\ \A p \in Page : /\ entry'[Dir(p)] = entry[Dir(p)]
                           /\ entry'[Tab(p)] = entry[Tab(p)]
                           /\ p \notin r.va .. r.va + r.n - 1 => entry'[Pte(p)] = entry[Pte(p)]
    BY <1>1, <1>2, ReleaseFrames
  <1>4. VmmTypeOK'
    BY <1>2, <1>3 DEF VmmTypeOK
  <1>5. \A q : Pages(q)' = Pages(q)
    BY DEF Pages
  <1>6. RegionsBacked'
    <2>1. ASSUME NEW q \in held, q # r, NEW p \in Pages(q)
          PROVE  Backed(p)'
      <3>1. p \notin r.va .. r.va + r.n - 1
        BY <2>1 DEF RegionsBacked, Pages
      <3>2. p \in Page
        BY PageFacts
      <3> QED BY <1>3, <3>1, <3>2, BackedFacts DEF RegionsBacked
    <2> QED BY <1>2, <1>5, <2>1 DEF RegionsBacked
  <1>7. CallUnderWay'
    BY <1>2 DEF CallUnderWay
  <1> QED BY <1>3, <1>4, <1>6, <1>7

(* The cases of the next-state relation. *)
LEMMA NextIInv ==
    ASSUME IInv, [VmmNext]_vmmVars
    PROVE  IInv'
  <1>1. CASE UNCHANGED vmmVars
    <2>1. \A p : Backed(p)' <=> Backed(p)
      BY <1>1 DEF vmmVars, Backed
    <2>2. \A r : Pages(r)' = Pages(r)
      BY DEF Pages
    <2>3. VmmTypeOK' /\ OneUse'
      BY <1>1 DEF IInv, vmmVars, VmmTypeOK, OneUse, Reserved
    <2>4. RegionsBacked' /\ CallUnderWay'
      BY <1>1, <2>1, <2>2 DEF IInv, vmmVars, RegionsBacked, CallUnderWay
    <2> QED BY <2>3, <2>4 DEF IInv
  <1>2. ASSUME NEW n \in Sizes, vmm_alloc_pages(n) PROVE IInv'
    BY <1>2, AllocPagesIInv
  <1>3. CASE map_page
    BY <1>3, MapPageIInv
  <1>4. CASE map_page_fails
    BY <1>4, MapFailsIInv
  <1>5. CASE roll_back
    BY <1>5, RollBackIInv
  <1>6. CASE alloc_done
    BY <1>6, AllocDoneIInv
  <1>7. ASSUME NEW r \in held, vmm_free_pages(r) PROVE IInv'
    BY <1>7, FreePagesIInv
  <1> QED BY <1>1, <1>2, <1>3, <1>4, <1>5, <1>6, <1>7 DEF VmmNext

(* IInv is an invariant of the specification. *)
LEMMA IInvHolds == VmmSpec => []IInv
  <1>1. vmm_init => IInv
    BY InitIInv
  <1>2. IInv /\ [VmmNext]_vmmVars => IInv'
    BY NextIInv
  <1> QED BY <1>1, <1>2, PTL DEF VmmSpec

-----------------------------------------------------------------------------

(* The memory manager's variables keep their types: in particular a call never
   maps more pages than it was asked for, and the region is not overrun.    *)
THEOREM VmmTypeCorrect == VmmSpec => []VmmTypeOK
  <1>1. IInv => VmmTypeOK
    BY DEF IInv
  <1> QED BY <1>1, IInvHolds, PTL

(* No frame is free and in use, in use twice or on the free list twice, and
   no frame of low memory, the kernel or the database is handed out, whatever
   fails half-way and in whatever order pages are released.                 *)
THEOREM FramesHaveOneUse == VmmSpec => []OneUse
  <1>1. IInv => OneUse
    BY DEF IInv
  <1> QED BY <1>1, IInvHolds, PTL

(* A region a caller of vmm_alloc_pages got stays mapped until it is freed and
   shares no page with another, although failed calls give addresses back.  *)
THEOREM RegionsStayBacked == VmmSpec => []RegionsBacked
  <1>1. IInv => RegionsBacked
    BY DEF IInv
  <1> QED BY <1>1, IInvHolds, PTL

(***************************************************************************)
(* heap.c: the kernel pool.                                                *)
(***************************************************************************)

(* The sizes ln cut the pool into blocks. *)
Tiles(ln) ==
    /\ ln \in [Addr -> 0 .. Words]
    /\ ln[0] > 0
    /\ \A a \in Addr : ln[a] > 0 => /\ ln[a] >= MinBlock
                                    /\ a + ln[a] <= Words
                                    /\ a + ln[a] = Words \/ ln[a + ln[a]] > 0
    /\ \A a, b \in Addr : ln[a] > 0 /\ ln[b] > 0 /\ a < b => a + ln[a] <= b
    /\ \A a \in Addr : ln[a] > 0 /\ a # 0 => \E p \in Addr : ln[p] > 0 /\ p + ln[p] = a

(* What the proofs need of the constants. *)
LEMMA PoolFacts == /\ Words \in Nat /\ Words >= 20 /\ MinBlock = 5
               /\ Addr = 0 .. Words - 1 /\ 0 \in Addr
               /\ Null \notin Addr /\ FreeTag # UsedTag
               /\ FreeTag \notin Addr \cup {Null, Data} \cup 0 .. Words
               /\ UsedTag \notin Addr \cup {Null, Data} \cup 0 .. Words
  BY HeapAssumption DEF MinBlock, HdrWords, FtrWords, Addr

(* kmalloc looks for enough words: the payload, header and footer fit. *)
LEMMA NeedFacts == ASSUME NEW n \in Nat, n > 0
    PROVE /\ Needed(n) \in Nat /\ Needed(n) >= 5
          /\ Payload(n) \in Nat /\ Payload(n) + 3 <= Needed(n)
  <1> DEFINE x == 2 * ((n + 15) \div 16) + HdrWords + FtrWords
             S == {x, MinBlock}
  <1>1. x \in Nat /\ MinBlock = 5 /\ x = 2 * ((n + 15) \div 16) + 3
    BY DEF MinBlock, HdrWords, FtrWords
  <1>2. \E y \in S : \A z \in S : y >= z
    <2> HIDE DEF x
    <2>1. CASE x >= MinBlock
      BY <1>1, <2>1
    <2>2. CASE ~ x >= MinBlock
      BY <1>1, <2>2
    <2> QED BY <2>1, <2>2
  <1>3. Needed(n) \in S /\ \A z \in S : Needed(n) >= z
    BY <1>2 DEF Needed, Max
  <1>4. (n + 7) \div 8 \in Nat /\ (n + 7) \div 8 <= 2 * ((n + 15) \div 16)
    OBVIOUS
  <1> QED BY <1>1, <1>3, <1>4 DEF Payload

-----------------------------------------------------------------------------
(* The free list as a chain of nodes.                                      *)

(* The free list hd of memory m holds the nodes of F, in the order of q. *)
InOrder(m, hd, F, c, q) ==
    /\ hd = IF c = 0 THEN Null ELSE q[1]
    /\ \A n \in F : \E i \in 1 .. c : q[i] = n
    /\ \A i, j \in 1 .. c : i # j => q[i] # q[j]
    /\ \A i \in 1 .. c : m[q[i] + 1] = IF i = c THEN Null ELSE q[i + 1]
    /\ \A i \in 1 .. c : m[q[i]] = IF i = 1 THEN Null ELSE q[i - 1]

(* The nodes of F are the free list that starts at hd, linked both ways. *)
Chain(m, hd, F) == \E c \in Nat : \E q \in [1 .. c -> F] : InOrder(m, hd, F, c, q)

(* Nodes lie inside the pool and share no word. *)
Apart(F) == /\ \A n \in F : n \in Addr /\ n + 1 \in Addr
            /\ \A x, y \in F : x # y => x + 1 < y \/ y + 1 < x

(* A list is where its nodes are. *)
LEMMA ChainFrame ==
    ASSUME NEW m, NEW hd, NEW F, NEW m2, Chain(m, hd, F),
           \A n \in F : m2[n] = m[n] /\ m2[n + 1] = m[n + 1]
    PROVE  Chain(m2, hd, F)
  <1>1. PICK c \in Nat : \E q \in [1 .. c -> F] : InOrder(m, hd, F, c, q)
    BY DEF Chain
  <1>2. PICK q \in [1 .. c -> F] : InOrder(m, hd, F, c, q)
    BY <1>1
  <1>3. InOrder(m2, hd, F, c, q)
    BY <1>2 DEF InOrder
  <1> QED BY <1>2, <1>3 DEF Chain

(* free_list_insert. *)
LEMMA ChainInsert ==
    ASSUME NEW m, NEW hd, NEW F, NEW n, n \notin F, Chain(m, hd, F), Apart(F \cup {n}),
           NEW m2,
           m2[n] = Null, m2[n + 1] = hd,
           hd # Null => m2[hd] = n,
           \A a \in Addr : a # n /\ a # n + 1 /\ a # hd => m2[a] = m[a]
    PROVE  Chain(m2, n, F \cup {n})
  <1>1. PICK c \in Nat : \E q \in [1 .. c -> F] : InOrder(m, hd, F, c, q)
    BY DEF Chain
  <1>2. PICK q \in [1 .. c -> F] : InOrder(m, hd, F, c, q)
    BY <1>1
  <1> DEFINE d == c + 1
             p == [i \in 1 .. d |-> IF i = 1 THEN n ELSE q[i - 1]]
             G == F \cup {n}
  <1>a. n \in Addr /\ n + 1 \in Addr /\ Addr \subseteq Nat /\ Null \notin Addr
    BY PoolFacts DEF Apart
  <1>b. \A i \in 1 .. c : q[i] \in F /\ q[i] \in Addr /\ q[i] + 1 \in Addr
    BY <1>2 DEF Apart
  <1>3. /\ d \in Nat /\ p \in [1 .. d -> G] /\ p[1] = n /\ d # 0
        /\ \A i \in 1 .. d : i # 1 => p[i] = q[i - 1] /\ i - 1 \in 1 .. c
        /\ \A i \in 1 .. d : i # d => p[i + 1] = q[i] /\ i \in 1 .. c
    OBVIOUS
  <1> HIDE DEF p
  <1>c. IF c = 0 THEN hd = Null ELSE hd = q[1] /\ hd \in F /\ hd # Null
    BY <1>a, <1>b, <1>2 DEF InOrder
  <1>d. \A x \in F : m2[x + 1] = m[x + 1] /\ (x # hd => m2[x] = m[x])
    <2> TAKE x \in F
    <2>1. x \in Addr /\ x + 1 \in Addr /\ (x + 1 < n \/ n + 1 < x) /\ x # n
      BY DEF Apart
    <2>2. x + 1 # hd
      <3>1. CASE c = 0
        BY <3>1, <1>c, <1>a, <2>1
      <3>2. CASE c # 0
        <4>1. hd \in F /\ hd \in Addr /\ (x = hd \/ x + 1 < hd \/ hd + 1 < x)
          BY <3>2, <1>c DEF Apart
        <4> QED BY <4>1, <2>1, <1>a
      <3> QED BY <3>1, <3>2
    <2> QED BY <1>a, <2>1, <2>2
  <1>4. \A x \in G : \E i \in 1 .. d : p[i] = x
    <2> TAKE x \in G
    <2>1. CASE x = n
      BY <2>1, <1>3
    <2>2. CASE x \in F
      <3>1. PICK i \in 1 .. c : q[i] = x
        BY <1>2, <2>2 DEF InOrder
      <3>2. i + 1 \in 1 .. d /\ p[i + 1] = x
        BY <1>3, <3>1
      <3> QED BY <3>2
    <2> QED BY <2>1, <2>2
  <1>5. \A i, j \in 1 .. d : i # j => p[i] # p[j]
    <2> TAKE i, j \in 1 .. d
    <2>0. \A k, l \in 1 .. c : k # l => q[k] # q[l]
      BY <1>2 DEF InOrder
    <2>1. CASE i = 1 /\ j # 1
      BY <2>1, <1>3, <1>b
    <2>2. CASE j = 1 /\ i # 1
      BY <2>2, <1>3, <1>b
    <2>3. CASE i # 1 /\ j # 1
      BY <2>0, <2>3, <1>3
    <2> QED BY <2>1, <2>2, <2>3
  <1>6. ASSUME NEW i \in 1 .. d PROVE m2[p[i] + 1] = IF i = d THEN Null ELSE p[i + 1]
    <2>1. CASE i = 1
      <3>1. hd = IF c = 0 THEN Null ELSE q[1]
        BY <1>2 DEF InOrder
      <3> QED BY <2>1, <1>3, <3>1
    <2>2. CASE i # 1
      <3>1. p[i] = q[i - 1] /\ i - 1 \in 1 .. c
        BY <2>2, <1>3
      <3>2. m2[q[i - 1] + 1] = m[q[i - 1] + 1]
        BY <1>b, <1>d, <3>1
      <3>3. m[q[i - 1] + 1] = IF i - 1 = c THEN Null ELSE q[i]
        BY <1>2, <3>1 DEF InOrder
      <3> QED BY <3>1, <3>2, <3>3, <1>3
    <2> QED BY <2>1, <2>2
  <1>7. ASSUME NEW i \in 1 .. d PROVE m2[p[i]] = IF i = 1 THEN Null ELSE p[i - 1]
    <2>1. CASE i = 1
      BY <2>1, <1>3
    <2>2. CASE i = 2
      <3>1. p[2] = q[1] /\ c # 0
        BY <2>2, <1>3
      <3> QED BY <2>2, <3>1, <1>c, <1>3
    <2>3. CASE i # 1 /\ i # 2
      <3>1. p[i] = q[i - 1] /\ i - 1 \in 1 .. c /\ p[i - 1] = q[i - 2] /\ i - 1 # 1 /\ 1 \in 1 .. c
        BY <2>3, <1>3
      <3>2. q[i - 1] # hd
        BY <3>1, <1>2 DEF InOrder
      <3>3. m[q[i - 1]] = q[i - 2]
        BY <3>1, <1>2 DEF InOrder
      <3> QED BY <2>3, <3>1, <3>2, <3>3, <1>b, <1>d
    <2> QED BY <2>1, <2>2, <2>3
  <1>8. InOrder(m2, n, G, d, p)
    BY <1>3, <1>4, <1>5, <1>6, <1>7 DEF InOrder
  <1> QED BY <1>3, <1>8 DEF Chain

(* free_list_remove. *)
LEMMA ChainRemove ==
    ASSUME NEW m, NEW hd, NEW F, NEW n \in F, Chain(m, hd, F), Apart(F),
           NEW m2, NEW hd2,
           hd2 = IF m[n] = Null THEN m[n + 1] ELSE hd,
           m[n] # Null /\ m[n] + 1 \in Addr /\ m[n] + 1 # n /\ m[n] + 1 # n + 1 /\ m[n] + 1 # m[n + 1] => m2[m[n] + 1] = m[n + 1],
           m[n + 1] # Null /\ m[n + 1] \in Addr /\ m[n + 1] # n /\ m[n + 1] # n + 1 => m2[m[n + 1]] = m[n],
           \A a \in Addr : a # n /\ a # n + 1 /\ (m[n] # Null => a # m[n] + 1)
                              /\ a # m[n + 1] => m2[a] = m[a]
    PROVE  Chain(m2, hd2, F \ {n})
  <1>1. PICK c \in Nat : \E q \in [1 .. c -> F] : InOrder(m, hd, F, c, q)
    BY DEF Chain
  <1>2. PICK q \in [1 .. c -> F] : InOrder(m, hd, F, c, q)
    BY <1>1
  <1>3. PICK k \in 1 .. c : q[k] = n
    BY <1>2 DEF InOrder
  <1> DEFINE d == c - 1
             p == [i \in 1 .. d |-> IF i < k THEN q[i] ELSE q[i + 1]]
             G == F \ {n}
  <1>a. Addr \subseteq Nat /\ Null \notin Addr /\ n \in Addr /\ n + 1 \in Addr
    BY PoolFacts DEF Apart
  <1>b. \A i \in 1 .. c : q[i] \in F /\ q[i] \in Addr /\ q[i] + 1 \in Addr
    BY <1>2 DEF Apart
  <1>c. \A i, j \in 1 .. c : i # j => /\ q[i] # q[j] /\ q[i] + 1 # q[j] + 1
                                     /\ q[i] + 1 # q[j] /\ q[j] + 1 # q[i]
    <2> TAKE i, j \in 1 .. c
    <2> HAVE i # j
    <2>1. q[i] # q[j] /\ q[i] \in F /\ q[j] \in F
      BY <1>2 DEF InOrder
    <2>2. q[i] + 1 < q[j] \/ q[j] + 1 < q[i]
      BY <2>1 DEF Apart
    <2>3. q[i] \in Nat /\ q[j] \in Nat
      BY <1>a, <1>b
    <2> QED BY <2>2, <2>3
  <1>h. \A i, j \in 1 .. c : q[i] + 1 # q[j]
    <2> TAKE i, j \in 1 .. c
    <2>1. CASE i = j
      <3>1. q[i] \in Nat
        BY <1>a, <1>b
      <3> QED BY <2>1, <3>1
    <2>2. CASE i # j
      BY <2>2, <1>c
    <2> QED BY <2>1, <2>2
  <1>d. /\ m[n] = IF k = 1 THEN Null ELSE q[k - 1]
        /\ m[n + 1] = IF k = c THEN Null ELSE q[k + 1]
        /\ hd = q[1]
    BY <1>2, <1>3 DEF InOrder
  <1>4. /\ d \in Nat /\ p \in [1 .. d -> G]
        /\ \A i \in 1 .. d : /\ p[i] = IF i < k THEN q[i] ELSE q[i + 1]
                             /\ i \in 1 .. c /\ i + 1 \in 1 .. c
    <2>1. d \in Nat /\ \A i \in 1 .. d : i \in 1 .. c /\ i + 1 \in 1 .. c
      OBVIOUS
    <2>2. \A i \in 1 .. d : (IF i < k THEN q[i] ELSE q[i + 1]) \in G
      <3> TAKE i \in 1 .. d
      <3>1. CASE i < k
        BY <3>1, <2>1, <1>b, <1>c, <1>3
      <3>2. CASE ~(i < k)
        BY <3>2, <2>1, <1>b, <1>c, <1>3
      <3> QED BY <3>1, <3>2
    <2> QED BY <2>1, <2>2
  <1> HIDE DEF p
  (* What the nodes that stay hold now. *)
  <1>e. \A i \in 1 .. c : i # k => m2[q[i] + 1] = IF i = k - 1 THEN m[n + 1] ELSE m[q[i] + 1]
    <2> TAKE i \in 1 .. c
    <2> HAVE i # k
    <2>1. q[i] + 1 # n /\ q[i] + 1 # n + 1 /\ q[i] + 1 \in Addr
      BY <1>a, <1>b, <1>c, <1>3
    <2>2. q[i] + 1 # m[n + 1]
      <3>1. CASE k = c
        BY <3>1, <2>1, <1>a, <1>d
      <3>2. CASE k # c
        <4>1. k + 1 \in 1 .. c /\ m[n + 1] = q[k + 1]
          BY <3>2, <1>d
        <4> QED BY <4>1, <1>h
      <3> QED BY <3>1, <3>2
    <2>3. CASE i = k - 1
      <3>1. m[n] = q[i] /\ m[n] # Null
        BY <2>3, <1>d, <1>b, <1>a
      <3>2. m2[m[n] + 1] = m[n + 1]
        BY <3>1, <2>1, <2>2
      <3> QED BY <3>1, <3>2, <2>3
    <2>4. CASE i # k - 1
      <3>1. m[n] # Null => q[i] + 1 # m[n] + 1
        <4>1. CASE k = 1
          BY <4>1, <1>d
        <4>2. CASE k # 1
          <5>1. k - 1 \in 1 .. c /\ m[n] = q[k - 1]
            BY <4>2, <1>d
          <5> QED BY <5>1, <2>4, <1>b, <1>c, <1>a
        <4> QED BY <4>1, <4>2
      <3> QED BY <3>1, <2>1, <2>2, <2>4
    <2> QED BY <2>3, <2>4
  <1>f. \A i \in 1 .. c : i # k => m2[q[i]] = IF i = k + 1 THEN m[n] ELSE m[q[i]]
    <2> TAKE i \in 1 .. c
    <2> HAVE i # k
    <2>1. q[i] # n /\ q[i] # n + 1 /\ q[i] \in Addr
      BY <1>a, <1>b, <1>c, <1>3
    <2>2. CASE i = k + 1
      <3>1. m[n + 1] = q[i] /\ m[n + 1] # Null
        BY <2>2, <1>d, <1>b, <1>a
      <3> QED BY <3>1, <2>1, <2>2
    <2>3. CASE i # k + 1
      <3>1. q[i] # m[n + 1]
        <4>1. CASE k = c
          BY <4>1, <2>1, <1>a, <1>d
        <4>2. CASE k # c
          <5>1. k + 1 \in 1 .. c /\ m[n + 1] = q[k + 1]
            BY <4>2, <1>d
          <5> QED BY <5>1, <2>3, <1>c
        <4> QED BY <4>1, <4>2
      <3>2. m[n] # Null => q[i] # m[n] + 1
        <4>1. CASE k = 1
          BY <4>1, <1>d
        <4>2. CASE k # 1
          <5>1. k - 1 \in 1 .. c /\ m[n] = q[k - 1]
            BY <4>2, <1>d
          <5> QED BY <5>1, <1>h
        <4> QED BY <4>1, <4>2
      <3> QED BY <3>1, <3>2, <2>1, <2>3
    <2> QED BY <2>2, <2>3
  <1>g. \A i \in 1 .. c : /\ m[q[i] + 1] = IF i = c THEN Null ELSE q[i + 1]
                          /\ m[q[i]] = IF i = 1 THEN Null ELSE q[i - 1]
    BY <1>2 DEF InOrder
  <1>5. hd2 = IF d = 0 THEN Null ELSE p[1]
    <2>1. CASE k = 1
      <3>1. m[n] = Null /\ hd2 = m[n + 1]
        BY <2>1, <1>d
      <3> QED BY <3>1, <2>1, <1>d, <1>4
    <2>2. CASE k # 1
      <3>1. m[n] # Null
        BY <2>2, <1>d, <1>a, <1>b
      <3>2. hd2 = q[1] /\ d # 0 /\ 1 \in 1 .. d
        BY <3>1, <2>2, <1>d
      <3> QED BY <3>2, <2>2, <1>4
    <2> QED BY <2>1, <2>2
  <1>6. \A x \in G : \E i \in 1 .. d : p[i] = x
    <2> TAKE x \in G
    <2>1. PICK i \in 1 .. c : q[i] = x
      BY <1>2 DEF InOrder
    <2>2. i # k
      BY <2>1, <1>3
    <2>3. CASE i < k
      <3>1. i \in 1 .. d /\ p[i] = x
        BY <2>1, <2>3, <1>4
      <3> QED BY <3>1
    <2>4. CASE k < i
      <3>1. i - 1 \in 1 .. d /\ ~(i - 1 < k)
        BY <2>4
      <3>2. p[i - 1] = q[i - 1 + 1] /\ i - 1 + 1 = i
        BY <3>1, <1>4
      <3> QED BY <3>1, <3>2, <2>1
    <2> QED BY <2>2, <2>3, <2>4
  <1>7. \A i, j \in 1 .. d : i # j => p[i] # p[j]
    <2> TAKE i, j \in 1 .. d
    <2> HAVE i # j
    <2> DEFINE a == IF i < k THEN i ELSE i + 1
               b == IF j < k THEN j ELSE j + 1
    <2>1. a \in 1 .. c /\ b \in 1 .. c /\ a # b
      OBVIOUS
    <2>2. p[i] = q[a] /\ p[j] = q[b]
      BY <1>4
    <2> HIDE DEF a, b
    <2> QED BY <2>1, <2>2, <1>c
  <1>8. ASSUME NEW i \in 1 .. d
        PROVE  /\ m2[p[i] + 1] = IF i = d THEN Null ELSE p[i + 1]
               /\ m2[p[i]] = IF i = 1 THEN Null ELSE p[i - 1]
    <2>1. i # d => i + 1 \in 1 .. d
      OBVIOUS
    <2>2. i # 1 => i - 1 \in 1 .. d
      OBVIOUS
    <2>3. CASE i < k
      <3>1. p[i] = q[i] /\ i \in 1 .. c /\ i # k /\ i # c
        BY <2>3, <1>4
      <3>2. m2[q[i] + 1] = IF i = k - 1 THEN m[n + 1] ELSE q[i + 1]
        BY <3>1, <1>e, <1>g
      <3>3. m2[q[i]] = IF i = 1 THEN Null ELSE q[i - 1]
        BY <3>1, <1>f, <1>g, <2>3
      <3>4. i # 1 => p[i - 1] = q[i - 1]
        BY <2>2, <2>3, <1>4
      <3>5. i = d => i = k - 1 /\ k = c
        BY <2>3
      <3>6. i = d => m[n + 1] = Null
        BY <3>5, <1>d
      <3>7. i # d /\ i = k - 1 => m[n + 1] = q[k + 1]
        BY <1>d
      <3>8. m2[p[i] + 1] = IF i = d THEN Null ELSE p[i + 1]
        <4>1. CASE i = d
          BY <4>1, <3>1, <3>2, <3>5, <3>6
        <4>2. CASE i # d /\ i = k - 1
          <5>1. p[i + 1] = q[i + 1 + 1]
            BY <4>2, <2>1, <1>4
          <5>2. i + 1 + 1 = k + 1
            BY <4>2
          <5> QED BY <4>2, <3>1, <3>2, <3>7, <5>1, <5>2
        <4>3. CASE i # d /\ i # k - 1
          <5>1. p[i + 1] = q[i + 1]
            BY <4>3, <2>3, <2>1, <1>4
          <5> QED BY <4>3, <3>1, <3>2, <5>1
        <4> QED BY <4>1, <4>2, <4>3
      <3> QED BY <3>1, <3>3, <3>4, <3>8
    <2>4. CASE ~(i < k)
      <3>1. p[i] = q[i + 1] /\ i + 1 \in 1 .. c /\ i + 1 # k /\ i + 1 # k - 1 /\ i + 1 # 1
        BY <2>4, <1>4
      <3>2. m2[q[i + 1] + 1] = IF i + 1 = c THEN Null ELSE q[i + 1 + 1]
        BY <3>1, <1>e, <1>g
      <3>3. m2[q[i + 1]] = IF i = k THEN m[n] ELSE q[i]
        <4>1. CASE i = k
          BY <4>1, <3>1, <1>f
        <4>2. CASE i # k
          <5>1. m2[q[i + 1]] = m[q[i + 1]]
            BY <4>2, <3>1, <1>f
          <5>2. m[q[i + 1]] = q[i + 1 - 1] /\ i + 1 - 1 = i
            BY <3>1, <1>g
          <5> QED BY <5>1, <5>2, <4>2
        <4> QED BY <4>1, <4>2
      <3>4. i # d => p[i + 1] = q[i + 1 + 1]
        BY <2>1, <2>4, <1>4
      <3>5. CASE i = 1
        <4>1. k = 1 /\ m[n] = Null
          BY <3>5, <2>4, <1>d
        <4> QED BY <3>1, <3>2, <3>3, <3>4, <3>5, <4>1
      <3>6. CASE i # 1 /\ i = k
        <4>1. p[i - 1] = q[i - 1] /\ m[n] = q[k - 1]
          BY <3>6, <2>2, <1>4, <1>d
        <4> QED BY <3>1, <3>2, <3>3, <3>4, <3>6, <4>1
      <3>7. CASE i # 1 /\ i # k
        <4>1. p[i - 1] = q[i - 1 + 1] /\ i - 1 + 1 = i
          BY <3>7, <2>2, <2>4, <1>4
        <4> QED BY <3>1, <3>2, <3>3, <3>4, <3>7, <4>1
      <3> QED BY <3>5, <3>6, <3>7
    <2> QED BY <2>3, <2>4
  <1>9. InOrder(m2, hd2, G, d, p)
    BY <1>5, <1>6, <1>7, <1>8 DEF InOrder
  <1> QED BY <1>4, <1>9 DEF Chain

-----------------------------------------------------------------------------
(* Walks through the pool and along the list.                              *)

(* A set of numbers has a least one. *)
LEMMA LeastNat ==
    ASSUME NEW S, S \subseteq Nat, S # {}
    PROVE  \E n \in S : \A m \in S : n <= m
  <1> DEFINE R == OpToRel(<, Nat)
  <1>1. IsWellFoundedOn(R, Nat)
    BY NatLessThanWellFounded
  <1>2. \A x, y \in Nat : x < y => <<x, y>> \in R
    BY DEF OpToRel
  <1> HIDE DEF R
  <1>3. PICK x \in S : \A y \in S : ~ (<<y, x>> \in R)
    BY <1>1, WFMin
  <1>4. \A m \in S : x <= m
    <2> TAKE m \in S
    <2>1. ~(m < x)
      BY <1>2, <1>3
    <2> QED BY <2>1
  <1> QED BY <1>3, <1>4

(* What holds of 0 and of every number up to n whose predecessor has it
   holds of every number up to n.                                          *)
LEMMA Climb ==
    ASSUME NEW n \in Nat, NEW A, 0 \in A, \A i \in 1..n : i - 1 \in A => i \in A
    PROVE  \A i \in 0..n : i \in A
  <1> SUFFICES ASSUME \E i \in 0..n : i \notin A PROVE FALSE
    OBVIOUS
  <1> DEFINE B == {i \in 0..n : i \notin A}
  <1>1. B \subseteq Nat /\ B # {}
    OBVIOUS
  <1>2. PICK m \in B : \A j \in B : m <= j
    <2> HIDE DEF B
    <2> QED BY <1>1, LeastNat
  <1>3. m # 0 /\ m \in 1..n
    BY <1>2
  <1>4. m - 1 \in A
    BY <1>2, <1>3
  <1> QED BY <1>2, <1>3, <1>4

(* g is B applied again and again to base. *)
Iterates(g, B, base, D, n) == /\ g \in [0..n -> D]
                              /\ g[0] = base
                              /\ \A i \in 1..n : g[i] = B[g[i-1]]

(* The walks of the model are functions defined by recursion: they exist. *)
LEMMA Iterate ==
    ASSUME NEW D, NEW n \in Nat, NEW base \in D, NEW B \in [D -> D]
    PROVE  \E g : Iterates(g, B, base, D, n)
  <1> DEFINE Good(g, k) == g \in [0..k -> D] /\ g[0] = base /\ \A i \in 1..k : g[i] = B[g[i-1]]
             A == {k \in 0..n : \E g : Good(g, k)}
  <1>1. 0 \in A
    <2> DEFINE h == [i \in 0..0 |-> base]
    <2>1. Good(h, 0)
      OBVIOUS
    <2> HIDE DEF Good
    <2> QED BY <2>1
  <1>2. ASSUME NEW i \in 1..n, i - 1 \in A PROVE i \in A
    <2>1. PICK g : Good(g, i-1)
      BY <1>2
    <2> DEFINE x == B[g[i-1]]
               h == [j \in 0..i |-> IF j = i THEN x ELSE g[j]]
    <2>2. g[i-1] \in D /\ x \in D
      BY <2>1
    <2>3. h \in [0..i -> D]
      <3> HIDE DEF x
      <3> QED BY <2>1, <2>2
    <2>4. h[0] = base
      BY <2>1
    <2>5. ASSUME NEW j \in 1..i PROVE h[j] = B[h[j-1]]
      <3>0. h[j-1] = g[j-1]
        <4> HIDE DEF x
        <4> QED OBVIOUS
      <3>1. CASE j = i
        <4>1. h[i] = x
          <5> HIDE DEF x
          <5> QED OBVIOUS
        <4> HIDE DEF h
        <4> QED BY <3>1, <3>0, <4>1
      <3>2. CASE j # i
        <4>1. h[j] = g[j] /\ j \in 1..i-1
          <5> HIDE DEF x
          <5> QED BY <3>2
        <4> QED BY <4>1, <3>0, <2>1
      <3> QED BY <3>1, <3>2
    <2>6. Good(h, i)
      <3> HIDE DEF h
      <3> QED BY <2>3, <2>4, <2>5
    <2> HIDE DEF Good, h
    <2> QED BY <2>6
  <1> HIDE DEF A
  <1>3. n \in A
    BY <1>1, <1>2, Climb
  <1> QED BY <1>3 DEF A, Iterates

(* The walk over the sizes finds the blocks and nothing else. *)
LEMMA BlocksFound ==
    ASSUME NEW m, NEW ln, Tiles(ln), \A a \in Addr : ln[a] > 0 => m[a + 1] = ln[a]
    PROVE  StartsOf(m) = {a \in Addr : ln[a] > 0}
  <1> DEFINE B == BlockAfter(m)
             N == MaxBlocks
             IsStart(f) == f = [k \in 0 .. N |-> IF k = 0 THEN 0 ELSE B[f[k - 1]]]
             S == {a \in Addr : ln[a] > 0}
  <1>0. /\ N \in Nat /\ \A k \in Nat : 5 * k <= Words => k <= N
        /\ Words \in Nat /\ Words >= 20 /\ Addr = 0 .. Words - 1
    BY PoolFacts DEF MaxBlocks
  <1>1. B \in [0 .. Words -> 0 .. Words]
    BY <1>0 DEF BlockAfter
  <1>2. \A a \in Addr : ln[a] > 0 => /\ B[a] = a + ln[a] /\ ln[a] \in Nat /\ ln[a] >= 5
                                     /\ a + ln[a] <= Words
                                     /\ a + ln[a] # Words => a + ln[a] \in Addr /\ ln[a + ln[a]] > 0
    <2> TAKE a \in Addr
    <2> HAVE ln[a] > 0
    <2>1. m[a + 1] = ln[a] /\ ln[a] \in 0 .. Words
      BY DEF Tiles
    <2>2. ln[a] >= 5 /\ a + ln[a] <= Words /\ (a + ln[a] = Words \/ ln[a + ln[a]] > 0)
      BY PoolFacts DEF Tiles
    <2>3. a \in 0 .. Words /\ a < Words /\ a + ln[a] \in 0 .. Words
      BY <1>0, <2>1, <2>2
    <2>4. m[a + 1] \in 1 .. Words - a
      BY <1>0, <2>1, <2>2, <2>3
    <2>5. B[a] = a + m[a + 1]
      BY <2>3, <2>4 DEF BlockAfter
    <2>6. B[a] = a + ln[a]
      BY <2>1, <2>5
    <2>7. a + ln[a] # Words => a + ln[a] \in Addr
      BY <1>0, <2>2, <2>3
    <2> QED BY <1>0, <2>1, <2>2, <2>6, <2>7
  <1> HIDE DEF B, N
  <1>3. PICK g \in [0 .. N -> 0 .. Words] : g[0] = 0 /\ \A i \in 1 .. N : g[i] = B[g[i - 1]]
    <2>1. 0 \in 0 .. Words
      BY <1>0
    <2> DEFINE D == 0 .. Words
    <2> HIDE DEF D
    <2>2. N \in Nat /\ 0 \in D /\ B \in [D -> D]
      BY <1>0, <1>1, <2>1 DEF D
    <2>3. PICK g : Iterates(g, B, 0, D, N)
      BY <2>2, Iterate
    <2> QED BY <2>3 DEF D, Iterates
  <1>4. IsStart(g)
    BY <1>0, <1>3
  <1> DEFINE f == CHOOSE x : IsStart(x)
  <1>5. IsStart(f)
    <2> HIDE DEF IsStart
    <2> QED BY <1>4
  <1>6. StartsOf(m) = {f[k] : k \in 0 .. N} \ {Words}
    BY DEF StartsOf, B, N
  <1>7. f[0] = 0 /\ \A k \in 1 .. N : f[k] = B[f[k - 1]]
    <2> HIDE DEF f
    <2>1. 0 \in 0 .. N /\ \A k \in 1 .. N : k \in 0 .. N /\ k # 0
      BY <1>0
    <2> QED BY <1>5, <2>1
  <1> HIDE DEF f
  <1>8. \A k \in 0 .. N : f[k] = Words \/ f[k] \in S
    <2> DEFINE A == {k \in 0 .. N : f[k] = Words \/ f[k] \in S}
    <2>1. 0 \in A
      BY <1>0, <1>7, PoolFacts DEF Tiles
    <2>2. ASSUME NEW i \in 1 .. N, i - 1 \in A PROVE i \in A
      <3>1. f[i] = B[f[i - 1]]
        BY <1>7
      <3>2. CASE f[i - 1] = Words
        <4>1. B[Words] = Words
          BY <1>0 DEF B, BlockAfter
        <4> QED BY <3>1, <3>2, <4>1
      <3>3. CASE f[i - 1] \in S
        BY <3>1, <3>3, <1>2
      <3> QED BY <2>2, <3>2, <3>3
    <2> HIDE DEF A
    <2>3. \A i \in 0 .. N : i \in A
      BY <1>0, <2>1, <2>2, Climb
    <2> QED BY <2>3 DEF A
  <1>9. \A a \in S : \E k \in 0 .. N : 5 * k <= a /\ f[k] = a
    <2> DEFINE Found(a) == \E k \in 0 .. N : 5 * k <= a /\ f[k] = a
               Bad == {a \in S : ~ Found(a)}
    <2> SUFFICES ASSUME Bad # {} PROVE FALSE
      OBVIOUS
    <2>1. Bad \subseteq Nat
      BY <1>0
    <2>2. PICK a \in Bad : \A b \in Bad : a <= b
      <3> HIDE DEF Bad
      <3> QED BY <2>1, LeastNat
    <2>3. a \in Addr /\ ln[a] > 0 /\ ~ Found(a)
      OBVIOUS
    <2>4. a # 0
      <3>1. Found(0)
        BY <1>0, <1>7
      <3> QED BY <2>3, <3>1
    <2>5. PICK p \in Addr : ln[p] > 0 /\ p + ln[p] = a
      BY <2>3, <2>4 DEF Tiles
    <2>6. p < a /\ p \in S /\ p + 5 <= a
      BY <2>5, <1>0, <1>2
    <2>7. Found(p)
      <3>1. p \notin Bad
        BY <2>6, <2>2, <1>0
      <3> QED BY <3>1, <2>6
    <2>8. PICK k \in 0 .. N : 5 * k <= p /\ f[k] = p
      BY <2>7
    <2>9. k + 1 \in 1 .. N /\ k + 1 \in 0 .. N /\ 5 * (k + 1) <= a
      <3>1. 5 * (k + 1) <= a /\ a <= Words /\ k \in Nat
        BY <2>8, <2>6, <1>0
      <3>2. k + 1 \in Nat /\ k + 1 <= N
        BY <3>1, <1>0
      <3> QED BY <3>1, <3>2, <1>0
    <2>10. f[k + 1] = a
      <3>1. f[k + 1] = B[f[k + 1 - 1]] /\ k + 1 - 1 = k
        BY <2>9, <1>7
      <3> QED BY <3>1, <2>8, <2>5, <1>2
    <2>11. Found(a)
      BY <2>9, <2>10
    <2> QED BY <2>3, <2>11
  <1>10. Words \notin S
    BY <1>0
  <1> HIDE DEF S
  <1>11. \A x : x \in StartsOf(m) <=> x \in S
    <2> TAKE x
    <2>1. x \in StartsOf(m) => x \in S
      BY <1>6, <1>8
    <2>2. x \in S => x \in StartsOf(m)
      BY <1>6, <1>9, <1>10
    <2> QED BY <2>1, <2>2
  <1>12. StartsOf(m) = S
    BY <1>11
  <1> QED BY <1>12 DEF S

(* node is the free list, read from its first node on. *)
Reads(node, H, F, c, q) ==
    /\ c \in 0 .. Words /\ q \in [1 .. c -> F] /\ InOrder(H.mem, H.head, F, c, q)
    /\ \A k \in 0 .. Words : node[k] = IF k < c THEN q[k + 1] ELSE Null

(* ListNodes goes through the list in its order and stays at NULL after. *)
LEMMA NodesListed ==
    ASSUME NEW H, NEW F, F \subseteq Addr, Chain(H.mem, H.head, F)
    PROVE  \E c, q : Reads(ListNodes(H), H, F, c, q)
  <1> DEFINE m == H.mem
             hd == H.head
             Step(n) == IF n = Null THEN Null ELSE m[n + 1]
             IsList(f) == f = [k \in 0 .. Words |-> IF k = 0 THEN hd ELSE Step(f[k - 1])]
  <1>0. Words \in Nat /\ Addr = 0 .. Words - 1 /\ Null \notin Addr
    BY PoolFacts
  <1>1. PICK c \in Nat : \E q \in [1 .. c -> F] : InOrder(m, hd, F, c, q)
    BY DEF Chain
  <1>2. PICK q \in [1 .. c -> F] : InOrder(m, hd, F, c, q)
    BY <1>1
  <1>3. c <= Words
    <2> SUFFICES ASSUME c > Words PROVE FALSE
      BY <1>0
    <2>1. IsFiniteSet(1 .. c) /\ Cardinality(1 .. c) = c
      BY FS_Interval
    <2>2. IsFiniteSet(Addr) /\ Cardinality(Addr) = Words
      <3>1. 0 \in Int /\ Words - 1 \in Int
        BY <1>0
      <3>2. IsFiniteSet(0 .. Words - 1) /\ Cardinality(0 .. Words - 1) = IF 0 > Words - 1 THEN 0 ELSE Words - 1 - 0 + 1
        BY <3>1, FS_Interval
      <3> QED BY <3>2, <1>0, PoolFacts
    <2>3. q \in [1 .. c -> Addr] /\ Cardinality(Addr) < Cardinality(1 .. c)
      BY <1>2, <2>1, <2>2
    <2>4. \E x, y \in 1 .. c : x # y /\ q[x] = q[y]
      BY <2>1, <2>2, <2>3, FS_PigeonHole, Zenon
    <2> QED BY <2>4, <1>2 DEF InOrder
  <1> DEFINE g == [k \in 0 .. Words |-> IF k < c THEN q[k + 1] ELSE Null]
  <1>4. /\ hd = IF c = 0 THEN Null ELSE q[1]
        /\ \A i \in 1 .. c : m[q[i] + 1] = IF i = c THEN Null ELSE q[i + 1]
        /\ \A i \in 1 .. c : q[i] # Null
    BY <1>0, <1>2 DEF InOrder
  <1>5. g[0] = hd
    BY <1>0, <1>4
  <1>6. ASSUME NEW k \in 1 .. Words PROVE g[k] = Step(g[k - 1])
    <2>1. k - 1 \in 0 .. Words /\ k \in 0 .. Words
      BY <1>0
    <2>2. CASE k <= c
      <3>1. g[k - 1] = q[k] /\ k \in 1 .. c
        <4>1. k - 1 + 1 = k
          OBVIOUS
        <4> QED BY <2>1, <2>2, <1>0, <4>1
      <3>2. g[k] = IF k = c THEN Null ELSE q[k + 1]
        BY <2>1, <2>2, <1>0
      <3> HIDE DEF g
      <3> QED BY <3>1, <3>2, <1>4
    <2>3. CASE ~(k <= c)
      <3>1. g[k - 1] = Null /\ g[k] = Null
        BY <2>1, <2>3, <1>0
      <3> HIDE DEF g
      <3> QED BY <3>1
    <2> QED BY <2>2, <2>3
  <1>7. IsList(g)
    <2>1. g = [k \in 0 .. Words |-> g[k]]
      OBVIOUS
    <2>2. \A k \in 0 .. Words : g[k] = IF k = 0 THEN hd ELSE Step(g[k - 1])
      <3> HIDE DEF g, Step
      <3> QED BY <1>5, <1>6, <1>0
    <2> HIDE DEF g, Step
    <2> QED BY <2>1, <2>2
  <1> DEFINE f == CHOOSE x : IsList(x)
  <1>8. IsList(f)
    <2> HIDE DEF IsList
    <2> QED BY <1>7
  <1>9. ListNodes(H) = f
    BY DEF ListNodes
  <1>10. f[0] = hd /\ \A k \in 1 .. Words : f[k] = Step(f[k - 1])
    <2> HIDE DEF f, Step
    <2>1. 0 \in 0 .. Words /\ \A k \in 1 .. Words : k \in 0 .. Words /\ k # 0
      BY <1>0
    <2> QED BY <1>8, <2>1
  <1>11. \A k \in 0 .. Words : f[k] = g[k]
    <2> DEFINE A == {k \in 0 .. Words : f[k] = g[k]}
    <2> HIDE DEF f, g, Step
    <2>1. 0 \in A
      BY <1>0, <1>5, <1>10
    <2>2. ASSUME NEW i \in 1 .. Words, i - 1 \in A PROVE i \in A
      BY <2>2, <1>6, <1>10
    <2> HIDE DEF A
    <2>3. \A i \in 0 .. Words : i \in A
      BY <1>0, <2>1, <2>2, Climb
    <2> QED BY <2>3 DEF A
  <1>12. \A k \in 0 .. Words : f[k] = IF k < c THEN q[k + 1] ELSE Null
    BY <1>11
  <1> HIDE DEF f, g, IsList, m, hd
  <1>13. Reads(ListNodes(H), H, F, c, q)
    BY <1>0, <1>1, <1>2, <1>3, <1>9, <1>12 DEF Reads, m, hd
  <1> QED BY <1>13

(* What kmalloc's search finds. *)
LEMMA FirstFitFound ==
    ASSUME NEW H, NEW F, F \subseteq Addr, Chain(H.mem, H.head, F), NEW need \in Nat,
           \A n \in F : IsTag(H.mem[n - HdrWords]),
           FirstFit(H, need) # Null
    PROVE  FirstFit(H, need) \in F /\ Size(H, FirstFit(H, need) - HdrWords) >= need
  <1>0. Words \in Nat /\ Null \notin Addr
    BY PoolFacts
  <1>1. PICK c, q : Reads(ListNodes(H), H, F, c, q)
    BY NodesListed
  <1> DEFINE node == ListNodes(H)
             Fine(n) == n = Null \/ IsTag(H.mem[n - HdrWords])
             Stops(k) == \/ node[k] = Null \/ ~ Fine(node[k])
                         \/ Size(H, node[k] - HdrWords) >= need
             Least(k) == Stops(k) /\ \A j \in 0 .. k - 1 : ~ Stops(j)
             last == CHOOSE k \in 0 .. Words : Least(k)
  <1>2. FirstFit(H, need) = IF Fine(node[last]) THEN node[last] ELSE Null
    BY DEF FirstFit
  <1> HIDE DEF node
  <1>3. c \in 0 .. Words /\ Stops(c)
    BY <1>1 DEF Reads, node
  <1>4. \E k \in 0 .. Words : Least(k)
    <2> DEFINE A == {k \in 0 .. Words : Stops(k)}
    <2> HIDE DEF Stops
    <2>1. A \subseteq Nat /\ A # {}
      BY <1>3, <1>0
    <2>2. PICK k \in A : \A j \in A : k <= j
      <3> HIDE DEF A
      <3> QED BY <2>1, LeastNat
    <2>3. \A j \in 0 .. k - 1 : ~ Stops(j)
      BY <2>2, <1>0
    <2> QED BY <2>2, <2>3
  <1>5. last \in 0 .. Words /\ Stops(last)
    <2>1. last \in 0 .. Words /\ Least(last)
      <3> HIDE DEF Least
      <3> QED BY <1>4
    <2> HIDE DEF last
    <2> QED BY <2>1
  <1> HIDE DEF last
  <1>6. node[last] # Null
    BY <1>2
  <1>7. node[last] \in F
    BY <1>1, <1>5, <1>6 DEF Reads, node
  <1>8. Fine(node[last])
    BY <1>7
  <1>9. FirstFit(H, need) = node[last] /\ Size(H, node[last] - HdrWords) >= need
    BY <1>2, <1>5, <1>6, <1>8
  <1> QED BY <1>7, <1>9

(* The list's nodes, as FreeListExact reads them. *)
LEMMA ListExact ==
    ASSUME NEW H, NEW F, F \subseteq Addr, Chain(H.mem, H.head, F)
    PROVE  LET listed == {ListNodes(H)[k] : k \in 0 .. Words} \ {Null}
           IN  /\ listed = F
               /\ H.head # Null => H.mem[H.head] = Null
               /\ \A n \in listed : H.mem[n + 1] # Null => H.mem[H.mem[n + 1]] = n
  <1> DEFINE node == ListNodes(H)
             listed == {node[k] : k \in 0 .. Words} \ {Null}
  <1>0. Words \in Nat /\ Null \notin Addr
    BY PoolFacts
  <1>1. PICK c, q : Reads(node, H, F, c, q)
    BY NodesListed
  <1> HIDE DEF node
  <1>2. /\ c \in 0 .. Words /\ q \in [1 .. c -> F]
        /\ \A k \in 0 .. Words : node[k] = IF k < c THEN q[k + 1] ELSE Null
    BY <1>1 DEF Reads
  <1>3. /\ H.head = IF c = 0 THEN Null ELSE q[1]
        /\ \A n \in F : \E i \in 1 .. c : q[i] = n
        /\ \A i \in 1 .. c : H.mem[q[i] + 1] = IF i = c THEN Null ELSE q[i + 1]
        /\ \A i \in 1 .. c : H.mem[q[i]] = IF i = 1 THEN Null ELSE q[i - 1]
    BY <1>1 DEF Reads, InOrder
  <1>4. \A x \in listed : x \in F
    <2> TAKE x \in listed
    <2>1. PICK k \in 0 .. Words : x = node[k] /\ x # Null
      OBVIOUS
    <2>2. k < c /\ k + 1 \in 1 .. c
      BY <2>1, <1>2, <1>0
    <2> QED BY <2>1, <2>2, <1>2
  <1>5. \A x \in F : x \in listed
    <2> TAKE x \in F
    <2>1. PICK i \in 1 .. c : q[i] = x
      BY <1>3
    <2>2. i - 1 \in 0 .. Words /\ i - 1 < c /\ i - 1 + 1 = i
      BY <1>2, <1>0
    <2>3. node[i - 1] = x
      BY <2>1, <2>2, <1>2
    <2> QED BY <2>2, <2>3, <1>0
  <1>6. H.head # Null => H.mem[H.head] = Null
    BY <1>2, <1>3
  <1>7. \A n \in F : H.mem[n + 1] # Null => H.mem[H.mem[n + 1]] = n
    <2> TAKE n \in F
    <2>1. PICK i \in 1 .. c : q[i] = n
      BY <1>3
    <2> HAVE H.mem[n + 1] # Null
    <2>2. H.mem[n + 1] = q[i + 1] /\ i + 1 \in 1 .. c
      BY <2>1, <1>2, <1>3
    <2>3. H.mem[q[i + 1]] = q[i + 1 - 1] /\ i + 1 - 1 = i
      BY <2>2, SMTT(30), <1>2, <1>3
    <2> QED BY <2>1, <2>2, <2>3
  <1> QED BY <1>4, <1>5, <1>6, <1>7 DEF node

-----------------------------------------------------------------------------
(* What the helpers of heap.c write.                                       *)

(* What a word may hold, and the heaps that can be. *)
Val == 0 .. Words \cup {FreeTag, UsedTag, Data, Null}

Pools == [mem : [Addr -> Val], head : Addr \cup {Null}, free : 0 .. CounterMod - 1]

(* SetBlock writes three words: both header words and the footer. *)
LEMMA SetBlockFields ==
    ASSUME NEW H \in Pools, NEW h \in Addr, NEW n \in Nat, n >= 5, h + n <= Words, NEW tag \in Val
    PROVE  LET G == SetBlock(H, h, tag, n)
           IN  /\ G \in Pools /\ G.head = H.head
               /\ G.mem[h] = tag /\ G.mem[h + 1] = n /\ G.mem[h + n - 1] = n
               /\ \A a \in Addr : a # h /\ a # h + 1 /\ a # h + n - 1 => G.mem[a] = H.mem[a]
  <1> DEFINE e == h + n - 1
             m2 == [H.mem EXCEPT ![h] = tag, ![h + 1] = n, ![e] = n]
             G == [H EXCEPT !.mem = m2]
  <1>1. h + 1 \in Addr /\ e \in Addr /\ n \in Val /\ h # h + 1 /\ h # e /\ h + 1 # e
    BY PoolFacts DEF Val
  <1>2. SetBlock(H, h, tag, n) = G
    BY DEF SetBlock, FtrWords
  <1> DEFINE k == h + 1
  <1>3. H.mem \in [Addr -> Val]
    BY DEF Pools
  <1> HIDE DEF e, k
  <1>4. /\ m2 \in [Addr -> Val] /\ m2[h] = tag /\ m2[h + 1] = n /\ m2[e] = n
        /\ \A a \in Addr : a # h /\ a # h + 1 /\ a # e => m2[a] = H.mem[a]
    BY <1>1, <1>3
  <1> HIDE DEF m2
  <1>5. G \in Pools /\ G.head = H.head /\ G.mem = m2
    BY <1>4 DEF Pools
  <1> QED BY <1>2, <1>4, <1>5 DEF e

(* What free_list_insert writes: the new node and the old first one. *)
LEMMA InsertFields ==
    ASSUME NEW H \in Pools, NEW h \in Addr, h + 3 \in Addr, H.head # h + 2, H.head # h + 3
    PROVE  LET G == free_list_insert(H, h)
           IN  /\ G \in Pools /\ G.head = h + 2
               /\ G.mem[h + 2] = Null /\ G.mem[h + 3] = H.head
               /\ H.head # Null => G.mem[H.head] = h + 2
               /\ \A a \in Addr : a # h + 2 /\ a # h + 3 /\ a # H.head => G.mem[a] = H.mem[a]
  <1> DEFINE n == h + 2
             m == [H.mem EXCEPT ![n] = Null, ![n + 1] = H.head]
             m2 == IF H.head = Null THEN m ELSE [m EXCEPT ![H.head] = n]
             G == [H EXCEPT !.head = n, !.mem = m2]
  <1>1. /\ n \in Addr /\ n + 1 \in Addr /\ n + 1 = h + 3 /\ n # n + 1
        /\ n \in Val /\ Null \in Val /\ H.head \in Val /\ Null \notin Addr
        /\ H.head \in Addr \cup {Null}
    BY PoolFacts DEF Val, Pools
  <1>2. free_list_insert(H, h) = G
    BY DEF free_list_insert, HdrWords
  <1>3. H.mem \in [Addr -> Val]
    BY DEF Pools
  <1> HIDE DEF n
  <1>4. /\ m \in [Addr -> Val] /\ m[n] = Null /\ m[n + 1] = H.head
        /\ \A a \in Addr : a # n /\ a # n + 1 => m[a] = H.mem[a]
    BY <1>1, <1>3
  <1> HIDE DEF m
  <1>5. H.head # n /\ H.head # n + 1
    BY <1>1 DEF n
  <1>6. /\ m2 \in [Addr -> Val] /\ m2[n] = Null /\ m2[n + 1] = H.head
        /\ H.head # Null => m2[H.head] = n
        /\ \A a \in Addr : a # n /\ a # n + 1 /\ a # H.head => m2[a] = H.mem[a]
    BY <1>1, <1>4, <1>5
  <1> HIDE DEF m2
  <1>7. G \in Pools /\ G.head = n /\ G.mem = m2
    BY <1>1, <1>6 DEF Pools
  <1> QED BY <1>1, <1>2, <1>6, <1>7 DEF n

(* What free_list_remove writes: the node and its two neighbours. *)
LEMMA RemoveFields ==
    ASSUME NEW H \in Pools, NEW h \in Addr, h + 3 \in Addr,
           NEW p, NEW x, p = H.mem[h + 2], x = H.mem[h + 3],
           p \in Addr \cup {Null}, x \in Addr \cup {Null},
           p # Null => p + 1 \in Addr /\ p + 1 # h + 2 /\ p + 1 # h + 3 /\ p + 1 # x,
           x # h + 2, x # h + 3
    PROVE  LET G == free_list_remove(H, h)
           IN  /\ G \in Pools
               /\ G.head = IF p = Null THEN x ELSE H.head
               /\ p # Null => G.mem[p + 1] = x
               /\ x # Null => G.mem[x] = p
               /\ \A a \in Addr : /\ a # h + 2 /\ a # h + 3 /\ a # x
                                  /\ (p # Null => a # p + 1)
                                 => G.mem[a] = H.mem[a]
               /\ G.mem[h + 2] = Null /\ G.mem[h + 3] = Null
  <1> DEFINE n == h + 2
             o == n + 1
             r == p + 1
             m == IF p = Null THEN H.mem ELSE [H.mem EXCEPT ![r] = x]
             k == IF x = Null THEN m ELSE [m EXCEPT ![x] = p]
             m2 == [k EXCEPT ![n] = Null, ![o] = Null]
             G == [H EXCEPT !.head = IF p = Null THEN x ELSE @, !.mem = m2]
  <1>1. /\ n \in Addr /\ o \in Addr /\ o = h + 3 /\ n # o
        /\ p \in Val /\ Null \in Val /\ x \in Val /\ Null \notin Addr
    BY PoolFacts DEF Val
  <1>2. free_list_remove(H, h) = G
    <2>1. p = H.mem[n] /\ x = H.mem[n + 1]
      BY <1>1
    <2> QED BY <2>1 DEF free_list_remove, HdrWords
  <1>3. H.mem \in [Addr -> Val]
    BY DEF Pools
  <1>5. /\ x # n /\ x # o
        /\ p # Null => r \in Addr /\ r # n /\ r # o /\ r # x
    BY <1>1
  <1> HIDE DEF n, o, r
  <1>4. /\ m \in [Addr -> Val] /\ (p # Null => m[r] = x)
        /\ \A a \in Addr : (p # Null => a # r) => m[a] = H.mem[a]
    BY <1>1, <1>3, <1>5
  <1> HIDE DEF m
  <1>6. /\ k \in [Addr -> Val] /\ (x # Null => k[x] = p) /\ (p # Null => k[r] = x)
        /\ \A a \in Addr : (p # Null => a # r) /\ a # x => k[a] = H.mem[a]
    BY <1>1, <1>4, <1>5
  <1> HIDE DEF k
  <1>7. /\ m2 \in [Addr -> Val] /\ (x # Null => m2[x] = p) /\ (p # Null => m2[r] = x)
        /\ m2[n] = Null /\ m2[o] = Null
        /\ \A a \in Addr : (p # Null => a # r) /\ a # x /\ a # n /\ a # o => m2[a] = H.mem[a]
    BY <1>1, <1>5, <1>6
  <1> HIDE DEF m2
  <1>8. G \in Pools /\ G.head = (IF p = Null THEN x ELSE H.head) /\ G.mem = m2
    BY <1>1, <1>7 DEF Pools
  <1> QED BY <1>1, <1>2, <1>7, <1>8 DEF n, o, r

-----------------------------------------------------------------------------
(* A sound pool, and the helpers of heap.c that keep it sound.             *)

(* The list nodes of the free blocks, but for those of U. *)
Nodes(ln, us, U) ==
    {n \in Addr : n >= 2 /\ ln[n - 2] > 0 /\ ~ us[n - 2] /\ n - 2 \notin U}

(* Which blocks are in use. *)
Uses(ln, us) == us \in [Addr -> BOOLEAN] /\ \A a \in Addr : us[a] => ln[a] > 0

(* The words a block's header and footer are in. *)
Tagged(m, ln, us, a) == /\ m[a] = IF us[a] THEN UsedTag ELSE FreeTag
                        /\ m[a + 1] = ln[a]
                        /\ m[a + ln[a] - 1] = ln[a]

(* The heap H holds the blocks ln, of which us are in use and the free ones
   outside U are listed; the headers and footers of D are still to be written. *)
Sound(H, ln, us, U, D) ==
    /\ H \in Pools /\ Tiles(ln) /\ Uses(ln, us)
    /\ \A a \in Addr : ln[a] > 0 /\ a \notin D => Tagged(H.mem, ln, us, a)
    /\ \A a \in Addr : H.mem[a] = UsedTag => us[a] \/ a \in D
    /\ Chain(H.mem, H.head, Nodes(ln, us, U))

(* The words of the blocks in use. *)
KeepsUsed(H, G, ln, us) ==
    \A b \in Addr : us[b] => \A a \in b .. b + ln[b] - 1 : G.mem[a] = H.mem[a]

(* A block lies in the pool, with room for a header, a node and a footer. *)
LEMMA BlockFacts ==
    ASSUME NEW ln, Tiles(ln), NEW a \in Addr, ln[a] > 0
    PROVE  /\ a \in Nat /\ ln[a] \in Nat /\ ln[a] >= 5 /\ a + ln[a] <= Words
           /\ \A w \in a .. a + ln[a] - 1 : w \in Addr
           /\ a + 1 \in Addr /\ a + 2 \in Addr /\ a + 3 \in Addr /\ a + ln[a] - 1 \in Addr
           /\ a + ln[a] = Words \/ (a + ln[a] \in Addr /\ ln[a + ln[a]] > 0)
  <1>1. /\ ln[a] \in 0 .. Words /\ ln[a] >= 5 /\ a + ln[a] <= Words
        /\ a + ln[a] = Words \/ ln[a + ln[a]] > 0
    BY PoolFacts DEF Tiles
  <1>2. a \in 0 .. Words - 1 /\ Words \in Nat /\ Addr = 0 .. Words - 1
    BY PoolFacts
  <1>3. a + ln[a] # Words => a + ln[a] \in Addr
    BY <1>1, <1>2
  <1> QED BY <1>1, <1>2, <1>3

(* No two blocks share a word. *)
LEMMA BlocksAside ==
    ASSUME NEW ln, Tiles(ln), NEW a \in Addr, ln[a] > 0, NEW b \in Addr, ln[b] > 0, a # b,
           NEW w \in a .. a + ln[a] - 1
    PROVE  w \notin b .. b + ln[b] - 1
  <1>1. a < b => a + ln[a] <= b
    BY DEF Tiles
  <1>2. b < a => b + ln[b] <= a
    BY DEF Tiles
  <1>3. a \in Nat /\ b \in Nat /\ ln[a] \in Nat /\ ln[b] \in Nat
    BY BlockFacts
  <1> QED BY <1>1, <1>2, <1>3

(* The list node of a free block lies inside that block, off its tags. *)
LEMMA NodeFacts ==
    ASSUME NEW ln, Tiles(ln), NEW us, NEW U
    PROVE  /\ Nodes(ln, us, U) \subseteq Addr
           /\ \A n \in Nodes(ln, us, U) :
                 /\ n \in Addr /\ n + 1 \in Addr /\ n - 2 \in Addr /\ ln[n - 2] > 0 /\ ~ us[n - 2]
                 /\ n - 2 \notin U
                 /\ n \in n - 2 .. n - 2 + ln[n - 2] - 2 /\ n + 1 \in n - 2 .. n - 2 + ln[n - 2] - 2
                 /\ n # n - 2 /\ n # n - 1
           /\ Apart(Nodes(ln, us, U))
  <1> DEFINE F == Nodes(ln, us, U)
  <1>1. ASSUME NEW n \in F
        PROVE  /\ n \in Addr /\ n + 1 \in Addr /\ n - 2 \in Addr /\ ln[n - 2] > 0 /\ ~ us[n - 2]
               /\ n - 2 \notin U
               /\ n \in n - 2 .. n - 2 + ln[n - 2] - 2 /\ n + 1 \in n - 2 .. n - 2 + ln[n - 2] - 2
               /\ n # n - 2 /\ n # n - 1
    <2>1. n \in Addr /\ n >= 2 /\ ln[n - 2] > 0 /\ ~ us[n - 2] /\ n - 2 \notin U
      BY DEF Nodes
    <2>2. n - 2 \in Addr /\ n \in Nat
      BY <2>1, PoolFacts
    <2>3. ln[n - 2] \in Nat /\ ln[n - 2] >= 5 /\ n - 2 + 3 \in Addr
      BY <2>1, <2>2, BlockFacts
    <2>4. n - 2 + 3 = n + 1
      BY <2>2
    <2> QED BY <2>1, <2>2, <2>3, <2>4
  <1>2. ASSUME NEW x \in F, NEW y \in F, x # y PROVE x + 1 < y \/ y + 1 < x
    <2>1. /\ x - 2 \in Addr /\ ln[x - 2] > 0 /\ y - 2 \in Addr /\ ln[y - 2] > 0 /\ x - 2 # y - 2
          /\ x \in Nat /\ y \in Nat
      <3>1. x \in Addr /\ y \in Addr
        BY <1>1
      <3>2. x \in Nat /\ y \in Nat
        BY <3>1, PoolFacts
      <3>3. x - 2 # y - 2
        BY <3>2, <1>2
      <3> QED BY <1>1, <3>2, <3>3
    <2>2. x - 2 < y - 2 => x - 2 + ln[x - 2] <= y - 2
      BY <2>1 DEF Tiles
    <2>3. y - 2 < x - 2 => y - 2 + ln[y - 2] <= x - 2
      BY <2>1 DEF Tiles
    <2>4. ln[x - 2] \in Nat /\ ln[x - 2] >= 5 /\ ln[y - 2] \in Nat /\ ln[y - 2] >= 5
      BY <2>1, BlockFacts
    <2> QED BY <2>1, <2>2, <2>3, <2>4
  <1>3. Apart(F)
    BY <1>1, <1>2 DEF Apart
  <1> QED BY <1>1, <1>3

(* A list node is no header, no footer and in no block but its own. *)
LEMMA NodeAside ==
    ASSUME NEW ln, Tiles(ln), NEW us, NEW U, NEW n \in Nodes(ln, us, U), NEW a \in Addr, ln[a] > 0
    PROVE  /\ n # a /\ n # a + 1 /\ n # a + ln[a] - 1
           /\ n + 1 # a /\ n + 1 # a + 1 /\ n + 1 # a + ln[a] - 1
           /\ a # n - 2 => n \notin a .. a + ln[a] - 1 /\ n + 1 \notin a .. a + ln[a] - 1
  <1> DEFINE h == n - 2
  <1>1. /\ n \in Addr /\ h \in Addr /\ ln[h] > 0 /\ n = h + 2
        /\ n \in h .. h + ln[h] - 2 /\ n + 1 \in h .. h + ln[h] - 2
    BY NodeFacts, PoolFacts
  <1>2. h \in Nat /\ ln[h] \in Nat /\ a \in Nat /\ ln[a] \in Nat /\ ln[a] >= 5
    BY <1>1, BlockFacts
  <1>3. CASE a = h
    <2>1. ln[a] = ln[h] /\ n + 1 < h + ln[h] - 1
      BY <1>1, <1>2, <1>3
    <2> QED BY <1>1, <1>2, <1>3, <2>1
  <1>4. CASE a # h
    <2>1. n \in h .. h + ln[h] - 1 /\ n + 1 \in h .. h + ln[h] - 1
      BY <1>1, <1>2
    <2>2. n \notin a .. a + ln[a] - 1
      BY <1>1, <1>4, <2>1, BlocksAside
    <2>3. n + 1 \notin a .. a + ln[a] - 1
      BY <1>1, <1>4, <2>1, BlocksAside
    <2>4. a \in a .. a + ln[a] - 1 /\ a + 1 \in a .. a + ln[a] - 1 /\ a + ln[a] - 1 \in a .. a + ln[a] - 1
      BY <1>2
    <2> QED BY <2>2, <2>3, <2>4
  <1> QED BY <1>3, <1>4

(* What is written to list nodes only leaves the blocks as they are. *)
LEMMA NodesOnly ==
    ASSUME NEW H, NEW G, NEW ln, NEW us, NEW U, NEW V, NEW D, NEW W,
           Sound(H, ln, us, U, D), G \in Pools,
           \A a \in Addr : \/ G.mem[a] = H.mem[a]
                           \/ /\ \E n \in Nodes(ln, us, W) : a = n \/ a = n + 1
                              /\ G.mem[a] \in Addr \cup {Null},
           Chain(G.mem, G.head, Nodes(ln, us, V))
    PROVE  Sound(G, ln, us, V, D) /\ KeepsUsed(H, G, ln, us)
  <1>1. Tiles(ln) /\ Uses(ln, us)
    BY DEF Sound
  <1>2. ASSUME NEW a \in Addr, ln[a] > 0, a \notin D PROVE Tagged(G.mem, ln, us, a)
    <2>1. Tagged(H.mem, ln, us, a)
      BY <1>2 DEF Sound
    <2>2. a \in Addr /\ a + 1 \in Addr /\ a + ln[a] - 1 \in Addr
      BY <1>1, <1>2, BlockFacts
    <2>3. ASSUME NEW w \in {a, a + 1, a + ln[a] - 1} PROVE G.mem[w] = H.mem[w]
      <3>1. \A n \in Nodes(ln, us, W) : w # n /\ w # n + 1
        BY <1>1, <1>2, NodeAside
      <3> QED BY <3>1, <2>2
    <2> QED BY <2>1, <2>3 DEF Tagged
  <1>3. ASSUME NEW a \in Addr, G.mem[a] = UsedTag PROVE us[a] \/ a \in D
    <2>1. G.mem[a] \notin Addr \cup {Null}
      BY <1>3, PoolFacts
    <2> QED BY <1>3, <2>1 DEF Sound
  <1>4. Sound(G, ln, us, V, D)
    BY <1>1, <1>2, <1>3 DEF Sound
  <1>5. ASSUME NEW b \in Addr, us[b], NEW a \in b .. b + ln[b] - 1 PROVE G.mem[a] = H.mem[a]
    <2>1. ln[b] > 0
      BY <1>1, <1>5 DEF Uses
    <2>2. a \in Addr
      BY <1>1, <2>1, BlockFacts
    <2>3. ASSUME NEW n \in Nodes(ln, us, W) PROVE a # n /\ a # n + 1
      <3>1. b # n - 2
        BY <1>1, <1>5, NodeFacts
      <3>2. n \notin b .. b + ln[b] - 1 /\ n + 1 \notin b .. b + ln[b] - 1
        BY <1>1, <2>1, <3>1, NodeAside
      <3> QED BY <3>2
    <2> QED BY <2>2, <2>3
  <1> QED BY <1>4, <1>5 DEF KeepsUsed

(* free_list_insert. *)
LEMMA InsertSound ==
    ASSUME NEW H, NEW ln, NEW us, NEW U, NEW D, Sound(H, ln, us, U, D),
           NEW h \in Addr, ln[h] > 0, ~ us[h], h \in U
    PROVE  LET G == free_list_insert(H, h)
           IN  Sound(G, ln, us, U \ {h}, D) /\ KeepsUsed(H, G, ln, us)
  <1> DEFINE G == free_list_insert(H, h)
             F == Nodes(ln, us, U)
             F2 == Nodes(ln, us, U \ {h})
             n == h + 2
  <1>1. H \in Pools /\ Tiles(ln) /\ Uses(ln, us) /\ Chain(H.mem, H.head, F)
    BY DEF Sound
  <1>2. h \in Nat /\ n \in Addr /\ n + 1 \in Addr /\ n + 1 = h + 3 /\ n - 2 = h /\ n >= 2
    BY <1>1, BlockFacts
  <1> HIDE DEF n
  <1>3. n \in F2 /\ n \notin F
    BY <1>2 DEF Nodes
  <1>4. F2 = F \cup {n}
    <2>1. \A x \in Addr : x - 2 = h => x = n
      BY <1>2, PoolFacts
    <2>2. \A x : x \in F2 <=> x \in F \cup {n}
      BY <1>2, <1>3, <2>1 DEF Nodes
    <2> HIDE DEF F, F2
    <2> QED BY <2>2
  <1>5. Apart(F2) /\ F2 \subseteq Addr
    BY <1>1, NodeFacts
  <1>6. H.head = Null \/ H.head \in F
    <2>1. PICK c \in Nat : \E q \in [1 .. c -> F] : InOrder(H.mem, H.head, F, c, q)
      BY <1>1 DEF Chain
    <2>2. PICK q \in [1 .. c -> F] : InOrder(H.mem, H.head, F, c, q)
      BY <2>1
    <2>3. H.head = IF c = 0 THEN Null ELSE q[1]
      BY <2>2 DEF InOrder
    <2> HIDE DEF F
    <2> QED BY <2>2, <2>3
  <1> HIDE DEF F, F2
  <1>7. H.head # n /\ H.head # n + 1
    <2>1. n # Null /\ n + 1 # Null
      BY <1>2, PoolFacts
    <2>2. \A x \in F : x # n /\ x # n + 1
      <3> TAKE x \in F
      <3>1. x # n /\ x \in F2 /\ n \in F2
        BY <1>3, <1>4
      <3>2. x + 1 < n \/ n + 1 < x
        BY <1>5, <3>1 DEF Apart
      <3>3. x \in Nat /\ n \in Nat
        BY <1>5, <3>1, PoolFacts
      <3> QED BY <3>2, <3>3
    <2> QED BY <1>6, <2>1, <2>2
  <1>8. /\ G \in Pools /\ G.head = n
        /\ G.mem[n] = Null /\ G.mem[n + 1] = H.head
        /\ H.head # Null => G.mem[H.head] = n
        /\ \A a \in Addr : a # n /\ a # n + 1 /\ a # H.head => G.mem[a] = H.mem[a]
    BY <1>1, <1>2, <1>7, InsertFields DEF n
  <1> HIDE DEF G
  <1>9. Chain(G.mem, n, F2)
    <2>2. Apart(F \cup {n})
      BY <1>4, <1>5
    <2>3. Chain(G.mem, n, F \cup {n})
      BY <1>1, <1>3, <1>8, <2>2, ChainInsert
    <2> QED BY <2>3, <1>4
  <1>10. \A a \in Addr : \/ G.mem[a] = H.mem[a]
                         \/ /\ \E x \in F2 : a = x \/ a = x + 1
                            /\ G.mem[a] \in Addr \cup {Null}
    <2> TAKE a \in Addr
    <2>1. CASE a = n \/ a = n + 1
      <3>1. G.mem[a] \in Addr \cup {Null}
        BY <1>1, <1>8, <2>1 DEF Pools
      <3> QED BY <3>1, <2>1, <1>3
    <2>2. CASE a = H.head
      <3>1. H.head # Null /\ H.head \in F2
        BY <2>2, <1>6, <1>4, PoolFacts
      <3>2. G.mem[a] = n
        BY <3>1, <2>2, <1>8
      <3> QED BY <3>1, <3>2, <2>2, <1>2
    <2>3. CASE a # n /\ a # n + 1 /\ a # H.head
      BY <2>3, <1>8
    <2> QED BY <2>1, <2>2, <2>3
  <1>11. Chain(G.mem, G.head, F2)
    BY <1>8, <1>9
  <1>12. Sound(G, ln, us, U \ {h}, D) /\ KeepsUsed(H, G, ln, us)
    BY <1>8, <1>10, <1>11, NodesOnly DEF F2
  <1> QED BY <1>12 DEF G

(* free_list_remove. *)
LEMMA RemoveSound ==
    ASSUME NEW H, NEW ln, NEW us, NEW U, NEW D, Sound(H, ln, us, U, D),
           NEW h \in Addr, ln[h] > 0, ~ us[h], h \notin U
    PROVE  LET G == free_list_remove(H, h)
           IN  Sound(G, ln, us, U \cup {h}, D) /\ KeepsUsed(H, G, ln, us)
  <1> DEFINE G == free_list_remove(H, h)
             F == Nodes(ln, us, U)
             F2 == Nodes(ln, us, U \cup {h})
             n == h + 2
             p == H.mem[n]
             x == H.mem[n + 1]
  <1>1. H \in Pools /\ Tiles(ln) /\ Uses(ln, us) /\ Chain(H.mem, H.head, F)
    BY DEF Sound
  <1>2. h \in Nat /\ n \in Addr /\ n + 1 \in Addr /\ n + 1 = h + 3 /\ n - 2 = h /\ n >= 2 /\ n \in Nat
    BY <1>1, BlockFacts
  <1> HIDE DEF n
  <1>3. n \in F /\ n \notin F2
    BY <1>2 DEF Nodes
  <1>4. F2 = F \ {n}
    <2>1. \A y \in Addr : y - 2 = h => y = n
      BY <1>2, PoolFacts
    <2>2. \A y : y \in F2 <=> y \in F \ {n}
      BY <1>2, <1>3, <2>1 DEF Nodes
    <2> HIDE DEF F, F2
    <2> QED BY <2>2
  <1>5. Apart(F) /\ F \subseteq Addr
    BY <1>1, NodeFacts
  <1>6. /\ p = Null \/ (p \in F /\ p # n)
        /\ x = Null \/ (x \in F /\ x # n)
        /\ p # Null => p # x
        /\ H.head \in F
    <2>1. PICK c \in Nat : \E q \in [1 .. c -> F] : InOrder(H.mem, H.head, F, c, q)
      BY <1>1 DEF Chain
    <2>2. PICK q \in [1 .. c -> F] : InOrder(H.mem, H.head, F, c, q)
      BY <2>1
    <2> HIDE DEF F
    <2>3. /\ H.head = IF c = 0 THEN Null ELSE q[1]
          /\ \A i, j \in 1 .. c : i # j => q[i] # q[j]
          /\ \A i \in 1 .. c : H.mem[q[i] + 1] = IF i = c THEN Null ELSE q[i + 1]
          /\ \A i \in 1 .. c : H.mem[q[i]] = IF i = 1 THEN Null ELSE q[i - 1]
      BY <2>2 DEF InOrder
    <2>4. PICK k \in 1 .. c : q[k] = n
      BY <2>2, <1>3 DEF InOrder
    <2>5. p = (IF k = 1 THEN Null ELSE q[k - 1]) /\ x = IF k = c THEN Null ELSE q[k + 1]
      BY <2>3, <2>4
    <2>a. \A i, j \in 1 .. c : i # j => q[i] # q[j]
      BY <2>3
    <2>6. k # 1 => k - 1 \in 1 .. c /\ q[k - 1] # q[k] /\ q[k - 1] \in F
      <3>1. k # 1 => k - 1 \in 1 .. c /\ k - 1 # k
        OBVIOUS
      <3> QED BY <2>a, <3>1
    <2>7. k # c => k + 1 \in 1 .. c /\ q[k + 1] # q[k] /\ q[k + 1] \in F
      <3>1. k # c => k + 1 \in 1 .. c /\ k + 1 # k
        OBVIOUS
      <3> QED BY <2>a, <3>1
    <2>8. k # 1 /\ k # c => q[k - 1] # q[k + 1]
      <3>1. k - 1 # k + 1
        OBVIOUS
      <3> QED BY <2>a, <2>6, <2>7, <3>1
    <2>9. p # Null => p # x
      BY <2>5, <2>6, <2>8
    <2>10. H.head \in F
      BY <2>2, <2>3
    <2> QED BY <2>4, <2>5, <2>6, <2>7, <2>9, <2>10
  <1> HIDE DEF F, F2, p, x
  <1>7. \A y, z \in F : y # z => /\ y + 1 # z /\ y # z + 1 /\ y + 1 # z + 1
                                 /\ y \in Addr /\ y + 1 \in Addr
    <2> TAKE y, z \in F
    <2> HAVE y # z
    <2>1. y + 1 < z \/ z + 1 < y
      BY <1>5 DEF Apart
    <2>2. y \in Nat /\ z \in Nat
      BY <1>5, PoolFacts
    <2>3. y \in Addr /\ y + 1 \in Addr
      BY <1>5 DEF Apart
    <2> QED BY <2>1, <2>2, <2>3
  <1>8. /\ p \in Addr \cup {Null} /\ x \in Addr \cup {Null}
        /\ p # Null => p + 1 \in Addr /\ p + 1 # n /\ p + 1 # n + 1 /\ p + 1 # x /\ p # n
        /\ x # n /\ x # n + 1
    <2>1. p # Null => p \in F /\ p # n /\ p + 1 \in Addr /\ p + 1 # n /\ p + 1 # n + 1
      BY <1>3, <1>6, <1>7
    <2>2. x # Null => x \in F /\ x # n /\ x # n + 1
      BY <1>3, <1>6, <1>7
    <2>3. x = Null => x # n /\ x # n + 1
      BY <1>2, PoolFacts
    <2>4. p # Null => p + 1 # x
      <3>1. CASE x = Null
        BY <3>1, <2>1, PoolFacts
      <3>2. CASE x # Null
        BY <3>2, <1>6, <1>7
      <3> QED BY <3>1, <3>2
    <2> QED BY <1>5, <2>1, <2>2, <2>3, <2>4
  <1>9. /\ G \in Pools
        /\ G.head = IF p = Null THEN x ELSE H.head
        /\ p # Null => G.mem[p + 1] = x
        /\ x # Null => G.mem[x] = p
        /\ \A a \in Addr : /\ a # n /\ a # n + 1 /\ a # x
                           /\ (p # Null => a # p + 1)
                          => G.mem[a] = H.mem[a]
        /\ G.mem[n] = Null /\ G.mem[n + 1] = Null
    <2>1. p = H.mem[h + 2] /\ x = H.mem[h + 3]
      BY <1>2 DEF p, x, n
    <2>2. p # Null => p + 1 # h + 2 /\ p + 1 # h + 3
      BY <1>2, <1>8 DEF n
    <2>3. x # h + 2 /\ x # h + 3
      BY <1>2, <1>8 DEF n
    <2>4. h + 3 \in Addr
      BY <1>2
    <2> HIDE DEF G
    <2>5. LET K == free_list_remove(H, h)
           IN  /\ K \in Pools
               /\ K.head = IF p = Null THEN x ELSE H.head
               /\ p # Null => K.mem[p + 1] = x
               /\ x # Null => K.mem[x] = p
               /\ \A a \in Addr : /\ a # h + 2 /\ a # h + 3 /\ a # x
                                  /\ (p # Null => a # p + 1)
                                 => K.mem[a] = H.mem[a]
               /\ K.mem[h + 2] = Null /\ K.mem[h + 3] = Null
      BY <1>1, <1>8, <2>1, <2>2, <2>3, <2>4, RemoveFields
    <2>6. n = h + 2 /\ n + 1 = h + 3
      BY <1>2 DEF n
    <2> QED BY <2>5, <2>6 DEF G
  <1> HIDE DEF G
  <1>10. Chain(G.mem, G.head, F2)
    <2>1. p = H.mem[n] /\ x = H.mem[n + 1]
      BY DEF p, x
    <2>2. Chain(G.mem, G.head, F \ {n})
      BY <1>1, <1>3, <1>5, <1>9, <2>1, ChainRemove
    <2> QED BY <2>2, <1>4
  <1>11. \A a \in Addr : \/ G.mem[a] = H.mem[a]
                         \/ /\ \E y \in F : a = y \/ a = y + 1
                            /\ G.mem[a] \in Addr \cup {Null}
    <2> TAKE a \in Addr
    <2>1. CASE a = n \/ a = n + 1
      BY <2>1, <1>3, <1>9
    <2>2. CASE a = x
      BY <2>2, <1>6, <1>8, <1>9, PoolFacts
    <2>3. CASE p # Null /\ a = p + 1
      BY <2>3, <1>6, <1>8, <1>9
    <2>4. CASE a # n /\ a # n + 1 /\ a # x /\ (p # Null => a # p + 1)
      BY <2>4, <1>9
    <2> QED BY <2>1, <2>2, <2>3, <2>4
  <1>12. Sound(G, ln, us, U \cup {h}, D) /\ KeepsUsed(H, G, ln, us)
    BY <1>9, <1>10, <1>11, NodesOnly DEF F, F2
  <1> QED BY <1>12 DEF G

(* The first header word of a block that is in use or not. *)
TagOf(b) == IF b THEN UsedTag ELSE FreeTag

(* G and H differ in no block but the one at h. *)
OnlyBlock(H, G, ln, h) ==
    \A b \in Addr : ln[b] > 0 /\ b # h => \A a \in b .. b + ln[b] - 1 : G.mem[a] = H.mem[a]

(* Header and footer of a block that is in use or not listed are written. *)
LEMMA SetSound ==
    ASSUME NEW H, NEW ln, NEW us, NEW U, NEW D, Sound(H, ln, us, U, D),
           NEW h \in Addr, ln[h] > 0, us[h] \/ h \in U,
           NEW tag, tag = TagOf(us[h]), NEW size, size = ln[h]
    PROVE  /\ Sound(SetBlock(H, h, tag, size), ln, us, U, D \ {h})
           /\ OnlyBlock(H, SetBlock(H, h, tag, size), ln, h)
  <1> DEFINE t == TagOf(us[h])
             G == SetBlock(H, h, t, ln[h])
             e == h + ln[h] - 1
  <1>1. /\ H \in Pools /\ Tiles(ln) /\ Uses(ln, us) /\ Chain(H.mem, H.head, Nodes(ln, us, U))
    BY DEF Sound
  <1>2. /\ h \in Nat /\ ln[h] \in Nat /\ ln[h] >= 5 /\ h + ln[h] <= Words
        /\ h \in h .. e /\ h + 1 \in h .. e /\ e \in h .. e
    <2>1. h \in Nat /\ ln[h] \in Nat /\ ln[h] >= 5 /\ h + ln[h] <= Words
      BY <1>1, BlockFacts
    <2> QED BY <2>1
  <1>3. t \in Val /\ us[h] \in BOOLEAN /\ (~us[h] => t # UsedTag)
    BY <1>1, PoolFacts DEF Val, TagOf, Uses
  <1> HIDE DEF t
  <1>4. /\ G \in Pools /\ G.head = H.head
        /\ G.mem[h] = t /\ G.mem[h + 1] = ln[h] /\ G.mem[e] = ln[h]
        /\ \A a \in Addr : a # h /\ a # h + 1 /\ a # e => G.mem[a] = H.mem[a]
    <2> HIDE DEF G
    <2> DEFINE n == ln[h]
    <2>1. H \in Pools /\ n \in Nat /\ n >= 5 /\ h + n <= Words /\ t \in Val
      BY <1>1, <1>2, <1>3
    <2> HIDE DEF n
    <2>2. LET K == SetBlock(H, h, t, n)
          IN  /\ K \in Pools /\ K.head = H.head
              /\ K.mem[h] = t /\ K.mem[h + 1] = n /\ K.mem[h + n - 1] = n
              /\ \A a \in Addr : a # h /\ a # h + 1 /\ a # h + n - 1 => K.mem[a] = H.mem[a]
      BY <2>1, SetBlockFields
    <2> QED BY <2>2 DEF G, n
  <1> HIDE DEF G
  <1>5. ASSUME NEW b \in Addr, ln[b] > 0, b # h, NEW a \in b .. b + ln[b] - 1
        PROVE  G.mem[a] = H.mem[a]
    <2>1. a \notin h .. h + ln[h] - 1
      BY <1>1, <1>5, BlocksAside
    <2>2. a \in Addr
      BY <1>1, <1>5, BlockFacts
    <2> QED BY <2>1, <2>2, <1>2, <1>4
  <1>6. ASSUME NEW a \in Addr, ln[a] > 0, a \notin D \ {h} PROVE Tagged(G.mem, ln, us, a)
    <2>1. CASE a = h
      BY <2>1, <1>4 DEF Tagged, t, TagOf
    <2>2. CASE a # h
      <3>1. Tagged(H.mem, ln, us, a)
        BY <2>2, <1>6 DEF Sound
      <3>2. a \in a .. a + ln[a] - 1 /\ a + 1 \in a .. a + ln[a] - 1 /\ a + ln[a] - 1 \in a .. a + ln[a] - 1
        <4>1. a \in Nat /\ ln[a] \in Nat /\ ln[a] >= 5
          BY <1>1, <1>6, BlockFacts
        <4> QED BY <4>1
      <3>3. G.mem[a] = H.mem[a] /\ G.mem[a + 1] = H.mem[a + 1] /\ G.mem[a + ln[a] - 1] = H.mem[a + ln[a] - 1]
        BY <2>2, <3>2, <1>5, <1>6
      <3> QED BY <3>1, <3>3 DEF Tagged
    <2> QED BY <2>1, <2>2
  <1>7. ASSUME NEW a \in Addr, G.mem[a] = UsedTag PROVE us[a] \/ a \in D \ {h}
    <2>1. ln[h] # UsedTag
      <3>1. ln[h] \in 0 .. Words
        BY <1>2, PoolFacts
      <3> QED BY <3>1, PoolFacts
    <2>2. CASE a = h
      BY <2>2, <1>3, <1>4, <1>7
    <2>3. CASE a # h
      <3>1. a # h + 1 /\ a # e
        BY <2>1, <1>4, <1>7
      <3>2. H.mem[a] = UsedTag
        BY <2>3, <3>1, <1>4, <1>7
      <3> QED BY <3>2, <2>3 DEF Sound
    <2> QED BY <2>2, <2>3
  <1>8. Chain(G.mem, G.head, Nodes(ln, us, U))
    <2>1. ASSUME NEW n \in Nodes(ln, us, U) PROVE G.mem[n] = H.mem[n] /\ G.mem[n + 1] = H.mem[n + 1]
      <3>1. n \in Addr /\ n + 1 \in Addr /\ n - 2 \in Addr /\ ~us[n - 2] /\ n - 2 \notin U
        BY <1>1, NodeFacts
      <3>2. h # n - 2
        BY <3>1
      <3>3. n \notin h .. h + ln[h] - 1 /\ n + 1 \notin h .. h + ln[h] - 1
        BY <1>1, <3>2, NodeAside
      <3> QED BY <3>1, <3>3, <1>2, <1>4
    <2>2. Chain(G.mem, H.head, Nodes(ln, us, U))
      BY <1>1, <2>1, ChainFrame
    <2> QED BY <2>2, <1>4
  <1>9. Sound(G, ln, us, U, D \ {h})
    BY <1>1, <1>4, <1>6, <1>7, <1>8 DEF Sound
  <1> QED BY <1>5, <1>9 DEF G, t, OnlyBlock

(* A block taken off the list becomes one in use ... *)
LEMMA UseSound ==
    ASSUME NEW H, NEW ln, NEW us, NEW U, NEW D, Sound(H, ln, us, U, D),
           NEW h \in Addr, ln[h] > 0, h \in U
    PROVE  Sound(H, ln, [us EXCEPT ![h] = TRUE], U \ {h}, D \cup {h})
  <1> DEFINE u2 == [us EXCEPT ![h] = TRUE]
  <1>1. /\ H \in Pools /\ Tiles(ln) /\ Uses(ln, us) /\ Chain(H.mem, H.head, Nodes(ln, us, U))
        /\ \A a \in Addr : ln[a] > 0 /\ a \notin D => Tagged(H.mem, ln, us, a)
        /\ \A a \in Addr : H.mem[a] = UsedTag => us[a] \/ a \in D
    BY DEF Sound
  <1>2. /\ u2 \in [Addr -> BOOLEAN] /\ u2[h] = TRUE /\ \A a \in Addr : a # h => u2[a] = us[a]
        /\ Uses(ln, u2)
    BY <1>1 DEF Uses
  <1> HIDE DEF u2
  <1>3. Nodes(ln, u2, U \ {h}) = Nodes(ln, us, U)
    <2>1. \A n \in Addr : n >= 2 => n - 2 \in Addr
      BY PoolFacts
    <2>2. \A n : n \in Nodes(ln, u2, U \ {h}) <=> n \in Nodes(ln, us, U)
      BY <1>2, <2>1 DEF Nodes
    <2> QED BY <2>2
  <1>4. \A a \in Addr : ln[a] > 0 /\ a \notin D \cup {h} => Tagged(H.mem, ln, u2, a)
    BY <1>1, <1>2 DEF Tagged
  <1>5. \A a \in Addr : H.mem[a] = UsedTag => u2[a] \/ a \in D \cup {h}
    BY <1>1, <1>2
  <1>6. Sound(H, ln, u2, U \ {h}, D \cup {h})
    BY <1>1, <1>2, <1>3, <1>4, <1>5 DEF Sound
  <1> QED BY <1>6 DEF u2

(* ... and a block in use a free one that is not listed yet. *)
LEMMA UnuseSound ==
    ASSUME NEW H, NEW ln, NEW us, NEW U, NEW D, Sound(H, ln, us, U, D),
           NEW h \in Addr, ln[h] > 0, us[h]
    PROVE  Sound(H, ln, [us EXCEPT ![h] = FALSE], U \cup {h}, D \cup {h})
  <1> DEFINE u2 == [us EXCEPT ![h] = FALSE]
  <1>1. /\ H \in Pools /\ Tiles(ln) /\ Uses(ln, us) /\ Chain(H.mem, H.head, Nodes(ln, us, U))
        /\ \A a \in Addr : ln[a] > 0 /\ a \notin D => Tagged(H.mem, ln, us, a)
        /\ \A a \in Addr : H.mem[a] = UsedTag => us[a] \/ a \in D
    BY DEF Sound
  <1>2. /\ u2 \in [Addr -> BOOLEAN] /\ u2[h] = FALSE /\ \A a \in Addr : a # h => u2[a] = us[a]
        /\ Uses(ln, u2)
    BY <1>1 DEF Uses
  <1> HIDE DEF u2
  <1>3. Nodes(ln, u2, U \cup {h}) = Nodes(ln, us, U)
    <2>1. \A n \in Addr : n >= 2 => n - 2 \in Addr
      BY PoolFacts
    <2>2. \A n : n \in Nodes(ln, u2, U \cup {h}) <=> n \in Nodes(ln, us, U)
      BY <1>2, <2>1 DEF Nodes
    <2> QED BY <2>2
  <1>4. \A a \in Addr : ln[a] > 0 /\ a \notin D \cup {h} => Tagged(H.mem, ln, u2, a)
    BY <1>1, <1>2 DEF Tagged
  <1>5. \A a \in Addr : H.mem[a] = UsedTag => u2[a] \/ a \in D \cup {h}
    BY <1>1, <1>2
  <1>6. Sound(H, ln, u2, U \cup {h}, D \cup {h})
    BY <1>1, <1>2, <1>3, <1>4, <1>5 DEF Sound
  <1> QED BY <1>6 DEF u2

(* No block starts inside another. *)
LEMMA InsideNone ==
    ASSUME NEW ln, Tiles(ln), NEW h \in Addr, ln[h] > 0, NEW x \in Addr, h < x, x < h + ln[h]
    PROVE  ln[x] = 0
  <1>1. ln[x] \in 0 .. Words
    BY DEF Tiles
  <1>2. CASE ln[x] > 0
    <2>1. h + ln[h] <= x
      BY <1>2 DEF Tiles
    <2>2. h \in Nat /\ ln[h] \in Nat /\ x \in Nat
      BY BlockFacts, PoolFacts
    <2> QED BY <2>1, <2>2
  <1> QED BY <1>1, <1>2, PoolFacts

(* The sizes once the block at h has swallowed the next one ... *)
MergedSizes(ln, h) == [a \in Addr |-> IF a = h THEN ln[h] + ln[h + ln[h]]
                                      ELSE IF a = h + ln[h] THEN 0 ELSE ln[a]]

(* ... and once it is cut after need words. *)
SplitSizes(ln, h, need) == [a \in Addr |-> IF a = h THEN need
                                           ELSE IF a = h + need THEN ln[h] - need ELSE ln[a]]

(* Merging two blocks in a row leaves the pool cut into blocks. *)
LEMMA MergedTiles ==
    ASSUME NEW ln, Tiles(ln), NEW h \in Addr, ln[h] > 0, NEW g \in Addr, g = h + ln[h], ln[g] > 0,
           NEW l2, l2 = MergedSizes(ln, h)
    PROVE  /\ Tiles(l2) /\ l2[h] = ln[h] + ln[g] /\ l2[g] = 0
           /\ \A a \in Addr : a # h /\ a # g => l2[a] = ln[a]
  <1>1. /\ h \in Nat /\ ln[h] \in Nat /\ ln[h] >= 5 /\ g \in Nat /\ ln[g] \in Nat /\ ln[g] >= 5
        /\ g + ln[g] <= Words /\ g # h /\ h < g
        /\ g + ln[g] = Words \/ (g + ln[g] \in Addr /\ ln[g + ln[g]] > 0)
    BY BlockFacts
  <1>2. /\ l2[h] = ln[h] + ln[g] /\ l2[g] = 0
        /\ \A a \in Addr : a # h /\ a # g => l2[a] = ln[a]
    BY <1>1 DEF MergedSizes
  <1>3. l2 \in [Addr -> 0 .. Words]
    <2>1. \A a \in Addr : l2[a] \in 0 .. Words
      <3> TAKE a \in Addr
      <3>1. CASE a = h
        BY <3>1, <1>1, <1>2, PoolFacts
      <3>2. CASE a = g
        BY <3>2, <1>2, PoolFacts
      <3>3. CASE a # h /\ a # g
        BY <3>3, <1>2 DEF Tiles
      <3> QED BY <3>1, <3>2, <3>3
    <2>2. l2 = [a \in Addr |-> l2[a]]
      BY DEF MergedSizes
    <2> QED BY <2>1, <2>2
  <1>4. \A a \in Addr : l2[a] > 0 => a # g /\ ln[a] > 0
    BY <1>2
  <1>5. l2[0] > 0
    <2>1. ln[0] > 0 /\ 0 \in Addr /\ 0 # g
      BY <1>1, PoolFacts DEF Tiles
    <2> QED BY <2>1, <1>1, <1>2
  <1>6. ASSUME NEW a \in Addr, l2[a] > 0
        PROVE  /\ l2[a] >= MinBlock /\ a + l2[a] <= Words
               /\ a + l2[a] = Words \/ l2[a + l2[a]] > 0
    <2>1. CASE a = h
      <3>1. a + l2[a] = g + ln[g] /\ l2[a] >= 5
        BY <2>1, <1>1, <1>2
      <3>2. g + ln[g] # Words => l2[g + ln[g]] = ln[g + ln[g]]
        BY <1>1, <1>2
      <3> QED BY <3>1, <3>2, <1>1, PoolFacts
    <2>2. CASE a # h
      <3>1. a # g /\ l2[a] = ln[a] /\ ln[a] > 0
        BY <2>2, <1>2, <1>6
      <3>2. ln[a] >= 5 /\ a + ln[a] <= Words /\ (a + ln[a] = Words \/ (a + ln[a] \in Addr /\ ln[a + ln[a]] > 0))
        BY <3>1, BlockFacts
      <3>3. a + ln[a] # g
        <4>1. a < h \/ h < a
          BY <2>2, PoolFacts
        <4>2. a < h => a + ln[a] <= h
          BY <3>1 DEF Tiles
        <4>3. h < a => g <= a
          BY <3>1 DEF Tiles
        <4>4. a \in Nat /\ ln[a] \in Nat
          BY <3>1, BlockFacts
        <4> QED BY <4>1, <4>2, <4>3, <4>4, <1>1, <3>1, <3>2
      <3>4. a + ln[a] \in Addr /\ ln[a + ln[a]] > 0 => l2[a + ln[a]] > 0
        <4>1. CASE a + ln[a] = h
          BY <4>1, <1>1, <1>2
        <4>2. CASE a + ln[a] # h
          BY <4>2, <3>3, <1>2
        <4> QED BY <4>1, <4>2
      <3> QED BY <3>1, <3>2, <3>4, PoolFacts
    <2> QED BY <2>1, <2>2
  <1>7. ASSUME NEW a \in Addr, NEW b \in Addr, l2[a] > 0, l2[b] > 0, a < b PROVE a + l2[a] <= b
    <2>1. ln[a] > 0 /\ ln[b] > 0 /\ a # g /\ b # g
      BY <1>7, <1>4
    <2>2. CASE a = h
      <3>1. a + l2[a] = g + ln[g] /\ g <= b
        BY <2>1, <2>2, <1>1, <1>2, <1>7 DEF Tiles
      <3>2. g < b
        BY <3>1, <2>1, <1>1, PoolFacts
      <3> QED BY <3>1, <3>2, <2>1 DEF Tiles
    <2>3. CASE a # h
      BY <2>1, <2>3, <1>2, <1>7 DEF Tiles
    <2> QED BY <2>2, <2>3
  <1>8. ASSUME NEW a \in Addr, l2[a] > 0, a # 0 PROVE \E p \in Addr : l2[p] > 0 /\ p + l2[p] = a
    <2>1. ln[a] > 0 /\ a # g
      BY <1>8, <1>4
    <2>2. PICK p \in Addr : ln[p] > 0 /\ p + ln[p] = a
      BY <2>1, <1>8 DEF Tiles
    <2>3. CASE p = g
      <3>1. h + l2[h] = a /\ l2[h] > 0
        BY <2>2, <2>3, <1>1, <1>2
      <3> QED BY <3>1
    <2>4. CASE p # g
      <3>1. p # h
        BY <2>1, <2>2
      <3>2. l2[p] = ln[p]
        BY <3>1, <2>4, <1>2
      <3> QED BY <3>2, <2>2
    <2> QED BY <2>3, <2>4
  <1>9. Tiles(l2)
    BY <1>3, <1>5, <1>6, <1>7, <1>8 DEF Tiles
  <1> QED BY <1>2, <1>9

(* So does cutting one in two. *)
LEMMA SplitTiles ==
    ASSUME NEW ln, Tiles(ln), NEW h \in Addr, ln[h] > 0, NEW need \in Nat, need >= 5,
           ln[h] >= need + 5, NEW r, r = h + need, NEW l2, l2 = SplitSizes(ln, h, need)
    PROVE  /\ Tiles(l2) /\ l2[h] = need /\ r \in Addr /\ r # h /\ l2[r] = ln[h] - need /\ l2[r] >= 5
           /\ ln[r] = 0
           /\ \A a \in Addr : a # h /\ a # r => l2[a] = ln[a]
  <1>1. /\ h \in Nat /\ ln[h] \in Nat /\ h + ln[h] <= Words /\ Words \in Nat
        /\ h + ln[h] = Words \/ (h + ln[h] \in Addr /\ ln[h + ln[h]] > 0)
    BY BlockFacts, PoolFacts
  <1>2. r \in Addr /\ r \in Nat /\ h < r /\ r < h + ln[h] /\ r # h /\ ln[h] - need >= 5 /\ ln[h] - need \in Nat
    BY <1>1, PoolFacts
  <1>3. ln[r] = 0
    BY <1>2, InsideNone
  <1>4. /\ l2[h] = need /\ l2[r] = ln[h] - need
        /\ \A a \in Addr : a # h /\ a # r => l2[a] = ln[a]
    BY <1>2 DEF SplitSizes
  <1>5. l2 \in [Addr -> 0 .. Words]
    <2>1. \A a \in Addr : l2[a] \in 0 .. Words
      <3> TAKE a \in Addr
      <3>1. CASE a = h
        BY <3>1, <1>1, <1>2, <1>4
      <3>2. CASE a = r
        BY <3>2, <1>1, <1>2, <1>4
      <3>3. CASE a # h /\ a # r
        BY <3>3, <1>4 DEF Tiles
      <3> QED BY <3>1, <3>2, <3>3
    <2>2. l2 = [a \in Addr |-> l2[a]]
      BY DEF SplitSizes
    <2> QED BY <2>1, <2>2
  <1>6. l2[0] > 0
    <2>1. ln[0] > 0 /\ 0 \in Addr /\ 0 # r
      BY <1>1, <1>2, PoolFacts DEF Tiles
    <2> QED BY <2>1, <1>4
  <1>a. \A a \in Addr : a # r /\ l2[a] > 0 => ln[a] > 0
    BY <1>4
  <1>7. ASSUME NEW a \in Addr, l2[a] > 0
        PROVE  /\ l2[a] >= MinBlock /\ a + l2[a] <= Words
               /\ a + l2[a] = Words \/ l2[a + l2[a]] > 0
    <2>1. CASE a = h
      <3>1. a + l2[a] = r /\ l2[a] >= 5 /\ l2[r] > 0 /\ r <= Words
        BY <2>1, <1>1, <1>2, <1>4
      <3> QED BY <3>1, PoolFacts
    <2>2. CASE a = r
      <3>1. a + l2[a] = h + ln[h] /\ l2[a] >= 5
        BY <2>2, <1>1, <1>2, <1>4
      <3>2. h + ln[h] # Words => l2[h + ln[h]] = ln[h + ln[h]]
        BY <1>1, <1>2, <1>4
      <3> QED BY <3>1, <3>2, <1>1, PoolFacts
    <2>3. CASE a # h /\ a # r
      <3>1. l2[a] = ln[a] /\ ln[a] > 0
        BY <2>3, <1>4, <1>7
      <3>2. ln[a] >= 5 /\ a + ln[a] <= Words /\ (a + ln[a] = Words \/ (a + ln[a] \in Addr /\ ln[a + ln[a]] > 0))
        BY <3>1, BlockFacts
      <3>3. a + ln[a] \in Addr /\ ln[a + ln[a]] > 0 => l2[a + ln[a]] > 0
        <4>1. CASE a + ln[a] = h
          BY <4>1, <1>4
        <4>2. CASE a + ln[a] # h
          BY <4>2, <1>3, <1>4
        <4> QED BY <4>1, <4>2
      <3> QED BY <3>1, <3>2, <3>3, PoolFacts
    <2> QED BY <2>1, <2>2, <2>3
  <1>8. ASSUME NEW a \in Addr, NEW b \in Addr, l2[a] > 0, l2[b] > 0, a < b PROVE a + l2[a] <= b
    <2>0. a \in Nat /\ b \in Nat
      BY PoolFacts
    <2>1. CASE a = h
      <3>1. a + l2[a] = r
        BY <2>1, <1>4
      <3>2. CASE b = r
        BY <3>1, <3>2, <1>2
      <3>3. CASE b # r
        <4>1. h + ln[h] <= b
          BY <3>3, <2>1, <1>a, <1>8 DEF Tiles
        <4> QED BY <4>1, <3>1, <1>1, <1>2, <2>0
      <3> QED BY <3>2, <3>3
    <2>2. CASE a = r
      <3>1. a + l2[a] = h + ln[h] /\ b # r /\ h < b
        BY <2>0, <2>2, <1>1, <1>2, <1>4, <1>8
      <3>2. ln[b] > 0
        BY <3>1, <1>a, <1>8
      <3> QED BY <3>1, <3>2 DEF Tiles
    <2>3. CASE a # h /\ a # r
      <3>1. l2[a] = ln[a] /\ ln[a] > 0
        BY <2>3, <1>4, <1>8
      <3>2. CASE b # r
        BY <3>1, <3>2, <1>a, <1>8 DEF Tiles
      <3>3. CASE b = r
        <4>1. a < h
          <5>1. a < h \/ h < a
            BY <2>0, <2>3, <1>1
          <5>2. h < a => h + ln[h] <= a
            BY <3>1 DEF Tiles
          <5> QED BY <5>1, <5>2, <3>3, <2>0, <1>1, <1>2, <1>8
        <4>2. a + ln[a] <= h
          BY <4>1, <3>1 DEF Tiles
        <4>3. ln[a] \in Nat
          BY <3>1, BlockFacts
        <4> QED BY <4>2, <4>3, <3>1, <3>3, <2>0, <1>1, <1>2
      <3> QED BY <3>2, <3>3
    <2> QED BY <2>1, <2>2, <2>3
  <1>9. ASSUME NEW a \in Addr, l2[a] > 0, a # 0 PROVE \E p \in Addr : l2[p] > 0 /\ p + l2[p] = a
    <2>1. CASE a = r
      <3>1. h + l2[h] = a /\ l2[h] > 0
        BY <2>1, <1>4
      <3> QED BY <3>1
    <2>2. CASE a # r
      <3>1. ln[a] > 0
        BY <2>2, <1>a, <1>9
      <3>2. PICK p \in Addr : ln[p] > 0 /\ p + ln[p] = a
        BY <3>1, <1>9 DEF Tiles
      <3>3. CASE p = h
        <4>1. r + l2[r] = a /\ l2[r] > 0
          BY <3>2, <3>3, <1>1, <1>2, <1>4
        <4> QED BY <4>1, <1>2
      <3>4. CASE p # h
        <4>1. p # r
          BY <3>2, <1>3
        <4>2. l2[p] = ln[p]
          BY <4>1, <3>4, <1>4
        <4> QED BY <4>2, <3>2
      <3> QED BY <3>3, <3>4
    <2> QED BY <2>1, <2>2
  <1>10. Tiles(l2)
    BY <1>5, <1>6, <1>7, <1>8, <1>9 DEF Tiles
  <1> QED BY <1>2, <1>3, <1>4, <1>10

(* Two free blocks in a row, neither of them listed, become one. *)
LEMMA MergeSound ==
    ASSUME NEW H, NEW ln, NEW us, NEW U, NEW D, Sound(H, ln, us, U, D),
           NEW h \in Addr, ln[h] > 0, ~ us[h], h \in U,
           NEW g \in Addr, g = h + ln[h], ln[g] > 0, ~ us[g], g \in U,
           NEW l2, l2 = MergedSizes(ln, h)
    PROVE  Sound(H, l2, us, U \ {g}, D \cup {h})
  <1>1. /\ H \in Pools /\ Tiles(ln) /\ Uses(ln, us) /\ Chain(H.mem, H.head, Nodes(ln, us, U))
        /\ \A a \in Addr : ln[a] > 0 /\ a \notin D => Tagged(H.mem, ln, us, a)
        /\ \A a \in Addr : H.mem[a] = UsedTag => us[a] \/ a \in D
    BY DEF Sound
  <1>2. /\ Tiles(l2) /\ l2[h] = ln[h] + ln[g] /\ l2[g] = 0
        /\ \A a \in Addr : a # h /\ a # g => l2[a] = ln[a]
    BY <1>1, MergedTiles
  <1>3. l2[h] > 0
    BY <1>1, <1>2, BlockFacts
  <1>4. Uses(l2, us)
    BY <1>1, <1>2, <1>3 DEF Uses
  <1>5. Nodes(l2, us, U \ {g}) = Nodes(ln, us, U)
    <2>1. \A n \in Addr : n >= 2 => n - 2 \in Addr
      BY PoolFacts
    <2>2. ~ (l2[g] > 0)
      BY <1>2
    <2>3. \A n : n \in Nodes(l2, us, U \ {g}) <=> n \in Nodes(ln, us, U)
      <3> TAKE n
      <3>1. CASE n \in Addr /\ n >= 2 /\ n - 2 = h
        <4>1. h # g
          BY <1>2, <1>3
        <4> QED BY <3>1, <4>1 DEF Nodes
      <3>2. CASE n \in Addr /\ n >= 2 /\ n - 2 = g
        BY <3>2, <2>2 DEF Nodes
      <3>3. CASE n \in Addr /\ n >= 2 /\ n - 2 # h /\ n - 2 # g
        BY <3>3, <2>1, <1>2 DEF Nodes
      <3> QED BY <3>1, <3>2, <3>3 DEF Nodes
    <2> QED BY <2>3
  <1>6. ASSUME NEW a \in Addr, l2[a] > 0, a \notin D \cup {h} PROVE Tagged(H.mem, l2, us, a)
    <2>1. a # h /\ a # g
      BY <1>2, <1>6
    <2> QED BY <2>1, <1>1, <1>2, <1>6 DEF Tagged
  <1> QED BY <1>1, <1>2, <1>4, <1>5, <1>6 DEF Sound

(* A free block that is not listed is cut in two. *)
LEMMA SplitSound ==
    ASSUME NEW H, NEW ln, NEW us, NEW U, NEW D, Sound(H, ln, us, U, D),
           NEW h \in Addr, ln[h] > 0, ~ us[h], h \in U,
           NEW need \in Nat, need >= 5, ln[h] >= need + 5, NEW r, r = h + need,
           NEW l2, l2 = SplitSizes(ln, h, need)
    PROVE  Sound(H, l2, us, U \cup {r}, D \cup {h, r}) /\ ~ us[r]
  <1>1. /\ H \in Pools /\ Tiles(ln) /\ Uses(ln, us) /\ Chain(H.mem, H.head, Nodes(ln, us, U))
        /\ \A a \in Addr : ln[a] > 0 /\ a \notin D => Tagged(H.mem, ln, us, a)
        /\ \A a \in Addr : H.mem[a] = UsedTag => us[a] \/ a \in D
    BY DEF Sound
  <1>2. /\ Tiles(l2) /\ l2[h] = need /\ r \in Addr /\ r # h /\ l2[r] = ln[h] - need /\ l2[r] >= 5
        /\ ln[r] = 0
        /\ \A a \in Addr : a # h /\ a # r => l2[a] = ln[a]
    BY <1>1, SplitTiles
  <1>3. ~ us[r]
    BY <1>1, <1>2 DEF Uses
  <1>4. Uses(l2, us)
    BY <1>1, <1>2, <1>3 DEF Uses
  <1>5. Nodes(l2, us, U \cup {r}) = Nodes(ln, us, U)
    <2>1. \A n \in Addr : n >= 2 => n - 2 \in Addr
      BY PoolFacts
    <2>2. ~ (ln[r] > 0)
      BY <1>2
    <2>3. \A n : n \in Nodes(l2, us, U \cup {r}) <=> n \in Nodes(ln, us, U)
      <3> TAKE n
      <3>1. CASE n \in Addr /\ n >= 2 /\ n - 2 = h
        BY <3>1 DEF Nodes
      <3>2. CASE n \in Addr /\ n >= 2 /\ n - 2 = r
        BY <3>2, <2>2 DEF Nodes
      <3>3. CASE n \in Addr /\ n >= 2 /\ n - 2 # h /\ n - 2 # r
        BY <3>3, <2>1, <1>2 DEF Nodes
      <3> QED BY <3>1, <3>2, <3>3 DEF Nodes
    <2> QED BY <2>3
  <1>6. ASSUME NEW a \in Addr, l2[a] > 0, a \notin D \cup {h, r} PROVE Tagged(H.mem, l2, us, a)
    BY <1>1, <1>2, <1>6 DEF Tagged
  <1> QED BY <1>1, <1>2, <1>3, <1>4, <1>5, <1>6 DEF Sound

(* The counter of free bytes is in nobody's way. *)
LEMMA CountType ==
    ASSUME NEW H \in Pools, NEW k \in Int
    PROVE  Count(H, k) \in 0 .. CounterMod - 1
  <1>1. H.free \in Nat /\ CounterMod \in Nat /\ CounterMod > 0
    BY HeapAssumption DEF Pools
  <1> QED BY <1>1 DEF Count

(* Writing s_free_bytes leaves the blocks and the list alone. *)
LEMMA CountSound ==
    ASSUME NEW H, NEW ln, NEW us, NEW U, NEW D, Sound(H, ln, us, U, D),
           NEW c \in 0 .. CounterMod - 1
    PROVE  LET G == [H EXCEPT !.free = c]
           IN  Sound(G, ln, us, U, D) /\ G.mem = H.mem /\ G.head = H.head
  <1> DEFINE G == [H EXCEPT !.free = c]
  <1>1. H \in Pools
    BY DEF Sound
  <1>3. G \in Pools /\ G.mem = H.mem /\ G.head = H.head
    BY <1>1 DEF Pools
  <1> HIDE DEF G
  <1>4. Sound(G, ln, us, U, D)
    BY <1>3 DEF Sound
  <1> QED BY <1>3, <1>4 DEF G

-----------------------------------------------------------------------------
(* kmalloc and kfree on a sound pool.                                      *)

(* A block with its tags written is read back as it is. *)
LEMMA SizeIs ==
    ASSUME NEW H, NEW ln, NEW us, NEW U, NEW D, Sound(H, ln, us, U, D),
           NEW a \in Addr, ln[a] > 0, a \notin D
    PROVE  /\ Size(H, a) = ln[a] /\ H.mem[a] = TagOf(us[a]) /\ H.mem[a + ln[a] - 1] = ln[a]
           /\ H \in Pools /\ Tiles(ln) /\ Uses(ln, us)
  BY DEF Sound, Tagged, Size, TagOf

(* kmalloc takes the free block at h. *)
LEMMA CarveSound ==
    ASSUME NEW H, NEW ln, NEW us, Sound(H, ln, us, {}, {}),
           NEW h \in Addr, ln[h] > 0, ~ us[h], NEW need \in Nat, need >= 5, ln[h] >= need,
           NEW l2, l2 = IF ln[h] >= need + 5 THEN SplitSizes(ln, h, need) ELSE ln,
           NEW u2, u2 = [us EXCEPT ![h] = TRUE]
    PROVE  LET G == Carve(H, h, need)
           IN  Sound(G, l2, u2, {}, {}) /\ KeepsUsed(H, G, ln, us)
  <1> DEFINE size == ln[h]
             rest == size - need
             r == h + need
             off == free_list_remove(H, h)
             set == SetBlock(off, r, FreeTag, rest)
             cut == free_list_insert(set, r)
             one == SetBlock(cut, h, UsedTag, need)
             all == SetBlock(off, h, UsedTag, size)
             k1 == Count(cut, rest - HdrWords - FtrWords - need)
             k2 == Count(off, 0 - need)
  <1>1. Size(H, h) = size /\ Tiles(ln) /\ Uses(ln, us) /\ size \in Nat /\ h \in Nat
    <2>1. Size(H, h) = size /\ Tiles(ln) /\ Uses(ln, us)
      BY SizeIs
    <2> QED BY <2>1, BlockFacts
  <1>2. Carve(H, h, need) = IF size >= need + 5 THEN [one EXCEPT !.free = k1] ELSE [all EXCEPT !.free = k2]
    BY <1>1, PoolFacts DEF Carve
  <1>3. Sound(off, ln, us, {h}, {}) /\ KeepsUsed(H, off, ln, us)
    <2>1. LET K == free_list_remove(H, h)
          IN  Sound(K, ln, us, {} \cup {h}, {}) /\ KeepsUsed(H, K, ln, us)
      BY RemoveSound
    <2>2. {} \cup {h} = {h}
      OBVIOUS
    <2> QED BY <2>1, <2>2
  <1>u. us \in [Addr -> BOOLEAN] /\ u2[h] = TRUE /\ \A a \in Addr : a # h => u2[a] = us[a]
    BY <1>1 DEF Uses
  <1>v. TagOf(u2[h]) = UsedTag
    BY <1>u DEF TagOf
  <1> HIDE DEF off
  <1>4. CASE ~(size >= need + 5)
    <2>1. l2 = ln
      BY <1>4
    <2>2. Sound(off, ln, u2, {}, {h})
      <3>1. Sound(off, ln, [us EXCEPT ![h] = TRUE], {h} \ {h}, {} \cup {h})
        BY <1>3, UseSound
      <3>2. {h} \ {h} = {} /\ {} \cup {h} = {h}
        OBVIOUS
      <3> QED BY <3>1, <3>2
    <2>3. Sound(all, ln, u2, {}, {}) /\ OnlyBlock(off, all, ln, h)
      <3>1. Sound(off, ln, u2, {}, {h}) /\ (u2[h] \/ h \in {}) /\ UsedTag = TagOf(u2[h]) /\ size = ln[h]
        BY <2>2, <1>u, <1>v
      <3> HIDE DEF size
      <3>2. Sound(all, ln, u2, {}, {h} \ {h}) /\ OnlyBlock(off, all, ln, h)
        BY <3>1, SetSound
      <3>3. {h} \ {h} = {}
        OBVIOUS
      <3> QED BY <3>2, <3>3
    <2>4. k2 \in 0 .. CounterMod - 1
      BY <1>3, CountType DEF Sound
    <2> HIDE DEF all, k2, size
    <2>5. LET K == [all EXCEPT !.free = k2]
          IN  Sound(K, ln, u2, {}, {}) /\ K.mem = all.mem
      BY <2>3, <2>4, CountSound
    <2>6. Carve(H, h, need) = [all EXCEPT !.free = k2]
      BY <1>2, <1>4
    <2>7. Sound(Carve(H, h, need), l2, u2, {}, {}) /\ Carve(H, h, need).mem = all.mem
      BY <2>1, <2>5, <2>6
    <2>8. KeepsUsed(H, Carve(H, h, need), ln, us)
      BY <1>1, <1>3, <2>3, <2>7 DEF KeepsUsed, Uses, OnlyBlock
    <2> QED BY <2>7, <2>8
  <1>5. CASE size >= need + 5
    <2>1. l2 = SplitSizes(ln, h, need)
      BY <1>5
    <2>2. /\ Tiles(l2) /\ l2[h] = need /\ r \in Addr /\ r # h /\ l2[r] = rest /\ l2[r] >= 5
          /\ ln[r] = 0
          /\ \A a \in Addr : a # h /\ a # r => l2[a] = ln[a]
      BY <1>1, <1>5, <2>1, SplitTiles
    <2>a. l2[r] > 0 /\ l2[h] > 0
      BY <1>1, <1>5, <2>2
    <2>3. Sound(off, l2, us, {h, r}, {h, r}) /\ ~ us[r]
      <3>1. Sound(off, l2, us, {h} \cup {r}, {} \cup {h, r}) /\ ~ us[r]
        BY <1>3, <1>5, <2>1, SplitSound
      <3>2. {h} \cup {r} = {h, r} /\ {} \cup {h, r} = {h, r}
        OBVIOUS
      <3> QED BY <3>1, <3>2
    <2> HIDE DEF rest, r, size
    <2>4. Sound(set, l2, us, {h, r}, {h}) /\ OnlyBlock(off, set, l2, r)
      <3>1. /\ Sound(off, l2, us, {h, r}, {h, r}) /\ r \in Addr /\ l2[r] > 0
            /\ us[r] \/ r \in {h, r}
            /\ FreeTag = TagOf(us[r]) /\ rest = l2[r]
        BY <2>2, <2>a, <2>3 DEF TagOf
      <3>2. Sound(set, l2, us, {h, r}, {h, r} \ {r}) /\ OnlyBlock(off, set, l2, r)
        BY <3>1, SetSound
      <3>3. {h, r} \ {r} = {h}
        BY <2>2
      <3> QED BY <3>2, <3>3
    <2> HIDE DEF set
    <2>5. Sound(cut, l2, us, {h}, {h}) /\ KeepsUsed(set, cut, l2, us)
      <3>1. LET K == free_list_insert(set, r)
            IN  Sound(K, l2, us, {h, r} \ {r}, {h}) /\ KeepsUsed(set, K, l2, us)
        <4>1. /\ Sound(set, l2, us, {h, r}, {h}) /\ r \in Addr /\ l2[r] > 0 /\ ~ us[r]
              /\ r \in {h, r}
          BY <2>2, <2>a, <2>3, <2>4
        <4> QED BY <4>1, InsertSound
      <3>2. {h, r} \ {r} = {h}
        BY <2>2
      <3> QED BY <3>1, <3>2
    <2> HIDE DEF cut
    <2>6. Sound(cut, l2, u2, {}, {h})
      <3>1. Sound(cut, l2, [us EXCEPT ![h] = TRUE], {h} \ {h}, {h} \cup {h})
        <4>1. Sound(cut, l2, us, {h}, {h}) /\ l2[h] > 0 /\ h \in {h}
          BY <2>a, <2>5
        <4> QED BY <4>1, UseSound
      <3>2. {h} \ {h} = {} /\ {h} \cup {h} = {h}
        OBVIOUS
      <3> QED BY <3>1, <3>2
    <2>7. Sound(one, l2, u2, {}, {}) /\ OnlyBlock(cut, one, l2, h)
      <3>1. /\ Sound(cut, l2, u2, {}, {h}) /\ l2[h] > 0 /\ (u2[h] \/ h \in {})
            /\ UsedTag = TagOf(u2[h]) /\ need = l2[h]
        BY <2>2, <2>a, <2>6, <1>u, <1>v
      <3>2. Sound(one, l2, u2, {}, {h} \ {h}) /\ OnlyBlock(cut, one, l2, h)
        BY <3>1, SetSound
      <3>3. {h} \ {h} = {}
        OBVIOUS
      <3> QED BY <3>2, <3>3
    <2>8. k1 \in 0 .. CounterMod - 1
      <3>1. rest - HdrWords - FtrWords - need \in Int
        BY <1>1 DEF rest, size, HdrWords, FtrWords
      <3> QED BY <3>1, <2>5, CountType DEF Sound
    <2> HIDE DEF one, k1
    <2>9. LET K == [one EXCEPT !.free = k1]
          IN  Sound(K, l2, u2, {}, {}) /\ K.mem = one.mem
      BY <2>7, <2>8, CountSound
    <2>10. Carve(H, h, need) = [one EXCEPT !.free = k1]
      BY <1>2, <1>5
    <2>11. Sound(Carve(H, h, need), l2, u2, {}, {}) /\ Carve(H, h, need).mem = one.mem
      BY <2>9, <2>10
    <2>12. ASSUME NEW b \in Addr, us[b], NEW a \in b .. b + ln[b] - 1
           PROVE  one.mem[a] = H.mem[a]
      <3>1. b # h /\ b # r /\ ln[b] > 0 /\ l2[b] = ln[b]
        BY <1>1, <2>2, <2>3, <2>12 DEF Uses
      <3>2. one.mem[a] = cut.mem[a]
        BY <3>1, <2>7, <2>12 DEF OnlyBlock
      <3>3. cut.mem[a] = set.mem[a]
        BY <3>1, <2>5, <2>12 DEF KeepsUsed
      <3>4. set.mem[a] = off.mem[a]
        BY <3>1, <2>4, <2>12 DEF OnlyBlock
      <3>5. off.mem[a] = H.mem[a]
        BY <1>3, <2>12 DEF KeepsUsed
      <3> QED BY <3>2, <3>3, <3>4, <3>5
    <2>13. KeepsUsed(H, Carve(H, h, need), ln, us)
      BY <2>11, <2>12 DEF KeepsUsed
    <2> QED BY <2>11, <2>13
  <1> QED BY <1>4, <1>5

(* The sizes once a block from f to e takes the place of those between. *)
Span(ln, f, e) == [b \in Addr |-> IF b = f THEN e - f
                                  ELSE IF b \in f .. e - 1 THEN 0 ELSE ln[b]]

(* The span of one block changes nothing. *)
LEMMA SpanSelf ==
    ASSUME NEW ln, Tiles(ln), NEW h \in Addr, ln[h] > 0, NEW e, e = h + ln[h]
    PROVE  Span(ln, h, e) = ln
  <1>1. h \in Nat /\ ln[h] \in Nat /\ Addr = 0 .. Words - 1
    BY BlockFacts, PoolFacts
  <1>2. \A b \in Addr : b # h /\ b \in h .. e - 1 => ln[b] = 0
    <2> TAKE b \in Addr
    <2> HAVE b # h /\ b \in h .. e - 1
    <2>1. h < b /\ b < h + ln[h]
      BY <1>1, PoolFacts
    <2> QED BY <2>1, InsideNone
  <1>3. e - h = ln[h]
    BY <1>1
  <1>4. ln = [b \in Addr |-> ln[b]]
    BY DEF Tiles
  <1>5. \A b \in Addr : (IF b = h THEN e - h ELSE IF b \in h .. e - 1 THEN 0 ELSE ln[b]) = ln[b]
    BY <1>2, <1>3
  <1> HIDE DEF Span
  <1>6. Span(ln, h, e) = [b \in Addr |-> ln[b]]
    BY <1>5 DEF Span
  <1> QED BY <1>4, <1>6

(* Merging with the next block spans both. *)
LEMMA SpanMerged ==
    ASSUME NEW ln, Tiles(ln), NEW h \in Addr, ln[h] > 0, NEW g \in Addr, g = h + ln[h], ln[g] > 0,
           NEW e, e = g + ln[g]
    PROVE  MergedSizes(ln, h) = Span(ln, h, e)
  <1>1. /\ h \in Nat /\ ln[h] \in Nat /\ g \in Nat /\ ln[g] \in Nat /\ h < g /\ g < e /\ e \in Nat
        /\ e - h = ln[h] + ln[g]
    <2>1. /\ h \in Nat /\ ln[h] \in Nat /\ ln[h] >= 5 /\ g \in Nat /\ ln[g] \in Nat /\ ln[g] >= 5
      BY BlockFacts
    <2> QED BY <2>1
  <1>2. ASSUME NEW b \in Addr, b # h, b # g, b \in h .. e - 1 PROVE ln[b] = 0
    <2>1. b \in Nat
      BY PoolFacts
    <2>2. (h < b /\ b < h + ln[h]) \/ (g < b /\ b < g + ln[g])
      BY <1>1, <1>2, <2>1
    <2> QED BY <2>2, InsideNone
  <1>3. g # h /\ g \in h .. e - 1
    BY <1>1
  <1>4. \A b \in Addr : (IF b = h THEN e - h ELSE IF b \in h .. e - 1 THEN 0 ELSE ln[b])
                      = (IF b = h THEN ln[h] + ln[h + ln[h]] ELSE IF b = h + ln[h] THEN 0 ELSE ln[b])
    BY <1>1, <1>2, <1>3
  <1> QED BY <1>4 DEF Span, MergedSizes

(* Spanning further from an earlier block forgets the first span. *)
LEMMA SpanTwice ==
    ASSUME NEW ln, NEW f \in Addr, NEW h \in Addr, f <= h, NEW e \in Nat, h < e
    PROVE  Span(Span(ln, h, e), f, e) = Span(ln, f, e)
  <1> DEFINE s == Span(ln, h, e)
  <1>1. \A b \in Addr : s[b] = IF b = h THEN e - h ELSE IF b \in h .. e - 1 THEN 0 ELSE ln[b]
    BY DEF Span
  <1>2. h \in f .. e - 1 /\ \A b : b \in h .. e - 1 => b \in f .. e - 1
    BY PoolFacts
  <1> HIDE DEF s
  <1>3. \A b \in Addr : b \notin f .. e - 1 => s[b] = ln[b]
    BY <1>1, <1>2
  <1>4. \A b \in Addr : (IF b = f THEN e - f ELSE IF b \in f .. e - 1 THEN 0 ELSE s[b])
                      = (IF b = f THEN e - f ELSE IF b \in f .. e - 1 THEN 0 ELSE ln[b])
    BY <1>3
  <1>5. Span(s, f, e) = Span(ln, f, e)
    BY <1>4 DEF Span
  <1> QED BY <1>5 DEF s

(* Two free blocks in a row become one: w is on the list, v is not. *)
LEMMA JoinSound ==
    ASSUME NEW H, NEW ln, NEW us,
           NEW x \in Addr, ln[x] > 0, ~ us[x], NEW y \in Addr, y = x + ln[x], ln[y] > 0, ~ us[y],
           NEW w, NEW v, {w, v} = {x, y}, w # v, Sound(H, ln, us, {v}, {}),
           NEW size, size = ln[x] + ln[y]
    PROVE  LET G == SetBlock(free_list_remove(H, w), x, FreeTag, size)
           IN  Sound(G, MergedSizes(ln, x), us, {x}, {}) /\ KeepsUsed(H, G, ln, us)
  <1> DEFINE off == free_list_remove(H, w)
             G == SetBlock(off, x, FreeTag, size)
             l2 == MergedSizes(ln, x)
  <1>1. w \in Addr /\ ln[w] > 0 /\ ~ us[w] /\ w \notin {v} /\ Tiles(ln) /\ Uses(ln, us)
    BY DEF Sound
  <1>2. Sound(off, ln, us, {x, y}, {}) /\ KeepsUsed(H, off, ln, us)
    <2>1. LET K == free_list_remove(H, w)
          IN  Sound(K, ln, us, {v} \cup {w}, {}) /\ KeepsUsed(H, K, ln, us)
      BY <1>1, RemoveSound
    <2>2. {v} \cup {w} = {x, y}
      OBVIOUS
    <2> QED BY <2>1, <2>2
  <1> HIDE DEF off
  <1>3. x # y
    <2>1. x \in Nat /\ ln[x] \in Nat
      BY <1>1, BlockFacts
    <2> QED BY <2>1
  <1>4. /\ Tiles(l2) /\ l2[x] = ln[x] + ln[y] /\ l2[y] = 0
        /\ \A a \in Addr : a # x /\ a # y => l2[a] = ln[a]
    BY <1>1, MergedTiles
  <1>5. l2[x] > 0
    <2>1. ln[x] \in Nat /\ ln[y] \in Nat
      BY <1>1, BlockFacts
    <2> QED BY <2>1, <1>4
  <1>6. Sound(off, l2, us, {x}, {x})
    <2>1. Sound(off, ln, us, {x, y}, {}) /\ x \in {x, y} /\ y \in {x, y}
      BY <1>2
    <2>2. Sound(off, l2, us, {x, y} \ {y}, {} \cup {x})
      BY <2>1, MergeSound
    <2>3. {x, y} \ {y} = {x} /\ {} \cup {x} = {x}
      BY <1>3
    <2> QED BY <2>2, <2>3
  <1> HIDE DEF l2
  <1>7. Sound(G, l2, us, {x}, {}) /\ OnlyBlock(off, G, l2, x)
    <2>1. /\ Sound(off, l2, us, {x}, {x}) /\ l2[x] > 0 /\ (us[x] \/ x \in {x})
          /\ FreeTag = TagOf(us[x]) /\ size = l2[x]
      BY <1>4, <1>5, <1>6 DEF TagOf
    <2>2. Sound(G, l2, us, {x}, {x} \ {x}) /\ OnlyBlock(off, G, l2, x)
      BY <2>1, SetSound
    <2>3. {x} \ {x} = {}
      OBVIOUS
    <2> QED BY <2>2, <2>3
  <1> HIDE DEF G
  <1>8. ASSUME NEW b \in Addr, us[b], NEW a \in b .. b + ln[b] - 1 PROVE G.mem[a] = H.mem[a]
    <2>1. b # x /\ b # y /\ ln[b] > 0
      BY <1>1, <1>8 DEF Uses
    <2>2. l2[b] = ln[b]
      BY <2>1, <1>4
    <2>3. G.mem[a] = off.mem[a]
      BY <2>1, <2>2, <1>7, <1>8 DEF OnlyBlock
    <2>4. off.mem[a] = H.mem[a]
      BY <1>2, <1>8 DEF KeepsUsed
    <2> QED BY <2>3, <2>4
  <1>9. KeepsUsed(H, G, ln, us)
    BY <1>8 DEF KeepsUsed
  <1> QED BY <1>7, <1>9 DEF G, l2, off

(* MergeNext: the block after h is swallowed if it is free. *)
LEMMA MergeNextSound ==
    ASSUME NEW H, NEW ln, NEW us, NEW h \in Addr, ln[h] > 0, ~ us[h], Sound(H, ln, us, {h}, {}),
           NEW n, n = h + ln[h],
           NEW e, e = IF n \in Addr /\ ln[n] > 0 /\ ~ us[n] THEN n + ln[n] ELSE n
    PROVE  LET G == MergeNext(H, h)
           IN  /\ Sound(G, Span(ln, h, e), us, {h}, {}) /\ KeepsUsed(H, G, ln, us)
               /\ e \in Nat /\ h < e
  <1>1. Size(H, h) = ln[h] /\ Tiles(ln) /\ Uses(ln, us) /\ H \in Pools
    BY SizeIs
  <1>2. /\ h \in Nat /\ ln[h] \in Nat /\ ln[h] >= 5 /\ n \in Nat /\ n # h
        /\ n = Words \/ (n \in Addr /\ ln[n] > 0)
    <2>1. /\ h \in Nat /\ ln[h] \in Nat /\ ln[h] >= 5
          /\ n = Words \/ (n \in Addr /\ ln[n] > 0)
      BY <1>1, BlockFacts
    <2> QED BY <2>1
  <1>3. n < Words <=> n \in Addr
    BY <1>2, PoolFacts
  <1>4. CASE n \in Addr /\ ~ us[n]
    <2>1. Size(H, n) = ln[n] /\ H.mem[n] = FreeTag /\ ln[n] > 0 /\ n < Words
      <3>1. ln[n] > 0 /\ n < Words
        BY <1>2, <1>3, <1>4, PoolFacts
      <3>2. Size(H, n) = ln[n] /\ H.mem[n] = TagOf(us[n])
        BY <3>1, <1>4, SizeIs
      <3> QED BY <3>1, <3>2, <1>4 DEF TagOf
    <2> DEFINE size == ln[h] + ln[n]
               G == SetBlock(free_list_remove(H, n), h, FreeTag, size)
    <2>2. MergeNext(H, h) = G
      BY <2>1, <1>1 DEF MergeNext
    <2>3. Sound(G, MergedSizes(ln, h), us, {h}, {}) /\ KeepsUsed(H, G, ln, us)
      <3>1. {n, h} = {h, n} /\ n # h /\ ln[n] > 0
        BY <1>2, <2>1
      <3> QED BY <3>1, <1>4, JoinSound
    <2>4. e = n + ln[n]
      BY <1>4, <2>1
    <2>5. MergedSizes(ln, h) = Span(ln, h, e)
      BY <1>1, <1>4, <2>1, <2>4, SpanMerged
    <2>6. e \in Nat /\ h < e
      <3>1. ln[n] \in Nat
        BY <1>1, <1>4, <2>1, BlockFacts
      <3> QED BY <3>1, <1>2, <2>4
    <2> QED BY <2>2, <2>3, <2>5, <2>6
  <1>5. CASE ~ (n \in Addr /\ ~ us[n])
    <2>1. MergeNext(H, h) = H
      <3>1. CASE n < Words
        <4>1. n \in Addr /\ us[n] /\ ln[n] > 0
          BY <3>1, <1>2, <1>3, <1>5, PoolFacts
        <4>2. H.mem[n] = TagOf(us[n])
          <5>1. Sound(H, ln, us, {h}, {}) /\ n \in Addr /\ ln[n] > 0 /\ n \notin {}
            BY <4>1
          <5> QED BY <5>1, SizeIs
        <4>3. H.mem[n] # FreeTag
          BY <4>1, <4>2, PoolFacts DEF TagOf
        <4> QED BY <4>3, <1>1 DEF MergeNext
      <3>2. CASE ~ n < Words
        BY <3>2, <1>1 DEF MergeNext
      <3> QED BY <3>1, <3>2
    <2>2. e = n
      BY <1>5
    <2>3. Span(ln, h, e) = ln
      BY <2>2, <1>1, SpanSelf
    <2>4. KeepsUsed(H, H, ln, us)
      BY DEF KeepsUsed
    <2> QED BY <2>1, <2>2, <2>3, <2>4, <1>2
  <1> QED BY <1>4, <1>5

(* Where the block that swallows the free block at h starts. *)
LeadsFrom(ln, us, h, f) ==
    \/ ln[f] > 0 /\ ~ us[f] /\ f + ln[f] = h
    \/ f = h /\ \A p \in Addr : ln[p] > 0 /\ ~ us[p] => p + ln[p] # h

(* PrevFree: the footer before h leads to the block before. *)
LEMMA PrevFound ==
    ASSUME NEW H, NEW ln, NEW us, NEW U, Sound(H, ln, us, U, {}), NEW h \in Addr, ln[h] > 0,
           NEW f \in Addr, LeadsFrom(ln, us, h, f)
    PROVE  PrevFree(H, h) = f
  <1>1. Tiles(ln) /\ h \in Nat /\ f \in Nat
    BY PoolFacts DEF Sound
  <1>2. CASE h = 0
    <2>1. ASSUME ln[f] > 0, f + ln[f] = h PROVE FALSE
      <3>1. ln[f] \in Nat
        BY <1>1, <2>1, BlockFacts
      <3> QED BY <3>1, <2>1, <1>1, <1>2
    <2>2. f = h
      BY <2>1 DEF LeadsFrom
    <2> QED BY <2>2, <1>2 DEF PrevFree
  <1>3. CASE h # 0
    <2>1. PICK p \in Addr : ln[p] > 0 /\ p + ln[p] = h
      BY <1>1, <1>3 DEF Tiles
    <2>2. H.mem[p + ln[p] - 1] = ln[p] /\ H.mem[p] = TagOf(us[p]) /\ p \in Nat /\ ln[p] \in Nat
      <3>1. H.mem[p + ln[p] - 1] = ln[p] /\ H.mem[p] = TagOf(us[p])
        BY <2>1, SizeIs
      <3> QED BY <3>1, <1>1, <2>1, BlockFacts
    <2>3. h - H.mem[h - 1] = p /\ h > 0
      BY <2>1, <2>2, <1>1, <1>3
    <2>4. PrevFree(H, h) = IF H.mem[p] = FreeTag THEN p ELSE h
      BY <2>3 DEF PrevFree, FtrWords
    <2>5. ASSUME NEW q \in Addr, ln[q] > 0, q + ln[q] = h PROVE q = p
      <3>1. q \in Nat /\ ln[q] \in Nat
        BY <1>1, <2>5, BlockFacts
      <3>2. q < p => q + ln[q] <= p
        BY <1>1, <2>1, <2>5 DEF Tiles
      <3>3. p < q => p + ln[p] <= q
        BY <1>1, <2>1, <2>5 DEF Tiles
      <3> QED BY <3>1, <3>2, <3>3, <2>1, <2>2, <2>5
    <2>6. CASE us[p]
      <3>1. H.mem[p] # FreeTag
        BY <2>2, <2>6, PoolFacts DEF TagOf
      <3>2. f = h
        BY <2>5, <2>6 DEF LeadsFrom
      <3> QED BY <3>1, <3>2, <2>4
    <2>7. CASE ~ us[p]
      <3>1. H.mem[p] = FreeTag
        BY <2>2, <2>7 DEF TagOf
      <3>2. f = p
        BY <2>1, <2>5, <2>7 DEF LeadsFrom
      <3> QED BY <3>1, <3>2, <2>4
    <2> QED BY <2>6, <2>7
  <1> QED BY <1>2, <1>3

(* The steps of kfree on the block at h: it is marked free ... *)
Marked(H, h) == [SetBlock(H, h, FreeTag, Size(H, h)) EXCEPT
                    !.free = Count(H, Size(H, h) - HdrWords - FtrWords)]

(* ... and once merged with the next merged with the block before, at p. *)
MergedBack(H, p, h) ==
    IF p = h THEN H
    ELSE SetBlock(free_list_remove(H, p), p, FreeTag, Size(H, p) + Size(H, h))

(* The whole of kfree on the block at h. *)
FreedAt(h) == LET two == MergeNext(Marked(heap, h), h)
              IN  free_list_insert(MergedBack(two, PrevFree(two, h), h), PrevFree(two, h))

(* Freed takes these steps. *)
LEMMA FreedSteps ==
    ASSUME NEW ptr
    PROVE  Freed(ptr) = FreedAt(ptr - HdrWords)
  BY DEF Freed, FreedAt, Marked, MergedBack

(* SetSound for a free block that is on no list. *)
LEMMA SetFreeSound ==
    ASSUME NEW H, NEW ln, NEW us, NEW h \in Addr, ln[h] > 0, ~ us[h], Sound(H, ln, us, {h}, {h}),
           NEW size, size = ln[h]
    PROVE  LET G == SetBlock(H, h, FreeTag, size)
           IN  Sound(G, ln, us, {h}, {}) /\ OnlyBlock(H, G, ln, h)
  <1> DEFINE G == SetBlock(H, h, FreeTag, size)
  <1>1. /\ Sound(H, ln, us, {h}, {h}) /\ h \in Addr /\ ln[h] > 0
        /\ us[h] \/ h \in {h}
        /\ FreeTag = TagOf(us[h]) /\ size = ln[h]
    BY DEF TagOf
  <1>2. Sound(G, ln, us, {h}, {h} \ {h}) /\ OnlyBlock(H, G, ln, h)
    BY <1>1, SetSound
  <1>3. {h} \ {h} = {}
    OBVIOUS
  <1> HIDE DEF G
  <1>4. Sound(G, ln, us, {h}, {}) /\ OnlyBlock(H, G, ln, h)
    BY <1>2, <1>3
  <1> QED BY <1>4 DEF G

(* Marking a used block free keeps the pool sound, the block not yet listed. *)
LEMMA MarkedSound ==
    ASSUME NEW H, NEW ln, NEW us, Sound(H, ln, us, {}, {}), NEW h \in Addr, us[h],
           NEW u2, u2 = [us EXCEPT ![h] = FALSE]
    PROVE  Sound(Marked(H, h), ln, u2, {h}, {}) /\ KeepsUsed(H, Marked(H, h), ln, u2)
  <1> DEFINE size == Size(H, h)
             set == SetBlock(H, h, FreeTag, size)
             k == Count(H, size - HdrWords - FtrWords)
             one == [set EXCEPT !.free = k]
  <1>1. /\ Tiles(ln) /\ Uses(ln, us) /\ H \in Pools /\ ln[h] > 0
        /\ size = ln[h] /\ ln[h] \in Nat
    <2>1. Tiles(ln) /\ Uses(ln, us) /\ H \in Pools
      BY DEF Sound
    <2>2. ln[h] > 0
      BY <2>1 DEF Uses
    <2>3. Sound(H, ln, us, {}, {}) /\ ln[h] > 0 /\ h \notin {}
      BY <2>2
    <2>4. size = ln[h]
      BY <2>3, SizeIs
    <2>5. ln[h] \in Nat
      BY <2>1, <2>2, BlockFacts
    <2> QED BY <2>1, <2>2, <2>4, <2>5
  <1>2. /\ us \in [Addr -> BOOLEAN] /\ u2[h] = FALSE
        /\ \A a \in Addr : a # h => u2[a] = us[a]
    BY <1>1 DEF Uses
  <1>3. Sound(H, ln, u2, {h}, {h})
    <2>1. Sound(H, ln, u2, {} \cup {h}, {} \cup {h})
      BY <1>1, UnuseSound
    <2>2. {} \cup {h} = {h}
      OBVIOUS
    <2> QED BY <2>1, <2>2
  <1>4. k \in 0 .. CounterMod - 1
    <2>1. size - HdrWords - FtrWords \in Int
      BY <1>1 DEF HdrWords, FtrWords
    <2> QED BY <2>1, <1>1, CountType
  <1> HIDE DEF size, k
  <1>5. Sound(set, ln, u2, {h}, {}) /\ OnlyBlock(H, set, ln, h)
    <2>1. Sound(H, ln, u2, {h}, {h}) /\ h \in Addr /\ ln[h] > 0 /\ ~ u2[h] /\ size = ln[h]
      BY <1>1, <1>2, <1>3
    <2> QED BY <2>1, SetFreeSound
  <1> HIDE DEF set
  <1>6. Sound(one, ln, u2, {h}, {}) /\ one.mem = set.mem
    <2>1. LET K == [set EXCEPT !.free = k]
          IN  Sound(K, ln, u2, {h}, {}) /\ K.mem = set.mem
      BY <1>4, <1>5, CountSound
    <2> QED BY <2>1
  <1> HIDE DEF one
  <1>7. KeepsUsed(H, one, ln, u2)
    <2>1. \A b \in Addr : u2[b] => b # h /\ ln[b] > 0
      BY <1>1, <1>2 DEF Uses
    <2> QED BY <2>1, <1>5, <1>6 DEF KeepsUsed, OnlyBlock
  <1>8. Marked(H, h) = one
    BY DEF Marked, one, set, size, k
  <1> QED BY <1>6, <1>7, <1>8

(* kfree on the used block at h: what is listed in its stead goes from f to e. *)
LEMMA FreedSound ==
    ASSUME NEW ln, NEW us, Sound(heap, ln, us, {}, {}), NEW h \in Addr, us[h],
           NEW u2, u2 = [us EXCEPT ![h] = FALSE],
           NEW n, n = h + ln[h],
           NEW e, e = IF n \in Addr /\ ln[n] > 0 /\ ~ us[n] THEN n + ln[n] ELSE n,
           NEW f \in Addr, LeadsFrom(ln, us, h, f)
    PROVE  /\ Sound(Freed(h + HdrWords), Span(ln, f, e), u2, {}, {})
           /\ KeepsUsed(heap, Freed(h + HdrWords), ln, u2)
  <1> DEFINE one == Marked(heap, h)
             two == MergeNext(one, h)
             s == Span(ln, h, e)
             tot == Size(two, f) + Size(two, h)
             all == MergedBack(two, f, h)
             fin == free_list_insert(all, f)
  <1>1. /\ Tiles(ln) /\ Uses(ln, us) /\ heap \in Pools /\ ln[h] > 0
        /\ h \in Nat /\ ln[h] \in Nat /\ ln[h] >= 5
    <2>1. Tiles(ln) /\ Uses(ln, us) /\ heap \in Pools
      BY DEF Sound
    <2>2. ln[h] > 0
      BY <2>1 DEF Uses
    <2>4. h \in Nat /\ ln[h] \in Nat /\ ln[h] >= 5
      BY <2>1, <2>2, BlockFacts
    <2> QED BY <2>1, <2>2, <2>4
  <1>2. /\ us \in [Addr -> BOOLEAN] /\ u2[h] = FALSE
        /\ \A a \in Addr : a # h => u2[a] = us[a]
    BY <1>1 DEF Uses
  <1>3. Sound(one, ln, u2, {h}, {}) /\ KeepsUsed(heap, one, ln, u2)
    BY MarkedSound
  <1> HIDE DEF one
  <1>6. /\ Sound(two, s, u2, {h}, {}) /\ KeepsUsed(one, two, ln, u2)
        /\ e \in Nat /\ h < e
    <2>1. e = IF n \in Addr /\ ln[n] > 0 /\ ~ u2[n] THEN n + ln[n] ELSE n
      <3>1. n # h
        BY <1>1
      <3> QED BY <3>1, <1>2
    <2>2. Sound(one, ln, u2, {h}, {}) /\ ~ u2[h] /\ ln[h] > 0
      BY <1>1, <1>2, <1>3
    <2> QED BY <2>1, <2>2, MergeNextSound
  <1> HIDE DEF two
  <1>7. /\ s[h] = e - h /\ s[h] > 0 /\ h + s[h] = e
        /\ \A b \in Addr : b < h \/ b > e - 1 => s[b] = ln[b]
    <2>1. \A b \in Addr : b \in h .. e - 1 => ~ (b < h) /\ ~ (b > e - 1)
      BY <1>1, <1>6, PoolFacts
    <2> QED BY <2>1, <1>1, <1>6 DEF Span
  <1>8. \A p \in Addr : p < h /\ ln[p] > 0 /\ ~ us[p] <=> p < h /\ s[p] > 0 /\ ~ u2[p]
    BY <1>1, <1>2, <1>7
  <1>9. ASSUME f # h
        PROVE  f < h /\ s[f] = ln[f] /\ s[f] > 0 /\ ~ u2[f] /\ f + s[f] = h /\ f \in Nat
    <2>1. ln[f] > 0 /\ ~ us[f] /\ f + ln[f] = h
      BY <1>9 DEF LeadsFrom
    <2>2. f \in Nat /\ ln[f] \in Nat /\ f < h
      BY <2>1, <1>1, BlockFacts
    <2> QED BY <2>1, <2>2, <1>2, <1>7, <1>9
  <1>10. PrevFree(two, h) = f
    <2>1. LeadsFrom(s, u2, h, f)
      <3>1. CASE f # h
        BY <3>1, <1>9 DEF LeadsFrom
      <3>2. CASE f = h
        <4>1. ASSUME NEW p \in Addr, s[p] > 0, ~ u2[p], p + s[p] = h PROVE FALSE
          <5>1. p \in Nat /\ s[p] \in Nat
            BY <4>1, <1>6, BlockFacts DEF Sound
          <5>2. p < h
            BY <4>1, <5>1, <1>1
          <5>3. ln[p] > 0 /\ ~ us[p] /\ p + ln[p] = h
            BY <4>1, <5>2, <1>7, <1>8
          <5>4. ln[f] > 0 /\ ~ us[f] /\ f + ln[f] = h => FALSE
            BY <3>2, <1>1
          <5> QED BY <5>3, <5>4 DEF LeadsFrom
        <4> QED BY <3>2, <4>1 DEF LeadsFrom
      <3> QED BY <3>1, <3>2
    <2> HIDE DEF s
    <2>2. /\ Sound(two, s, u2, {h}, {}) /\ h \in Addr /\ s[h] > 0 /\ f \in Addr
          /\ LeadsFrom(s, u2, h, f)
      BY <2>1, <1>6, <1>7
    <2> QED BY <2>2, PrevFound
  <1>11. /\ Sound(all, Span(ln, f, e), u2, {f}, {}) /\ KeepsUsed(heap, all, ln, u2)
         /\ Span(ln, f, e)[f] > 0 /\ ~ u2[f]
    <2>1. KeepsUsed(heap, two, ln, u2)
      BY <1>3, <1>6 DEF KeepsUsed
    <2>2. CASE f = h
      BY <2>1, <2>2, <1>2, <1>6, <1>7 DEF MergedBack
    <2>3. CASE f # h
      <3>1. Size(two, f) = s[f] /\ Size(two, h) = s[h]
        <4>1. Sound(two, s, u2, {h}, {}) /\ s[f] > 0 /\ s[h] > 0 /\ f \notin {} /\ h \notin {}
          BY <2>3, <1>6, <1>7, <1>9
        <4> HIDE DEF s
        <4> QED BY <4>1, SizeIs
      <3>2. tot = s[f] + s[h] /\ all = SetBlock(free_list_remove(two, f), f, FreeTag, tot)
        BY <2>3, <3>1 DEF MergedBack
      <3> HIDE DEF tot, all, s
      <3>3. /\ f \in Addr /\ s[f] > 0 /\ ~ u2[f] /\ h \in Addr /\ h = f + s[f] /\ s[h] > 0 /\ ~ u2[h]
            /\ {f, h} = {f, h} /\ f # h /\ Sound(two, s, u2, {h}, {}) /\ tot = s[f] + s[h]
        BY <2>3, <3>2, <1>2, <1>6, <1>7, <1>9
      <3>4. LET G == SetBlock(free_list_remove(two, f), f, FreeTag, tot)
            IN  Sound(G, MergedSizes(s, f), u2, {f}, {}) /\ KeepsUsed(two, G, s, u2)
        BY <3>3, JoinSound
      <3>5. Sound(all, MergedSizes(s, f), u2, {f}, {}) /\ KeepsUsed(two, all, s, u2)
        BY <3>2, <3>4
      <3>6. MergedSizes(s, f) = Span(s, f, e)
        <4>1. Tiles(s) /\ e = h + s[h]
          BY <1>6, <1>7 DEF Sound
        <4> QED BY <3>3, <4>1, SpanMerged
      <3>7. Span(s, f, e) = Span(ln, f, e)
        <4>1. f <= h /\ e \in Nat /\ h < e
          BY <1>6, <1>9, <1>1, <2>3
        <4> QED BY <4>1, SpanTwice DEF s
      <3>8. ASSUME NEW b \in Addr, u2[b], NEW a \in b .. b + ln[b] - 1 PROVE all.mem[a] = heap.mem[a]
        <4>1. b # h /\ us[b] /\ ln[b] > 0
          BY <3>8, <1>1, <1>2 DEF Uses
        <4>2. s[b] > 0
          BY <3>8, <1>6 DEF Sound, Uses
        <4>3. s[b] = ln[b]
          <5>1. b \notin h .. e - 1
            BY <4>1, <4>2, <1>6 DEF s, Span
          <5> QED BY <4>1, <5>1 DEF s, Span
        <4>4. all.mem[a] = two.mem[a]
          BY <4>3, <3>5, <3>8 DEF KeepsUsed
        <4>5. two.mem[a] = heap.mem[a]
          BY <2>1, <3>8 DEF KeepsUsed
        <4> QED BY <4>4, <4>5
      <3>9. KeepsUsed(heap, all, ln, u2)
        BY <3>8 DEF KeepsUsed
      <3>10. Span(ln, f, e)[f] > 0
        BY <1>1, <1>6, <1>9, <2>3 DEF Span
      <3> QED BY <3>5, <3>6, <3>7, <3>9, <3>10, <3>3
    <2> QED BY <2>2, <2>3
  <1> HIDE DEF all
  <1>12. Sound(fin, Span(ln, f, e), u2, {}, {}) /\ KeepsUsed(all, fin, Span(ln, f, e), u2)
    <2> DEFINE l2 == Span(ln, f, e)
    <2> HIDE DEF l2
    <2>1. Sound(all, l2, u2, {f}, {}) /\ f \in Addr /\ l2[f] > 0 /\ ~ u2[f] /\ f \in {f}
      BY <1>11 DEF l2
    <2>2. LET G == free_list_insert(all, f)
          IN  Sound(G, l2, u2, {f} \ {f}, {}) /\ KeepsUsed(all, G, l2, u2)
      BY <2>1, InsertSound
    <2>3. {f} \ {f} = {}
      OBVIOUS
    <2> QED BY <2>2, <2>3 DEF l2
  <1> HIDE DEF fin
  <1>13. KeepsUsed(heap, fin, ln, u2)
    <2>1. ASSUME NEW b \in Addr, u2[b], NEW a \in b .. b + ln[b] - 1 PROVE fin.mem[a] = heap.mem[a]
      <3>1. Span(ln, f, e)[b] > 0
        BY <2>1, <1>12 DEF Sound, Uses
      <3>2. Span(ln, f, e)[b] = ln[b]
        <4>1. b # f
          BY <2>1, <1>11
        <4>2. b \notin f .. e - 1
          BY <3>1, <4>1 DEF Span
        <4> QED BY <4>1, <4>2 DEF Span
      <3>3. fin.mem[a] = all.mem[a]
        BY <2>1, <3>2, <1>12 DEF KeepsUsed
      <3>4. all.mem[a] = heap.mem[a]
        BY <2>1, <1>11 DEF KeepsUsed
      <3> QED BY <3>3, <3>4
    <2> QED BY <2>1 DEF KeepsUsed
  <1>14. Freed(h + HdrWords) = fin
    <2>1. (h + HdrWords) - HdrWords = h
      BY <1>1 DEF HdrWords
    <2>2. Freed(h + HdrWords) = FreedAt(h)
      BY <2>1, FreedSteps
    <2>3. FreedAt(h) = free_list_insert(MergedBack(two, PrevFree(two, h), h), PrevFree(two, h))
      BY DEF FreedAt, two, one
    <2> QED BY <2>2, <2>3, <1>10 DEF fin, all
  <1> QED BY <1>12, <1>13, <1>14

-----------------------------------------------------------------------------
(* The invariant, its steps and what follows.                              *)

(* The blocks as the memory shows them. *)
Lengths(m) == LET S == StartsOf(m) IN [a \in Addr |-> IF a \in S THEN m[a + 1] ELSE 0]

(* Which blocks of a memory are in use. *)
InUse(m) == LET S == StartsOf(m) IN [a \in Addr |-> a \in S /\ m[a] = UsedTag]

(* Walking a sound pool finds its blocks: what the memory shows is what is. *)
LEMMA SoundRead ==
    ASSUME NEW H, NEW ln, NEW us, Sound(H, ln, us, {}, {})
    PROVE  /\ ln = Lengths(H.mem) /\ us = InUse(H.mem)
           /\ StartsOf(H.mem) = {a \in Addr : ln[a] > 0}
  <1>1. /\ Tiles(ln) /\ Uses(ln, us)
        /\ \A a \in Addr : ln[a] > 0 => Tagged(H.mem, ln, us, a)
    BY DEF Sound
  <1>2. \A a \in Addr : ln[a] > 0 => H.mem[a + 1] = ln[a]
    BY <1>1 DEF Tagged
  <1> DEFINE S == StartsOf(H.mem)
  <1>3. S = {a \in Addr : ln[a] > 0}
    BY <1>1, <1>2, BlocksFound
  <1> HIDE DEF S
  <1>4. ln = [a \in Addr |-> IF a \in S THEN H.mem[a + 1] ELSE 0]
    <2>1. \A a \in Addr : ln[a] = IF a \in S THEN H.mem[a + 1] ELSE 0
      <3> TAKE a \in Addr
      <3>1. CASE ln[a] > 0
        BY <3>1, <1>2, <1>3
      <3>2. CASE ~ (ln[a] > 0)
        <4>1. ln[a] \in 0 .. Words
          BY <1>1 DEF Tiles
        <4>2. ln[a] = 0
          BY <4>1, <3>2, PoolFacts
        <4> QED BY <4>2, <3>2, <1>3
      <3> QED BY <3>1, <3>2
    <2>2. ln = [a \in Addr |-> ln[a]]
      BY <1>1 DEF Tiles
    <2> QED BY <2>1, <2>2
  <1>5. us = [a \in Addr |-> a \in S /\ H.mem[a] = UsedTag]
    <2>1. \A a \in Addr : us[a] \in BOOLEAN /\ (us[a] <=> a \in S /\ H.mem[a] = UsedTag)
      <3> TAKE a \in Addr
      <3>1. us[a] \in BOOLEAN /\ (us[a] => ln[a] > 0)
        BY <1>1 DEF Uses
      <3>2. ln[a] > 0 => (us[a] <=> H.mem[a] = UsedTag)
        BY <1>1, PoolFacts DEF Tagged
      <3> QED BY <3>1, <3>2, <1>3
    <2>2. us = [a \in Addr |-> us[a]]
      BY <1>1 DEF Uses
    <2>3. \A a \in Addr : us[a] = (a \in S /\ H.mem[a] = UsedTag)
      BY <2>1
    <2> QED BY <2>2, <2>3
  <1> QED BY <1>3, <1>4, <1>5 DEF S, Lengths, InUse

(* m is m0 with the caller's data in the first w words after the header at h. *)
Stored(m0, m, h, w) == m = [a \in Addr |-> IF a \in h + 2 .. h + 1 + w THEN Data ELSE m0[a]]

(* What a caller stores in its own block leaves the pool as it is. *)
LEMMA DataSound ==
    ASSUME NEW H, NEW ln, NEW us, Sound(H, ln, us, {}, {}), NEW h \in Addr, us[h],
           NEW w \in Nat, w + 3 <= ln[h],
           NEW m, Stored(H.mem, m, h, w)
    PROVE  LET G == [mem |-> m, head |-> H.head, free |-> H.free]
           IN  Sound(G, ln, us, {}, {}) /\ OnlyBlock(H, G, ln, h)
  <1> DEFINE G == [mem |-> m, head |-> H.head, free |-> H.free]
             e == h + ln[h] - 1
  <1>1. /\ H \in Pools /\ Tiles(ln) /\ Uses(ln, us) /\ Chain(H.mem, H.head, Nodes(ln, us, {}))
        /\ \A a \in Addr : ln[a] > 0 => Tagged(H.mem, ln, us, a)
        /\ \A a \in Addr : H.mem[a] = UsedTag => us[a]
    BY DEF Sound
  <1>2. ln[h] > 0 /\ h \in Nat /\ ln[h] \in Nat
    <2>1. ln[h] > 0
      BY <1>1 DEF Uses
    <2> QED BY <2>1, <1>1, BlockFacts
  <1>3. G \in Pools /\ G.mem = m /\ G.head = H.head
    <2>1. H.mem \in [Addr -> Val] /\ H.head \in Addr \cup {Null} /\ H.free \in 0 .. CounterMod - 1
      BY <1>1 DEF Pools
    <2>2. m \in [Addr -> Val]
      BY <2>1 DEF Val, Stored
    <2> QED BY <2>1, <2>2 DEF Pools
  <1>4. \A a \in Addr : a \notin h + 2 .. e - 1 => m[a] = H.mem[a]
    <2>1. \A a \in Addr : a \notin h + 2 .. e - 1 => a \notin h + 2 .. h + 1 + w
      BY <1>2, PoolFacts
    <2> QED BY <2>1 DEF Stored
  <1>5. ASSUME NEW b \in Addr, ln[b] > 0, b # h, NEW a \in b .. b + ln[b] - 1 PROVE m[a] = H.mem[a]
    <2>1. a \notin h .. h + ln[h] - 1 /\ a \in Addr
      BY <1>1, <1>2, <1>5, BlocksAside, BlockFacts
    <2>2. a \notin h + 2 .. e - 1
      BY <2>1, <1>2, PoolFacts
    <2> QED BY <2>1, <2>2, <1>4
  <1>6. ASSUME NEW a \in Addr, ln[a] > 0 PROVE Tagged(m, ln, us, a)
    <2>0. a \in Nat /\ ln[a] \in Nat /\ ln[a] >= 5 /\ a + 1 \in Addr /\ a + ln[a] - 1 \in Addr
      BY <1>1, <1>6, BlockFacts
    <2>1. m[a] = H.mem[a] /\ m[a + 1] = H.mem[a + 1] /\ m[a + ln[a] - 1] = H.mem[a + ln[a] - 1]
      <3>1. CASE a = h
        <4>1. a \notin h + 2 .. e - 1 /\ a + 1 \notin h + 2 .. e - 1 /\ a + ln[a] - 1 \notin h + 2 .. e - 1
          BY <2>0, <3>1
        <4> QED BY <4>1, <2>0, <1>4
      <3>2. CASE a # h
        <4>1. a \in a .. a + ln[a] - 1 /\ a + 1 \in a .. a + ln[a] - 1 /\ a + ln[a] - 1 \in a .. a + ln[a] - 1
          BY <2>0
        <4> QED BY <4>1, <3>2, <1>5, <1>6
      <3> QED BY <3>1, <3>2
    <2>2. Tagged(H.mem, ln, us, a)
      BY <1>1, <1>6
    <2> QED BY <2>1, <2>2 DEF Tagged
  <1>7. ASSUME NEW a \in Addr, m[a] = UsedTag PROVE us[a]
    <2>1. m[a] = H.mem[a]
      BY <1>7, PoolFacts DEF Stored
    <2> QED BY <2>1, <1>1, <1>7
  <1>8. Chain(m, H.head, Nodes(ln, us, {}))
    <2>1. ASSUME NEW n \in Nodes(ln, us, {}) PROVE m[n] = H.mem[n] /\ m[n + 1] = H.mem[n + 1]
      <3>1. n \in Addr /\ n + 1 \in Addr /\ n - 2 \in Addr /\ ~ us[n - 2]
        BY <1>1, NodeFacts
      <3>2. h # n - 2
        BY <3>1
      <3>3. n \notin h .. h + ln[h] - 1 /\ n + 1 \notin h .. h + ln[h] - 1
        BY <1>1, <1>2, <3>2, NodeAside
      <3>4. n \notin h + 2 .. e - 1 /\ n + 1 \notin h + 2 .. e - 1
        BY <3>1, <3>3, <1>2, PoolFacts
      <3> QED BY <3>1, <3>4, <1>4
    <2> QED BY <1>1, <2>1, ChainFrame
  <1> HIDE DEF G
  <1>9. Sound(G, ln, us, {}, {})
    BY <1>1, <1>3, <1>6, <1>7, <1>8 DEF Sound
  <1>10. OnlyBlock(H, G, ln, h)
    BY <1>3, <1>5 DEF OnlyBlock
  <1> QED BY <1>9, <1>10 DEF G

(* One free block, in memory that holds anything but a used block's tag. *)
LEMMA InitSound ==
    ASSUME NEW ln, ln = [a \in Addr |-> IF a = 0 THEN Words ELSE 0],
           NEW us, us = [a \in Addr |-> FALSE],
           NEW R, R = [mem |-> [a \in Addr |-> Data], head |-> Null, free |-> 0]
    PROVE  LET H == free_list_insert(SetBlock(R, 0, FreeTag, Words), 0)
           IN  Sound(H, ln, us, {}, {})
  <1>1. /\ ln[0] = Words /\ Words > 0 /\ 0 \in Addr /\ ~ us[0]
        /\ \A a \in Addr : ln[a] > 0 <=> a = 0
    BY PoolFacts
  <1>2. Tiles(ln)
    <2>1. ln \in [Addr -> 0 .. Words]
      BY PoolFacts
    <2>2. \A a \in Addr : ln[a] > 0 => a = 0
      BY <1>1
    <2>3. 0 + ln[0] = Words /\ ln[0] >= MinBlock
      BY <1>1, PoolFacts
    <2> HIDE DEF Tiles
    <2>4. \A a, b \in Addr : ln[a] > 0 /\ ln[b] > 0 /\ a < b => a + ln[a] <= b
      BY <2>2
    <2> QED BY <1>1, <2>1, <2>2, <2>3, <2>4 DEF Tiles
  <1>3. Uses(ln, us)
    BY DEF Uses
  <1>4. R \in Pools /\ \A a \in Addr : R.mem[a] # UsedTag
    <2>1. 0 \in 0 .. CounterMod - 1
      BY HeapAssumption
    <2> QED BY <2>1, PoolFacts DEF Pools, Val
  <1>5. Nodes(ln, us, {0}) = {}
    <2>1. \A n \in Addr : n >= 2 => n - 2 \in Addr
      BY PoolFacts
    <2> QED BY <1>1, <2>1 DEF Nodes
  <1>6. Chain(R.mem, R.head, {})
    <2> DEFINE q == [i \in 1 .. 0 |-> 0]
    <2>1. q \in [1 .. 0 -> {}] /\ \A i : i \notin 1 .. 0
      OBVIOUS
    <2>2. R.head = Null
      OBVIOUS
    <2> HIDE DEF q
    <2>3. InOrder(R.mem, R.head, {}, 0, q)
      BY <2>1, <2>2 DEF InOrder
    <2> QED BY <2>1, <2>3 DEF Chain
  <1>7. Sound(R, ln, us, {0}, {0})
    BY <1>1, <1>2, <1>3, <1>4, <1>5, <1>6 DEF Sound
  <1> DEFINE set == SetBlock(R, 0, FreeTag, Words)
  <1>8. Sound(set, ln, us, {0}, {})
    <2>1. Sound(R, ln, us, {0}, {0}) /\ 0 \in Addr /\ ln[0] > 0 /\ ~ us[0] /\ Words = ln[0]
      BY <1>1, <1>7
    <2> QED BY <2>1, SetFreeSound
  <1> HIDE DEF set
  <1>9. LET G == free_list_insert(set, 0) IN Sound(G, ln, us, {0} \ {0}, {})
    BY <1>1, <1>8, InsertSound
  <1>10. {0} \ {0} = {}
    OBVIOUS
  <1> QED BY <1>9, <1>10 DEF set

(* Every pointer of lv is to a used block that has room for what was asked
   and holds the caller's data, and every used block is a caller's.        *)
HeldBy(m, lv, ln, us) ==
    /\ \A p \in DOMAIN lv : /\ p \in Addr /\ p - 2 \in Addr /\ us[p - 2]
                            /\ lv[p] \in Request /\ lv[p] \in Nat
                            /\ ln[p - 2] >= Payload(lv[p]) + 3
                            /\ \A a \in p .. p + Payload(lv[p]) - 1 : m[a] = Data
    /\ \A a \in Addr : us[a] => a + 2 \in DOMAIN lv

(* The inductive invariant: the pool holds the blocks its memory shows, all
   free ones are listed, and the used ones are the callers'.                *)
HeapInv == /\ Sound(heap, Lengths(mem), InUse(mem), {}, {})
           /\ HeldBy(mem, live, Lengths(mem), InUse(mem))

(* A payload is a number of words. *)
LEMMA PayloadFacts == \A n \in Nat : Payload(n) \in Nat
  BY DEF Payload

(* What kmalloc makes of the sizes, of the caller's block and of the pointers
   that are held, and kfree of the latter.                                  *)
CarvedSizes(ln, h, need) == IF ln[h] >= need + 5 THEN SplitSizes(ln, h, need) ELSE ln

Filled(m0, m, ptr, n) ==
    m = [a \in Addr |-> IF a \in ptr .. ptr + Payload(n) - 1 THEN Data ELSE m0[a]]

Grants(lv, lv2, ptr, n) == lv2 = [p \in DOMAIN lv \cup {ptr} |-> IF p = ptr THEN n ELSE lv[p]]

Revokes(lv, lv2, ptr) == lv2 = [p \in DOMAIN lv \ {ptr} |-> lv[p]]

WithMem(H, m) == [mem |-> m, head |-> H.head, free |-> H.free]

(* kmalloc(n), where the first fit is the node at ptr. *)
LEMMA Malloced ==
    ASSUME NEW ln, NEW us, NEW lv, Sound(heap, ln, us, {}, {}), HeldBy(heap.mem, lv, ln, us),
           NEW n \in Request, n > 0, NEW need, need = Needed(n),
           NEW ptr, ptr = FirstFit(heap, need), ptr # Null,
           NEW h, h = ptr - HdrWords,
           NEW H, H = Carve(heap, h, need),
           NEW m, Filled(H.mem, m, ptr, n),
           NEW l2, l2 = CarvedSizes(ln, h, need),
           NEW u2, u2 = [us EXCEPT ![h] = TRUE],
           NEW lv2, Grants(lv, lv2, ptr, n)
    PROVE  /\ h \in Addr /\ ln[h] > 0 /\ ~ us[h] /\ need \in Nat /\ need >= 5 /\ ln[h] >= need
           /\ Sound(WithMem(H, m), l2, u2, {}, {}) /\ HeldBy(m, lv2, l2, u2)
  <1>0. /\ m = [a \in Addr |-> IF a \in ptr .. ptr + Payload(n) - 1 THEN Data ELSE H.mem[a]]
        /\ l2 = IF ln[h] >= need + 5 THEN SplitSizes(ln, h, need) ELSE ln
        /\ lv2 = [p \in DOMAIN lv \cup {ptr} |-> IF p = ptr THEN n ELSE lv[p]]
    BY DEF Filled, CarvedSizes, Grants
  <1>1. /\ heap \in Pools /\ Tiles(ln) /\ Uses(ln, us)
        /\ Chain(heap.mem, heap.head, Nodes(ln, us, {}))
    BY DEF Sound
  <1>2. n \in Nat /\ need \in Nat /\ need >= 5 /\ Payload(n) \in Nat /\ Payload(n) + 3 <= need
    <2>1. n \in Nat
      BY HeapAssumption
    <2> QED BY <2>1, NeedFacts
  <1> DEFINE F == Nodes(ln, us, {})
  <1>3. F \subseteq Addr /\ \A x \in F : x \in Addr /\ x - 2 \in Addr /\ ln[x - 2] > 0 /\ ~ us[x - 2]
    BY <1>1, NodeFacts
  <1>4. \A x \in F : IsTag(heap.mem[x - HdrWords])
    <2> TAKE x \in F
    <2>1. x - 2 \in Addr /\ ln[x - 2] > 0 /\ x - 2 \notin {} /\ Sound(heap, ln, us, {}, {})
      BY <1>3
    <2> DEFINE y == x - 2
    <2> HIDE DEF y
    <2>2. y \in Addr /\ ln[y] > 0 /\ y \notin {} /\ Sound(heap, ln, us, {}, {})
      BY <2>1 DEF y
    <2>3. heap.mem[y] = TagOf(us[y])
      BY <2>2, SizeIs
    <2>4. IsTag(heap.mem[y])
      BY <2>3 DEF IsTag, TagOf
    <2> QED BY <2>4 DEF y, HdrWords
  <1> HIDE DEF F
  <1>5. ptr \in F /\ Size(heap, ptr - HdrWords) >= need
    <2>1. /\ F \subseteq Addr /\ Chain(heap.mem, heap.head, F) /\ need \in Nat
          /\ \A x \in F : IsTag(heap.mem[x - HdrWords])
          /\ FirstFit(heap, need) # Null
      BY <1>1, <1>2, <1>3, <1>4 DEF F
    <2>2. FirstFit(heap, need) \in F /\ Size(heap, FirstFit(heap, need) - HdrWords) >= need
      BY <2>1, FirstFitFound
    <2> QED BY <2>2
  <1>6. h = ptr - 2 /\ h \in Addr /\ ln[h] > 0 /\ ~ us[h] /\ ptr \in Addr /\ ptr = h + 2 /\ h \in Nat
    <2>1. h = ptr - 2
      BY DEF HdrWords
    <2> QED BY <2>1, <1>3, <1>5, PoolFacts
  <1>7. ln[h] >= need /\ ln[h] \in Nat
    <2>1. Sound(heap, ln, us, {}, {}) /\ h \in Addr /\ ln[h] > 0 /\ h \notin {}
      BY <1>6
    <2>2. Size(heap, h) = ln[h]
      BY <2>1, SizeIs
    <2> QED BY <2>2, <1>1, <1>5, <1>6, BlockFacts
  <1>8. Sound(H, l2, u2, {}, {}) /\ KeepsUsed(heap, H, ln, us)
    <2>1. /\ Sound(heap, ln, us, {}, {}) /\ h \in Addr /\ ln[h] > 0 /\ ~ us[h] /\ need \in Nat
          /\ need >= 5 /\ ln[h] >= need
          /\ l2 = IF ln[h] >= need + 5 THEN SplitSizes(ln, h, need) ELSE ln
      BY <1>0, <1>2, <1>6, <1>7
    <2>2. LET G == Carve(heap, h, need)
          IN  Sound(G, l2, u2, {}, {}) /\ KeepsUsed(heap, G, ln, us)
      BY <2>1, CarveSound
    <2> QED BY <2>2
  <1>9. u2[h] /\ \A a \in Addr : a # h => u2[a] = us[a]
    BY <1>1, <1>6 DEF Uses
  <1>10. /\ l2[h] >= need
         /\ \A a \in Addr : us[a] => l2[a] = ln[a] /\ a # h /\ ln[a] > 0
    <2>1. \A a \in Addr : us[a] => a # h /\ ln[a] > 0
      BY <1>1, <1>6 DEF Uses
    <2>2. CASE ln[h] >= need + 5
      <3>1. l2 = SplitSizes(ln, h, need)
        BY <2>2, <1>0
      <3>2. l2[h] = need /\ ln[h + need] = 0 /\ \A a \in Addr : a # h /\ a # h + need => l2[a] = ln[a]
        BY <3>1, <2>2, <1>1, <1>2, <1>6, SplitTiles
      <3>3. \A a \in Addr : ln[a] > 0 => a # h + need
        BY <3>2
      <3> QED BY <2>1, <3>2, <3>3, <1>2
    <2>3. CASE ~ (ln[h] >= need + 5)
      BY <2>1, <2>3, <1>0, <1>7
    <2> QED BY <2>2, <2>3
  <1> DEFINE G == [mem |-> m, head |-> H.head, free |-> H.free]
             w == Payload(n)
  <1>11. Sound(G, l2, u2, {}, {}) /\ OnlyBlock(H, G, l2, h)
    <2>1. l2[h] \in Nat /\ w + 3 <= l2[h]
      <3>1. Tiles(l2) /\ Uses(l2, u2)
        BY <1>8 DEF Sound
      <3>2. l2[h] > 0
        BY <3>1, <1>6, <1>9 DEF Uses
      <3>3. l2[h] \in Nat
        BY <3>1, <3>2, <1>6, BlockFacts
      <3> QED BY <3>3, <1>2, <1>10
    <2>2. Stored(H.mem, m, h, w)
      <3>1. ptr + Payload(n) - 1 = h + 1 + w
        BY <1>2, <1>6
      <3> QED BY <3>1, <1>0, <1>6 DEF Stored
    <2> HIDE DEF w
    <2>3. /\ Sound(H, l2, u2, {}, {}) /\ h \in Addr /\ u2[h] /\ w \in Nat /\ w + 3 <= l2[h]
          /\ Stored(H.mem, m, h, w)
      BY <2>1, <2>2, <1>2, <1>6, <1>8, <1>9 DEF w
    <2> QED BY <2>3, ZenonT(60), DataSound
  <1>12. ASSUME NEW p \in DOMAIN lv2
         PROVE  /\ p \in Addr /\ p - 2 \in Addr /\ u2[p - 2]
                /\ lv2[p] \in Request /\ lv2[p] \in Nat
                /\ l2[p - 2] >= Payload(lv2[p]) + 3
                /\ \A a \in p .. p + Payload(lv2[p]) - 1 : m[a] = Data
    <2>1. CASE p = ptr
      <3>1. lv2[p] = n /\ p - 2 = h
        BY <2>1, <1>0, <1>6
      <3>2. l2[h] >= Payload(n) + 3
        <4>1. l2[h] \in Nat
          BY <1>6, <1>8, <1>9, BlockFacts DEF Sound, Uses
        <4> QED BY <4>1, <1>2, <1>10
      <3>3. \A a \in p .. p + Payload(n) - 1 : a \in Addr
        <4>1. h + l2[h] <= Words /\ l2[h] \in Nat
          BY <1>6, <1>8, <1>9, BlockFacts DEF Sound, Uses
        <4> HIDE DEF w
        <4>2. w \in Nat /\ w + 3 <= l2[h] /\ p = h + 2 /\ h \in Nat /\ Addr = 0 .. Words - 1 /\ Words \in Nat
          BY <3>2, <4>1, <2>1, <1>2, <1>6, PoolFacts DEF w
        <4>3. \A a \in p .. p + w - 1 : a \in Addr
          BY <4>1, <4>2
        <4> QED BY <4>3 DEF w
      <3> QED BY <2>1, <3>1, <3>2, <3>3, <1>0, <1>2, <1>6, <1>9
    <2>2. CASE p # ptr
      <3>1. /\ p \in DOMAIN lv /\ lv2[p] = lv[p] /\ p \in Addr /\ p - 2 \in Addr /\ us[p - 2]
            /\ lv[p] \in Request /\ lv[p] \in Nat /\ ln[p - 2] >= Payload(lv[p]) + 3
            /\ \A a \in p .. p + Payload(lv[p]) - 1 : heap.mem[a] = Data
        BY <2>2, <1>0 DEF HeldBy
      <3> DEFINE b == p - 2
      <3>2. l2[b] = ln[b] /\ b # h /\ ln[b] > 0 /\ u2[b] /\ b \in Addr
        BY <3>1, <1>9, <1>10
      <3>3. b \in Nat /\ ln[b] \in Nat /\ p = b + 2 /\ Payload(lv[p]) \in Nat
        <4>1. b \in Nat /\ ln[b] \in Nat
          BY <3>2, <1>1, BlockFacts
        <4>2. p = b + 2
          BY <3>1, PoolFacts
        <4> QED BY <4>1, <4>2, <3>1, PayloadFacts
      <3>4. \A a \in p .. p + Payload(lv[p]) - 1 : a \in b .. b + ln[b] - 1
        BY <3>1, <3>3
      <3> HIDE DEF b
      <3>5. \A a \in b .. b + ln[b] - 1 : m[a] = heap.mem[a]
        <4> TAKE a \in b .. b + ln[b] - 1
        <4>1. G.mem[a] = H.mem[a]
          BY <3>2, <1>11 DEF OnlyBlock
        <4>2. H.mem[a] = heap.mem[a]
          BY <3>1, <3>2, <1>8 DEF KeepsUsed, b
        <4> QED BY <4>1, <4>2
      <3>6. \A a \in p .. p + Payload(lv[p]) - 1 : m[a] = Data
        BY <3>1, <3>4, <3>5
      <3> QED BY <3>1, <3>2, <3>6 DEF b
    <2> QED BY <2>1, <2>2
  <1>13. \A a \in Addr : u2[a] => a + 2 \in DOMAIN lv2
    <2>1. DOMAIN lv2 = DOMAIN lv \cup {ptr}
      BY <1>0
    <2> QED BY <2>1, <1>6, <1>9 DEF HeldBy
  <1>14. HeldBy(m, lv2, l2, u2)
    <2> HIDE DEF G
    <2> QED BY <1>12, <1>13 DEF HeldBy
  <1> QED BY <1>2, <1>6, <1>7, <1>11, <1>14 DEF WithMem

(* kfree(ptr), where the header at ptr is a used block's. *)
LEMMA Released ==
    ASSUME NEW ln, NEW us, NEW lv, Sound(heap, ln, us, {}, {}), HeldBy(heap.mem, lv, ln, us),
           NEW ptr \in HdrWords .. Words - 1, heap.mem[ptr - HdrWords] = UsedTag,
           NEW h, h = ptr - HdrWords,
           NEW u2, u2 = [us EXCEPT ![h] = FALSE],
           NEW n, n = h + ln[h],
           NEW e, e = IF n \in Addr /\ ln[n] > 0 /\ ~ us[n] THEN n + ln[n] ELSE n,
           NEW f \in Addr, LeadsFrom(ln, us, h, f),
           NEW l2, l2 = Span(ln, f, e),
           NEW G, G = Freed(ptr),
           NEW lv2, Revokes(lv, lv2, ptr)
    PROVE  h \in Addr /\ us[h] /\ Sound(G, l2, u2, {}, {}) /\ HeldBy(G.mem, lv2, l2, u2)
  <1>1. h = ptr - 2 /\ ptr = h + HdrWords /\ h \in Addr /\ h \in Nat /\ ptr = h + 2
    BY PoolFacts DEF HdrWords
  <1>2. us[h] /\ Tiles(ln) /\ Uses(ln, us)
    BY <1>1 DEF Sound
  <1>3. Sound(G, l2, u2, {}, {}) /\ KeepsUsed(heap, G, ln, u2)
    <2>1. /\ Sound(Freed(h + HdrWords), Span(ln, f, e), u2, {}, {})
          /\ KeepsUsed(heap, Freed(h + HdrWords), ln, u2)
      BY <1>1, <1>2, FreedSound
    <2> QED BY <2>1, <1>1
  <1>4. ~ u2[h] /\ \A a \in Addr : a # h => u2[a] = us[a]
    BY <1>1, <1>2 DEF Uses
  <1>5. ASSUME NEW p \in DOMAIN lv2
        PROVE  /\ p \in Addr /\ p - 2 \in Addr /\ u2[p - 2]
               /\ lv2[p] \in Request /\ lv2[p] \in Nat
               /\ l2[p - 2] >= Payload(lv2[p]) + 3
               /\ \A a \in p .. p + Payload(lv2[p]) - 1 : G.mem[a] = Data
    <2>1. /\ p \in DOMAIN lv /\ p # ptr /\ lv2[p] = lv[p] /\ p \in Addr /\ p - 2 \in Addr /\ us[p - 2]
          /\ lv[p] \in Request /\ lv[p] \in Nat /\ ln[p - 2] >= Payload(lv[p]) + 3
          /\ \A a \in p .. p + Payload(lv[p]) - 1 : heap.mem[a] = Data
      BY DEF HeldBy, Revokes
    <2> DEFINE b == p - 2
    <2>2. b # h /\ b \in Addr /\ us[b] /\ u2[b] /\ ln[b] > 0 /\ b \in Nat /\ p = b + 2
      <3>1. b # h /\ b \in Addr /\ us[b] /\ b \in Nat /\ p = b + 2
        BY <2>1, SMTT(30), <1>1, PoolFacts
      <3> QED BY <3>1, <1>2, <1>4 DEF Uses
    <2> HIDE DEF b
    <2>3. l2[b] > 0
      BY <2>2, <1>3 DEF Sound, Uses
    <2>4. b # f
      <3>1. us[f] => f = h
        BY DEF LeadsFrom
      <3> QED BY <3>1, <2>2
    <2>5. l2[b] = ln[b]
      <3>1. b \notin f .. e - 1
        BY <2>2, <2>3, <2>4 DEF Span
      <3> QED BY <3>1, <2>2, <2>4 DEF Span
    <2>6. ln[b] \in Nat /\ Payload(lv[p]) \in Nat
      BY <2>1, <2>2, <1>2, BlockFacts, PayloadFacts
    <2>7. \A a \in p .. p + Payload(lv[p]) - 1 : a \in b .. b + ln[b] - 1
      BY <2>1, <2>2, <2>6 DEF b
    <2>8. \A a \in b .. b + ln[b] - 1 : G.mem[a] = heap.mem[a]
      BY <2>2, <1>3 DEF KeepsUsed
    <2>9. \A a \in p .. p + Payload(lv[p]) - 1 : G.mem[a] = Data
      BY <2>1, <2>7, <2>8
    <2> QED BY <2>1, <2>2, <2>5, <2>9 DEF b
  <1>6. \A a \in Addr : u2[a] => a + 2 \in DOMAIN lv2
    <2> TAKE a \in Addr
    <2> HAVE u2[a]
    <2>1. a # h /\ us[a] /\ a \in Nat
      BY <1>4, PoolFacts
    <2>2. a + 2 \in DOMAIN lv /\ a + 2 # ptr
      BY <2>1, <1>1 DEF HeldBy
    <2> QED BY <2>2 DEF Revokes
  <1> QED BY <1>1, <1>2, <1>3, <1>5, <1>6 DEF HeldBy

(* kheap_init sets the invariant up, with one free block over the pool. *)
LEMMA InitInv ==
    kheap_init => /\ HeapInv
                  /\ Lengths(mem) = [a \in Addr |-> IF a = 0 THEN Words ELSE 0]
                  /\ InUse(mem) = [a \in Addr |-> FALSE]
  <1> SUFFICES ASSUME kheap_init
               PROVE  /\ HeapInv
                      /\ Lengths(mem) = [a \in Addr |-> IF a = 0 THEN Words ELSE 0]
                      /\ InUse(mem) = [a \in Addr |-> FALSE]
    OBVIOUS
  <1> DEFINE ln == [a \in Addr |-> IF a = 0 THEN Words ELSE 0]
             us == [a \in Addr |-> FALSE]
             R == [mem |-> [a \in Addr |-> Data], head |-> Null, free |-> 0]
             H == free_list_insert(SetBlock(R, 0, FreeTag, Words), 0)
             c == Count(H, Words - HdrWords - FtrWords)
  <1>1. mem = H.mem /\ head = H.head /\ free = c /\ live = << >>
    BY DEF kheap_init
  <1>2. \A a \in Addr : ~ us[a]
    OBVIOUS
  <1>3. Sound(H, ln, us, {}, {})
    <2> HIDE DEF ln, us, R
    <2>1. LET K == free_list_insert(SetBlock(R, 0, FreeTag, Words), 0)
          IN  Sound(K, ln, us, {}, {})
      BY InitSound DEF ln, us, R
    <2> QED BY <2>1
  <1> HIDE DEF H, ln, us
  <1>4. H \in Pools
    BY <1>3 DEF Sound
  <1>5. c \in 0 .. CounterMod - 1
    <2>1. Words - HdrWords - FtrWords \in Int
      BY PoolFacts DEF HdrWords, FtrWords
    <2> QED BY <2>1, <1>4, CountType
  <1> HIDE DEF c
  <1>6. heap = [H EXCEPT !.free = c]
    BY <1>1, <1>4 DEF heap, Pools
  <1>7. Sound(heap, ln, us, {}, {})
    <2>1. LET G == [H EXCEPT !.free = c] IN Sound(G, ln, us, {}, {})
      BY <1>3, <1>5, CountSound
    <2> QED BY <2>1, <1>6
  <1>8. heap.mem = mem
    BY DEF heap
  <1>9. ln = Lengths(mem) /\ us = InUse(mem)
    BY <1>7, <1>8, SoundRead
  <1>10. HeldBy(mem, live, ln, us)
    <2>1. DOMAIN live = {}
      BY <1>1
    <2> QED BY <2>1, <1>2 DEF HeldBy
  <1> QED BY <1>7, <1>9, <1>10 DEF HeapInv, ln, us

(* What the variables of HeapBlocks stand for. *)
LEMMA BlocksRead ==
    /\ Blocks!Start = {a \in Addr : Lengths(mem)[a] > 0}
    /\ \A a : Blocks!Free(a) <=> a \in Addr /\ Lengths(mem)[a] > 0 /\ ~ InUse(mem)[a]
    /\ Blocks!poolVars = <<Lengths(mem), InUse(mem)>>
  BY DEF Blocks!Start, Blocks!Free, Blocks!poolVars, Blocks!Word, Lengths, InUse, Starts, Addr

(* When the memory shows an allocation, HeapBlocks has taken one ... *)
LEMMA AllocateRead ==
    ASSUME NEW a, NEW n, NEW ln, NEW us, NEW l2, NEW u2,
           ln = Lengths(mem), us = InUse(mem), l2 = Lengths(mem'), u2 = InUse(mem'),
           a \in Addr, ln[a] > 0, ~ us[a], ln[a] >= n, u2 = [us EXCEPT ![a] = TRUE],
           l2 = IF ln[a] >= n + MinBlock THEN [ln EXCEPT ![a] = n, ![a + n] = ln[a] - n] ELSE ln
    PROVE  Blocks!Allocate(a, n)
  BY DEF Blocks!Allocate, Blocks!Start, Blocks!Free, Blocks!Word, Lengths, InUse, Starts, Addr

(* ... and likewise for a block given back. *)
LEMMA DeallocateRead ==
    ASSUME NEW a, NEW ln, NEW us, NEW l2, NEW u2, NEW f, NEW e, NEW n,
           ln = Lengths(mem), us = InUse(mem), l2 = Lengths(mem'), u2 = InUse(mem'),
           us[a], u2 = [us EXCEPT ![a] = FALSE],
           f = Blocks!First(a), n = a + ln[a],
           e = IF n \in Addr /\ ln[n] > 0 /\ ~ us[n] THEN n + ln[n] ELSE n,
           l2 = Span(ln, f, e)
    PROVE  Blocks!Deallocate(a)
  <1>1. Blocks!After(a) = e
    <2>1. \A p : Blocks!Free(p) <=> p \in Addr /\ ln[p] > 0 /\ ~ us[p]
      BY BlocksRead
    <2>2. Blocks!After(a) = LET k == a + Lengths(mem)[a]
                            IN  IF k \in 0 .. Words - 1 /\ Blocks!Free(k)
                                THEN k + Lengths(mem)[k] ELSE k
      BY DEF Blocks!After, Blocks!Word, Lengths, Starts
    <2>3. Addr = 0 .. Words - 1
      BY PoolFacts
    <2> QED BY <2>1, <2>2, <2>3
  <1>2. l2 = [b \in Addr |-> IF b = Blocks!First(a) THEN Blocks!After(a) - Blocks!First(a)
                             ELSE IF b \in Blocks!First(a) .. Blocks!After(a) - 1 THEN 0 ELSE ln[b]]
    BY <1>1 DEF Span
  <1> QED BY <1>2 DEF Blocks!Deallocate, Blocks!Word, Lengths, InUse, Starts, Addr

(* HeapBlocks merges backwards with the block kfree finds by its footer. *)
LEMMA FirstRead ==
    ASSUME NEW a \in Addr, NEW ln, NEW us, ln = Lengths(mem), us = InUse(mem)
    PROVE  Blocks!First(a) \in Addr /\ LeadsFrom(ln, us, a, Blocks!First(a))
  <1> DEFINE Before(p) == ln[p] > 0 /\ ~ us[p] /\ p + ln[p] = a
  <1>1. Blocks!First(a) = IF \E p \in Addr : Before(p) THEN CHOOSE p \in Addr : Before(p) ELSE a
    <2>1. \A p : Blocks!Free(p) <=> p \in Addr /\ ln[p] > 0 /\ ~ us[p]
      BY BlocksRead
    <2>2. \A p \in Addr : (IF p \in Blocks!Start THEN ln[p] ELSE ln[p]) = ln[p]
      OBVIOUS
    <2> QED BY <2>1 DEF Blocks!First, Blocks!Word, Lengths, Starts, Addr
  <1>2. CASE \E p \in Addr : Before(p)
    <2>1. Blocks!First(a) \in Addr /\ Before(Blocks!First(a))
      BY <1>1, <1>2
    <2> QED BY <2>1 DEF LeadsFrom
  <1>3. CASE ~ \E p \in Addr : Before(p)
    BY <1>1, <1>3 DEF LeadsFrom
  <1> QED BY <1>2, <1>3

(* kmalloc keeps the invariant and is an Allocate of HeapBlocks. *)
LEMMA KmallocStep ==
    ASSUME HeapInv, NEW n \in Request, kmalloc(n)
    PROVE  HeapInv' /\ \E a \in Blocks!Word, k \in {Needed(i) : i \in Request \ {0}} : Blocks!Allocate(a, k)
  <1> DEFINE ln == Lengths(mem)
             us == InUse(mem)
             need == Needed(n)
             ptr == FirstFit(heap, need)
             h == ptr - HdrWords
             H == Carve(heap, h, need)
             l2 == CarvedSizes(ln, h, need)
             u2 == [us EXCEPT ![h] = TRUE]
             G == WithMem(H, mem')
  <1>1. /\ n > 0 /\ ptr # Null
        /\ mem' = [a \in Addr |-> IF a \in ptr .. ptr + Payload(n) - 1 THEN Data ELSE H.mem[a]]
        /\ head' = H.head /\ free' = H.free
        /\ live' = [p \in DOMAIN live \cup {ptr} |-> IF p = ptr THEN n ELSE live[p]]
    BY DEF kmalloc
  <1>2. heap.mem = mem
    BY DEF heap
  <1> HIDE DEF ln, us
  <1>3. Sound(heap, ln, us, {}, {}) /\ HeldBy(heap.mem, live, ln, us)
    BY <1>2 DEF HeapInv, ln, us
  <1>4. heap' = G
    BY <1>1 DEF heap, WithMem
  <1> HIDE DEF need, ptr, h, H, l2, u2
  <1>5. /\ h \in Addr /\ ln[h] > 0 /\ ~ us[h] /\ need \in Nat /\ need >= 5 /\ ln[h] >= need
        /\ Sound(G, l2, u2, {}, {}) /\ HeldBy(mem', live', l2, u2)
    <2>1. /\ Sound(heap, ln, us, {}, {}) /\ HeldBy(heap.mem, live, ln, us) /\ n \in Request /\ n > 0
          /\ need = Needed(n) /\ ptr = FirstFit(heap, need) /\ ptr # Null /\ h = ptr - HdrWords
          /\ H = Carve(heap, h, need)
          /\ Filled(H.mem, mem', ptr, n) /\ l2 = CarvedSizes(ln, h, need)
          /\ u2 = [us EXCEPT ![h] = TRUE] /\ Grants(live, live', ptr, n)
      BY <1>1, <1>3 DEF need, ptr, h, H, l2, u2, Filled, Grants
    <2>2. /\ h \in Addr /\ ln[h] > 0 /\ ~ us[h] /\ need \in Nat /\ need >= 5 /\ ln[h] >= need
          /\ Sound(G, l2, u2, {}, {}) /\ HeldBy(mem', live', l2, u2)
      BY <2>1, ZenonT(120), Malloced
    <2> QED BY <2>2
  <1>6. G.mem = mem'
    BY DEF WithMem
  <1> HIDE DEF G
  <1>7. l2 = Lengths(mem') /\ u2 = InUse(mem')
    BY <1>5, <1>6, SoundRead
  <1>8. HeapInv'
    BY <1>4, <1>5, <1>7 DEF HeapInv
  <1>9. Blocks!Allocate(h, need)
    <2>1. Tiles(ln)
      BY <1>3 DEF Sound
    <2>2. l2 = IF ln[h] >= need + MinBlock THEN [ln EXCEPT ![h] = need, ![h + need] = ln[h] - need] ELSE ln
      <3>1. CASE ln[h] >= need + 5
        <4> DEFINE r == h + need
        <4>1. r \in Addr /\ r # h
          BY <2>1, <3>1, <1>5, SplitTiles
        <4> HIDE DEF r
        <4>2. ln \in [Addr -> 0 .. Words]
          BY <2>1 DEF Tiles
        <4>3. [ln EXCEPT ![h] = need, ![r] = ln[h] - need]
                = [a \in Addr |-> IF a = h THEN need ELSE IF a = r THEN ln[h] - need ELSE ln[a]]
          BY <4>1, <4>2, <1>5
        <4>4. l2 = [a \in Addr |-> IF a = h THEN need ELSE IF a = r THEN ln[h] - need ELSE ln[a]]
          BY <3>1 DEF l2, CarvedSizes, SplitSizes, r
        <4>5. l2 = [ln EXCEPT ![h] = need, ![h + need] = ln[h] - need]
          BY <4>3, <4>4 DEF r
        <4> QED BY <4>5, <3>1, PoolFacts
      <3>2. CASE ~ (ln[h] >= need + 5)
        BY <3>2, PoolFacts DEF l2, CarvedSizes
      <3> QED BY <3>1, <3>2
    <2>3. /\ ln = Lengths(mem) /\ us = InUse(mem) /\ l2 = Lengths(mem') /\ u2 = InUse(mem')
          /\ h \in Addr /\ ln[h] > 0 /\ ~ us[h] /\ ln[h] >= need /\ u2 = [us EXCEPT ![h] = TRUE]
      BY <1>5, <1>7 DEF ln, us, u2
    <2> QED BY <2>2, <2>3, AllocateRead
  <1>10. h \in Blocks!Word /\ need \in {Needed(i) : i \in Request \ {0}}
    <2>1. n \in Request \ {0}
      BY <1>1
    <2> QED BY <2>1, <1>5 DEF need, Blocks!Word, Addr
  <1> QED BY <1>8, <1>9, <1>10

(* kfree keeps the invariant and is a Deallocate of HeapBlocks. *)
LEMMA KfreeStep ==
    ASSUME HeapInv, NEW ptr \in HdrWords .. Words - 1, kfree(ptr)
    PROVE  HeapInv' /\ \E a \in Blocks!Word : Blocks!Deallocate(a)
  <1> DEFINE ln == Lengths(mem)
             us == InUse(mem)
             h == ptr - HdrWords
             n == h + ln[h]
             e == IF n \in Addr /\ ln[n] > 0 /\ ~ us[n] THEN n + ln[n] ELSE n
             f == Blocks!First(h)
             l2 == Span(ln, f, e)
             u2 == [us EXCEPT ![h] = FALSE]
             G == Freed(ptr)
  <1>1. /\ mem[h] = UsedTag
        /\ mem' = G.mem /\ head' = G.head /\ free' = G.free
        /\ live' = [p \in DOMAIN live \ {ptr} |-> live[p]]
    BY DEF kfree, Honours
  <1>2. heap.mem = mem
    BY DEF heap
  <1> HIDE DEF ln, us
  <1>3. Sound(heap, ln, us, {}, {}) /\ HeldBy(heap.mem, live, ln, us)
    BY <1>2 DEF HeapInv, ln, us
  <1>4. h \in Addr
    BY PoolFacts DEF HdrWords
  <1>5. f \in Addr /\ LeadsFrom(ln, us, h, f)
    BY <1>4, FirstRead DEF ln, us
  <1> HIDE DEF h, n, e, f, l2, u2, G
  <1>6. /\ h \in Addr /\ us[h] /\ Sound(G, l2, u2, {}, {}) /\ HeldBy(G.mem, live', l2, u2)
    <2>1. /\ Sound(heap, ln, us, {}, {}) /\ HeldBy(heap.mem, live, ln, us)
          /\ heap.mem[ptr - HdrWords] = UsedTag /\ h = ptr - HdrWords
          /\ u2 = [us EXCEPT ![h] = FALSE] /\ n = h + ln[h]
          /\ e = IF n \in Addr /\ ln[n] > 0 /\ ~ us[n] THEN n + ln[n] ELSE n
          /\ f \in Addr /\ LeadsFrom(ln, us, h, f) /\ l2 = Span(ln, f, e) /\ G = Freed(ptr)
          /\ Revokes(live, live', ptr)
      BY <1>1, <1>2, <1>3, <1>5 DEF h, u2, n, e, l2, G, Revokes
    <2> QED BY <2>1, ZenonT(30), Released
  <1>7. heap' = G
    <2>1. G \in Pools
      BY <1>6 DEF Sound
    <2> QED BY <2>1, <1>1 DEF heap, Pools
  <1>8. l2 = Lengths(mem') /\ u2 = InUse(mem')
    BY <1>1, <1>6, SoundRead
  <1>9. HeapInv'
    BY <1>1, <1>6, <1>7, <1>8 DEF HeapInv
  <1>10. Blocks!Deallocate(h)
    <2>1. /\ ln = Lengths(mem) /\ us = InUse(mem) /\ l2 = Lengths(mem') /\ u2 = InUse(mem')
          /\ us[h] /\ u2 = [us EXCEPT ![h] = FALSE] /\ f = Blocks!First(h) /\ n = h + ln[h]
          /\ e = IF n \in Addr /\ ln[n] > 0 /\ ~ us[n] THEN n + ln[n] ELSE n
          /\ l2 = Span(ln, f, e)
      BY <1>6, <1>8 DEF ln, us, u2, f, n, e, l2
    <2> QED BY <2>1, DeallocateRead
  <1> QED BY <1>6, <1>9, <1>10 DEF Blocks!Word, Addr

(* So does doing nothing. *)
LEMMA HeapStuttering == HeapInv /\ UNCHANGED vars => HeapInv'
  <1> SUFFICES ASSUME HeapInv, UNCHANGED vars PROVE HeapInv'
    OBVIOUS
  <1>1. mem' = mem /\ head' = head /\ free' = free /\ live' = live
    BY DEF vars
  <1>2. heap' = heap
    BY <1>1 DEF heap
  <1> QED BY <1>1, <1>2 DEF HeapInv

(* Every step keeps the invariant. *)
LEMMA HeapNext == HeapInv /\ [Next]_vars => HeapInv'
  <1> SUFFICES ASSUME HeapInv, [Next]_vars PROVE HeapInv'
    OBVIOUS
  <1>1. ASSUME NEW n \in Request, kmalloc(n) PROVE HeapInv'
    BY <1>1, KmallocStep
  <1>2. ASSUME NEW ptr \in HdrWords .. Words - 1, kfree(ptr) PROVE HeapInv'
    BY <1>2, KfreeStep
  <1>3. CASE UNCHANGED vars
    BY <1>3, HeapStuttering
  <1> QED BY <1>1, <1>2, <1>3 DEF Next

(* The invariant says what the runs check. *)
LEMMA HeapShows == HeapInv => PoolIntact /\ HeldMemoryIsKept
  <1> SUFFICES ASSUME HeapInv PROVE PoolIntact /\ HeldMemoryIsKept
    OBVIOUS
  <1> DEFINE ln == Lengths(mem)
             us == InUse(mem)
             F == Nodes(ln, us, {})
  <1>0. heap.mem = mem /\ heap.head = head /\ heap.free = free
    BY DEF heap
  <1> HIDE DEF ln, us, F
  <1>1. Sound(heap, ln, us, {}, {}) /\ HeldBy(mem, live, ln, us)
    BY DEF HeapInv, ln, us
  <1>2. /\ heap \in Pools /\ Tiles(ln) /\ Uses(ln, us) /\ Chain(mem, head, F)
        /\ \A a \in Addr : ln[a] > 0 => Tagged(mem, ln, us, a)
        /\ \A a \in Addr : mem[a] = UsedTag => us[a]
    BY <1>0, <1>1 DEF Sound, F
  <1>3. Starts = {a \in Addr : ln[a] > 0}
    BY <1>0, <1>1, SoundRead DEF Starts
  <1>4. TypeOK
    <2>1. /\ mem \in [Addr -> Val] /\ head \in Addr \cup {Null} /\ free \in 0 .. CounterMod - 1
      BY <1>0, <1>2 DEF Pools
    <2>2. \A p \in DOMAIN live : live[p] \in Request
      BY <1>1 DEF HeldBy
    <2> QED BY <2>1, <2>2 DEF TypeOK, Val
  <1>5. FreeListExact
    <2> DEFINE listed == {ListNodes(heap)[k] : k \in 0 .. Words} \ {Null}
    <2>1. F \subseteq Addr /\ Chain(heap.mem, heap.head, F)
      BY <1>0, <1>2, NodeFacts DEF F
    <2>2. /\ listed = F
          /\ head # Null => mem[head] = Null
          /\ \A n \in listed : mem[n + 1] # Null => mem[mem[n + 1]] = n
      <3>1. LET l == {ListNodes(heap)[k] : k \in 0 .. Words} \ {Null}
            IN  /\ l = F
                /\ heap.head # Null => heap.mem[heap.head] = Null
                /\ \A n \in l : heap.mem[n + 1] # Null => heap.mem[heap.mem[n + 1]] = n
        BY <2>1, ListExact
      <3> QED BY <3>1, <1>0
    <2> HIDE DEF listed
    <2>3. F = {h + HdrWords : h \in {a \in Starts : mem[a] = FreeTag}}
      <3>1. \A a \in Addr : ln[a] > 0 => (mem[a] = FreeTag <=> ~ us[a])
        BY <1>2, PoolFacts DEF Tagged
      <3>2. ASSUME NEW n \in F PROVE \E h \in {a \in Starts : mem[a] = FreeTag} : n = h + HdrWords
        <4>1. n - 2 \in Addr /\ ln[n - 2] > 0 /\ ~ us[n - 2] /\ n \in Addr
          BY <1>2, <3>2, NodeFacts DEF F
        <4>2. n = (n - 2) + HdrWords
          BY <4>1, PoolFacts DEF HdrWords
        <4> QED BY <4>1, <4>2, <3>1, <1>3
      <3>3. ASSUME NEW h \in Starts, mem[h] = FreeTag PROVE h + HdrWords \in F
        <4>1. h \in Addr /\ ln[h] > 0 /\ ~ us[h] /\ h \in Nat
          BY <3>1, <3>3, <1>3, PoolFacts
        <4>2. h + 2 \in Addr /\ (h + 2) - 2 = h /\ h + 2 >= 2
          BY <4>1, <1>2, BlockFacts
        <4> QED BY <4>1, <4>2 DEF F, Nodes, HdrWords
      <3> QED BY <3>2, <3>3
    <2> QED BY <2>2, <2>3 DEF FreeListExact, listed
  <1>6. FootersMirror
    <2>1. ASSUME NEW h \in Starts PROVE mem[h + mem[h + 1] - FtrWords] = mem[h + 1]
      <3>1. h \in Addr /\ mem[h + 1] = ln[h] /\ mem[h + ln[h] - 1] = ln[h]
        BY <1>2, <1>3 DEF Tagged
      <3> QED BY <3>1 DEF FtrWords
    <2> QED BY <2>1 DEF FootersMirror
  <1>7. {p - HdrWords : p \in DOMAIN live} = {h \in Starts : mem[h] = UsedTag}
    <2>1. ASSUME NEW p \in DOMAIN live PROVE p - HdrWords \in {h \in Starts : mem[h] = UsedTag}
      <3>1. p - 2 \in Addr /\ us[p - 2]
        BY <1>1 DEF HeldBy
      <3>2. ln[p - 2] > 0
        BY <3>1, <1>2 DEF Uses
      <3>3. mem[p - 2] = UsedTag
        BY <3>1, <3>2, <1>2 DEF Tagged
      <3> QED BY <3>1, <3>2, <3>3, <1>3 DEF HdrWords
    <2>2. ASSUME NEW h \in Starts, mem[h] = UsedTag PROVE \E p \in DOMAIN live : h = p - HdrWords
      <3>1. h \in Addr /\ h \in Nat /\ us[h]
        BY <2>2, <1>2, <1>3, PoolFacts
      <3>2. h + 2 \in DOMAIN live /\ h = (h + 2) - HdrWords
        BY <3>1, <1>1 DEF HeldBy, HdrWords
      <3> QED BY <3>2
    <2> QED BY <2>1, <2>2
  <1>8. ASSUME NEW p \in DOMAIN live
        PROVE  /\ mem[p - 1] >= Payload(live[p]) + HdrWords + FtrWords
               /\ \A a \in p .. p + Payload(live[p]) - 1 : mem[a] = Data
    <2>1. /\ p \in Addr /\ p - 2 \in Addr /\ us[p - 2] /\ live[p] \in Nat
          /\ ln[p - 2] >= Payload(live[p]) + 3
          /\ \A a \in p .. p + Payload(live[p]) - 1 : mem[a] = Data
      BY <1>1 DEF HeldBy
    <2>2. mem[(p - 2) + 1] = ln[p - 2]
      BY <2>1, <1>2 DEF Tagged, Uses
    <2>3. (p - 2) + 1 = p - 1 /\ Payload(live[p]) + HdrWords + FtrWords = Payload(live[p]) + 3
      <3>1. Payload(live[p]) \in Nat /\ p \in Nat
        BY <2>1, PayloadFacts, PoolFacts
      <3> QED BY <3>1 DEF HdrWords, FtrWords
    <2> QED BY <2>1, <2>2, <2>3
  <1>9. HeldMemoryIsKept
    BY <1>7, <1>8 DEF HeldMemoryIsKept
  <1> QED BY <1>4, <1>5, <1>6, <1>9 DEF PoolIntact

(* For a pool of any size and any requests: whatever sequence of kmalloc and
   kfree came before, kfree of stale or wild pointers among them, the free
   list holds exactly the free blocks, linked both ways, and every footer
   mirrors its header.                                                      *)
THEOREM PoolStaysIntact == Spec => []PoolIntact
  <1>1. HeapInv => PoolIntact
    BY HeapShows
  <1>2. kheap_init => HeapInv
    BY InitInv
  <1> QED BY <1>1, <1>2, HeapNext, PTL DEF Spec

(* Every pointer a caller holds is to a used block with room for what it asked
   for, and its data is untouched by any call made since; every used block has
   a holder.                                                                *)
THEOREM HeldMemoryStays == Spec => []HeldMemoryIsKept
  <1>1. HeapInv => HeldMemoryIsKept
    BY HeapShows
  <1>2. kheap_init => HeapInv
    BY InitInv
  <1> QED BY <1>1, <1>2, HeapNext, PTL DEF Spec

(* heap.c, with its tags, footers and list, does what HeapBlocks promises: each
   kmalloc takes one free block and splits off what is left, each kfree merges
   the block with its free neighbours and nothing else.                     *)
THEOREM HeapImplementsBlocks == Spec => ImplementsBlocks
  <1>1. kheap_init => Blocks!PoolInit
    BY InitInv DEF Blocks!PoolInit, Blocks!Word, Addr, Lengths, InUse, Starts
  <1>2. HeapInv /\ [Next]_vars => [Blocks!PoolNext]_(Blocks!poolVars)
    <2> SUFFICES ASSUME HeapInv, [Next]_vars PROVE [Blocks!PoolNext]_(Blocks!poolVars)
      OBVIOUS
    <2>1. ASSUME NEW n \in Request, kmalloc(n) PROVE Blocks!PoolNext
      BY <2>1, KmallocStep DEF Blocks!PoolNext
    <2>2. ASSUME NEW ptr \in HdrWords .. Words - 1, kfree(ptr) PROVE Blocks!PoolNext
      BY <2>2, KfreeStep DEF Blocks!PoolNext
    <2>3. CASE UNCHANGED vars
      <3>1. mem' = mem
        BY <2>3 DEF vars
      <3> QED BY <3>1 DEF Blocks!poolVars, Starts
    <2> QED BY <2>1, <2>2, <2>3 DEF Next
  <1>3. kheap_init => HeapInv
    BY InitInv
  <1> QED BY <1>1, <1>2, <1>3, HeapNext, PTL DEF Spec, ImplementsBlocks, Blocks!PoolSpec

=============================================================================
