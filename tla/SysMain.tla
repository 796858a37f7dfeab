------------------------------- MODULE SysMain -------------------------------
(***************************************************************************)
(* The prefetcher (services/sysmain/sysmain.c): a table of applications    *)
(* with launch counts, sorted by a scan that warms the first ones and then *)
(* lets those go that have not been launched for long.  Pages are left out:*)
(* nothing ever gives an entry any, so only letting go counts as saving.   *)
(***************************************************************************)
EXTENDS Naturals, Sequences, FiniteSets

CONSTANTS Tag,              (* applications                                 *)
          PrefetchEntries,  (* SYSMAIN_PREFETCH_ENTRIES: 128 in the code    *)
          Top,              (* the 8 that are prefetched                    *)
          Stale,            (* 10000 ticks                                  *)
          MaxLaunches, MaxTime, MaxSaved   (* bounds: launches, ticks, and
                               the savings at which a scan is the last      *)

ASSUME SysMainAssumption == {PrefetchEntries, Top, Stale, MaxLaunches, MaxTime,
                               MaxSaved} \subseteq Nat

VARIABLES prefetch_table,   (* g_prefetch_table up to g_entry_count         *)
          saved,            (* g_mem_saved_kb, in steps of 16               *)
          ticks,            (* sched_get_ticks                              *)
          scanned,          (* nothing was launched since the last scan, and
                               no tick passed                               *)
          launches          (* history: launches per application            *)

sysmainVars == <<prefetch_table, saved, ticks, scanned, launches>>

SysMainInit == /\ prefetch_table = << >> /\ saved = 0 /\ ticks = 0
               /\ scanned = FALSE
               /\ launches = [a \in Tag |-> 0]

Known(a) == \E i \in DOMAIN prefetch_table : prefetch_table[i].tag = a

(* sysmain_record_launch: an application without an entry gets one while
   there is room (sysmain_find_or_create).                                  *)
sysmain_record_launch(a) ==
    /\ launches[a] < MaxLaunches
    /\ launches' = [launches EXCEPT ![a] = IF Known(a) \/ Len(prefetch_table) < PrefetchEntries
                                           THEN @ + 1 ELSE @]
    /\ prefetch_table' =
          IF Known(a)
          THEN [i \in DOMAIN prefetch_table |->
                  IF prefetch_table[i].tag # a THEN prefetch_table[i]
                  ELSE [prefetch_table[i] EXCEPT !.count = @ + 1, !.last = ticks, !.warm = FALSE]]
          ELSE IF Len(prefetch_table) < PrefetchEntries
          THEN Append(prefetch_table, [tag |-> a, count |-> 1, last |-> ticks, warm |-> FALSE])
          ELSE prefetch_table
    /\ scanned' = FALSE
    /\ UNCHANGED <<saved, ticks>>

(* The exchanges of the sort, in the order of its two loops: step k of them
   compares the places i < j.                                               *)
Pairs(n) == {ij \in (1 .. n) \X (1 .. n) : ij[1] < ij[2]}

Before(p, q) == p[1] < q[1] \/ (p[1] = q[1] /\ p[2] < q[2])

PairAt(n, k) == CHOOSE p \in Pairs(n) : Cardinality({q \in Pairs(n) : Before(q, p)}) = k - 1

Exchange(t, i, j) == IF t[j].count > t[i].count
                     THEN [t EXCEPT ![i] = t[j], ![j] = t[i]] ELSE t

(* Bug: the last entry is never compared. *)
Sorted_Short(t) ==
    LET n == Len(t) - 1
        after[k \in 0 .. Cardinality(Pairs(n))] ==
            IF k = 0 THEN t ELSE Exchange(after[k - 1], PairAt(n, k)[1], PairAt(n, k)[2])
    IN  after[Cardinality(Pairs(n))]

Sorted(t) ==
    LET n == Len(t)
        after[k \in 0 .. Cardinality(Pairs(n))] ==
            IF k = 0 THEN t ELSE Exchange(after[k - 1], PairAt(n, k)[1], PairAt(n, k)[2])
    IN  after[Cardinality(Pairs(n))]

IsCold(e) == ticks - e.last > Stale

(* sysmain_prefetch_app and sysmain_compress_cold_pages *)
Prefetched(t) == [i \in DOMAIN t |-> IF i <= Top THEN [t[i] EXCEPT !.warm = TRUE] ELSE t[i]]
Compressed(t) == [i \in DOMAIN t |-> IF IsCold(t[i]) THEN [t[i] EXCEPT !.warm = FALSE] ELSE t[i]]

(* A scan of the service thread, which makes no scheduler call in it. *)
sysmain_scan ==
    LET t == Prefetched(Sorted(prefetch_table))
    IN  /\ saved <= MaxSaved
        /\ prefetch_table' = Compressed(t)
        /\ saved' = saved + Cardinality({i \in DOMAIN t : t[i].warm /\ IsCold(t[i])})
        /\ scanned' = TRUE
        /\ UNCHANGED <<ticks, launches>>

PassTime == /\ ticks < MaxTime /\ ticks' = ticks + 1
            /\ scanned' = FALSE
            /\ UNCHANGED <<prefetch_table, saved, launches>>

SysMainNext == PassTime \/ sysmain_scan \/ \E a \in Tag : sysmain_record_launch(a)

SysMainSpec == SysMainInit /\ [][SysMainNext]_sysmainVars

-----------------------------------------------------------------------------

(* No launch is lost or counted for another application by the sorting and
   the copying of entries, and a scan leaves the most used applications
   prefetched, but for those not launched lately, and nothing that is cold. *)
MostUsedAreWarm ==
    /\ \A a \in Tag : launches[a] =
          IF Known(a) THEN (CHOOSE e \in {prefetch_table[i] : i \in DOMAIN prefetch_table} :
                               e.tag = a).count ELSE 0
    /\ \A i, j \in DOMAIN prefetch_table : prefetch_table[i].tag = prefetch_table[j].tag => i = j
    /\ scanned => \A i \in DOMAIN prefetch_table :
          LET e == prefetch_table[i]
          IN  /\ e.warm => ~IsCold(e)
              /\ i <= Top => e.warm \/ IsCold(e)
              /\ \A j \in 1 .. i - 1 : prefetch_table[j].count >= e.count

=============================================================================
