-------------------------------- MODULE Smp --------------------------------
(***************************************************************************)
(* The other processors (kernel/arch/x86_64/apic.c, kernel/exec/kpcr.c):   *)
(* the boot processor finds them in the firmware's table and starts them   *)
(* one after the other without waiting for any; each then sets up a        *)
(* control region of its own.  The second part of the module is one        *)
(* processor's list of deferred calls.                                     *)
(***************************************************************************)
EXTENDS Naturals, Sequences, FiniteSets, Ascending

CONSTANTS MaxCpus,        (* MAX_CPUS, and the places of g_apic_ids: 32     *)
          Madt,           (* the tables a firmware may have: sequences of
                             [id, usable], the boot processor's entry first *)
          Dpc, MaxQueued  (* callbacks; bound: deferred calls queued        *)

ASSUME SmpAssumption ==
    /\ MaxCpus \in Nat \ {0} /\ MaxQueued \in Nat
    /\ \A table \in Madt : /\ table \in Seq([id : Nat, usable : BOOLEAN]) /\ table # << >> /\ table[1].usable
                           /\ \A i, j \in DOMAIN table : table[i].id = table[j].id => i = j

VARIABLES g_apic_ids,      (* the processors found, the first is number 0    *)
          g_kpcr_table,    (* number -> the processor whose region it is     *)
          g_online_cpu_count,
          cpu,             (* apic_start_all_aps: the number it is at        *)
          sipis,           (* and the start-up messages sent to that one     *)
          ap               (* processor -> what it is doing                  *)

smpVars == <<g_apic_ids, g_kpcr_table, g_online_cpu_count, cpu, sipis, ap>>

Present(table) == {table[i].id : i \in DOMAIN table}
Number == 0 .. MaxCpus - 1
g_cpu_count == IF g_apic_ids = << >> THEN 1 ELSE Len(g_apic_ids)

(* Bug: entries that cannot be used keep their place. *)
parse_madt_Sparse(table) ==
    [i \in 1 .. (IF Len(table) < MaxCpus THEN Len(table) ELSE MaxCpus) |-> table[i].id]

(* parse_madt: the usable entries in the order of the table. *)
parse_madt(table) ==
    LET usable == {i \in DOMAIN table : table[i].usable}
        room == IF Cardinality(usable) < MaxCpus THEN Cardinality(usable) ELSE MaxCpus
    IN  [n \in 1 .. room |-> table[Ascending(usable)[n]].id]

(* apic_init, after kmain has set up the boot processor's region; the table
   may be missing or damaged, and the other processors are off.             *)
SmpInit ==
    /\ \E table \in Madt, valid \in BOOLEAN :
          /\ g_apic_ids = IF valid THEN parse_madt(table) ELSE << >>
          /\ g_kpcr_table = [n \in Number |-> IF n = 0 THEN {table[1].id} ELSE {}]
          /\ ap = [id \in Present(table) |->
                     IF id = table[1].id THEN [at |-> "boot"] ELSE [at |-> "off"]]
    /\ g_online_cpu_count = 1
    /\ cpu = 0 /\ sipis = 0

(* The loop of apic_start_all_aps goes to the next processor and resets it. *)
apic_start_all_aps ==
    /\ cpu + 1 < g_cpu_count /\ (cpu = 0 \/ sipis = 2)
    /\ cpu' = cpu + 1 /\ sipis' = 0
    /\ ap' = [ap EXCEPT ![g_apic_ids[cpu + 2]] = [at |-> "reset"]]
    /\ UNCHANGED <<g_apic_ids, g_kpcr_table, g_online_cpu_count>>

(* apic_send_ipi, twice: a processor that was reset starts, one that is
   already running takes no notice.                                         *)
apic_send_ipi ==
    /\ cpu > 0 /\ sipis < 2
    /\ sipis' = sipis + 1
    /\ ap' = [ap EXCEPT ![g_apic_ids[cpu + 1]] =
                IF @.at = "reset" THEN [at |-> "trampoline"] ELSE @]
    /\ UNCHANGED <<g_apic_ids, g_kpcr_table, g_online_cpu_count, cpu>>

(* Bug: the last processor is not looked at. *)
CpuId_Short(id) ==
    LET hits == {n \in 1 .. g_cpu_count - 2 : g_apic_ids[n + 1] = id}
    IN  IF hits = {} THEN 0 ELSE CHOOSE n \in hits : \A m \in hits : n <= m

(* ap_kernel_entry_c's own number, from its APIC number. *)
CpuId(id) ==
    LET hits == {n \in 1 .. g_cpu_count - 1 : g_apic_ids[n + 1] = id}
    IN  IF hits = {} THEN 0 ELSE CHOOSE n \in hits : \A m \in hits : n <= m

(* kpcr_init fills the region in and reads the count of processors ... *)
ap_kernel_entry_c(id) ==
    /\ ap[id].at = "trampoline"
    /\ g_kpcr_table' = [g_kpcr_table EXCEPT ![CpuId(id)] = @ \cup {id}]
    /\ ap' = [ap EXCEPT ![id] = [at |-> "counting", seen |-> g_online_cpu_count]]
    /\ UNCHANGED <<g_apic_ids, g_online_cpu_count, cpu, sipis>>

(* ... and writes it when the one it read was lower than its number plus
   one; then the processor idles with interrupts on.                        *)
kpcr_init(id) ==
    /\ ap[id].at = "counting"
    /\ g_online_cpu_count' = IF CpuId(id) >= ap[id].seen THEN CpuId(id) + 1
                             ELSE g_online_cpu_count
    /\ ap' = [ap EXCEPT ![id] = [at |-> "idle"]]
    /\ UNCHANGED <<g_apic_ids, g_kpcr_table, cpu, sipis>>

SmpNext == \/ apic_start_all_aps \/ apic_send_ipi
           \/ \E id \in DOMAIN ap : ap_kernel_entry_c(id) \/ kpcr_init(id)

SmpSpec == SmpInit /\ [][SmpNext]_smpVars

-----------------------------------------------------------------------------
VARIABLES dpc_queue,       (* dpc_queue_head .. dpc_queue_tail               *)
          dpc_queue_count,
          flushing,        (* kpcr_flush_dpc_queue is in a callback          *)
          made, ran        (* history: the calls queued, the calls made      *)

dpcVars == <<dpc_queue, dpc_queue_count, flushing, made, ran>>

DpcInit == dpc_queue = << >> /\ dpc_queue_count = 0 /\ flushing = FALSE
           /\ made = << >> /\ ran = << >>

(* Bug: while the list is being drained the count is not kept. *)
kpcr_queue_dpc_Uncounted(d) ==
    /\ Len(made) < MaxQueued
    /\ dpc_queue' = Append(dpc_queue, d)
    /\ dpc_queue_count' = IF flushing THEN dpc_queue_count ELSE dpc_queue_count + 1
    /\ made' = Append(made, d)
    /\ UNCHANGED <<flushing, ran>>

(* By a driver, or by the callback that is running. *)
kpcr_queue_dpc(d) ==
    /\ Len(made) < MaxQueued
    /\ dpc_queue' = Append(dpc_queue, d)
    /\ dpc_queue_count' = dpc_queue_count + 1
    /\ made' = Append(made, d)
    /\ UNCHANGED <<flushing, ran>>

(* kpcr_flush_dpc_queue takes the first call off the list and makes it ... *)
kpcr_flush_dpc_queue ==
    /\ ~flushing /\ dpc_queue # << >>
    /\ dpc_queue' = Tail(dpc_queue)
    /\ dpc_queue_count' = dpc_queue_count - 1
    /\ ran' = Append(ran, Head(dpc_queue))
    /\ flushing' = TRUE
    /\ UNCHANGED made

(* ... and goes round again, until the list is empty, when it returns. *)
CallbackReturns == flushing /\ flushing' = FALSE
                   /\ UNCHANGED <<dpc_queue, dpc_queue_count, made, ran>>

DpcNext == \/ \E d \in Dpc : kpcr_queue_dpc(d)
           \/ kpcr_flush_dpc_queue \/ CallbackReturns

DpcSpec == DpcInit /\ [][DpcNext]_dpcVars

-----------------------------------------------------------------------------

(* However far the processors have got beside one another, no region is
   shared and number 0 stays the boot processor's: a processor's region is
   the one at its place in the table, and only processors the table says
   are usable are ever started.                                             *)
RegionsOwned ==
    /\ \A n \in Number : Cardinality(g_kpcr_table[n]) <= 1
    /\ \A n \in Number \ {0} : \A id \in g_kpcr_table[n] :
          g_apic_ids[n + 1] = id /\ ap[id].at \in {"counting", "idle"}
    /\ g_online_cpu_count <= g_cpu_count

(* Deferred calls are made once each, in the order they were queued, and
   the count is the length of the list, also when a call queues another.    *)
CallsInOrder == /\ ran \o dpc_queue = made
                /\ dpc_queue_count = Len(dpc_queue)

=============================================================================
