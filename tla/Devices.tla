------------------------------ MODULE Devices ------------------------------
(***************************************************************************)
(* The driver manager (services/drvmgr/drvmgr.c) and the drivers that look *)
(* their device up in its table: e1000, rtl8139 and xHCI.  The functions   *)
(* of the bus are found once, at boot; a device is its model.              *)
(***************************************************************************)
EXTENDS Naturals, Sequences, Ascending

CONSTANTS Machine,        (* buses: a sequence of slots [funcs, multi], funcs
                             the models at functions 0, 1, ...              *)
          Model,          (* what a function may be, or Absent              *)
          Absent,         (* the model of a function that is not there      *)
          Gigabit,        (* e1000_init's models, in the order it tries them *)
          Fast,           (* rtl8139_init's model                           *)
          MaxDevices      (* DRVMGR_MAX_DEVICES: 64 in the code             *)

ASSUME DevicesAssumption ==
    /\ MaxDevices \in Nat
    /\ \A machine \in Machine :
          /\ machine \in Seq([funcs : Seq(Model), multi : BOOLEAN])
          /\ \A s \in DOMAIN machine : Len(machine[s].funcs) \in 1 .. 8

VARIABLES bus, g_devices,
          slot,            (* the slot drvmgr_scan_bus comes to              *)
          nic,             (* <<driver, place in g_devices>> once looked for *)
          busmaster        (* places whose device may write to memory        *)

devicesVars == <<bus, g_devices, slot, nic, busmaster>>

DevicesInit == /\ bus \in Machine /\ g_devices = << >> /\ slot = 1
               /\ nic = << >> /\ busmaster = {}

(* Bug: the functions end with the first one that is not there. *)
Found_Dense(s) ==
    LET last == IF bus[s].multi THEN Len(bus[s].funcs) ELSE 1
        gaps == {f \in 1 .. last : bus[s].funcs[f] = Absent}
        end == IF gaps = {} THEN last ELSE (CHOOSE f \in gaps : \A g \in gaps : f <= g) - 1
    IN  [f \in 1 .. end |-> [slot |-> s, func |-> f - 1, model |-> bus[s].funcs[f]]]

(* The devices of a slot: none without its first function, only that one
   unless the header says that there are more.                              *)
Found(s) ==
    LET last == IF bus[s].funcs[1] = Absent THEN 0
                ELSE IF bus[s].multi THEN Len(bus[s].funcs) ELSE 1
        there == {f \in 1 .. last : bus[s].funcs[f] # Absent}
    IN  [n \in 1 .. Cardinality(there) |->
            LET f == Ascending(there)[n] IN [slot |-> s, func |-> f - 1, model |-> bus[s].funcs[f]]]

(* drvmgr_scan_bus goes on with the next slot until the bus ends or a device
   has no place left in the table.                                          *)
drvmgr_scan_bus ==
    /\ slot \in DOMAIN bus
    /\ LET new == g_devices \o Found(slot)
       IN  /\ g_devices' = SubSeq(new, 1, IF Len(new) < MaxDevices THEN Len(new)
                                          ELSE MaxDevices)
           /\ slot' = IF Len(new) > MaxDevices THEN Len(bus) + 1 ELSE slot + 1
    /\ UNCHANGED <<bus, nic, busmaster>>

(* drvmgr_find_device: the first place of a model, or 0. *)
drvmgr_find_device(model) ==
    LET at == {i \in DOMAIN g_devices : g_devices[i].model = model}
    IN  IF at = {} THEN 0 ELSE CHOOSE i \in at : \A j \in at : i <= j

Take(driver, place) ==
    /\ nic' = <<driver, place>>
    /\ busmaster' = busmaster \cup {place}

(* kmain's e1000_init tries its models in order ... *)
e1000_init ==
    /\ slot > Len(bus) /\ nic = << >>
    /\ \E k \in DOMAIN Gigabit :
          /\ drvmgr_find_device(Gigabit[k]) # 0
          /\ \A j \in 1 .. k - 1 : drvmgr_find_device(Gigabit[j]) = 0
          /\ Take("e1000", drvmgr_find_device(Gigabit[k]))
    /\ UNCHANGED <<bus, g_devices, slot>>

(* ... and rtl8139_init is called when it has none. *)
rtl8139_init ==
    /\ slot > Len(bus) /\ nic = << >>
    /\ \A k \in DOMAIN Gigabit : drvmgr_find_device(Gigabit[k]) = 0
    /\ IF drvmgr_find_device(Fast) # 0 THEN Take("rtl8139", drvmgr_find_device(Fast))
       ELSE nic' = <<"none", 0>> /\ UNCHANGED busmaster
    /\ UNCHANGED <<bus, g_devices, slot>>

DevicesNext == drvmgr_scan_bus \/ e1000_init \/ rtl8139_init

DevicesSpec == DevicesInit /\ [][DevicesNext]_devicesVars

-----------------------------------------------------------------------------

(* Every function that a slot shows and that answers. *)
Answers(s, f) == /\ f < Len(bus[s].funcs) /\ bus[s].funcs[f + 1] # Absent
                 /\ bus[s].funcs[1] # Absent /\ (f = 0 \/ bus[s].multi)

OnBus == {p \in (DOMAIN bus) \X (0 .. 7) : Answers(p[1], p[2])}

(* The table holds the functions of the bus in its order, as many as it can,
   whatever gaps there are among slots and functions; and of several network
   cards the gigabit ones come first, whichever the bus shows first.        *)
TableIsBus ==
    /\ \A i, j \in DOMAIN g_devices : i < j =>
          \/ g_devices[i].slot < g_devices[j].slot
          \/ g_devices[i].slot = g_devices[j].slot /\ g_devices[i].func < g_devices[j].func
    /\ slot > Len(bus) /\ Len(g_devices) < MaxDevices =>
          {<<g_devices[i].slot, g_devices[i].func>> : i \in DOMAIN g_devices} = OnBus
    /\ nic # << >> /\ nic[1] # "e1000" =>
          \A i \in DOMAIN g_devices, k \in DOMAIN Gigabit : g_devices[i].model # Gigabit[k]

=============================================================================
