------------------------------ MODULE KernelBoot ------------------------------
(***************************************************************************)
(* The boot of the kernel over its scheduler: what kmain (kernel/main.c)   *)
(* does from sched_init on, and the first step of every thread it creates. *)
(*                                                                         *)
(* Each thread runs its own function here, where Sched lets any thread     *)
(* make any call.  There is one processor, and it always goes on with the  *)
(* current thread.  Interrupts are taken while its IF flag is set, and the *)
(* only one that calls the scheduler is the local APIC's timer.            *)
(*                                                                         *)
(* smss and kshell are followed up to the call in which they sleep, and    *)
(* kmain up to the call in which it is preempted: nothing in the model     *)
(* lets them go on, and NobodyReturns says that nothing has to.            *)
(***************************************************************************)
EXTENDS Sched

CONSTANTS SmssSleep,      (* sched_sleep(10) of smss_master_init            *)
          KshellSleep     (* sched_sleep(500) of kshell_init                *)

(* kmain's quantum is 200 ticks; one tick alone would not end it. *)
ASSUME BootAssumption == /\ {SmssSleep, KshellSleep} \subseteq Nat \ {0}
                         /\ Quanta[IDLE] > 1

VARIABLES phase,          (* how far kmain is                               *)
          func,           (* the function each thread was created with      *)
          started,        (* the threads that have run                      *)
          ipc,            (* gui_ipc_init has been called                   *)
          armed,          (* the APIC timer is counting down                *)
          intr            (* the interrupt flag of the processor            *)

bootVars == <<phase, func, started, ipc, armed, intr>>

Spinner == {"netmgr_thread", "drvmgr_thread"}
Function == Spinner \cup {"kmain", "smss_master_init", "kshell_init"}

-----------------------------------------------------------------------------
(* switch_to_thread pops these registers, in this order, off a stack whose
   words are either the ones it has pushed itself ...                      *)
Pops == <<"rflags", "r15", "r14", "r13", "r12", "rbx", "rbp">>
SavedFrame == <<"rbp", "rbx", "r12", "r13", "r14", "r15", "rflags">>

(* ... or the ones sched_create_named_kthread has put there. *)
NewFrame == <<"rflags", "r15", "r14", "r13", "r12", "rbx", "rbp">>

(* The word of the frame that reg is loaded from. *)
LoadedFrom(frame, reg) == Reverse(frame)[CHOOSE i \in DOMAIN Pops : Pops[i] = reg]

(* The interrupt flag once t has been switched to.  kmain saves its flags
   with interrupts on; in a new frame only the rflags word has IF set.     *)
FlagOf(t) == LoadedFrom(IF t \in started THEN SavedFrame ELSE NewFrame, "rflags") = "rflags"

SwitchFlag == intr' = IF current' = current THEN intr ELSE FlagOf(current')

-----------------------------------------------------------------------------
(* kmain has called sched_init, which created the thread it runs as.  The
   timer was armed earlier, and goes off before sched_init or after it,
   whichever the calibration of its clock makes it.                        *)
BootInit ==
    /\ sched_init
    /\ phase = "smss"
    /\ func = [t \in Slot |-> "kmain"]
    /\ started = {Idle}
    /\ ipc = FALSE
    /\ armed \in BOOLEAN
    /\ intr = TRUE

kmain(at) == current = Idle /\ phase = at

(* sched_create_kthread(f, p), and on to the next step. *)
kmain_create(f, p, at, next) ==
    /\ kmain(at)
    /\ sched_create(p)
    /\ func' = [func EXCEPT ![FreeSlot] = f]
    /\ phase' = next
    /\ UNCHANGED <<started, ipc, armed, intr>>

kmain_ipc ==
    /\ kmain("ipc")
    /\ phase' = "kshell"
    /\ ipc' = TRUE
    /\ UNCHANGED <<vars, func, started, armed, intr>>

(* Bug: the pump leaves the ticks to the timer. *)
kmain_pump_NoTick == kmain("pump") /\ UNCHANGED <<vars, bootVars>>

(* One round of the event pump in which loop_counter reaches a multiple of
   0x4000; the rounds between do not touch the scheduler.                  *)
kmain_pump ==
    /\ kmain("pump")
    /\ sched_tick
    /\ SwitchFlag
    /\ UNCHANGED <<phase, func, started, ipc, armed>>

(* Bug: the timer starts over. *)
apic_timer_Periodic ==
    /\ armed
    /\ intr
    /\ sched_tick
    /\ SwitchFlag
    /\ UNCHANGED <<phase, func, started, ipc, armed>>

(* Vector 0x20: sched_tick.  The timer was armed for one shot. *)
apic_timer ==
    /\ armed
    /\ intr
    /\ armed' = FALSE
    /\ sched_tick
    /\ SwitchFlag
    /\ UNCHANGED <<phase, func, started, ipc>>

(* A thread's function, from its first instruction on. *)
Begins(f) ==
    /\ func[current] = f
    /\ current \notin started
    /\ started' = started \cup {current}
    /\ UNCHANGED <<phase, func, ipc, armed>>

smss_master_init == Begins("smss_master_init") /\ sched_sleep(SmssSleep) /\ SwitchFlag
kshell_init      == Begins("kshell_init") /\ sched_sleep(KshellSleep) /\ SwitchFlag

(* Bug: a service that spins gives the processor away. *)
Spin_Sleeps == \E f \in Spinner : Begins(f) /\ sched_sleep(SmssSleep) /\ SwitchFlag

(* "while (1) pause": no step after the first one changes anything. *)
Spin == \E f \in Spinner : Begins(f) /\ UNCHANGED <<vars, intr>>

BootNext ==
    \/ kmain_create("smss_master_init", HIGH, "smss", "netmgr")
    \/ kmain_create("netmgr_thread", NORMAL, "netmgr", "drvmgr")
    \/ kmain_create("drvmgr_thread", NORMAL, "drvmgr", "ipc")
    \/ kmain_ipc
    \/ kmain_create("kshell_init", REALTIME, "kshell", "pump")
    \/ kmain_pump
    \/ apic_timer
    \/ smss_master_init
    \/ kshell_init
    \/ Spin

(* The processor never stops executing the current thread. *)
BootSpec == BootInit /\ [][BootNext]_<<vars, bootVars>> /\ WF_<<vars, bootVars>>(BootNext)

-----------------------------------------------------------------------------
(* Properties.                                                             *)

Has(t, f) == func[t] = f

BootTypeOK ==
    /\ TypeOK
    /\ phase \in {"smss", "netmgr", "drvmgr", "ipc", "kshell", "pump"}
    /\ func \in [Slot -> Function]
    /\ started \subseteq Slot
    /\ {ipc, armed, intr} \subseteq BOOLEAN

(* kmain creates threads while the devices, the message ring and the
   shell's own services are still being set up.  Nothing but the absence of
   a tick keeps those threads from running on a half-built kernel: until
   the event pump kmain has the processor.                                 *)
SetUpFirst ==
    /\ phase # "pump" => current = Idle
    /\ \A t \in started : Has(t, "kshell_init") => ipc

(* No thread is dispatched again after it has slept or been preempted. *)
NobodyReturns ==
    /\ current \notin preempted
    /\ current \in started => func[current] \in Spinner \cup {"kmain"}

(* kmain runs alone until its event pump and nothing that was switched away
   comes back.                                                             *)
BootInOrder == SetUpFirst /\ NobodyReturns

(* The event pump's own ticks get the shell and the session manager to
   their first sleep, though kmain is alone on the processor until its
   quantum runs out.                                                       *)
UrgentThreadsStart ==
    <>(\A f \in {"smss_master_init", "kshell_init"} :
           \E t \in started : Has(t, f) /\ tcb[t].st = "SLEEPING")

-----------------------------------------------------------------------------
(* The quanta of sched.c themselves, for the runs of the boot: the idle
   quantum of 200 ticks runs out before anything else happens.              *)
BootQuanta == [p \in Level |-> IF p = IDLE THEN 200 ELSE <<20, 10, 4, 1, 0>>[p]]

-----------------------------------------------------------------------------
(* What comments of the kernel say of the boot and the code does not do.   *)

(* kshell.c: "Boot the Node.js -> Electron GUI chain", after kshell_init
   has waited for the kernel to stabilize: kshell wakes up to do it.       *)
GuiBoots == <>(\E t \in started : Has(t, "kshell_init") /\ current = t)

(* sched.c: "execution jumps to entry_point with RFLAGS.IF = 1". *)
InterruptsStayOn == current \notin started => intr
===============================================================================
