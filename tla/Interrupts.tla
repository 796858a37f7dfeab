----------------------------- MODULE Interrupts -----------------------------
(***************************************************************************)
(* Interrupts on the boot processor: the gates (arch/x86_64/gdt_idt.c), the *)
(* handler all of them share (exec/kpcr.c) with its acknowledgement to the  *)
(* local APIC, thread switches inside the timer's handler, and the ring of *)
(* deferred calls that the tick drains (sched/sched.c).                    *)
(*                                                                         *)
(* Interrupts nest on the stack of the thread they interrupt, so each      *)
(* context has frames of its own and what a switch saves of the flags.     *)
(* Handlers do not fault; an NMI may come on top of one.                   *)
(***************************************************************************)
EXTENDS Integers, Sequences, FiniteSets

CONSTANTS Context,       (* threads, each with a stack                      *)
          Boot,          (* the one that runs first                         *)
          Vector,        (* vectors that are raised, of the 256             *)
          MaxNested,     (* bound: frames on one stack                      *)
          Depth,         (* DPC_QUEUE_DEPTH: 64 in the code                 *)
          Batch,         (* calls drained at one tick: 8 in the code        *)
          MaxDeferred    (* bound: deferred calls                           *)

(* Nothing in the code sets the trap flag or a debug register: there is no
   debug exception, whose gate alone of those with a stack lets others in.  *)
ASSUME InterruptsAssumption == /\ Boot \in Context /\ Vector \subseteq (0 .. 255) \ {1}
                               /\ {MaxNested, Depth, Batch} \subseteq Nat \ {0}
                               /\ MaxDeferred \in Nat

VARIABLES running,       (* the context on the processor                    *)
          iflag,         (* RFLAGS.IF                                       *)
          savedIF,       (* the IF of the contexts that are switched away   *)
          nest,          (* the frames on each stack, the innermost last    *)
          in_service,    (* vectors the local APIC waits for an EOI of      *)
          irql,          (* kpcr: the request level                         *)
          ring, head, tail, g_dpc_count, (* g_dpc_queue and its indices     *)
          processed,     (* calls of this drain, or -1 outside of one       *)
          accepted, called (* history: calls queued and calls made          *)

apicVars == <<running, iflag, savedIF, nest, in_service, irql>>
ringVars == <<ring, head, tail, g_dpc_count, processed, accepted, called>>
intVars == <<apicVars, ringVars>>

Nmi == 2
DoubleFault == 8
Timer == 32
Spurious == 255
Fatal == {0, 6, 13, 14, DoubleFault}
Hardware(v) == v \in 32 .. 254

(* What idt_init says of a vector: the stack of its own it is handled on, or
   0, and whether the gate leaves IF alone.                                 *)
Gate(ist, type) == [ist |-> ist, type |-> type]
g_idt == [[v \in 0 .. 255 |-> Gate(0, "interrupt")] EXCEPT
              ![1] = Gate(4, "trap"),           ![Nmi] = Gate(2, "interrupt"),
              ![DoubleFault] = Gate(1, "interrupt"), ![18] = Gate(3, "interrupt"),
              ![3] = Gate(0, "trap"),           ![128] = Gate(0, "trap")]

(* The stacks tss_init sets aside: IST1 to IST4. *)
IstStack == 1 .. 4

(* Every context but the one that runs is new.  The frame sched.c builds
   today leaves IF clear (KernelBoot); its comment wants IF set, so both.   *)
InterruptsInit ==
    /\ running = Boot
    /\ iflag = TRUE
    /\ savedIF \in [Context -> BOOLEAN]
    /\ nest = [c \in Context |-> << >>]
    /\ in_service = {}
    /\ irql = "PASSIVE"
    /\ ring = [i \in 0 .. Depth - 1 |-> 0] /\ head = 0 /\ tail = 0 /\ g_dpc_count = 0
    /\ processed = -1
    /\ accepted = 0 /\ called = 0

Inner == nest[running][Len(nest[running])]
At(stage) == nest[running] # << >> /\ Inner.stage = stage
To(stage) == nest' = [nest EXCEPT ![running][Len(nest[running])].stage = stage]

(* The processor pushes a frame; an interrupt gate clears IF. *)
Enter(v) ==
    /\ Len(nest[running]) < MaxNested
    /\ nest' = [nest EXCEPT ![running] =
                   Append(@, [vector |-> v, flag |-> iflag, stage |-> "entered"])]
    /\ iflag' = (iflag /\ g_idt[v].type = "trap")
    /\ UNCHANGED <<running, savedIF, irql, ringVars>>

Class(v) == v \div 16

(* The local APIC interrupts with a vector above all it has in service. *)
DeviceInterrupts ==
    \E v \in Vector :
       /\ Hardware(v) /\ iflag
       /\ \A u \in in_service : Class(v) > Class(u)
       /\ in_service' = in_service \cup {v}
       /\ Enter(v)

(* A spurious interrupt is in nobody's service. *)
SpuriousInterrupt ==
    /\ Spurious \in Vector /\ iflag
    /\ Enter(Spurious)
    /\ UNCHANGED in_service

Exceptional == {v \in Vector : v < 32 /\ v # Nmi}
Live(vs) == \E c \in Context : \E i \in DOMAIN nest[c] : nest[c][i].vector \in vs

(* The code of a thread faults or traps; an NMI comes at any time but when
   one is handled.                                                          *)
Faults ==
    /\ nest[running] = << >>
    /\ \E v \in Exceptional : Enter(v)
    /\ UNCHANGED in_service
NmiComes ==
    /\ Nmi \in Vector /\ ~Live({Nmi})
    /\ Enter(Nmi)
    /\ UNCHANGED in_service

(* switch_to_thread saves the flags of one context and loads the other's. *)
switch_to_thread(c) ==
    /\ running' = c
    /\ savedIF' = [savedIF EXCEPT ![running] = iflag]
    /\ iflag' = savedIF[c]

(* A thread sleeps, yields or waits. *)
Yields ==
    /\ nest[running] = << >>
    /\ \E c \in Context \ {running} : switch_to_thread(c)
    /\ UNCHANGED <<nest, in_service, irql, ringVars>>

(* apic_eoi ends the service of the highest vector. *)
Highest == CHOOSE v \in in_service : \A u \in in_service : u <= v
apic_eoi == in_service' = in_service \ {Highest}

(* isr_common_handler, up to sched_tick for the timer. *)
Halts ==
    /\ At("entered") /\ Inner.vector \in Fatal
    /\ To("halted") /\ iflag' = FALSE
    /\ UNCHANGED <<running, savedIF, in_service, irql, ringVars>>

TimerTicks ==
    /\ At("entered") /\ Inner.vector = Timer
    /\ irql' = "DISPATCH"
    /\ To("ticking")
    /\ processed' = 0
    /\ UNCHANGED <<running, iflag, savedIF, in_service>>
    /\ UNCHANGED <<ring, head, tail, g_dpc_count, accepted, called>>

(* Bug: every vector but an exception is acknowledged. *)
OtherInterrupt_AcksAll ==
    /\ At("entered") /\ Inner.vector \notin Fatal \cup {Timer}
    /\ To("done")
    /\ IF Inner.vector >= 33 /\ in_service # {} THEN apic_eoi ELSE UNCHANGED in_service
    /\ UNCHANGED <<running, iflag, savedIF, irql, ringVars>>

OtherInterrupt ==
    /\ At("entered") /\ Inner.vector \notin Fatal \cup {Timer}
    /\ To("done")
    /\ IF Inner.vector \in 33 .. 254 THEN apic_eoi ELSE UNCHANGED in_service
    /\ UNCHANGED <<running, iflag, savedIF, irql, ringVars>>

(* sched_tick, after dpc_drain: the quantum lasts, or another context goes
   on wherever it was.                                                      *)
TickEnds ==
    /\ At("ticking") /\ processed = -1
    /\ To("ticked")
    /\ \/ UNCHANGED <<running, savedIF, iflag>>
       \/ \E c \in Context \ {running} : switch_to_thread(c)
    /\ UNCHANGED <<in_service, irql, ringVars>>

(* The rest of the handler, when the context is back. *)
TimerEnds ==
    /\ At("ticked")
    /\ irql' = "PASSIVE"
    /\ apic_eoi
    /\ To("done")
    /\ UNCHANGED <<running, iflag, savedIF, ringVars>>

(* iretq; a processor that was halted under an NMI goes on behind the hlt. *)
Returns ==
    /\ At("done")
    /\ LET outer == SubSeq(nest[running], 1, Len(nest[running]) - 1) IN
       nest' = [nest EXCEPT ![running] = [i \in DOMAIN outer |->
                   IF outer[i].stage = "halted" THEN [outer[i] EXCEPT !.stage = "done"] ELSE outer[i]]]
    /\ iflag' = Inner.flag
    /\ UNCHANGED <<running, savedIF, in_service, irql, ringVars>>

-----------------------------------------------------------------------------
(* Deferred calls: the numbers of the calls stand for them. *)

(* Bug: one more than the ring holds. *)
dpc_enqueue_OneMore ==
    /\ accepted < MaxDeferred /\ g_dpc_count <= Depth
    /\ ring' = [ring EXCEPT ![tail] = accepted + 1]
    /\ tail' = (tail + 1) % Depth
    /\ g_dpc_count' = g_dpc_count + 1
    /\ accepted' = accepted + 1
    /\ UNCHANGED <<apicVars, head, processed, called>>

(* A full ring drops the call: nothing changes.  A call may come while the
   ring is drained, from the routine that is called.                        *)
dpc_enqueue ==
    /\ accepted < MaxDeferred /\ g_dpc_count < Depth
    /\ ring' = [ring EXCEPT ![tail] = accepted + 1]
    /\ tail' = (tail + 1) % Depth
    /\ g_dpc_count' = g_dpc_count + 1
    /\ accepted' = accepted + 1
    /\ UNCHANGED <<apicVars, head, processed, called>>

dpc_drain ==
    /\ processed >= 0
    /\ IF g_dpc_count > 0 /\ processed < Batch
         THEN /\ called' = ring[head]
              /\ head' = (head + 1) % Depth
              /\ g_dpc_count' = g_dpc_count - 1
              /\ processed' = processed + 1
         ELSE processed' = -1 /\ UNCHANGED <<called, head, g_dpc_count>>
    /\ UNCHANGED <<apicVars, ring, tail, accepted>>

InterruptsNext ==
    \/ DeviceInterrupts \/ SpuriousInterrupt \/ Faults \/ NmiComes \/ Yields
    \/ Halts \/ TimerTicks \/ OtherInterrupt \/ TickEnds \/ TimerEnds \/ Returns
    \/ dpc_enqueue \/ dpc_drain

InterruptsSpec == InterruptsInit /\ [][InterruptsNext]_intVars

-----------------------------------------------------------------------------
Frames == UNION {{<<c, i>> : i \in DOMAIN nest[c]} : c \in Context}
FrameAt(f) == nest[f[1]][f[2]]
Unanswered(v) == {f \in Frames : FrameAt(f).vector = v /\ FrameAt(f).stage # "done"}
OnStack(ist) == {f \in Frames : g_idt[FrameAt(f).vector].ist = ist}

(* Each acknowledgement is of the interrupt it is meant for, though a
   timer's may be a long time coming and others arrive meanwhile: a vector
   is in service exactly while one frame of it, on whichever stack, is not
   answered.  No handler behind an interrupt gate can be interrupted, also
   not after it was switched away and back.  And a stack that idt_init sets
   aside has one frame at most, whichever thread it was taken in.           *)
Acknowledged ==
    /\ \A v \in Vector : Hardware(v) =>
          Cardinality(Unanswered(v)) = (IF v \in in_service THEN 1 ELSE 0)
    /\ \A c \in Context : nest[c] # << >> /\ g_idt[nest[c][Len(nest[c])].vector].type = "interrupt"
          => ~(IF c = running THEN iflag ELSE savedIF[c])
    /\ \A ist \in IstStack : Cardinality(OnStack(ist)) <= 1

(* The calls in the ring are the accepted ones not yet made, in order. *)
CallsInRing ==
    /\ accepted = called + g_dpc_count
    /\ \A i \in 0 .. g_dpc_count - 1 : ring[(head + i) % Depth] = called + i + 1
=============================================================================
