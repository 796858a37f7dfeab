------------------------------ MODULE MCSched ------------------------------
(* Constants of the scheduler for model checking.  The quanta (200, 20,    *)
(* 10, 4, 1) are scaled to one tick, and to two at NORMAL, where a thread  *)
(* then goes on after a tick or uses its quantum up.                       *)
EXTENDS Sched

MCQuanta == <<1, 2, 1, 1, 0>> @@ (0 :> 1)

(* What the threads do in a behaviour is chosen at its start: sleep and exit
   only, for the longest runs; lock mutexes too; or be registered with mmcss,
   which sets deadlines and boosts.                                        *)
VARIABLE workload

Workload == {"plain", "mutexes", "deadlines"}
TickLimit   == [plain |-> 4, mutexes |-> 2, deadlines |-> 3]
DelayLimit  == [plain |-> 2, mutexes |-> 1, deadlines |-> 1]
ThreadLimit == [plain |-> 4, mutexes |-> 4, deadlines |-> 3]

WorkStep == \/ CoreNext
            \/ workload = "mutexes" /\ MutexNext
            \/ workload = "deadlines" /\ DeadlineNext

WorkNext == WorkStep /\ UNCHANGED workload

MCNext == /\ WorkNext
          /\ ticks' <= TickLimit[workload]
          /\ \A t \in Slot : tcb'[t].until <= ticks + DelayLimit[workload]
          /\ count' <= ThreadLimit[workload]

MCInit == sched_init /\ workload \in Workload

(* The behaviours within the limits and, for the proofs, all of them. *)
MCSpec == MCInit /\ [][MCNext]_<<vars, workload>>
WorkSpec == MCInit /\ [][WorkNext]_<<vars, workload>>

(* "RTOS_PRIO_REALTIME threads ... preempt all others", as far as the pick
   goes: a thread that takes the processor has no READY thread above it.
   Boosts, the watchdog and a priority inherited from a waiter change the
   priority of a queued thread without moving it to another queue, so with
   deadlines or mutexes this is not so.                                    *)
DispatchesHighest ==
    [][current' # current /\ workload = "plain" =>
         \A t \in Slot : tcb'[t].st = "READY" => tcb'[t].prio <= tcb'[current'].prio]_vars

-----------------------------------------------------------------------------
(* What comments of the scheduler say and the code does not do.             *)

(* sched.h: "prevents inversion on kernel mutexes": whoever holds a mutex
   has at least the priority of the threads that wait for it.              *)
OwnerInherits ==
    \A m \in Mutex : \A t \in ToSet(Waiters(m)) : tcb[owner[m]].prio >= tcb[t].prio

(* sched.c: "MLFQ-style demotion on quantum expiry", "Demote one level": a
   thread below HIGH that has used its quantum up does not leave the tick with
   a priority above its own and the one it was created with (sched_tick).   *)
QuantumDemotes ==
    [][LET r == tcb[current]
       IN  ticks' # ticks /\ r.st = "RUNNING" /\ r.prio < HIGH /\ r.slice <= 1 =>
           tcb'[current].prio <= IF r.base > r.prio THEN r.base ELSE r.prio]_vars
=============================================================================
