-------------------------- MODULE ThreadLifecycle --------------------------
(***************************************************************************)
(* What kernel/sched promises about a thread, whatever the order in which  *)
(* it queues and picks threads: the states a thread goes through, which    *)
(* thread has the processor, who owns a mutex and who waits for it.        *)
(*                                                                         *)
(* Queues, priorities, quanta and clocks are absent: which READY thread is *)
(* dispatched, which sleepers a tick wakes and which waiter a mutex goes   *)
(* to are nondeterministic.  Module Sched is the detailed specification;   *)
(* it implements this one under the mapping given there.                   *)
(***************************************************************************)
EXTENDS Naturals

CONSTANTS Slot,    (* entries of g_threads[]                                *)
          Idle,    (* the slot of g_idle_thread                             *)
          Mutex,   (* kernel mutexes (KMutex objects)                       *)
          None     (* the NULL thread pointer                               *)

ASSUME SlotAssumption == /\ Idle \in Slot       (* the idle thread exists  *)
                         /\ None \notin Slot    (* NULL is no thread       *)

VARIABLES st,       (* st[t]: the state of the thread in slot t             *)
          current,  (* the slot that has the processor                      *)
          owner,    (* owner[m]: the slot holding mutex m, or None          *)
          waiting   (* waiting[m]: the slots queued on mutex m              *)

vars == <<st, current, owner, waiting>>

State == {"READY", "RUNNING", "BLOCKED", "SLEEPING", "TERMINATED"}

TypeOK == /\ st \in [Slot -> State]
          /\ current \in Slot
          /\ owner \in [Mutex -> Slot \cup {None}]
          /\ waiting \in [Mutex -> SUBSET Slot]

(* sched_init: every slot is free but the idle thread's, which is running. *)
Init == /\ st = [t \in Slot |-> IF t = Idle THEN "RUNNING" ELSE "TERMINATED"]
        /\ current = Idle
        /\ owner = [m \in Mutex |-> None]
        /\ waiting = [m \in Mutex |-> {}]

-----------------------------------------------------------------------------

(* Bug: the thread that leaves is still marked RUNNING. *)
Left_StaysRunning(s, W) == [t \in Slot |-> IF t \in W THEN "READY" ELSE st[t]]

(* The thread states once the running thread has left the processor in state
   s and the sleepers W have been woken.                                    *)
Left(s, W) == [t \in Slot |-> IF t = current THEN s
                              ELSE IF t \in W THEN "READY" ELSE st[t]]

(* A READY thread takes the processor; with s = "READY" it may be the thread
   that has just left it.                                                   *)
Switch(s, W) == \E n \in Slot : /\ Left(s, W)[n] = "READY"
                                /\ st' = [Left(s, W) EXCEPT ![n] = "RUNNING"]
                                /\ current' = n

Spawn(t) == /\ st[t] = "TERMINATED"
            /\ st' = [st EXCEPT ![t] = "READY"]
            /\ UNCHANGED <<current, owner, waiting>>

Sleep == /\ current # Idle
         /\ Switch("SLEEPING", {})
         /\ UNCHANGED <<owner, waiting>>

Exit == /\ current # Idle
        /\ Switch("TERMINATED", {})
        /\ UNCHANGED <<owner, waiting>>

(* A tick wakes some sleepers W, and may take the processor away. *)
Tick(W) == /\ \A t \in W : st[t] = "SLEEPING"
           /\ \/ Switch("READY", W)
              \/ st' = Left("RUNNING", W) /\ UNCHANGED current
           /\ UNCHANGED <<owner, waiting>>

Acquire(m) == /\ current # Idle
              /\ owner[m] = None
              /\ owner' = [owner EXCEPT ![m] = current]
              /\ UNCHANGED <<st, current, waiting>>

Block(m) == /\ current # Idle
            /\ owner[m] # None
            /\ waiting' = [waiting EXCEPT ![m] = @ \cup {current}]
            /\ Switch("BLOCKED", {})
            /\ UNCHANGED owner

(* Bugs: an unlock that looks at no waiter; one that clears the whole word. *)
Release_Strands(m) == /\ owner[m] = current
                      /\ owner' = [owner EXCEPT ![m] = None]
                      /\ UNCHANGED <<st, current, waiting>>

Release_Forgets(m) == /\ owner[m] = current
                      /\ waiting[m] = {}
                      /\ owner' = [owner EXCEPT ![m] = waiting[m]]
                      /\ UNCHANGED <<st, current, waiting>>

(* Unlock with nobody waiting, and with a hand-off to a waiter w. *)
Release(m) == /\ owner[m] = current
              /\ waiting[m] = {}
              /\ owner' = [owner EXCEPT ![m] = None]
              /\ UNCHANGED <<st, current, waiting>>

HandOff(m, w) == /\ owner[m] = current
                 /\ w \in waiting[m]
                 /\ owner' = [owner EXCEPT ![m] = w]
                 /\ waiting' = [waiting EXCEPT ![m] = @ \ {w}]
                 /\ st' = [st EXCEPT ![w] = "READY"]
                 /\ UNCHANGED current

Next == \/ \E t \in Slot : Spawn(t)
        \/ Sleep
        \/ Exit
        \/ \E W \in SUBSET Slot : Tick(W)
        \/ \E m \in Mutex : Acquire(m) \/ Block(m) \/ Release(m)
        \/ \E m \in Mutex, w \in Slot : HandOff(m, w)

Spec == Init /\ [][Next]_vars

-----------------------------------------------------------------------------

(* "Currently executing" (sched.h): the RUNNING thread is the current one
   and there is no other, so no thread is on the processor and queued.     *)
OneRunner == \A t \in Slot : st[t] = "RUNNING" <=> t = current

(* A thread is BLOCKED exactly while it is queued on a mutex, it is queued
   on one mutex only, and a mutex with waiters is always owned: an unlock
   cannot strand a waiter.                                                 *)
NoLostWaiter ==
    /\ \A t \in Slot : st[t] = "BLOCKED" <=> \E m \in Mutex : t \in waiting[m]
    /\ \A m, n \in Mutex : m # n => waiting[m] \cap waiting[n] = {}
    /\ \A m \in Mutex : waiting[m] # {} => owner[m] # None

=============================================================================
