------------------------------- MODULE Sched -------------------------------
(***************************************************************************)
(* The thread scheduler, kernel/sched/sched.c, pointer by pointer.         *)
(*                                                                         *)
(* A TCB has one pair of link fields.  The six ready queues use next and   *)
(* prev; the sleep queue and the waiter list of every mutex use next       *)
(* alone.  All of them are kept here in one record "links", so that a      *)
(* thread linked into two lists at once corrupts both, as it does in the   *)
(* kernel.                                                                 *)
(*                                                                         *)
(* Every action is a whole call: made by the running thread (or, for       *)
(* sched_tick, by the timer interrupt on top of it) up to the point where  *)
(* it returns or another thread has the processor.  A thread preempted in  *)
(* sched_tick resumes in the middle of it: it is then in "preempted", and  *)
(* its next step is the rest of the call (step 5 of sched_tick).           *)
(*                                                                         *)
(* dpc_drain, called by sched_tick, finds an empty queue: nothing in the   *)
(* kernel calls dpc_queue.  Fields that are written and never read (pid,   *)
(* quantum, blocking_thread, last_cpu, total_cpu_ticks, name) are left out.*)
(***************************************************************************)
EXTENDS Integers, FiniteSets, SequencesExt

CONSTANTS MaxThreads,     (* MAX_THREADS: slots of g_threads[]              *)
          Mutex,          (* kernel mutexes                                 *)
          Quanta,         (* RTOS_QUANTA, by priority                       *)
          BoostPeriod,    (* ticks between two starvation scans (200)       *)
          StarveAfter,    (* ticks without running that are starvation (500)*)
          MissLimit,      (* g_watchdog_miss_limit                          *)
          CreatePrios,    (* priorities threads are created with            *)
          Delays,         (* sleeps and deadlines asked for, in ticks       *)
          MaxTicks        (* bound on g_sched_ticks: the model stops there  *)

IDLE     == 0
LOW      == 1
NORMAL   == 2
HIGH     == 3
REALTIME == 4
ISR      == 5
Level    == IDLE..ISR          \* RTOS_PRIORITY_LEVELS queues
Runnable == IDLE..REALTIME     \* "ISR: not schedulable"

Slot == 1..MaxThreads
NULL == 0
Idle == 1            \* sched_init creates the idle thread first: slot 0

ASSUME SchedAssumption ==
    /\ MaxThreads \in Nat \ {0}
    /\ NULL \notin Mutex
    /\ Quanta \in [Level -> Nat]
    /\ \A p \in Runnable : Quanta[p] > 0
    /\ {BoostPeriod, MissLimit} \subseteq Nat \ {0}
    /\ CreatePrios \subseteq Runnable
    /\ Delays \subseteq Nat \ {0}       \* no caller sleeps for 0 ms
    /\ {StarveAfter, MaxTicks} \subseteq Nat

VARIABLES links,      (* the queues and the link fields of every TCB        *)
          tcb,        (* the other fields of every TCB                      *)
          current,    (* g_current_thread                                   *)
          count,      (* g_thread_count                                     *)
          ticks,      (* g_sched_ticks                                      *)
          streak,     (* g_watchdog_miss_streak                             *)
          owner,      (* KMutex.owner, by mutex (locked is its tid)         *)
          preempted   (* threads suspended inside sched_tick                *)

vars == <<links, tcb, current, count, ticks, streak, owner, preempted>>

State == {"READY", "RUNNING", "BLOCKED", "SLEEPING", "TERMINATED"}

Link == Slot \cup {NULL}

TypeOK ==
    /\ links \in [head : [Level -> Link], tail : [Level -> Link],
                  next : [Slot -> Link],  prev : [Slot -> Link],
                  sleep : Link, waiters : [Mutex -> Link]]
    /\ tcb \in [Slot -> [st : State, prio : Runnable, base : Runnable, slice : Nat,
                         until : Nat, last : Nat, deadline : Nat, missed : BOOLEAN]]
    /\ current \in Slot
    /\ count \in 0..MaxThreads
    /\ ticks \in 0..MaxTicks
    /\ streak \in 0..MissLimit
    /\ owner \in [Mutex -> Link]
    /\ preempted \subseteq Slot

-----------------------------------------------------------------------------
(* The intrusive lists.                                                    *)

queue_push_back(L, q, t) ==
    LET last == L.tail[q]
    IN [L EXCEPT !.next = IF last = NULL THEN [@ EXCEPT ![t] = NULL]
                          ELSE [@ EXCEPT ![t] = NULL, ![last] = t],
                 !.prev[t] = last,
                 !.head[q] = IF last = NULL THEN t ELSE @,
                 !.tail[q] = t]

queue_push_front(L, q, t) ==
    LET first == L.head[q]
    IN [L EXCEPT !.next[t] = first,
                 !.prev = IF first = NULL THEN [@ EXCEPT ![t] = NULL]
                          ELSE [@ EXCEPT ![t] = NULL, ![first] = t],
                 !.tail[q] = IF first = NULL THEN t ELSE @,
                 !.head[q] = t]

(* The list after the pop; the popped thread is L.head[q], not NULL. *)
queue_pop_front(L, q) ==
    LET t == L.head[q]
        n == L.next[t]
    IN [L EXCEPT !.head[q] = n,
                 !.tail[q] = IF n = NULL THEN NULL ELSE @,
                 !.prev = IF n = NULL THEN [@ EXCEPT ![t] = NULL]
                          ELSE [@ EXCEPT ![n] = NULL, ![t] = NULL],
                 !.next[t] = NULL]

(* Bug: the neighbour behind t keeps pointing back at t. *)
queue_remove_ForgetsPrev(L, q, t) ==
    LET p == L.prev[t]
        n == L.next[t]
    IN [L EXCEPT !.next = IF p = NULL THEN [@ EXCEPT ![t] = NULL]
                          ELSE [@ EXCEPT ![p] = n, ![t] = NULL],
                 !.head[q] = IF p = NULL THEN n ELSE @,
                 !.tail[q] = IF n = NULL THEN p ELSE @,
                 !.prev[t] = NULL]

queue_remove(L, q, t) ==
    LET p == L.prev[t]
        n == L.next[t]
    IN [L EXCEPT !.next = IF p = NULL THEN [@ EXCEPT ![t] = NULL]
                          ELSE [@ EXCEPT ![p] = n, ![t] = NULL],
                 !.prev = IF n = NULL THEN [@ EXCEPT ![t] = NULL]
                          ELSE [@ EXCEPT ![n] = p, ![t] = NULL],
                 !.head[q] = IF p = NULL THEN n ELSE @,
                 !.tail[q] = IF n = NULL THEN p ELSE @]

(* Where next leads from t: to whom in k steps. *)
Follow(L, t) ==
    LET at[k \in 0..MaxThreads] ==
            IF k = 0 THEN t
            ELSE LET u == at[k-1] IN IF u = NULL THEN NULL ELSE L.next[u]
    IN at

(* The threads met by following next from t, cut off after MaxThreads of
   them: a list that a wrong link has made circular is still a sequence.   *)
Walk(L, t) ==
    LET at == Follow(L, t)
    IN [i \in 1..Cardinality({k \in 0..MaxThreads-1 : at[k] # NULL}) |-> at[i-1]]

(* Bug: a thread due now is not due yet. *)
DuePrefix_Strict(L, T, d) ==
    LET w == Walk(L, L.sleep)
        n == Max({i \in 0..Len(w) : \A j \in 1..i : T[w[j]].until < d})
    IN SubSeq(w, 1, n)

(* The longest prefix of the sleep queue whose threads are due at time d. *)
DuePrefix(L, T, d) ==
    LET w == Walk(L, L.sleep)
        n == Max({i \in 0..Len(w) : \A j \in 1..i : T[w[j]].until <= d})
    IN SubSeq(w, 1, n)

-----------------------------------------------------------------------------
(* sched_init, after it has created the idle thread and made it current:
   the idle thread is still in its ready queue.                            *)

FreeTCB == [st |-> "TERMINATED", prio |-> IDLE, base |-> IDLE, slice |-> 0,
            until |-> 0, last |-> 0, deadline |-> 0, missed |-> FALSE]

NewTCB(p) == [FreeTCB EXCEPT !.st = "READY", !.prio = p, !.base = p,
                             !.slice = Quanta[p]]

NoLinks == [head |-> [q \in Level |-> NULL], tail |-> [q \in Level |-> NULL],
            next |-> [t \in Slot |-> NULL],  prev |-> [t \in Slot |-> NULL],
            sleep |-> NULL, waiters |-> [m \in Mutex |-> NULL]]

sched_init ==
    /\ links = queue_push_back(NoLinks, IDLE, Idle)
    /\ tcb = [t \in Slot |-> IF t = Idle THEN [NewTCB(IDLE) EXCEPT !.st = "RUNNING"]
                             ELSE FreeTCB]
    /\ current = Idle
    /\ count = 1
    /\ ticks = 0
    /\ streak = 0
    /\ owner = [m \in Mutex |-> NULL]
    /\ preempted = {}

-----------------------------------------------------------------------------
(* Bug: the levels are scanned from the lowest. *)
Yielded_LowestFirst(L, T, now) ==
    LET busy == {q \in Runnable : L.head[q] # NULL}
        Run(t) == [T EXCEPT ![t].st = "RUNNING", ![t].last = now]
    IN IF busy # {}
       THEN [L |-> queue_pop_front(L, Min(busy)),
             T |-> Run(L.head[Min(busy)]), next |-> L.head[Min(busy)]]
       ELSE IF T[current].st = "RUNNING" THEN [L |-> L, T |-> T, next |-> current]
       ELSE [L |-> L, T |-> Run(Idle), next |-> Idle]

(* sched_yield with the lists L and the TCBs T, at tick "now": the first
   thread of the highest non-empty queue runs.  With nothing queued a
   RUNNING caller goes on, and otherwise the idle thread runs.             *)

Yielded(L, T, now) ==
    LET busy == {q \in Runnable : L.head[q] # NULL}
        Run(t) == [T EXCEPT ![t].st = "RUNNING", ![t].last = now]
    IN IF busy # {}
       THEN [L |-> queue_pop_front(L, Max(busy)),
             T |-> Run(L.head[Max(busy)]), next |-> L.head[Max(busy)]]
       ELSE IF T[current].st = "RUNNING" THEN [L |-> L, T |-> T, next |-> current]
       ELSE [L |-> L, T |-> Run(Idle), next |-> Idle]

sched_yield(L, T) ==
    \E y \in {Yielded(L, T, ticks)} :
        links' = y.L /\ tcb' = y.T /\ current' = y.next

(* What the running thread does, it does when it is not inside sched_tick. *)
Caller == current \notin preempted

(* Bug: kmain sleeps. *)
CallerMaySuspend_Anyone == Caller

(* The caller can leave the processor: kmain, which runs as the idle
   thread, calls none of the functions that do.                            *)
CallerMaySuspend == Caller /\ current # Idle

-----------------------------------------------------------------------------
FreeSlot == Min({t \in Slot : tcb[t].st = "TERMINATED"})

(* sched_create_named_kthread: the first free slot, at the back of its
   queue.  With every slot taken it returns NULL and changes nothing.      *)

sched_create(p) ==
    /\ Caller
    /\ count < MaxThreads
    /\ \E t \in Slot : tcb[t].st = "TERMINATED"
    /\ tcb' = [tcb EXCEPT ![FreeSlot] = NewTCB(p)]
    /\ links' = queue_push_back(links, p, FreeSlot)
    /\ count' = count + 1
    /\ UNCHANGED <<current, ticks, streak, owner, preempted>>

(* sched_sleep: into the sleep queue behind every earlier or equal wakeup. *)
sched_sleep(ms) ==
    /\ CallerMaySuspend
    /\ LET T == [tcb EXCEPT ![current].st = "SLEEPING", ![current].until = ticks + ms]
           before == DuePrefix(links, tcb, ticks + ms)
           L == IF before = <<>>
                THEN [links EXCEPT !.next[current] = links.sleep, !.sleep = current]
                ELSE [links EXCEPT !.next[current] = links.next[Last(before)],
                                   !.next[Last(before)] = current]
       IN sched_yield(L, T)
    /\ UNCHANGED <<count, ticks, streak, owner, preempted>>

(* Bug: the count is not taken down. *)
sched_exit_Uncounted ==
    /\ CallerMaySuspend
    /\ sched_yield(links, [tcb EXCEPT ![current].st = "TERMINATED"])
    /\ UNCHANGED <<count, ticks, streak, owner, preempted>>

sched_exit ==
    /\ CallerMaySuspend
    /\ count' = count - 1
    /\ sched_yield(links, [tcb EXCEPT ![current].st = "TERMINATED"])
    /\ UNCHANGED <<ticks, streak, owner, preempted>>

-----------------------------------------------------------------------------
(* sched_tick.                                                             *)

(* Bug: a woken thread stays at the head of the sleep queue. *)
WakeOne_Keeps(s, t) ==
    LET boost == Max({s.T[t].base, HIGH})
    IN [L |-> queue_push_front(s.L, boost, t),
        T |-> [s.T EXCEPT ![t].st = "READY", ![t].prio = boost,
                          ![t].slice = Quanta[boost]]]

(* 1. Wake one sleeper: at least HIGH, at the front of its queue. *)
WakeOne(s, t) ==
    LET boost == Max({s.T[t].base, HIGH})
    IN [L |-> queue_push_front([s.L EXCEPT !.sleep = s.L.next[t]], boost, t),
        T |-> [s.T EXCEPT ![t].st = "READY", ![t].prio = boost,
                          ![t].slice = Quanta[boost]]]

WakeSleepers(now) ==
    LET due == DuePrefix(links, tcb, now)
        woken[i \in 0..Len(due)] == IF i = 0 THEN [L |-> links, T |-> tcb]
                                    ELSE WakeOne(woken[i-1], due[i])
    IN woken[Len(due)]

(* Bug: a deadline is missed by the tick it falls on. *)
WatchOne_Early(now, s, t) ==
    LET r == s.T[t]
        n == s.streak + 1
    IN IF r.st = "TERMINATED" \/ r.prio < REALTIME \/ r.deadline = 0 THEN s
       ELSE IF now >= r.deadline /\ ~r.missed
            THEN IF n >= MissLimit
                 THEN [T |-> [s.T EXCEPT ![t].missed = TRUE, ![t].prio = HIGH], streak |-> 0]
                 ELSE [T |-> [s.T EXCEPT ![t].missed = TRUE], streak |-> n]
            ELSE s

(* 3. rtos_watchdog_tick looks at one slot; the streak is kept across slots. *)
WatchOne(now, s, t) ==
    LET r == s.T[t]
        n == s.streak + 1
    IN IF r.st = "TERMINATED" \/ r.prio < REALTIME \/ r.deadline = 0 THEN s
       ELSE IF now > r.deadline /\ ~r.missed
            THEN IF n >= MissLimit
                 THEN [T |-> [s.T EXCEPT ![t].missed = TRUE, ![t].prio = HIGH], streak |-> 0]
                 ELSE [T |-> [s.T EXCEPT ![t].missed = TRUE], streak |-> n]
            ELSE IF now <= r.deadline
                 THEN [T |-> [s.T EXCEPT ![t].missed = FALSE], streak |-> 0]
                 ELSE s

rtos_watchdog_tick(T, now) ==
    LET after[t \in 0..MaxThreads] ==
            IF t = 0 THEN [T |-> T, streak |-> streak]
            ELSE WatchOne(now, after[t-1], t)
    IN after[MaxThreads]

(* 4. The priority, and queue, of a thread whose quantum has run out: a level
   up, where the comments speak of a level down (QuantumDemotes).           *)
ExpiredPrio(p) == IF p < HIGH - 1 THEN p + 1 ELSE p

(* 5. The starvation scan of queue q moves what has not run for long to the
   front of its base queue; threads are met in the order of the list.      *)
BoostOne(now, q, s, t) ==
    IF now - s.T[t].last > StarveAfter
    THEN LET b == s.T[t].base
         IN [L |-> queue_push_front(queue_remove(s.L, q, t), b, t),
             T |-> [s.T EXCEPT ![t].prio = b, ![t].slice = Quanta[b]]]
    ELSE s

ScanQueue(now, q, s) ==
    LET met == Walk(s.L, s.L.head[q])
        after[i \in 0..Len(met)] == IF i = 0 THEN s
                                    ELSE BoostOne(now, q, after[i-1], met[i])
    IN after[Len(met)]

StarvationScan(L, T, now) ==
    IF now % BoostPeriod = 0
    THEN ScanQueue(now, NORMAL, ScanQueue(now, LOW, [L |-> L, T |-> T]))
    ELSE [L |-> L, T |-> T]

EndTick(L, T, now) ==
    \E s \in {StarvationScan(L, T, now)} : links' = s.L /\ tcb' = s.T

(* Bug: the quantum is taken down past its end. *)
GoesOn_PastEnd(L, T, now) ==
    /\ EndTick(L, [T EXCEPT ![current].slice = @ - 1], now)
    /\ UNCHANGED <<current, preempted>>

(* 4. The quantum is not over, ... *)
GoesOn(L, T, now) ==
    /\ T[current].slice > 1
    /\ EndTick(L, [T EXCEPT ![current].slice = @ - 1], now)
    /\ UNCHANGED <<current, preempted>>

(* ... or the thread goes to the back of its queue and sched_yield picks
   the next one: the same, which ends the tick, or another.                *)
Expires(L, T, now) ==
    /\ T[current].slice <= 1
    /\ \E p \in {ExpiredPrio(T[current].prio)} :
       \E y \in {Yielded(queue_push_back(L, p, current),
                          [T EXCEPT ![current].slice = Quanta[p],
                                    ![current].prio = p, ![current].st = "READY"],
                          now)} :
          \/ /\ y.next = current
             /\ EndTick(y.L, y.T, now)
             /\ UNCHANGED <<current, preempted>>
          \/ /\ y.next # current
             /\ links' = y.L
             /\ tcb' = y.T
             /\ current' = y.next
             /\ preempted' = preempted \cup {current}

(* The tick up to the point where it returns, or has switched away.  The
   values are bound with \E to be computed once.                           *)
sched_tick ==
    /\ Caller
    /\ ticks < MaxTicks
    /\ ticks' = ticks + 1
    /\ \E w \in {WakeSleepers(ticks + 1)} :
       \E d \in {rtos_watchdog_tick(w.T, ticks + 1)} :
          /\ streak' = d.streak
          /\ \/ GoesOn(w.L, d.T, ticks + 1)
             \/ Expires(w.L, d.T, ticks + 1)
    /\ UNCHANGED <<count, owner>>

(* The rest of a tick whose caller was switched away and is running again. *)
sched_tick_resumed ==
    /\ current \in preempted
    /\ preempted' = preempted \ {current}
    /\ EndTick(links, tcb, ticks)
    /\ UNCHANGED <<current, count, ticks, streak, owner>>

-----------------------------------------------------------------------------
(* Boosts and deadlines: the fields change, the queues do not.             *)

rtos_boost(t, p) ==
    /\ Caller
    /\ tcb[t].prio < p
    /\ tcb' = [tcb EXCEPT ![t].prio = p, ![t].slice = Quanta[p]]
    /\ UNCHANGED <<links, current, count, ticks, streak, owner, preempted>>

rtos_set_deadline(t, ms) ==
    /\ Caller
    /\ tcb' = [tcb EXCEPT ![t].deadline = ticks + ms, ![t].missed = FALSE,
                          ![t].prio = REALTIME, ![t].slice = Quanta[REALTIME]]
    /\ UNCHANGED <<links, current, count, ticks, streak, owner, preempted>>

-----------------------------------------------------------------------------
(* The priority-inheriting mutex.                                          *)

(* Bug: the lock is taken whoever has it. *)
kmutex_acquire_Steals(m) ==
    /\ CallerMaySuspend
    /\ owner' = [owner EXCEPT ![m] = current]
    /\ UNCHANGED <<links, tcb, current, count, ticks, streak, preempted>>

kmutex_acquire(m) ==
    /\ CallerMaySuspend
    /\ owner[m] = NULL
    /\ owner' = [owner EXCEPT ![m] = current]
    /\ UNCHANGED <<links, tcb, current, count, ticks, streak, preempted>>

kmutex_block(m) ==
    /\ CallerMaySuspend
    /\ owner[m] # NULL
    /\ LET o == owner[m]
           T == [tcb EXCEPT ![o].prio = Max({@, tcb[current].prio})]
       IN sched_yield([links EXCEPT !.next[current] = links.waiters[m],
                                    !.waiters[m] = current],
                      [T EXCEPT ![current].st = "BLOCKED"])
    /\ UNCHANGED <<count, ticks, streak, owner, preempted>>

kmutex_lock(m) == kmutex_acquire(m) \/ kmutex_block(m)

kmutex_unlock(m) ==
    /\ Caller
    /\ owner[m] = current
    /\ LET w == links.waiters[m]
           T == [tcb EXCEPT ![current].prio = tcb[current].base]
       IN /\ owner' = [owner EXCEPT ![m] = w]
          /\ \/ w = NULL /\ tcb' = T /\ UNCHANGED links
             \/ /\ w # NULL
                /\ tcb' = [T EXCEPT ![w].st = "READY"]
                /\ links' = queue_push_front([links EXCEPT !.waiters[m] = links.next[w]],
                                             T[w].prio, w)
    /\ UNCHANGED <<current, count, ticks, streak, preempted>>

-----------------------------------------------------------------------------

(* The running thread's calls, and the timer.  Threads with a deadline or an
   emergency boost are the ones mmcss knows: live, and not the idle thread. *)
Live == {t \in Slot : tcb[t].st # "TERMINATED"}

CoreNext == \/ \E p \in CreatePrios : sched_create(p)
            \/ \E d \in Delays : sched_sleep(d)
            \/ sched_exit
            \/ sched_tick
            \/ sched_tick_resumed

MutexNext == \E m \in Mutex : kmutex_lock(m) \/ kmutex_unlock(m)

DeadlineNext == \E t \in Live \ {Idle} : \/ rtos_boost(t, REALTIME)
                                         \/ \E d \in Delays : rtos_set_deadline(t, d)

Next == CoreNext \/ MutexNext \/ DeadlineNext

Spec == sched_init /\ [][Next]_vars

-----------------------------------------------------------------------------
(* Properties.                                                             *)

Ready(q)   == Walk(links, links.head[q])
Sleepers   == Walk(links, links.sleep)
Waiters(m) == Walk(links, links.waiters[m])

(* Where each thread is linked: one tuple per position of a list.  The queue
   of the idle thread is not among the lists: idle is queued there from
   sched_init on, even while it is queued, and linked, elsewhere.           *)
Positions(list, s) == {<<list, i, s[i]>> : i \in DOMAIN s}

Places == UNION ({Positions(<<"READY", q>>, Ready(q)) : q \in LOW..REALTIME} \cup
                 {Positions(<<"BLOCKED", m>>, Waiters(m)) : m \in Mutex} \cup
                 {Positions(<<"SLEEPING", NULL>>, Sleepers)})

(* "READY: in a priority run queue" (sched.h), and the same for SLEEPING and
   BLOCKED: through every interleaving of sleeps, wakes, preemptions,
   boosts and hand-offs a thread is once in the one list its state calls
   for and in no other.  A thread in none is never run again; one in two
   corrupts both, since they share its link fields.                        *)
OneList ==
    LET places == Places
    IN \A t \in Slot \ {Idle} :
         LET mine == {p \in places : p[3] = t}
         IN IF tcb[t].st \in {"READY", "SLEEPING", "BLOCKED"}
            THEN \E p \in mine : mine = {p} /\ p[1][1] = tcb[t].st
            ELSE mine = {}

(* The same lists read from their tails: prev mirrors next, head and tail
   are the ends.                                                           *)
DoublyLinked ==
    \A q \in LOW..REALTIME :
        LET s == Ready(q)
        IN /\ links.tail[q] = IF s = <<>> THEN NULL ELSE Last(s)
           /\ \A i \in DOMAIN s :
                 /\ links.prev[s[i]] = IF i = 1 THEN NULL ELSE s[i-1]
                 /\ links.next[s[i]] = IF i = Len(s) THEN NULL ELSE s[i+1]

(* The sleep queue is sorted: sched_tick stops at the first sleeper that is
   not due, so one out of order would oversleep.  No sleeper is overdue.   *)
NobodyOversleeps ==
    /\ \A i, j \in DOMAIN Sleepers : i < j => tcb[Sleepers[i]].until <= tcb[Sleepers[j]].until
    /\ \A t \in Slot : tcb[t].st = "SLEEPING" => tcb[t].until > ticks

(* g_thread_count counts the threads alive, so that a full table is seen
   as full and a free slot is always found when there is one.              *)
CountsLive == count = Cardinality(Live)

(* The lists, the counter and the fields of the threads agree, whatever the
   interleaving: the three parts above, over variables of their types.      *)
ListsIntact == TypeOK /\ OneList /\ DoublyLinked /\ CountsLive

(* No thread is below the priority it was created with, in whatever order
   wakes, quantum expiries, starvation scans and unlocks come: there is no
   MLFQ decay, although sched.c says that the lower priorities "use
   MLFQ-style time-slice decay" (QuantumDemotes).  The watchdog alone takes a
   thread lower, and never below HIGH.                                      *)
NeverBelowBase == \A t \in Slot : tcb[t].prio >= Min({tcb[t].base, HIGH})

(* A deadline counted as missed has passed: a renewed deadline starts
   clean, so that missing it again is seen again.                          *)
MissedIsLate == \A t \in Slot : tcb[t].missed => ticks > tcb[t].deadline

Lifecycle == INSTANCE ThreadLifecycle
             WITH None <- NULL,
                  st <- [t \in Slot |-> tcb[t].st],
                  waiting <- [m \in Mutex |-> ToSet(Waiters(m))]

(* The pointer-level scheduler implements the thread life cycle. *)
ImplementsLifecycle == Lifecycle!Spec

=============================================================================
