---------------------------- MODULE PartsProofs ----------------------------
(* Proofs about the tables that the services and the kernel keep.          *)
EXTENDS LinesProofs

-----------------------------------------------------------------------------
(* The thread life cycle, for any number of slots and mutexes.  The inductive
   invariant is the conjunction of the three invariants the runs check:
   NoLostWaiter needs OneRunner (the thread that blocks is not yet BLOCKED, so
   it waits for no other mutex), and a hand-off needs NoLostWaiter to know that
   the waiter it makes READY was not running.                               *)

LifeInv == TypeOK /\ OneRunner /\ NoLostWaiter

(* What a switch does to the states: one thread becomes RUNNING, it was
   READY (or is the one that left, put back), the one that left has state s,
   and only the sleepers in W changed otherwise.                            *)
LEMMA SwitchFacts ==
    ASSUME LifeInv, NEW s \in State \ {"RUNNING"}, NEW W \in SUBSET Slot,
           \A t \in W : st[t] = "SLEEPING", Switch(s, W)
    PROVE  /\ st' \in [Slot -> State]
           /\ current' \in Slot
           /\ OneRunner'
           /\ \A t \in Slot \ {current} : st'[t] = "BLOCKED" <=> st[t] = "BLOCKED"
           /\ st'[current] = "BLOCKED" <=> s = "BLOCKED"
<1>1. PICK n \in Slot : /\ Left(s, W)[n] = "READY"
                        /\ st' = [Left(s, W) EXCEPT ![n] = "RUNNING"]
                        /\ current' = n
  BY DEF Switch
<1>2. /\ Left(s, W) \in [Slot -> State]
      /\ Left(s, W)[current] = s
      /\ \A t \in Slot \ {current} : Left(s, W)[t] = IF t \in W THEN "READY" ELSE st[t]
  BY DEF LifeInv, TypeOK, Left, State
<1>3. st' \in [Slot -> State] /\ current' \in Slot
  BY <1>1, <1>2 DEF State
<1>4. \A t \in Slot : Left(s, W)[t] # "RUNNING"
  BY <1>2 DEF LifeInv, OneRunner
<1>5. OneRunner'
  BY <1>1, <1>2, <1>4 DEF OneRunner
<1>6. ASSUME NEW t \in Slot \ {current}
      PROVE  st'[t] = "BLOCKED" <=> st[t] = "BLOCKED"
  BY <1>1, <1>2
<1>7. st'[current] = "BLOCKED" <=> s = "BLOCKED"
  BY <1>1, <1>2 DEF LifeInv, TypeOK
<1> QED BY <1>3, <1>5, <1>6, <1>7

(* A switch that leaves the mutexes alone, by a thread that does not block. *)
LEMMA SwitchKeepsInv ==
    ASSUME LifeInv, NEW s \in State \ {"RUNNING", "BLOCKED"}, NEW W \in SUBSET Slot,
           \A t \in W : st[t] = "SLEEPING", Switch(s, W),
           UNCHANGED <<owner, waiting>>
    PROVE  LifeInv'
<1>1. /\ st' \in [Slot -> State] /\ current' \in Slot /\ OneRunner'
      /\ \A t \in Slot \ {current} : st'[t] = "BLOCKED" <=> st[t] = "BLOCKED"
      /\ st'[current] # "BLOCKED"
  BY SwitchFacts
<1>2. st[current] # "BLOCKED"
  BY DEF LifeInv, OneRunner, TypeOK
<1>3. \A t \in Slot : st'[t] = "BLOCKED" <=> st[t] = "BLOCKED"
  BY <1>1, <1>2
<1> QED BY <1>1, <1>3 DEF LifeInv, TypeOK, NoLostWaiter

LEMMA LifeInitInv == Init => LifeInv
  BY SlotAssumption DEF Init, LifeInv, TypeOK, OneRunner, NoLostWaiter, State

LEMMA LifeNextInv == LifeInv /\ [Next]_vars => LifeInv'
<1> SUFFICES ASSUME LifeInv, [Next]_vars PROVE LifeInv'
  OBVIOUS
<1>1. ASSUME NEW t \in Slot, Spawn(t) PROVE LifeInv'
  <2>1. st[t] # "BLOCKED" /\ t # current
    BY <1>1 DEF Spawn, LifeInv, OneRunner
  <2> QED BY <1>1, <2>1 DEF Spawn, LifeInv, TypeOK, OneRunner, NoLostWaiter, State
<1>2. CASE Sleep
  BY <1>2, SwitchKeepsInv DEF Sleep, State
<1>3. CASE Exit
  BY <1>3, SwitchKeepsInv DEF Exit, State
<1>4. ASSUME NEW W \in SUBSET Slot, Tick(W) PROVE LifeInv'
  <2>1. CASE Switch("READY", W)
    BY <1>4, <2>1, SwitchKeepsInv DEF Tick, State
  <2>2. CASE st' = Left("RUNNING", W) /\ UNCHANGED current
    <3>1. \A t \in Slot : st'[t] = IF t = current THEN "RUNNING"
                                   ELSE IF t \in W THEN "READY" ELSE st[t]
      BY <2>2 DEF Left
    <3>2. \A t \in W : st[t] = "SLEEPING"
      BY <1>4 DEF Tick
    <3>3. st[current] = "RUNNING"
      BY DEF LifeInv, OneRunner, TypeOK
    <3>4. \A t \in Slot : st'[t] = "BLOCKED" <=> st[t] = "BLOCKED"
      BY <3>1, <3>2, <3>3
    <3>5. OneRunner'
      BY <2>2, <3>1 DEF OneRunner, LifeInv
    <3>6. st' \in [Slot -> State]
      BY <2>2 DEF Left, LifeInv, TypeOK, State
    <3> QED BY <1>4, <2>2, <3>4, <3>5, <3>6 DEF Tick, LifeInv, TypeOK, NoLostWaiter
  <2> QED BY <1>4, <2>1, <2>2 DEF Tick
<1>5. ASSUME NEW m \in Mutex, Acquire(m) PROVE LifeInv'
  BY <1>5, SlotAssumption DEF Acquire, LifeInv, TypeOK, OneRunner, NoLostWaiter
<1>6. ASSUME NEW m \in Mutex, Block(m) PROVE LifeInv'
  <2>1. /\ st' \in [Slot -> State] /\ current' \in Slot /\ OneRunner'
        /\ \A t \in Slot \ {current} : st'[t] = "BLOCKED" <=> st[t] = "BLOCKED"
        /\ st'[current] = "BLOCKED"
    BY <1>6, SwitchFacts DEF Block, State
  <2>2. \A n \in Mutex : current \notin waiting[n]
    BY DEF LifeInv, NoLostWaiter, OneRunner, TypeOK
  <2>3. /\ waiting' \in [Mutex -> SUBSET Slot] /\ owner' = owner
        /\ waiting'[m] = waiting[m] \cup {current}
        /\ \A n \in Mutex \ {m} : waiting'[n] = waiting[n]
    BY <1>6 DEF Block, LifeInv, TypeOK
  <2>4. NoLostWaiter'
    <3>1. ASSUME NEW t \in Slot
          PROVE  st'[t] = "BLOCKED" <=> \E n \in Mutex : t \in waiting'[n]
      <4>1. CASE t = current
        BY <2>1, <2>3, <4>1
      <4>2. CASE t # current
        BY <2>1, <2>3, <4>2 DEF LifeInv, NoLostWaiter
      <4> QED BY <4>1, <4>2
    <3>2. \A k, n \in Mutex : k # n => waiting'[k] \cap waiting'[n] = {}
      BY <2>2, <2>3 DEF LifeInv, NoLostWaiter
    <3>3. \A n \in Mutex : waiting'[n] # {} => owner'[n] # None
      BY <1>6, <2>3 DEF Block, LifeInv, NoLostWaiter
    <3> QED BY <3>1, <3>2, <3>3 DEF NoLostWaiter
  <2> QED BY <2>1, <2>3, <2>4 DEF LifeInv, TypeOK
<1>7. ASSUME NEW m \in Mutex, Release(m) PROVE LifeInv'
  BY <1>7 DEF Release, LifeInv, TypeOK, OneRunner, NoLostWaiter
<1>8. ASSUME NEW m \in Mutex, NEW w \in Slot, HandOff(m, w) PROVE LifeInv'
  <2>1. st[w] = "BLOCKED" /\ w # current
    BY <1>8 DEF HandOff, LifeInv, NoLostWaiter, OneRunner
  <2>2. /\ waiting' \in [Mutex -> SUBSET Slot] /\ owner' \in [Mutex -> Slot \cup {None}]
        /\ st' \in [Slot -> State] /\ current' = current
        /\ waiting'[m] = waiting[m] \ {w} /\ owner'[m] = w
        /\ \A n \in Mutex \ {m} : waiting'[n] = waiting[n] /\ owner'[n] = owner[n]
        /\ st'[w] = "READY" /\ \A t \in Slot \ {w} : st'[t] = st[t]
    BY <1>8 DEF HandOff, LifeInv, TypeOK, State
  <2>3. OneRunner'
    BY <2>1, <2>2 DEF OneRunner, LifeInv
  <2>4. NoLostWaiter'
    <3>1. \A n \in Mutex : w \notin waiting'[n]
      BY <1>8, <2>2 DEF HandOff, LifeInv, NoLostWaiter
    <3>2. ASSUME NEW t \in Slot
          PROVE  st'[t] = "BLOCKED" <=> \E n \in Mutex : t \in waiting'[n]
      <4>1. CASE t = w
        BY <2>2, <3>1, <4>1
      <4>2. CASE t # w
        BY <2>2, <4>2 DEF LifeInv, NoLostWaiter
      <4> QED BY <4>1, <4>2
    <3>3. \A k, n \in Mutex : k # n => waiting'[k] \cap waiting'[n] = {}
      BY <2>2 DEF LifeInv, NoLostWaiter
    <3>4. \A n \in Mutex : waiting'[n] # {} => owner'[n] # None
      BY <2>2, SlotAssumption DEF LifeInv, NoLostWaiter
    <3> QED BY <3>2, <3>3, <3>4 DEF NoLostWaiter
  <2> QED BY <2>2, <2>3, <2>4 DEF LifeInv, TypeOK
<1>9. CASE UNCHANGED vars
  BY <1>9 DEF vars, LifeInv, TypeOK, OneRunner, NoLostWaiter
<1> QED BY <1>1, <1>2, <1>3, <1>4, <1>5, <1>6, <1>7, <1>8, <1>9 DEF Next

LEMMA LifeInvHolds == Spec => []LifeInv
  BY LifeInitInv, LifeNextInv, PTL DEF Spec

(* Every variable keeps its type, for any set of slots and mutexes. *)
THEOREM TypeCorrect == Spec => []TypeOK
  BY LifeInvHolds, PTL DEF LifeInv

(* The processor has one RUNNING thread, the current one (sched_yield). *)
THEOREM RunnerIsCurrent == Spec => []OneRunner
  BY LifeInvHolds, PTL DEF LifeInv

(* BLOCKED is waiting for exactly one, owned, mutex (kmutex_lock, unlock). *)
THEOREM WaitersAreKept == Spec => []NoLostWaiter
  BY LifeInvHolds, PTL DEF LifeInv

-----------------------------------------------------------------------------
(* A queue that drops its oldest message.  The two invariants are inductive
   together: what a drain appends to out is newer than what is there because
   the queue is the gapless run of the last messages sent.                  *)

QueueInv == QueueTypeOK /\ HoldsNewest /\ InOrder

(* Dropping the oldest message when there is no room. *)
LEMMA RoomFacts ==
    ASSUME QueueInv
    PROVE  /\ Room \in Seq(Nat)
           /\ Len(Room) < Cap /\ Len(Room) <= Len(q) /\ Len(Room) <= sent
           /\ \A i \in 1 .. Len(Room) : Room[i] = (sent - Len(Room)) + i
<1>1. CASE Len(q) < Cap
  BY <1>1 DEF Room, QueueInv, QueueTypeOK, HoldsNewest
<1>2. CASE ~ (Len(q) < Cap)
  <2>1. Len(q) \in Nat /\ Len(q) = Cap /\ q # << >>
    BY <1>2, CapAssumption DEF QueueInv, QueueTypeOK, HoldsNewest
  <2>2. Room = Tail(q)
    BY <1>2 DEF Room
  <2>3. Tail(q) \in Seq(Nat) /\ Len(Tail(q)) = Len(q) - 1
    BY <2>1 DEF QueueInv, QueueTypeOK
  <2>4. \A i \in 1 .. Len(Tail(q)) : Tail(q)[i] = q[i + 1]
    BY <2>1, <2>3 DEF QueueInv, QueueTypeOK
  <2>5. ASSUME NEW i \in 1 .. Len(Tail(q))
        PROVE  Tail(q)[i] = (sent - Len(Tail(q))) + i
    <3>1. i + 1 \in 1 .. Len(q)
      BY <2>1, <2>3
    <3>2. q[i + 1] = (sent - Len(q)) + (i + 1)
      BY <3>1 DEF QueueInv, HoldsNewest
    <3>3. Tail(q)[i] = q[i + 1] /\ i \in Nat /\ sent \in Nat
      BY <2>3, <2>4 DEF QueueInv, QueueTypeOK
    <3> QED BY <2>1, <2>3, <3>2, <3>3
  <2> QED BY <2>1, <2>2, <2>3, <2>5 DEF QueueInv, QueueTypeOK, HoldsNewest
<1> QED BY <1>1, <1>2

LEMMA PutInv == ASSUME QueueInv, Put PROVE QueueInv'
<1>1. /\ sent \in Nat /\ sent' = sent + 1 /\ out' = out
      /\ q' = Append(Room, sent + 1)
  BY DEF Put, QueueInv, QueueTypeOK
<1>2. /\ Room \in Seq(Nat) /\ Len(Room) \in Nat
      /\ Len(Room) < Cap /\ Len(Room) <= Len(q) /\ Len(Room) <= sent
      /\ \A i \in 1 .. Len(Room) : Room[i] = (sent - Len(Room)) + i
  BY RoomFacts
<1> HIDE DEF Room
<1>3. /\ q' \in Seq(Nat) /\ Len(q') = Len(Room) + 1 /\ q'[Len(Room) + 1] = sent + 1
      /\ \A i \in 1 .. Len(Room) : q'[i] = Room[i]
  BY <1>1, <1>2
<1>4. QueueTypeOK'
  BY <1>1, <1>3 DEF QueueInv, QueueTypeOK
<1>5. HoldsNewest'
  <2>1. Len(q') <= Cap /\ Len(q') <= sent'
    BY <1>1, <1>2, <1>3, CapAssumption
  <2>2. ASSUME NEW i \in 1 .. Len(q') PROVE q'[i] = (sent' - Len(q')) + i
    <3>1. CASE i = Len(Room) + 1
      BY <1>1, <1>2, <1>3, <3>1
    <3>2. CASE i \in 1 .. Len(Room)
      BY <1>1, <1>2, <1>3, <3>2
    <3> QED BY <1>2, <1>3, <3>1, <3>2
  <2> QED BY <2>1, <2>2 DEF HoldsNewest
<1>6. InOrder'
  <2>1. \A i \in 1 .. Len(out) : out[i] \in Nat
    BY DEF QueueInv, QueueTypeOK
  <2> QED BY <1>1, <1>2, <1>3, <2>1 DEF QueueInv, InOrder, QueueTypeOK, HoldsNewest
<1> QED BY <1>4, <1>5, <1>6 DEF QueueInv

LEMMA DrainAllInv == ASSUME QueueInv, Drain PROVE QueueInv'
<1>1. /\ sent \in Nat /\ sent' = sent /\ q' = << >> /\ out' = out \o q
      /\ q \in Seq(Nat) /\ out \in Seq(Nat) /\ Len(q) \in Nat /\ Len(out) \in Nat
  BY DEF Drain, QueueInv, QueueTypeOK
<1>2. /\ out' \in Seq(Nat) /\ Len(out') = Len(out) + Len(q)
      /\ \A i \in 1 .. Len(out') : out'[i] = IF i <= Len(out) THEN out[i]
                                             ELSE q[i - Len(out)]
  BY <1>1
<1>3. QueueTypeOK' /\ HoldsNewest'
  BY <1>1, <1>2, CapAssumption DEF QueueTypeOK, HoldsNewest
<1>4. /\ \A i \in 1 .. Len(q) : q[i] = (sent - Len(q)) + i
      /\ Len(q) <= sent
      /\ \A i, j \in 1 .. Len(out) : i < j => out[i] < out[j]
      /\ \A i \in 1 .. Len(out) : out[i] <= sent - Len(q) /\ out[i] \in Nat
  BY DEF QueueInv, HoldsNewest, InOrder, QueueTypeOK
<1>5. InOrder'
  <2>1. ASSUME NEW i \in 1 .. Len(out'), NEW j \in 1 .. Len(out'), i < j
        PROVE  out'[i] < out'[j]
    <3>1. CASE j <= Len(out)
      BY <1>1, <1>2, <1>4, <2>1, <3>1
    <3>2. CASE i <= Len(out) /\ ~ (j <= Len(out))
      <4>1. j - Len(out) \in 1 .. Len(q)
        BY <1>1, <1>2, <3>2
      <4>2. out'[j] = (sent - Len(q)) + (j - Len(out)) /\ out'[i] = out[i]
        BY <1>2, <1>4, <3>2, <4>1
      <4>3. out[i] <= sent - Len(q) /\ out[i] \in Nat
        BY <1>1, <1>4, <3>2
      <4> QED BY <1>1, <4>1, <4>2, <4>3
    <3>3. CASE ~ (i <= Len(out))
      <4>1. i - Len(out) \in 1 .. Len(q) /\ j - Len(out) \in 1 .. Len(q)
        BY <1>1, <1>2, <2>1, <3>3
      <4>2. /\ out'[i] = (sent - Len(q)) + (i - Len(out))
            /\ out'[j] = (sent - Len(q)) + (j - Len(out))
        BY <1>1, <1>2, <1>4, <2>1, <3>3, <4>1
      <4> QED BY <1>1, <2>1, <4>2
    <3> QED BY <1>1, <2>1, <3>1, <3>2, <3>3
  <2>2. ASSUME NEW i \in 1 .. Len(out') PROVE out'[i] <= sent' - Len(q')
    <3>1. CASE i <= Len(out)
      BY <1>1, <1>2, <1>4, <3>1
    <3>2. CASE ~ (i <= Len(out))
      <4>1. i - Len(out) \in 1 .. Len(q)
        BY <1>1, <1>2, <3>2
      <4>2. out'[i] = (sent - Len(q)) + (i - Len(out))
        BY <1>2, <1>4, <3>2, <4>1
      <4> QED BY <1>1, <4>1, <4>2
    <3> QED BY <3>1, <3>2
  <2> QED BY <2>1, <2>2 DEF InOrder
<1> QED BY <1>3, <1>5 DEF QueueInv

LEMMA QueueInvHolds == QueueSpec => []QueueInv
<1>1. QueueInit => QueueInv
  BY CapAssumption DEF QueueInit, QueueInv, QueueTypeOK, HoldsNewest, InOrder
<1>2. QueueInv /\ [QueueNext]_queueVars => QueueInv'
  <2> SUFFICES ASSUME QueueInv, [QueueNext]_queueVars PROVE QueueInv'
    OBVIOUS
  <2>1. CASE Clear
    BY <2>1, CapAssumption DEF Clear, QueueInv, QueueTypeOK, HoldsNewest, InOrder
  <2>2. CASE UNCHANGED queueVars
    BY <2>2 DEF queueVars, QueueInv, QueueTypeOK, HoldsNewest, InOrder
  <2> QED BY <2>1, <2>2, PutInv, DrainAllInv DEF QueueNext
<1> QED BY <1>1, <1>2, PTL DEF QueueSpec

(* The queue holds the last messages sent, without a gap (ipc_ring_push,
   panelmgr_log): what is dropped is older than everything held.            *)
THEOREM QueueHoldsNewest == QueueSpec => []HoldsNewest
  BY QueueInvHolds, PTL DEF QueueInv

(* Messages come out in the order of sending and once (ipc_ring_flush). *)
THEOREM DeliveryInOrder == QueueSpec => []InOrder
  BY QueueInvHolds, PTL DEF QueueInv

-----------------------------------------------------------------------------
(* Sessions. *)

SlotRecord == [id : Nat, pid : Pid, token : Nat, attempts : Nat,
               status : {"valid", "expired", "revoked", "locked", "hijack"}]

SessionTypeOK ==
    /\ sessions \in [SessionSlot -> SlotRecord]
    /\ next_session \in Nat \ {0}
    /\ DOMAIN owners = 1 .. next_session - 1
    /\ struck \subseteq 1 .. next_session - 1
    /\ granted \in [id : Nat, pid : Pid, token : Nat]

(* A number in the table was given out, to one slot; a session in use has the
   token and the owner it was made with and was never struck; one that is
   locked out was.                                                          *)
SlotsTrue ==
    /\ \A i \in SessionSlot : sessions[i].id < next_session
    /\ \A i, j \in SessionSlot : sessions[i].id = sessions[j].id => i = j \/ sessions[i].id = 0
    /\ \A i \in SessionSlot : sessions[i].status = "valid" =>
          /\ sessions[i].id # 0
          /\ sessions[i].token = sessions[i].id
          /\ sessions[i].pid = owners[sessions[i].id]
          /\ sessions[i].id \notin struck
          /\ sessions[i].attempts <= 2
    /\ \A i \in SessionSlot : sessions[i].status = "hijack" => sessions[i].id \in struck

(* The last use that was authorised was of a session given out. *)
GrantTrue ==
    granted # NoGrant => /\ granted.id \in 1 .. next_session - 1
                         /\ granted.id \notin struck
                         /\ granted.token = granted.id
                         /\ owners[granted.id] \in {granted.pid, Kernel}

SessionInv == SessionTypeOK /\ SlotsTrue /\ GrantTrue

(* The table is empty at first. *)
LEMMA SessionInitInv == security_init => SessionInv
  <1> SUFFICES ASSUME security_init PROVE SessionInv
    OBVIOUS
  <1>1. SessionTypeOK
    BY SessionAssumption DEF security_init, SessionTypeOK, SlotRecord, NoGrant
  <1>2. SlotsTrue /\ GrantTrue
    BY DEF security_init, SlotsTrue, GrantTrue
  <1> QED BY <1>1, <1>2 DEF SessionInv

(* A new session: its number was in no slot. *)
LEMMA CreateInv ==
    ASSUME SessionInv, NEW pid \in Pid, session_create(pid) PROVE SessionInv'
  <1> USE DEF SessionInv
  <1> DEFINE new == [id |-> next_session, pid |-> pid, token |-> next_session,
                     status |-> "valid", attempts |-> 0]
  <1>1. PICK i \in SessionSlot : sessions' = [sessions EXCEPT ![i] = new]
    BY DEF session_create
  <1>2. new \in SlotRecord
    BY DEF SlotRecord, SessionTypeOK
  <1>3. /\ next_session' = next_session + 1 /\ struck' = struck /\ granted' = granted
        /\ owners' = [n \in 1 .. next_session |-> IF n = next_session THEN pid ELSE owners[n]]
    BY DEF session_create
  <1>4. SessionTypeOK'
    BY <1>1, <1>2, <1>3 DEF SessionTypeOK
  <1>5. \A j \in SessionSlot : sessions'[j] = IF j = i THEN new ELSE sessions[j]
    BY <1>1 DEF SessionTypeOK
  <1>6. \A n \in 1 .. next_session - 1 : owners'[n] = owners[n]
    BY <1>3 DEF SessionTypeOK
  <1>7. owners'[next_session] = pid /\ next_session \notin struck
    BY <1>3 DEF SessionTypeOK
  <1>8. \A j \in SessionSlot : sessions[j].id \in Nat
    BY DEF SessionTypeOK, SlotRecord
  <1>9. SlotsTrue'
    <2> HIDE DEF new
    <2>1. next_session \in Nat \ {0}
      BY DEF SessionTypeOK
    <2>2. /\ new.id = next_session /\ new.pid = pid /\ new.token = next_session
          /\ new.status = "valid" /\ new.attempts = 0
      BY DEF new
    <2>3. \A j \in SessionSlot : sessions[j].id < next_session
      BY DEF SlotsTrue
    <2>4. /\ \A j \in SessionSlot : sessions'[j].id < next_session'
          /\ \A j, k \in SessionSlot : sessions'[j].id = sessions'[k].id => j = k \/ sessions'[j].id = 0
      BY <1>3, <1>5, <1>8, <2>1, <2>2, <2>3 DEF SlotsTrue
    <2>5. \A j \in SessionSlot : sessions'[j].status = "hijack" => sessions'[j].id \in struck'
      BY <1>3, <1>5, <2>2 DEF SlotsTrue
    <2>6. ASSUME NEW j \in SessionSlot, sessions'[j].status = "valid"
          PROVE  /\ sessions'[j].id # 0
                 /\ sessions'[j].token = sessions'[j].id
                 /\ sessions'[j].pid = owners'[sessions'[j].id]
                 /\ sessions'[j].id \notin struck'
                 /\ sessions'[j].attempts <= 2
      <3>1. CASE j = i
        BY <1>3, <1>5, <1>7, <2>1, <2>2, <3>1
      <3>2. CASE j # i
        <4>1. sessions'[j] = sessions[j]
          BY <1>5, <3>2
        <4>2. sessions[j].id \in 1 .. next_session - 1
          BY <1>8, <2>1, <2>3, <2>6, <4>1 DEF SlotsTrue
        <4> QED BY <1>3, <1>6, <2>6, <4>1, <4>2 DEF SlotsTrue
      <3> QED BY <3>1, <3>2
    <2> QED BY <2>4, <2>5, <2>6 DEF SlotsTrue
  <1>10. GrantTrue'
    BY <1>3, <1>6 DEF GrantTrue, SessionTypeOK, NoGrant
  <1> QED BY <1>4, <1>9, <1>10

(* A wrong attempt at the session of slot i. *)
LEMMA StrikeInv ==
    ASSUME SessionInv, NEW i \in SessionSlot, sessions[i].status = "valid",
           NEW lock \in BOOLEAN, lock \/ sessions[i].attempts + 1 < 3, Strike(i, lock)
    PROVE  SessionInv'
  <1> USE DEF SessionInv
  <1> DEFINE outcome == IF lock THEN "hijack" ELSE "valid"
             n == sessions[i].attempts + 1
             s == [sessions[i] EXCEPT !.attempts = n, !.status = outcome]
  <1>0. /\ sessions[i] \in SlotRecord
        /\ outcome \in {"valid", "expired", "revoked", "locked", "hijack"}
        /\ sessions' = [sessions EXCEPT ![i].attempts = n, ![i].status = outcome]
        /\ lock => outcome = "hijack"
        /\ ~lock => outcome = "valid"
    BY DEF SessionTypeOK, Strike
  <1>a. n \in Nat /\ n = sessions[i].attempts + 1
    BY <1>0 DEF SlotRecord
  <1> HIDE DEF outcome, n
  <1>1. s \in SlotRecord /\ s.id = sessions[i].id /\ s.token = sessions[i].token
        /\ s.pid = sessions[i].pid /\ s.attempts = n
        /\ s.status = outcome
    BY <1>0, <1>a DEF SlotRecord
  <1>2. \A j \in SessionSlot : sessions'[j] = IF j = i THEN s ELSE sessions[j]
    BY <1>0 DEF SessionTypeOK
  <1>3. /\ next_session' = next_session /\ owners' = owners /\ granted' = NoGrant
        /\ struck' = IF lock THEN struck \cup {sessions[i].id} ELSE struck
    BY DEF Strike
  <1>4. sessions[i].id \in 1 .. next_session - 1 /\ sessions[i].attempts \in Nat
    BY DEF SlotsTrue, SessionTypeOK, SlotRecord
  <1>5. sessions' \in [SessionSlot -> SlotRecord]
    BY <1>0, <1>1 DEF SessionTypeOK
  <1> HIDE DEF s
  <1>6. SessionTypeOK'
    BY <1>3, <1>4, <1>5, SessionAssumption DEF SessionTypeOK, NoGrant
  <1>7. SlotsTrue'
    <2>1. \A j \in SessionSlot : sessions[j].id = sessions[i].id => j = i
      BY <1>4 DEF SlotsTrue
    <2>2. /\ \A j \in SessionSlot : sessions'[j].id = sessions[j].id
          /\ \A j \in SessionSlot : j # i => sessions'[j] = sessions[j] /\ sessions[j].id # sessions[i].id
          /\ sessions'[i].status = outcome /\ sessions'[i].pid = sessions[i].pid
          /\ sessions'[i].token = sessions[i].token
          /\ sessions'[i].attempts = sessions[i].attempts + 1
      BY <1>1, <1>2, <1>a, <2>1
    <2>3. CASE lock
      <3>1. outcome = "hijack" /\ struck' = struck \cup {sessions[i].id}
        BY <1>0, <1>3, <2>3
      <3> QED BY <1>3, <1>4, <2>2, <3>1 DEF SlotsTrue
    <2>4. CASE ~lock
      <3>1. outcome = "valid" /\ struck' = struck /\ sessions[i].attempts + 1 < 3
        BY <1>0, <1>3, <2>4
      <3> QED BY <1>3, <1>4, <2>2, <3>1 DEF SlotsTrue
    <2> QED BY <2>3, <2>4
  <1>8. GrantTrue'
    BY <1>3 DEF GrantTrue, NoGrant
  <1> QED BY <1>6, <1>7, <1>8

(* A use of a session, authorised or not. *)
LEMMA ValidateInv ==
    ASSUME SessionInv, NEW id \in 1 .. next_session - 1, NEW token \in Nat, NEW pid \in Pid,
           session_validate(id, token, pid)
    PROVE  SessionInv'
  <1> PICK i \in SessionSlot :
          /\ sessions[i].id = id /\ sessions[i].status = "valid"
          /\ \/ token # sessions[i].token /\ Strike(i, sessions[i].attempts + 1 >= 3)
             \/ /\ token = sessions[i].token
                /\ sessions[i].pid \notin {pid, Kernel}
                /\ Strike(i, TRUE)
             \/ /\ token = sessions[i].token
                /\ sessions[i].pid \in {pid, Kernel}
                /\ granted' = [id |-> id, pid |-> pid, token |-> token]
                /\ UNCHANGED <<sessions, next_session, blocked, owners, struck>>
    BY DEF session_validate
  <1>1. CASE token # sessions[i].token /\ Strike(i, sessions[i].attempts + 1 >= 3)
    <2>1. sessions[i].attempts \in Nat
      BY DEF SessionInv, SessionTypeOK, SlotRecord
    <2>3. CASE sessions[i].attempts + 1 >= 3
      <3>1. Strike(i, TRUE)
        BY <1>1, <2>3
      <3> QED BY <3>1, StrikeInv
    <2>4. CASE ~(sessions[i].attempts + 1 >= 3)
      <3>1. (sessions[i].attempts + 1 >= 3) = FALSE
        BY <2>4
      <3>2. Strike(i, FALSE)
        BY <1>1, <3>1, Zenon
      <3>3. sessions[i].attempts + 1 < 3
        BY <2>1, <2>4
      <3> QED BY <3>2, <3>3, StrikeInv
    <2> QED BY <2>3, <2>4
  <1>2. CASE Strike(i, TRUE)
    BY <1>2, StrikeInv
  <1>3. CASE /\ token = sessions[i].token
             /\ sessions[i].pid \in {pid, Kernel}
             /\ granted' = [id |-> id, pid |-> pid, token |-> token]
             /\ UNCHANGED <<sessions, next_session, blocked, owners, struck>>
    <2>1. SessionTypeOK' /\ SlotsTrue'
      BY <1>3 DEF SessionInv, SessionTypeOK, SlotsTrue
    <2>2. GrantTrue'
      BY <1>3 DEF SessionInv, SlotsTrue, GrantTrue
    <2> QED BY <2>1, <2>2 DEF SessionInv
  <1> QED BY <1>1, <1>2, <1>3

(* A session is revoked, for any of the reasons. *)
LEMMA RevokeInv ==
    ASSUME SessionInv, NEW id \in 1 .. next_session - 1,
           NEW reason \in {"expired", "revoked", "locked"}, session_revoke(id, reason)
    PROVE  SessionInv'
  <1> USE DEF SessionInv
  <1>1. PICK i \in SessionSlot :
          /\ sessions[i].id = id
          /\ sessions' = [sessions EXCEPT ![i].status = reason, ![i].token = 0]
    BY DEF session_revoke
  <1> DEFINE s == [sessions[i] EXCEPT !.status = reason, !.token = 0]
  <1>2. s \in SlotRecord /\ s.id = id /\ s.status = reason
    BY <1>1 DEF SessionTypeOK, SlotRecord
  <1>3. \A j \in SessionSlot : sessions'[j] = IF j = i THEN s ELSE sessions[j]
    BY <1>1 DEF SessionTypeOK
  <1>4. /\ next_session' = next_session /\ owners' = owners /\ granted' = NoGrant
        /\ struck' = struck \cup {id}
    BY DEF session_revoke
  <1>5. sessions' \in [SessionSlot -> SlotRecord]
    BY <1>1, <1>2 DEF SessionTypeOK
  <1> HIDE DEF s
  <1>6. SessionTypeOK'
    BY <1>4, <1>5, SessionAssumption DEF SessionTypeOK, NoGrant
  <1>7. id # 0 /\ \A j \in SessionSlot : sessions[j].id = id => j = i
    BY <1>1 DEF SlotsTrue
  <1>8. SlotsTrue'
    <2>1. /\ \A j \in SessionSlot : sessions'[j].id = sessions[j].id
          /\ \A j \in SessionSlot : j # i => sessions'[j] = sessions[j] /\ sessions[j].id # id
          /\ sessions'[i].status \notin {"valid", "hijack"}
      BY <1>1, <1>2, <1>3, <1>7
    <2> QED BY <1>4, <2>1 DEF SlotsTrue
  <1>9. GrantTrue'
    BY <1>4 DEF GrantTrue, NoGrant
  <1> QED BY <1>6, <1>8, <1>9

(* One step per operation of session.c. *)
LEMMA SessionInvHolds == SessionSpec => []SessionInv
  <1>1. SessionInv /\ [SessionNext]_sessionVars => SessionInv'
    <2> SUFFICES ASSUME SessionInv, [SessionNext]_sessionVars PROVE SessionInv'
      OBVIOUS
    <2>1. ASSUME NEW pid \in Pid, session_create(pid) PROVE SessionInv'
      BY <2>1, CreateInv
    <2>2. ASSUME NEW id \in 1 .. next_session - 1, NEW token \in 0 .. next_session - 1,
                 NEW pid \in Pid, session_validate(id, token, pid)
          PROVE  SessionInv'
      BY <2>2, ValidateInv
    <2>3. ASSUME NEW id \in 1 .. next_session - 1, NEW reason \in {"expired", "revoked", "locked"},
                 session_revoke(id, reason)
          PROVE  SessionInv'
      BY <2>3, RevokeInv
    <2>4. CASE UNCHANGED sessionVars
      BY <2>4 DEF sessionVars, SessionInv, SessionTypeOK, SlotsTrue, GrantTrue
    <2> QED BY <2>1, <2>2, <2>3, <2>4 DEF SessionNext
  <1> QED BY <1>1, SessionInitInv, PTL DEF SessionSpec

(* Whatever order sessions are made, used, struck and revoked in, and however
   often their slots are used again: a use that session_validate authorises is
   of a session that was given out with that token to that process, or to the
   kernel, and that never was struck or revoked, and no session in use is one
   that was (session.c).                                                    *)
THEOREM GrantsStayFresh == SessionSpec => []GrantsAreFresh
  <1>1. SessionInv => GrantsAreFresh
    BY DEF SessionInv, SlotsTrue, GrantTrue, GrantsAreFresh, session_guard_audit
  <1> QED BY <1>1, SessionInvHolds, PTL

-----------------------------------------------------------------------------
(* Windows. *)

WindowRecord == [id : Nat, app_tag : AppTag \cup {"none"}, is_open : BOOLEAN,
                 is_minimized : BOOLEAN, is_maximized : BOOLEAN, is_focused : BOOLEAN]

OpenWith(a) == {i \in IsOpen : g_windows[i].app_tag = a}

DwmTypeOK == /\ g_windows \in [Place -> WindowRecord]
             /\ g_window_count \in Nat
             /\ g_next_win_id \in Nat \ {0}
             /\ shown \in [AppTag -> Nat]

(* Numbers of windows, also of closed ones, were given out, each to one place. *)
WindowsNumbered ==
    /\ \A i \in Place : g_windows[i].id < g_next_win_id
    /\ \A i, j \in Place : g_windows[i].id = g_windows[j].id => i = j \/ g_windows[i].id = 0
    /\ \A i \in IsOpen : g_windows[i].id # 0 /\ g_windows[i].app_tag \in AppTag

DwmInv == /\ DwmTypeOK
          /\ WindowsNumbered
          /\ \A a \in AppTag : shown[a] = Cardinality(OpenWith(a))
          /\ g_window_count = Cardinality(IsOpen)

(* There are finitely many open windows. *)
LEMMA OpenFinite ==
    /\ IsFiniteSet(IsOpen) /\ \A a : IsFiniteSet(OpenWith(a))
    /\ Cardinality(IsOpen) \in Nat /\ \A a : Cardinality(OpenWith(a)) \in Nat
  <1>1. IsFiniteSet(Place)
    BY FS_Interval, DwmAssumption DEF Place
  <1>2. IsOpen \subseteq Place /\ \A a : OpenWith(a) \subseteq Place
    BY DEF IsOpen, OpenWith
  <1>3. IsFiniteSet(IsOpen) /\ \A a : IsFiniteSet(OpenWith(a))
    BY <1>1, <1>2, FS_Subset
  <1> QED BY <1>3, FS_CardinalityType

(* No window is open at first. *)
LEMMA DwmInitInv == DwmInit => DwmInv
  <1> SUFFICES ASSUME DwmInit PROVE DwmInv
    OBVIOUS
  <1>1. IsOpen = {} /\ \A a : OpenWith(a) = {}
    BY DEF DwmInit, IsOpen, OpenWith, NoWindow
  <1>2. DwmTypeOK
    BY DEF DwmInit, DwmTypeOK, WindowRecord, NoWindow
  <1>3. WindowsNumbered
    BY <1>1 DEF DwmInit, WindowsNumbered, NoWindow
  <1> QED BY <1>1, <1>2, <1>3, FS_EmptySet DEF DwmInit, DwmInv

(* Flags of windows that change leave the rest as it is. *)
LEMMA FlagsInv ==
    ASSUME DwmInv, g_windows' \in [Place -> WindowRecord],
           \A i \in Place : /\ g_windows'[i].id = g_windows[i].id
                            /\ g_windows'[i].app_tag = g_windows[i].app_tag
                            /\ g_windows'[i].is_open = g_windows[i].is_open,
           UNCHANGED <<g_window_count, g_next_win_id, shown>>
    PROVE  DwmInv'
  <1>1. IsOpen' = IsOpen
    BY DEF IsOpen
  <1>2. \A a : OpenWith(a)' = OpenWith(a)
    BY <1>1 DEF OpenWith, IsOpen
  <1>3. DwmTypeOK' /\ WindowsNumbered'
    BY <1>1 DEF DwmInv, DwmTypeOK, WindowsNumbered, IsOpen
  <1> QED BY <1>1, <1>2, <1>3 DEF DwmInv

(* A window is opened in a free slot with a number never used. *)
LEMMA OpenInv ==
    ASSUME DwmInv, NEW a \in AppTag, dwm_open_window(a) PROVE DwmInv'
  <1> DEFINE new == [NoWindow EXCEPT !.id = g_next_win_id, !.app_tag = a,
                                     !.is_open = TRUE, !.is_focused = TRUE]
  <1>1. PICK i \in Place \ IsOpen : g_windows' = [g_windows EXCEPT ![i] = new]
    BY DEF dwm_open_window
  <1>2. /\ new \in WindowRecord /\ new.id = g_next_win_id /\ new.app_tag = a /\ new.is_open
    BY DEF WindowRecord, NoWindow, DwmInv, DwmTypeOK
  <1> HIDE DEF new
  <1>3. /\ g_next_win_id' = g_next_win_id + 1 /\ g_window_count' = g_window_count + 1
        /\ shown' = [shown EXCEPT ![a] = @ + 1]
    BY DEF dwm_open_window
  <1>4. \A j \in Place : g_windows'[j] = IF j = i THEN new ELSE g_windows[j]
    BY <1>1 DEF DwmInv, DwmTypeOK
  <1>5. IsOpen' = IsOpen \cup {i} /\ i \notin IsOpen
    BY <1>2, <1>4 DEF IsOpen
  <1>6. OpenWith(a)' = OpenWith(a) \cup {i} /\ i \notin OpenWith(a)
    BY <1>2, <1>4, <1>5 DEF OpenWith, IsOpen
  <1>7. \A b : b # a => OpenWith(b)' = OpenWith(b)
    BY <1>2, <1>4, <1>5 DEF OpenWith, IsOpen
  <1>8. Cardinality(IsOpen)' = Cardinality(IsOpen) + 1
    BY <1>5, OpenFinite, FS_AddElement
  <1>9. Cardinality(OpenWith(a)') = Cardinality(OpenWith(a)) + 1
    BY <1>6, OpenFinite, FS_AddElement
  <1>10. DwmTypeOK'
    BY <1>1, <1>2, <1>3 DEF DwmInv, DwmTypeOK
  <1>11. WindowsNumbered'
    <2>1. \A j \in Place : g_windows[j].id \in Nat
      BY DEF DwmInv, DwmTypeOK, WindowRecord
    <2>2. IsOpen \subseteq Place /\ g_next_win_id \in Nat \ {0}
      BY DEF IsOpen, DwmInv, DwmTypeOK
    <2> QED BY <1>2, <1>3, <1>4, <1>5, <2>1, <2>2 DEF DwmInv, WindowsNumbered
  <1>12. \A b \in AppTag : shown'[b] = Cardinality(OpenWith(b)')
    BY <1>3, <1>7, <1>9 DEF DwmInv, DwmTypeOK
  <1> QED BY <1>3, <1>8, <1>10, <1>11, <1>12 DEF DwmInv

(* A window is closed. *)
LEMMA CloseInv ==
    ASSUME DwmInv, NEW id \in Nat, dwm_close_window(id) PROVE DwmInv'
  <1>1. PICK i \in IsOpen : /\ g_windows' = [g_windows EXCEPT ![i].is_open = FALSE]
                            /\ shown' = [shown EXCEPT ![g_windows[i].app_tag] = @ - 1]
    BY DEF dwm_close_window
  <1>2. g_next_win_id' = g_next_win_id /\ g_window_count' = g_window_count - 1
    BY DEF dwm_close_window
  <1> DEFINE a == g_windows[i].app_tag
             old == [g_windows[i] EXCEPT !.is_open = FALSE]
  <1>3. i \in Place /\ a \in AppTag
    BY DEF IsOpen, DwmInv, WindowsNumbered
  <1>4. old \in WindowRecord /\ old.id = g_windows[i].id /\ old.app_tag = a /\ old.is_open = FALSE
    BY <1>3 DEF DwmInv, DwmTypeOK, WindowRecord
  <1>5. \A j \in Place : g_windows'[j] = IF j = i THEN old ELSE g_windows[j]
    BY <1>1, <1>3 DEF DwmInv, DwmTypeOK
  <1>a. g_windows' \in [Place -> WindowRecord]
    BY <1>1, <1>3, <1>4 DEF DwmInv, DwmTypeOK
  <1> HIDE DEF old
  <1>6. IsOpen' = IsOpen \ {i}
    BY <1>4, <1>5 DEF IsOpen
  <1>7. OpenWith(a)' = OpenWith(a) \ {i} /\ i \in OpenWith(a)
    BY <1>4, <1>5, <1>6 DEF OpenWith, IsOpen
  <1>8. \A b : b # a => OpenWith(b)' = OpenWith(b)
    BY <1>4, <1>5, <1>6 DEF OpenWith, IsOpen
  <1>9. Cardinality(IsOpen') = Cardinality(IsOpen) - 1
    BY <1>6, OpenFinite, FS_RemoveElement
  <1>10. Cardinality(OpenWith(a)') = Cardinality(OpenWith(a)) - 1
    BY <1>7, OpenFinite, FS_RemoveElement, ZenonT(30)
  <1>11. Cardinality(IsOpen') \in Nat /\ Cardinality(OpenWith(a)') \in Nat
    BY <1>6, <1>7, OpenFinite, FS_RemoveElement, FS_CardinalityType
  <1>12. \A b \in AppTag : shown'[b] = Cardinality(OpenWith(b)')
    BY <1>1, <1>3, <1>8, <1>10 DEF DwmInv, DwmTypeOK
  <1>13. DwmTypeOK'
    <2>1. shown[a] - 1 \in Nat
      BY <1>3, <1>10, <1>11 DEF DwmInv
    <2>2. shown' \in [AppTag -> Nat]
      BY <1>1, <1>3, <2>1 DEF DwmInv, DwmTypeOK
    <2>3. g_window_count' \in Nat
      BY <1>2, <1>9, <1>11 DEF DwmInv
    <2> QED BY <1>a, <1>2, <2>2, <2>3 DEF DwmInv, DwmTypeOK
  <1>14. WindowsNumbered'
    BY <1>2, <1>4, <1>5, <1>6 DEF DwmInv, WindowsNumbered, IsOpen
  <1> QED BY <1>2, <1>9, <1>12, <1>13, <1>14 DEF DwmInv

(* A window is hidden, shown or moved. *)
LEMMA ReshapeInv ==
    ASSUME DwmInv, NEW id \in Nat, NEW minimized \in BOOLEAN, Reshape(id, minimized) PROVE DwmInv'
  <1>1. ASSUME NEW i \in Place
        PROVE  /\ g_windows'[i] \in WindowRecord
               /\ g_windows'[i].id = g_windows[i].id
               /\ g_windows'[i].app_tag = g_windows[i].app_tag
               /\ g_windows'[i].is_open = g_windows[i].is_open
    <2> DEFINE max == g_windows[i].is_maximized \/ ~minimized
               new == [g_windows[i] EXCEPT !.is_minimized = minimized, !.is_maximized = max]
    <2>1. g_windows[i] \in WindowRecord /\ max \in BOOLEAN
      BY DEF DwmInv, DwmTypeOK
    <2>2. g_windows'[i] = IF g_windows[i].id # id THEN g_windows[i] ELSE new
      BY DEF Reshape
    <2> HIDE DEF max
    <2>3. /\ new \in WindowRecord /\ new.id = g_windows[i].id
          /\ new.app_tag = g_windows[i].app_tag /\ new.is_open = g_windows[i].is_open
      BY <2>1 DEF WindowRecord
    <2> HIDE DEF new
    <2> QED BY <2>1, <2>2, <2>3
  <1>2. g_windows' \in [Place -> WindowRecord]
    BY <1>1 DEF Reshape
  <1> QED BY <1>1, <1>2, FlagsInv DEF Reshape

(* A window gets the focus, and the others lose it. *)
LEMMA FocusInv ==
    ASSUME DwmInv, NEW id \in Nat, dwm_focus_window(id) PROVE DwmInv'
  <1>1. ASSUME NEW i \in Place
        PROVE  /\ g_windows'[i] \in WindowRecord
               /\ g_windows'[i].id = g_windows[i].id
               /\ g_windows'[i].app_tag = g_windows[i].app_tag
               /\ g_windows'[i].is_open = g_windows[i].is_open
    <2> DEFINE focused == g_windows[i].id = id
               new == [g_windows[i] EXCEPT !.is_focused = focused]
    <2>1. g_windows[i] \in WindowRecord /\ focused \in BOOLEAN
      BY DEF DwmInv, DwmTypeOK
    <2>2. g_windows'[i] = new
      BY DEF dwm_focus_window
    <2> HIDE DEF focused
    <2>3. /\ new \in WindowRecord /\ new.id = g_windows[i].id
          /\ new.app_tag = g_windows[i].app_tag /\ new.is_open = g_windows[i].is_open
      BY <2>1 DEF WindowRecord
    <2> QED BY <2>2, <2>3
  <1>2. g_windows' \in [Place -> WindowRecord]
    BY <1>1 DEF dwm_focus_window
  <1> QED BY <1>1, <1>2, FlagsInv DEF dwm_focus_window

(* One step per operation of dwm_proxy.c. *)
LEMMA DwmInvHolds == DwmSpec => []DwmInv
  <1>1. DwmInv /\ [DwmNext]_dwmVars => DwmInv'
    <2> SUFFICES ASSUME DwmInv, [DwmNext]_dwmVars PROVE DwmInv'
      OBVIOUS
    <2>1. ASSUME NEW a \in AppTag, dwm_open_window(a) PROVE DwmInv'
      BY <2>1, OpenInv
    <2>2. ASSUME NEW a \in AppTag, dwm_handle_close_command(a) PROVE DwmInv'
      <3>1. PICK i \in IsOpen : dwm_close_window(g_windows[i].id)
        BY <2>2 DEF dwm_handle_close_command
      <3>2. g_windows[i].id \in Nat
        BY DEF DwmInv, DwmTypeOK, WindowRecord, IsOpen
      <3> QED BY <3>1, <3>2, CloseInv
    <2>3. ASSUME NEW id \in 1 .. g_next_win_id - 1,
                 \/ dwm_close_window(id) \/ dwm_minimize_window(id)
                 \/ dwm_maximize_window(id) \/ dwm_focus_window(id)
          PROVE  DwmInv'
      <3>1. id \in Nat
        OBVIOUS
      <3> QED BY <2>3, <3>1, CloseInv, ReshapeInv, FocusInv DEF dwm_minimize_window, dwm_maximize_window
    <2>4. CASE UNCHANGED dwmVars
      BY <2>4, FlagsInv DEF dwmVars, DwmInv, DwmTypeOK
    <2> QED BY <2>1, <2>2, <2>3, <2>4 DEF DwmNext
  <1> QED BY <1>1, DwmInitInv, PTL DEF DwmSpec

(* The windows that the shell was told to show are, by application, the open
   ones that dwm_proxy.c keeps, their count is the one it keeps, and no two
   open windows have one number, whatever is opened, closed, shown and hidden. *)
THEOREM ShellKnowsWindows == DwmSpec => []DwmAgrees
  <1>1. DwmInv => DwmAgrees
    BY DEF DwmInv, WindowsNumbered, DwmAgrees, OpenWith, IsOpen
  <1> QED BY <1>1, DwmInvHolds, PTL

-----------------------------------------------------------------------------
(* Rules of the firewall. *)

RuleRecord == [id : Nat, enabled : BOOLEAN, matches : SUBSET Packet,
               action : {"allow", "drop"}, matched : Nat]

Enabled == {i \in RuleSlot : rules[i].enabled}

FirewallTypeOK ==
    /\ rules \in [RuleSlot -> RuleRecord]
    /\ next_rule_id \in Nat
    /\ {total_inspected, total_allowed, total_blocked, active_rules_count, retired} \subseteq Nat

(* Enabled rules have numbers given out, each its own. *)
RulesNumbered ==
    \A i, j \in Enabled : /\ rules[i].id < next_rule_id
                          /\ rules[i].id = rules[j].id => i = j

FirewallInv == FirewallTypeOK /\ RulesNumbered /\ FirewallAccounts

(* How many numbers there are up to n. *)
LEMMA UpTo == ASSUME NEW n \in Nat PROVE IsFiniteSet(1 .. n) /\ Cardinality(1 .. n) = n
  BY FS_Interval

(* The matches of one rule, of a number of them. *)
LEMMA MatchesOfOne ==
    ASSUME NEW i, NEW n \in Nat
    PROVE  IsFiniteSet({i} \X (1 .. n)) /\ Cardinality({i} \X (1 .. n)) = n
  <1>1. IsFiniteSet({i}) /\ Cardinality({i}) = 1
    BY FS_Singleton
  <1>2. IsFiniteSet(1 .. n) /\ Cardinality(1 .. n) = n
    BY UpTo
  <1>3. IsFiniteSet({i} \X (1 .. n)) /\ Cardinality({i} \X (1 .. n)) = Cardinality({i}) * Cardinality(1 .. n)
    BY <1>1, <1>2, FS_Product
  <1> QED BY <1>1, <1>2, <1>3

(* There are finitely many rules. *)
LEMMA RulesFinite ==
    ASSUME FirewallTypeOK
    PROVE  /\ IsFiniteSet(RuleSlot) /\ IsFiniteSet(Enabled) /\ Cardinality(Enabled) \in Nat
           /\ IsFiniteSet(MatchesShown) /\ Cardinality(MatchesShown) \in Nat
  <1>1. IsFiniteSet(RuleSlot)
    BY UpTo, FirewallAssumption DEF RuleSlot
  <1>2. IsFiniteSet(Enabled)
    BY <1>1, FS_Subset DEF Enabled
  <1> DEFINE Of(i) == {i} \X (1 .. rules[i].matched)
             F == [i \in RuleSlot |-> Of(i)]
  <1>3. \A i \in RuleSlot : IsFiniteSet(Of(i))
    <2> TAKE i \in RuleSlot
    <2>1. rules[i].matched \in Nat
      BY DEF FirewallTypeOK, RuleRecord
    <2> QED BY <2>1, MatchesOfOne
  <1>4. F \in Surjection(RuleSlot, {Of(i) : i \in RuleSlot})
    BY DEF Surjection
  <1>5. IsFiniteSet({Of(i) : i \in RuleSlot})
    BY <1>1, <1>4, FS_Surjection
  <1>6. IsFiniteSet(MatchesShown)
    BY <1>3, <1>5, FS_UNION DEF MatchesShown
  <1> QED BY <1>1, <1>2, <1>6, FS_CardinalityType

(* firewall_init makes the default rules. *)
LEMMA FirewallInitInv == firewall_init => FirewallInv
  <1> SUFFICES ASSUME firewall_init PROVE FirewallInv
    OBVIOUS
  <1>0. Len(Standard) = 3 /\ 3 <= MaxRules /\ MaxRules \in Nat
    BY FirewallAssumption DEF Standard
  <1>1. \A i \in 1 .. 3 : Standard[i].matches \in SUBSET Packet /\ Standard[i].action \in {"allow", "drop"}
    <2>1. Standard[1].matches = {"loopback in", "loopback out"} /\ Standard[1].action = "allow"
      BY DEF Standard
    <2>2. Standard[2].matches = {"web"} /\ Standard[2].action = "allow"
      BY DEF Standard
    <2>3. Standard[3].matches = {"smb"} /\ Standard[3].action = "drop"
      BY DEF Standard
    <2>4. \A i \in 1 .. 3 : i = 1 \/ i = 2 \/ i = 3
      OBVIOUS
    <2> QED BY <2>1, <2>2, <2>3, <2>4 DEF Packet, Inbound, Outbound
  <1>2. ASSUME NEW i \in RuleSlot
        PROVE  /\ rules[i] \in RuleRecord /\ rules[i].matched = 0
               /\ rules[i].enabled <=> i \in 1 .. 3
               /\ i \in 1 .. 3 => rules[i].id = i
    <2>1. rules[i] = IF i > 3 THEN NoRule
                     ELSE [id |-> i, enabled |-> TRUE, matches |-> Standard[i].matches,
                           action |-> Standard[i].action, matched |-> 0]
      BY <1>0 DEF firewall_init
    <2>2. i \in Nat /\ i >= 1
      BY DEF RuleSlot
    <2>3. CASE i > 3
      BY <2>1, <2>2, <2>3 DEF NoRule, RuleRecord
    <2>4. CASE i <= 3
      BY <1>1, <2>1, <2>2, <2>4 DEF RuleRecord
    <2> QED BY <2>2, <2>3, <2>4
  <1>3. Enabled = 1 .. 3
    BY <1>0, <1>2 DEF Enabled, RuleSlot
  <1>4. Cardinality(Enabled) = 3
    BY <1>3, UpTo, 3 \in Nat
  <1>5. MatchesShown = {}
    BY <1>2 DEF MatchesShown
  <1>6. FirewallTypeOK
    BY <1>0, <1>2 DEF firewall_init, FirewallTypeOK
  <1>7. RulesNumbered
    BY <1>0, <1>2, <1>3 DEF firewall_init, RulesNumbered, RuleSlot
  <1>8. FirewallAccounts
    BY <1>0, <1>2, <1>3, <1>4, <1>5, <1>7, FS_EmptySet
       DEF firewall_init, FirewallAccounts, Enabled, RulesNumbered
  <1> QED BY <1>6, <1>7, <1>8 DEF FirewallInv

(* What a step that puts the record r into slot i does to the counts. *)
LEMMA SlotChanges ==
    ASSUME FirewallInv, NEW i \in RuleSlot, NEW r \in RuleRecord,
           rules' = [rules EXCEPT ![i] = r]
    PROVE  /\ rules' \in [RuleSlot -> RuleRecord]
           /\ \A j \in RuleSlot : rules'[j] = IF j = i THEN r ELSE rules[j]
           /\ Cardinality(Enabled') = Cardinality(Enabled) + (IF r.enabled THEN 1 ELSE 0)
                                                          - (IF rules[i].enabled THEN 1 ELSE 0)
           /\ Cardinality(MatchesShown') = Cardinality(MatchesShown) + r.matched - rules[i].matched
  <1>1. rules' \in [RuleSlot -> RuleRecord] /\ rules[i] \in RuleRecord
    BY DEF FirewallInv, FirewallTypeOK
  <1>2. \A j \in RuleSlot : rules'[j] = IF j = i THEN r ELSE rules[j]
    BY DEF FirewallInv, FirewallTypeOK
  <1>3. /\ IsFiniteSet(Enabled) /\ Cardinality(Enabled) \in Nat
        /\ IsFiniteSet(MatchesShown) /\ Cardinality(MatchesShown) \in Nat
    BY RulesFinite DEF FirewallInv
  <1>4. Cardinality(Enabled') = Cardinality(Enabled) + (IF r.enabled THEN 1 ELSE 0)
                                                     - (IF rules[i].enabled THEN 1 ELSE 0)
    <2>1. CASE r.enabled
      <3>1. Enabled' = Enabled \cup {i}
        BY <1>2, <2>1 DEF Enabled
      <3>2. (i \in Enabled) <=> rules[i].enabled
        BY DEF Enabled
      <3>3. Cardinality(Enabled \cup {i}) = IF i \in Enabled THEN Cardinality(Enabled) ELSE Cardinality(Enabled) + 1
        BY <1>3, FS_AddElement
      <3>4. CASE rules[i].enabled
        BY <1>3, <2>1, <3>1, <3>2, <3>3, <3>4
      <3>5. CASE ~rules[i].enabled
        BY <1>3, <2>1, <3>1, <3>2, <3>3, <3>5
      <3> QED BY <3>4, <3>5
    <2>2. CASE ~r.enabled
      <3>1. Enabled' = Enabled \ {i}
        BY <1>2, <2>2 DEF Enabled
      <3>2. (i \in Enabled) <=> rules[i].enabled
        BY DEF Enabled
      <3>3. Cardinality(Enabled \ {i}) = IF i \in Enabled THEN Cardinality(Enabled) - 1 ELSE Cardinality(Enabled)
        BY <1>3, FS_RemoveElement
      <3>4. CASE rules[i].enabled
        BY <1>3, <2>2, <3>1, <3>2, <3>3, <3>4
      <3>5. CASE ~rules[i].enabled
        BY <1>3, <2>2, <3>1, <3>2, <3>3, <3>5
      <3> QED BY <3>4, <3>5
    <2> QED BY <2>1, <2>2
  <1> DEFINE old == {i} \X (1 .. rules[i].matched)
             new == {i} \X (1 .. r.matched)
             rest == MatchesShown \ old
  <1>5. /\ IsFiniteSet(old) /\ Cardinality(old) = rules[i].matched
        /\ IsFiniteSet(new) /\ Cardinality(new) = r.matched
        /\ r.matched \in Nat /\ rules[i].matched \in Nat
    <2>1. r.matched \in Nat /\ rules[i].matched \in Nat
      BY <1>1 DEF RuleRecord
    <2> QED BY <2>1, MatchesOfOne
  <1>6. old \subseteq MatchesShown
    BY DEF MatchesShown
  <1>7. rest \cap new = {} /\ MatchesShown' = rest \cup new
    BY <1>2 DEF MatchesShown
  <1>8. IsFiniteSet(rest) /\ Cardinality(rest) = Cardinality(MatchesShown) - rules[i].matched
    <2>1. MatchesShown \cap old = old
      BY <1>6
    <2> HIDE DEF old
    <2>2. IsFiniteSet(MatchesShown \ old)
          /\ Cardinality(MatchesShown \ old) = Cardinality(MatchesShown) - Cardinality(MatchesShown \cap old)
      BY <1>3, FS_Difference
    <2> QED BY <1>5, <2>1, <2>2
  <1>9. Cardinality(rest \cup new) = Cardinality(rest) + Cardinality(new) - Cardinality(rest \cap new)
    BY <1>5, <1>8, FS_Union
  <1>10. Cardinality(rest) \in Nat /\ Cardinality(rest \cap new) = 0
    BY <1>7, <1>8, FS_CardinalityType, FS_EmptySet
  <1>11. Cardinality(MatchesShown') = Cardinality(MatchesShown) + r.matched - rules[i].matched
    <2> HIDE DEF old, new, rest
    <2> QED BY <1>3, <1>5, <1>7, <1>8, <1>9, <1>10
  <1> QED BY <1>1, <1>2, <1>4, <1>11

(* A rule is added in a slot that is not enabled. *)
LEMMA AddRuleInv ==
    ASSUME FirewallInv, NEW matches \in SUBSET Packet, NEW action \in {"allow", "drop"},
           firewall_add_rule(matches, action)
    PROVE  FirewallInv'
  <1> DEFINE r == [id |-> next_rule_id, enabled |-> TRUE, matches |-> matches,
                   action |-> action, matched |-> 0]
  <1>1. PICK i \in RuleSlot : /\ ~rules[i].enabled
                             /\ rules' = [rules EXCEPT ![i] = r]
                             /\ retired' = retired + rules[i].matched
    BY DEF firewall_add_rule
  <1>2. /\ next_rule_id' = next_rule_id + 1 /\ active_rules_count' = active_rules_count + 1
        /\ total_inspected' = total_inspected /\ total_allowed' = total_allowed
        /\ total_blocked' = total_blocked
    BY DEF firewall_add_rule, firewallStats
  <1>3. r \in RuleRecord /\ r.id = next_rule_id /\ r.enabled /\ r.matched = 0
    BY DEF RuleRecord, FirewallInv, FirewallTypeOK
  <1> HIDE DEF r
  <1>4. /\ rules' \in [RuleSlot -> RuleRecord]
        /\ \A j \in RuleSlot : rules'[j] = IF j = i THEN r ELSE rules[j]
        /\ Cardinality(Enabled') = Cardinality(Enabled) + 1 - 0
        /\ Cardinality(MatchesShown') = Cardinality(MatchesShown) + 0 - rules[i].matched
    BY <1>1, <1>3, SlotChanges
  <1>5. /\ rules[i].matched \in Nat /\ next_rule_id \in Nat /\ retired \in Nat
        /\ active_rules_count \in Nat /\ total_inspected \in Nat
        /\ Cardinality(Enabled) \in Nat /\ Cardinality(MatchesShown) \in Nat
        /\ \A j \in RuleSlot : rules[j].id \in Nat
    BY RulesFinite DEF FirewallInv, FirewallTypeOK, RuleRecord
  <1>6. FirewallTypeOK'
    BY <1>1, <1>2, <1>4, <1>5 DEF FirewallInv, FirewallTypeOK
  <1>7. RulesNumbered'
    BY <1>2, <1>3, <1>4, <1>5 DEF FirewallInv, RulesNumbered, Enabled
  <1>8. FirewallAccounts'
    <2>1. /\ total_inspected = total_allowed + total_blocked
          /\ retired + Cardinality(MatchesShown) <= total_inspected
          /\ active_rules_count = Cardinality(Enabled)
      BY DEF FirewallInv, FirewallAccounts, Enabled
    <2>2. /\ total_inspected' = total_allowed' + total_blocked'
          /\ retired' + Cardinality(MatchesShown') <= total_inspected'
          /\ active_rules_count' = Cardinality(Enabled')
      BY <1>1, <1>2, <1>4, <1>5, <2>1
    <2>3. \A j, k \in Enabled' : rules'[j].id = rules'[k].id => j = k
      BY <1>7 DEF RulesNumbered
    <2> QED BY <2>2, <2>3 DEF FirewallAccounts, Enabled
  <1> QED BY <1>6, <1>7, <1>8 DEF FirewallInv

(* A step that leaves the numbers and the matches of the rules alone. *)
LEMMA DeleteRuleInv ==
    ASSUME FirewallInv, NEW id \in Nat, firewall_delete_rule(id) PROVE FirewallInv'
  <1>1. PICK i \in RuleSlot : /\ rules[i].enabled
                             /\ rules' = [rules EXCEPT ![i].enabled = FALSE, ![i].id = 0]
    BY DEF firewall_delete_rule
  <1> DEFINE r == [rules[i] EXCEPT !.enabled = FALSE, !.id = 0]
  <1>2. /\ next_rule_id' = next_rule_id /\ retired' = retired
        /\ active_rules_count' = IF active_rules_count > 0 THEN active_rules_count - 1 ELSE 0
        /\ total_inspected' = total_inspected /\ total_allowed' = total_allowed
        /\ total_blocked' = total_blocked
    BY DEF firewall_delete_rule, firewallStats
  <1>3. r \in RuleRecord /\ ~r.enabled /\ r.matched = rules[i].matched
    BY DEF RuleRecord, FirewallInv, FirewallTypeOK
  <1>4. rules' = [rules EXCEPT ![i] = r]
    BY <1>1 DEF FirewallInv, FirewallTypeOK
  <1> HIDE DEF r
  <1>5. /\ rules' \in [RuleSlot -> RuleRecord]
        /\ \A j \in RuleSlot : rules'[j] = IF j = i THEN r ELSE rules[j]
        /\ Cardinality(Enabled') = Cardinality(Enabled) + (IF r.enabled THEN 1 ELSE 0)
                                                       - (IF rules[i].enabled THEN 1 ELSE 0)
        /\ Cardinality(MatchesShown') = Cardinality(MatchesShown) + r.matched - rules[i].matched
    BY <1>3, <1>4, SlotChanges
  <1>6. /\ rules[i].matched \in Nat /\ active_rules_count \in Nat
        /\ Cardinality(Enabled) \in Nat /\ Cardinality(MatchesShown) \in Nat
        /\ IsFiniteSet(Enabled)
    BY RulesFinite DEF FirewallInv, FirewallTypeOK, RuleRecord
  <1>7. active_rules_count = Cardinality(Enabled) /\ Cardinality(Enabled) # 0
    <2>1. i \in Enabled
      BY <1>1 DEF Enabled
    <2> QED BY <1>6, <2>1, FS_EmptySet DEF FirewallInv, FirewallAccounts, Enabled
  <1>8. /\ Cardinality(Enabled') = Cardinality(Enabled) - 1
        /\ Cardinality(MatchesShown') = Cardinality(MatchesShown)
    BY <1>1, <1>3, <1>5, <1>6
  <1>9. active_rules_count' = active_rules_count - 1 /\ active_rules_count' \in Nat
    BY <1>2, <1>6, <1>7
  <1>10. FirewallTypeOK'
    BY <1>2, <1>5, <1>9 DEF FirewallInv, FirewallTypeOK
  <1>11. RulesNumbered'
    BY <1>2, <1>3, <1>5 DEF FirewallInv, RulesNumbered, Enabled
  <1>12. FirewallAccounts'
    BY <1>2, <1>7, <1>8, <1>9, <1>11 DEF FirewallInv, FirewallAccounts, RulesNumbered, Enabled
  <1> QED BY <1>10, <1>11, <1>12 DEF FirewallInv

(* A press changes the action of a rule and nothing that is counted. *)
LEMMA PressInv ==
    ASSUME FirewallInv, on_firewall_mouse PROVE FirewallInv'
  <1>1. PICK i \in RuleSlot :
          rules' = [rules EXCEPT ![i].action = IF @ = "allow" THEN "drop" ELSE "allow"]
    BY DEF on_firewall_mouse
  <1> DEFINE action == IF rules[i].action = "allow" THEN "drop" ELSE "allow"
             r == [rules[i] EXCEPT !.action = action]
  <1>2. action \in {"allow", "drop"} /\ rules' = [rules EXCEPT ![i] = r]
    BY <1>1
  <1> HIDE DEF action
  <1>3. /\ r \in RuleRecord /\ r.enabled = rules[i].enabled /\ r.matched = rules[i].matched
        /\ r.id = rules[i].id
    BY <1>2 DEF RuleRecord, FirewallInv, FirewallTypeOK
  <1> HIDE DEF r
  <1>4. UNCHANGED <<next_rule_id, total_inspected, total_allowed, total_blocked,
                    active_rules_count, retired>>
    BY DEF on_firewall_mouse, firewallStats
  <1>5. /\ rules' \in [RuleSlot -> RuleRecord]
        /\ \A j \in RuleSlot : rules'[j] = IF j = i THEN r ELSE rules[j]
        /\ Cardinality(Enabled') = Cardinality(Enabled) + (IF r.enabled THEN 1 ELSE 0)
                                                       - (IF rules[i].enabled THEN 1 ELSE 0)
        /\ Cardinality(MatchesShown') = Cardinality(MatchesShown) + r.matched - rules[i].matched
    BY <1>2, <1>3, SlotChanges
  <1>6. /\ rules[i].matched \in Nat
        /\ Cardinality(Enabled) \in Nat /\ Cardinality(MatchesShown) \in Nat
    BY RulesFinite DEF FirewallInv, FirewallTypeOK, RuleRecord
  <1>7. /\ Cardinality(Enabled') = Cardinality(Enabled)
        /\ Cardinality(MatchesShown') = Cardinality(MatchesShown)
    BY <1>3, <1>5, <1>6
  <1>8. FirewallTypeOK' /\ RulesNumbered'
    BY <1>3, <1>4, <1>5 DEF FirewallInv, FirewallTypeOK, RulesNumbered, Enabled
  <1>9. FirewallAccounts'
    BY <1>4, <1>7, <1>8 DEF FirewallInv, FirewallAccounts, RulesNumbered, Enabled
  <1> QED BY <1>8, <1>9 DEF FirewallInv

(* A packet is matched by one rule, or by none. *)
LEMMA FilterInv ==
    ASSUME FirewallInv, NEW p \in Packet, firewall_filter_packet(p) PROVE FirewallInv'
  <1>1. UNCHANGED <<next_rule_id, active_rules_count, retired>>
    BY DEF firewall_filter_packet
  <1>2. /\ total_inspected' = total_inspected + 1
        /\ total_inspected' = total_allowed' + total_blocked'
        /\ {total_inspected', total_allowed', total_blocked'} \subseteq Nat
    <2>1. PICK allowed : Verdict(allowed)
      BY DEF firewall_filter_packet
    <2>2. CASE allowed
      BY <2>1, <2>2 DEF Verdict, FirewallInv, FirewallTypeOK, FirewallAccounts
    <2>3. CASE ~allowed
      BY <2>1, <2>3 DEF Verdict, FirewallInv, FirewallTypeOK, FirewallAccounts
    <2> QED BY <2>2, <2>3
  <1>3. CASE UNCHANGED rules
    <2>1. Enabled' = Enabled /\ MatchesShown' = MatchesShown
      BY <1>3 DEF Enabled, MatchesShown
    <2>2. Cardinality(MatchesShown) \in Nat /\ retired \in Nat /\ total_inspected \in Nat
      BY RulesFinite DEF FirewallInv, FirewallTypeOK
    <2>3. FirewallTypeOK' /\ RulesNumbered'
      BY <1>1, <1>2, <1>3, <2>1 DEF FirewallInv, FirewallTypeOK, RulesNumbered
    <2>4. FirewallAccounts'
      BY <1>1, <1>2, <1>3, <2>1, <2>2, <2>3 DEF FirewallInv, FirewallAccounts, RulesNumbered, Enabled
    <2> QED BY <2>3, <2>4 DEF FirewallInv
  <1>4. ASSUME NEW i \in RuleSlot, rules' = [rules EXCEPT ![i].matched = @ + 1]
        PROVE  FirewallInv'
    <2> DEFINE n == rules[i].matched + 1
               r == [rules[i] EXCEPT !.matched = n]
    <2>1. rules' = [rules EXCEPT ![i] = r] /\ rules[i].matched \in Nat /\ n \in Nat
      BY <1>4 DEF FirewallInv, FirewallTypeOK, RuleRecord
    <2>2. n = rules[i].matched + 1
      OBVIOUS
    <2> HIDE DEF n
    <2>3. /\ r \in RuleRecord /\ r.enabled = rules[i].enabled /\ r.matched = n
          /\ r.id = rules[i].id
      BY <2>1 DEF RuleRecord, FirewallInv, FirewallTypeOK
    <2> HIDE DEF r
    <2>4. /\ rules' \in [RuleSlot -> RuleRecord]
          /\ \A j \in RuleSlot : rules'[j] = IF j = i THEN r ELSE rules[j]
          /\ Cardinality(Enabled') = Cardinality(Enabled) + (IF r.enabled THEN 1 ELSE 0)
                                                         - (IF rules[i].enabled THEN 1 ELSE 0)
          /\ Cardinality(MatchesShown') = Cardinality(MatchesShown) + r.matched - rules[i].matched
      BY <2>1, <2>3, SlotChanges
    <2>5. /\ retired \in Nat /\ total_inspected \in Nat
          /\ Cardinality(Enabled) \in Nat /\ Cardinality(MatchesShown) \in Nat
      BY RulesFinite DEF FirewallInv, FirewallTypeOK
    <2>6. /\ Cardinality(Enabled') = Cardinality(Enabled)
          /\ Cardinality(MatchesShown') = Cardinality(MatchesShown) + 1
      BY <2>1, <2>2, <2>3, <2>4, <2>5
    <2>7. FirewallTypeOK' /\ RulesNumbered'
      BY <1>1, <1>2, <2>3, <2>4 DEF FirewallInv, FirewallTypeOK, RulesNumbered, Enabled
    <2>8. FirewallAccounts'
      BY <1>1, <1>2, <2>5, <2>6, <2>7 DEF FirewallInv, FirewallAccounts, RulesNumbered, Enabled
    <2> QED BY <2>7, <2>8 DEF FirewallInv
  <1> QED BY <1>3, <1>4 DEF firewall_filter_packet

(* One step per operation of firewall.c. *)
LEMMA FirewallInvHolds == FirewallSpec => []FirewallInv
  <1>1. FirewallInv /\ [FirewallNext]_firewallVars => FirewallInv'
    <2> SUFFICES ASSUME FirewallInv, [FirewallNext]_firewallVars PROVE FirewallInv'
      OBVIOUS
    <2>1. CASE firewall_set_active
      BY <2>1 DEF firewall_set_active, FirewallInv, FirewallTypeOK, RulesNumbered,
                  FirewallAccounts, Enabled, MatchesShown
    <2>2. CASE on_firewall_mouse
      BY <2>2, PressInv
    <2>3. ASSUME NEW p \in Packet, firewall_filter_packet(p) PROVE FirewallInv'
      BY <2>3, FilterInv
    <2>4. CASE firewall_add_rule({"web"}, "drop")
      BY <2>4, AddRuleInv DEF Packet, Outbound
    <2>5. CASE firewall_add_rule(Inbound, "allow")
      BY <2>5, AddRuleInv DEF Packet
    <2>6. ASSUME NEW id \in 1 .. MaxRuleId, firewall_delete_rule(id) PROVE FirewallInv'
      BY <2>6, DeleteRuleInv
    <2>7. CASE UNCHANGED firewallVars
      BY <2>7 DEF firewallVars, firewallStats, FirewallInv, FirewallTypeOK, RulesNumbered,
                  FirewallAccounts, Enabled, MatchesShown
    <2> QED BY <2>1, <2>2, <2>3, <2>4, <2>5, <2>6, <2>7 DEF FirewallNext
  <1> QED BY <1>1, FirewallInitInv, PTL DEF FirewallSpec

-----------------------------------------------------------------------------
(* Routes. *)

Route == [net : Net, gateway : Gateway]

(* The places of the routes to n. *)
RoutesTo(n) == {i \in DOMAIN routes : routes[i].net = n}

RoutesInv ==
    /\ routes \in Seq(Route)
    /\ \A n \in Net : Cardinality(RoutesTo(n)) = owed[n]
    /\ owed \in [Net -> Nat]
    /\ told \in {"none", up}

(* There are finitely many places in the table. *)
LEMMA PlacesFinite ==
    ASSUME NEW r \in Seq(Route), NEW T \in SUBSET DOMAIN r
    PROVE  IsFiniteSet(T) /\ Cardinality(T) \in Nat
  <1>1. DOMAIN r = 1 .. Len(r) /\ Len(r) \in Nat
    OBVIOUS
  <1>2. IsFiniteSet(DOMAIN r)
    BY <1>1, FS_Interval
  <1> QED BY <1>2, FS_Subset, FS_CardinalityType

(* The table has no route at first. *)
LEMMA RoutesInitInv == NetmgrInit => RoutesInv
  <1> SUFFICES ASSUME NetmgrInit PROVE RoutesInv
    OBVIOUS
  <1>1. \A n : RoutesTo(n) = {}
    BY DEF NetmgrInit, RoutesTo
  <1>2. \A n \in Net : Cardinality(RoutesTo(n)) = 0
    BY <1>1, FS_EmptySet
  <1> QED BY <1>2 DEF NetmgrInit, RoutesInv

(* netmgr_init adds the default routes. *)
LEMMA DefaultsInv ==
    ASSUME RoutesInv, netmgr_init_defaults PROVE RoutesInv'
  <1> DEFINE r == [net |-> Address, gateway |-> CHOOSE g \in Gateway : TRUE]
  <1>1. r \in Route /\ r.net = Address
    BY RoutesAssumption DEF Route
  <1> HIDE DEF r
  <1>2. routes' = <<r>> /\ owed' = [n \in Net |-> IF n = Address THEN 1 ELSE 0]
    BY DEF netmgr_init_defaults, r
  <1>3. routes' \in Seq(Route) /\ DOMAIN routes' = {1} /\ routes'[1] = r
    BY <1>1, <1>2
  <1>4. \A n \in Net : RoutesTo(n)' = IF n = Address THEN {1} ELSE {}
    BY <1>1, <1>3 DEF RoutesTo
  <1>5. \A n \in Net : Cardinality(RoutesTo(n)') = owed'[n]
    BY <1>2, <1>4, FS_EmptySet, FS_Singleton
  <1>6. told' \in {"none", up'}
    BY DEF netmgr_init_defaults, RoutesInv
  <1> QED BY <1>2, <1>3, <1>5, <1>6 DEF RoutesInv

(* A route is written behind the last one. *)
LEMMA AddRouteInv ==
    ASSUME RoutesInv, NEW n \in Net, NEW g \in Gateway, netmgr_add_route(n, g) PROVE RoutesInv'
  <1> DEFINE r == [net |-> n, gateway |-> g]
             k == Len(routes) + 1
  <1>1. r \in Route /\ r.net = n
    BY DEF Route
  <1> HIDE DEF r
  <1>2. routes' = Append(routes, r) /\ owed' = [owed EXCEPT ![n] = @ + 1] /\ UNCHANGED <<up, told>>
    BY DEF netmgr_add_route, r
  <1>3. /\ routes' \in Seq(Route) /\ DOMAIN routes' = DOMAIN routes \cup {k}
        /\ k \notin DOMAIN routes /\ routes'[k] = r
        /\ \A i \in DOMAIN routes : routes'[i] = routes[i]
    BY <1>1, <1>2 DEF RoutesInv
  <1>4. /\ RoutesTo(n)' = RoutesTo(n) \cup {k} /\ k \notin RoutesTo(n)
        /\ \A m : m # n => RoutesTo(m)' = RoutesTo(m)
    <2> HIDE DEF k
    <2> QED BY <1>1, <1>3 DEF RoutesTo
  <1>5. \A m : IsFiniteSet(RoutesTo(m)) /\ Cardinality(RoutesTo(m)) \in Nat
    BY PlacesFinite DEF RoutesTo, RoutesInv
  <1>6. Cardinality(RoutesTo(n)') = Cardinality(RoutesTo(n)) + 1
    <2> HIDE DEF k
    <2> QED BY <1>4, <1>5, FS_AddElement
  <1>7. \A m \in Net : Cardinality(RoutesTo(m)') = owed'[m]
    BY <1>2, <1>4, <1>6 DEF RoutesInv
  <1> QED BY <1>2, <1>3, <1>7 DEF RoutesInv

(* The route that is taken back is the first one to its address. *)
LEMMA FirstToIs ==
    ASSUME RoutesInv, NEW n, \E i \in DOMAIN routes : routes[i].net = n
    PROVE  FirstTo(n) \in RoutesTo(n)
  <1>1. RoutesTo(n) \subseteq Nat /\ RoutesTo(n) # {}
    BY DEF RoutesTo, RoutesInv
  <1>2. PICK i \in RoutesTo(n) : \A j \in RoutesTo(n) : i <= j
    BY <1>1, LeastNat
  <1>3. i \in DOMAIN routes /\ routes[i].net = n /\ \A j \in 1 .. i - 1 : routes[j].net # n
    <2>1. i \in DOMAIN routes /\ routes[i].net = n /\ DOMAIN routes = 1 .. Len(routes) /\ Len(routes) \in Nat
      BY DEF RoutesTo, RoutesInv
    <2>2. ASSUME NEW j \in 1 .. i - 1, routes[j].net = n PROVE FALSE
      <3>1. j \in RoutesTo(n)
        BY <2>1, <2>2 DEF RoutesTo
      <3> QED BY <1>1, <1>2, <3>1
    <2> QED BY <2>1, <2>2
  <1> QED BY <1>3 DEF FirstTo, RoutesTo

(* The routes behind the one taken back move up. *)
LEMMA DelRouteInv ==
    ASSUME RoutesInv, NEW n \in Net, netmgr_del_route(n) PROVE RoutesInv'
  <1> DEFINE k == FirstTo(n)
             l == Len(routes)
             x == routes[l]
  <1>1. k \in RoutesTo(n) /\ k \in DOMAIN routes /\ routes[k].net = n
    BY FirstToIs DEF netmgr_del_route, RoutesTo
  <1> HIDE DEF k
  <1>2. DOMAIN routes = 1 .. l /\ l \in Nat /\ l >= 1 /\ k \in 1 .. l
    BY <1>1 DEF RoutesInv
  <1>3. /\ routes' = SubSeq([routes EXCEPT ![k] = x], 1, Len([routes EXCEPT ![k] = x]) - 1)
        /\ owed' = [owed EXCEPT ![n] = @ - 1] /\ UNCHANGED <<up, told>>
    BY DEF netmgr_del_route, Front, Last, k
  <1>4. x \in Route
    BY <1>2 DEF RoutesInv
  <1>5. [routes EXCEPT ![k] = x] \in Seq(Route) /\ Len([routes EXCEPT ![k] = x]) = l
    BY <1>1, <1>2, <1>4 DEF RoutesInv
  <1>6. /\ routes' \in Seq(Route) /\ DOMAIN routes' = 1 .. l - 1
        /\ \A i \in 1 .. l - 1 : routes'[i] = IF i = k THEN x ELSE routes[i]
    <2> DEFINE w == [routes EXCEPT ![k] = x]
    <2>1. \A i \in 1 .. l : w[i] = IF i = k THEN x ELSE routes[i]
      BY <1>2
    <2> HIDE DEF w
    <2>2. w \in Seq(Route) /\ Len(w) = l /\ routes' = SubSeq(w, 1, l - 1)
      BY <1>3, <1>5 DEF w
    <2>3. Len(routes') = l - 1 /\ \A i \in 1 .. l - 1 : routes'[i] = w[i]
      BY <1>2, <2>2
    <2>4. routes' \in Seq(Route)
      BY <1>2, <2>2
    <2> QED BY <2>1, <2>3, <2>4
  <1> HIDE DEF l, x
  <1>7. l \in DOMAIN routes /\ x = routes[l]
    BY <1>2 DEF x, l
  <1>8. \A m : IsFiniteSet(RoutesTo(m)) /\ Cardinality(RoutesTo(m)) \in Nat
    BY PlacesFinite DEF RoutesTo, RoutesInv
  <1>9. \A i : i \in 1 .. l - 1 <=> i \in 1 .. l /\ i # l
    BY <1>2
  <1>10. Cardinality(RoutesTo(n)') = Cardinality(RoutesTo(n)) - 1
    <2>1. CASE x.net = n
      <3>1. RoutesTo(n)' = RoutesTo(n) \ {l} /\ l \in RoutesTo(n)
        BY <1>1, <1>2, <1>6, <1>7, <1>9, <2>1 DEF RoutesTo
      <3> QED BY <1>8, <3>1, FS_RemoveElement
    <2>2. CASE x.net # n
      <3>1. RoutesTo(n)' = RoutesTo(n) \ {k}
        BY <1>1, <1>2, <1>6, <1>7, <1>9, <2>2 DEF RoutesTo
      <3> QED BY <1>1, <1>8, <3>1, FS_RemoveElement, ZenonT(30)
    <2> QED BY <2>1, <2>2
  <1>11. ASSUME NEW m \in Net, m # n
         PROVE  Cardinality(RoutesTo(m)') = Cardinality(RoutesTo(m))
    <2>1. CASE x.net = m
      <3>1. RoutesTo(m)' = (RoutesTo(m) \ {l}) \cup {k} /\ l \in RoutesTo(m) /\ k \notin RoutesTo(m)
        BY <1>1, <1>2, <1>6, <1>7, <1>9, <1>11, <2>1 DEF RoutesTo
      <3>2. IsFiniteSet(RoutesTo(m) \ {l}) /\ Cardinality(RoutesTo(m) \ {l}) = Cardinality(RoutesTo(m)) - 1
        BY <1>8, <3>1, FS_RemoveElement
      <3>3. Cardinality((RoutesTo(m) \ {l}) \cup {k}) = Cardinality(RoutesTo(m) \ {l}) + 1
        BY <3>1, <3>2, FS_AddElement
      <3> QED BY <1>8, <3>1, <3>2, <3>3
    <2>2. CASE x.net # m
      <3>1. RoutesTo(m)' = RoutesTo(m)
        BY <1>1, <1>2, <1>6, <1>7, <1>9, <1>11, <2>2 DEF RoutesTo
      <3> QED BY <3>1
    <2> QED BY <2>1, <2>2
  <1>12. owed' \in [Net -> Nat] /\ \A m \in Net : Cardinality(RoutesTo(m)') = owed'[m]
    <2>1. Cardinality(RoutesTo(n)) # 0
      BY <1>1, <1>8, FS_EmptySet
    <2>2. owed[n] - 1 \in Nat
      BY <2>1, <1>8 DEF RoutesInv
    <2> QED BY <1>3, <1>10, <1>11, <2>2 DEF RoutesInv
  <1> QED BY <1>3, <1>6, <1>12 DEF RoutesInv

(* One step per operation on the routes. *)
LEMMA RoutesInvHolds == RoutesSpec => []RoutesInv
  <1>1. RoutesInv /\ [RoutesNext]_routesVars => RoutesInv'
    <2> SUFFICES ASSUME RoutesInv, [RoutesNext]_routesVars PROVE RoutesInv'
      OBVIOUS
    <2>1. CASE netmgr_init_defaults
      BY <2>1, DefaultsInv
    <2>2. ASSUME NEW n \in Net, NEW g \in Gateway, netmgr_add_route(n, g) PROVE RoutesInv'
      BY <2>2, AddRouteInv
    <2>3. ASSUME NEW n \in Net, netmgr_del_route(n) PROVE RoutesInv'
      BY <2>3, DelRouteInv
    <2>4. CASE netmgr_on_link_change
      BY <2>4 DEF netmgr_on_link_change, RoutesInv, RoutesTo
    <2>5. CASE netmgr_on_packet_received
      BY <2>5 DEF netmgr_on_packet_received, RoutesInv, RoutesTo
    <2>6. CASE UNCHANGED routesVars
      BY <2>6 DEF routesVars, RoutesInv, RoutesTo
    <2> QED BY <2>1, <2>2, <2>3, <2>4, <2>5, <2>6 DEF RoutesNext
  <1> QED BY <1>1, RoutesInitInv, PTL DEF RoutesSpec

(* The invariant is stronger than what the runs check. *)
LEMMA RoutesInvImplies == RoutesInv => RoutesAgree
  <1> SUFFICES ASSUME RoutesInv PROVE RoutesAgree
    OBVIOUS
  <1>1. \A n \in Net : Cardinality({i \in DOMAIN routes : routes[i].net = n}) = owed[n]
    BY DEF RoutesInv, RoutesTo
  <1>2. ASSUME NEW a \in Address, NEW n \in Net, a \in n, owed[n] > 0
        PROVE  a \in netmgr_lookup_route(a).net
    <2> DEFINE hits == {i \in DOMAIN routes : a \in routes[i].net}
               i == CHOOSE i \in hits : \A j \in hits : i <= j
    <2>1. RoutesTo(n) # {}
      <3>1. RoutesTo(n) = {} => Cardinality(RoutesTo(n)) = 0
        BY FS_EmptySet
      <3>2. Cardinality(RoutesTo(n)) = owed[n]
        BY DEF RoutesInv
      <3> QED BY <1>2, <3>1, <3>2
    <2>2. hits # {} /\ hits \subseteq Nat
      BY <1>2, <2>1 DEF RoutesTo, RoutesInv
    <2>3. \E m \in hits : \A j \in hits : m <= j
      <3> HIDE DEF hits
      <3> QED BY <2>2, LeastNat
    <2>4. i \in hits
      BY <2>3
    <2>5. netmgr_lookup_route(a) = routes[i]
      BY <2>2 DEF netmgr_lookup_route
    <2> QED BY <2>4, <2>5
  <1> QED BY <1>1, <1>2 DEF RoutesAgree, RoutesInv

(* The rules of the firewall are counted as they are, every packet inspected
   was allowed or blocked and matches are counted of packets inspected
   (firewall.c); of every route asked for and not taken back there is one in
   the table, and an address of such a route is looked up to a route that has
   it (netmgr.c).                                                           *)
THEOREM NetworkTablesStay == FirewallSpec /\ RoutesSpec => []NetworkTablesAgree
  <1>1. FirewallInv /\ RoutesInv => NetworkTablesAgree
    BY RoutesInvImplies DEF FirewallInv, NetworkTablesAgree
  <1> QED BY <1>1, FirewallInvHolds, RoutesInvHolds, PTL

-----------------------------------------------------------------------------
(* Processors and their regions. *)

(* The processors of the table that is parsed are distinct ones of it, the
   boot processor's first, and there is room for them.                      *)
LEMMA ParsedTable ==
    ASSUME NEW table \in Madt
    PROVE  LET ids == parse_madt(table)
           IN  /\ ids \in Seq(Nat) /\ Len(ids) <= MaxCpus
               /\ Len(ids) >= 1 /\ ids[1] = table[1].id
               /\ \A m, n \in 1 .. Len(ids) : ids[m] = ids[n] => m = n
               /\ \A n \in 1 .. Len(ids) : ids[n] \in Present(table)
  <1> DEFINE usable == {i \in DOMAIN table : table[i].usable}
             K == Cardinality(usable)
             A == Ascending(usable)
             room == IF K < MaxCpus THEN K ELSE MaxCpus
             ids == parse_madt(table)
  <1>1. /\ table \in Seq([id : Nat, usable : BOOLEAN]) /\ table # << >> /\ table[1].usable
        /\ \A i, j \in DOMAIN table : table[i].id = table[j].id => i = j
        /\ MaxCpus \in Nat \ {0}
    BY SmpAssumption
  <1>2. /\ DOMAIN table = 1 .. Len(table) /\ Len(table) \in Nat /\ Len(table) >= 1
        /\ \A i \in DOMAIN table : table[i].id \in Nat
    <2> DEFINE S == [id : Nat, usable : BOOLEAN]
    <2>1. table \in Seq(S) /\ table # << >>
      BY <1>1
    <2> HIDE DEF S
    <2>2. DOMAIN table = 1 .. Len(table) /\ Len(table) \in Nat /\ Len(table) >= 1
      BY <2>1, EmptySeq, LenProperties
    <2>3. \A i \in DOMAIN table : table[i] \in S
      BY <2>1, <2>2, ElementOfSeq
    <2> QED BY <2>2, <2>3 DEF S
  <1>3. usable \subseteq Nat /\ 1 \in usable /\ \A i \in usable : 1 <= i
    BY <1>1, <1>2
  <1>4. IsFiniteSet(usable)
    <2>1. IsFiniteSet(1 .. Len(table))
      BY <1>2, FS_Interval
    <2> QED BY <1>2, <2>1, FS_Subset
  <1>a. usable \subseteq DOMAIN table
    OBVIOUS
  <1>5. /\ ids = [n \in 1 .. room |-> table[A[n]].id]
    BY DEF parse_madt
  <1> HIDE DEF usable, ids
  <1>6. /\ K \in Nat /\ A \in [1 .. K -> usable]
        /\ \A m, n \in 1 .. K : m < n => A[m] < A[n]
        /\ \A i \in usable : \E n \in 1 .. K : A[n] = i
    BY <1>3, <1>4, AscendingFacts
  <1> HIDE DEF K, A
  <1>7. K >= 1 /\ A[1] = 1
    <2>1. PICK n \in 1 .. K : A[n] = 1
      BY <1>3, <1>6
    <2>2. n = 1 \/ (1 \in 1 .. K /\ 1 < n)
      BY <1>6
    <2>3. CASE 1 \in 1 .. K /\ 1 < n
      <3>1. A[1] < 1 /\ A[1] \in usable
        BY <1>6, <2>1, <2>3
      <3>2. 1 <= A[1] /\ A[1] \in Nat
        BY <1>3, <3>1
      <3> QED BY <3>1, <3>2
    <2> QED BY <1>6, <2>1, <2>2, <2>3
  <1>8. room \in Nat /\ room >= 1 /\ room <= MaxCpus /\ room <= K
    BY <1>1, <1>6, <1>7
  <1> HIDE DEF room
  <1>9. \A n \in 1 .. room : ids[n] = table[A[n]].id /\ A[n] \in DOMAIN table
    <2> TAKE n \in 1 .. room
    <2>1. n \in 1 .. K
      BY <1>6, <1>8
    <2> QED BY <1>5, <1>6, <1>a, <2>1
  <1>10. ids \in Seq(Nat) /\ Len(ids) = room /\ DOMAIN ids = 1 .. room
    <2>1. ids \in [1 .. room -> Nat]
      BY <1>2, <1>5, <1>9
    <2> QED BY <1>8, <2>1
  <1>11. ASSUME NEW m \in 1 .. room, NEW n \in 1 .. room, ids[m] = ids[n] PROVE m = n
    <2>1. A[m] = A[n]
      BY <1>1, <1>9, <1>11
    <2>2. m \in 1 .. K /\ n \in 1 .. K
      BY <1>6, <1>8
    <2>4. A[m] \in Nat /\ A[n] \in Nat
      BY <1>3, <1>6, <2>2
    <2>3. m < n \/ n < m \/ m = n
      BY <2>2
    <2> QED BY <1>6, <2>1, <2>2, <2>3, <2>4
  <1>12. \A n \in 1 .. room : ids[n] \in Present(table)
    BY <1>9 DEF Present
  <1> QED BY <1>7, <1>8, <1>9, <1>10, <1>11, <1>12 DEF ids

ApState == [at : {"off", "boot", "reset", "trampoline", "idle"}]
              \cup [at : {"counting"}, seen : Nat]

(* What apic_init found. *)
ParsedOK ==
    /\ g_apic_ids \in Seq(Nat) /\ Len(g_apic_ids) <= MaxCpus
    /\ \A m, n \in 1 .. Len(g_apic_ids) : g_apic_ids[m] = g_apic_ids[n] => m = n

SmpTypeOK ==
    /\ g_kpcr_table \in [Number -> SUBSET Nat]
    /\ ap \in [DOMAIN ap -> ApState]
    /\ \A n \in 1 .. Len(g_apic_ids) : g_apic_ids[n] \in DOMAIN ap
    /\ cpu \in Nat
    /\ g_online_cpu_count \in Nat /\ g_online_cpu_count <= g_cpu_count

(* Only processors of the table but the first are ever started, each when its
   turn comes ...                                                           *)
StartedInTurn ==
    /\ \A id \in DOMAIN ap : ap[id].at \notin {"off", "boot"} =>
          \E n \in 2 .. Len(g_apic_ids) : g_apic_ids[n] = id
    /\ \A n \in cpu + 2 .. Len(g_apic_ids) : ap[g_apic_ids[n]].at = "off"

(* ... and a region is filled in by the processor whose place it is. *)
FilledByOwner ==
    /\ \E b : g_kpcr_table[0] = {b}
    /\ \A n \in Number \ {0} : \A id \in g_kpcr_table[n] :
          /\ n + 1 \in 1 .. Len(g_apic_ids) /\ g_apic_ids[n + 1] = id
          /\ ap[id].at \in {"counting", "idle"}

SmpInv == ParsedOK /\ SmpTypeOK /\ StartedInTurn /\ FilledByOwner

(* The count of processors. *)
LEMMA CpuCountIs ==
    ASSUME ParsedOK
    PROVE  /\ Len(g_apic_ids) \in Nat
           /\ Len(g_apic_ids) >= 1 => g_cpu_count = Len(g_apic_ids)
           /\ Len(g_apic_ids) < 1 => g_cpu_count = 1
  BY EmptySeq, LenProperties DEF ParsedOK, g_cpu_count

(* After the MADT is parsed only the boot processor runs. *)
LEMMA SmpInitInv == SmpInit => SmpInv
  <1> SUFFICES ASSUME SmpInit PROVE SmpInv
    OBVIOUS
  <1>1. PICK table \in Madt, valid \in BOOLEAN :
          /\ g_apic_ids = IF valid THEN parse_madt(table) ELSE << >>
          /\ g_kpcr_table = [n \in Number |-> IF n = 0 THEN {table[1].id} ELSE {}]
          /\ ap = [id \in Present(table) |->
                     IF id = table[1].id THEN [at |-> "boot"] ELSE [at |-> "off"]]
    BY DEF SmpInit
  <1>2. /\ g_apic_ids \in Seq(Nat) /\ Len(g_apic_ids) <= MaxCpus
        /\ \A m, n \in 1 .. Len(g_apic_ids) : g_apic_ids[m] = g_apic_ids[n] => m = n
        /\ \A n \in 1 .. Len(g_apic_ids) : g_apic_ids[n] \in Present(table)
        /\ g_apic_ids # << >> => g_apic_ids[1] = table[1].id
    <2>1. CASE valid
      BY <1>1, <2>1, ParsedTable
    <2>2. CASE ~valid
      <3>1. g_apic_ids = << >>
        BY <1>1, <2>2
      <3> QED BY <3>1, SmpAssumption
    <2> QED BY <2>1, <2>2
  <1>3. table[1].id \in Nat /\ 0 \in Number /\ MaxCpus \in Nat \ {0}
    <2>1. /\ table \in Seq([id : Nat, usable : BOOLEAN]) /\ table # << >>
          /\ MaxCpus \in Nat \ {0}
      BY SmpAssumption
    <2> DEFINE S == [id : Nat, usable : BOOLEAN]
    <2> HIDE DEF S
    <2>2. Len(table) \in Nat /\ Len(table) >= 1
      BY <2>1, EmptySeq, LenProperties DEF S
    <2>4. 1 \in 1 .. Len(table)
      BY <2>2
    <2>3. table[1] \in S
      BY <2>1, <2>4, ElementOfSeq DEF S
    <2> QED BY <2>1, <2>3 DEF Number, S
  <1>4. /\ DOMAIN ap = Present(table) /\ ap \in [DOMAIN ap -> ApState]
        /\ \A id \in DOMAIN ap : ap[id].at = IF id = table[1].id THEN "boot" ELSE "off"
    BY <1>1 DEF ApState
  <1>a. ParsedOK
    BY <1>2 DEF ParsedOK
  <1>5. cpu = 0 /\ g_online_cpu_count = 1 /\ g_online_cpu_count <= g_cpu_count
    BY <1>a, CpuCountIs DEF SmpInit
  <1>6. \A n \in cpu + 2 .. Len(g_apic_ids) : ap[g_apic_ids[n]].at = "off"
    <2> TAKE n \in cpu + 2 .. Len(g_apic_ids)
    <2>1. n \in 1 .. Len(g_apic_ids) /\ 1 \in 1 .. Len(g_apic_ids) /\ n # 1
      BY <1>2, <1>5
    <2>2. g_apic_ids # << >>
      BY <2>1
    <2>3. g_apic_ids[n] # table[1].id
      BY <1>2, <2>1, <2>2
    <2> QED BY <1>2, <1>4, <2>1, <2>3
  <1>7. /\ g_kpcr_table \in [Number -> SUBSET Nat] /\ g_kpcr_table[0] = {table[1].id}
        /\ \A n \in Number \ {0} : g_kpcr_table[n] = {}
    BY <1>1, <1>3
  <1>8. SmpTypeOK
    BY <1>2, <1>4, <1>5, <1>7 DEF SmpTypeOK
  <1>9. StartedInTurn /\ FilledByOwner
    BY <1>4, <1>6, <1>7 DEF StartedInTurn, FilledByOwner
  <1> QED BY <1>8, <1>9, <1>a DEF SmpInv

(* A processor's number is its place in the table. *)
LEMMA CpuIdIs ==
    ASSUME ParsedOK, NEW n \in 2 .. Len(g_apic_ids)
    PROVE  CpuId(g_apic_ids[n]) = n - 1 /\ n - 1 \in Number \ {0} /\ g_cpu_count = Len(g_apic_ids)
  <1> DEFINE L == Len(g_apic_ids)
             hits == {m \in 1 .. g_cpu_count - 1 : g_apic_ids[m + 1] = g_apic_ids[n]}
  <1>1. /\ L \in Nat /\ n \in Nat /\ n <= L /\ n >= 2 /\ g_cpu_count = L
    BY CpuCountIs
  <1>2. \A k, m \in 1 .. L : g_apic_ids[m] = g_apic_ids[k] => m = k
    BY DEF ParsedOK
  <1>3. CpuId(g_apic_ids[n]) = IF hits = {} THEN 0 ELSE CHOOSE m \in hits : \A k \in hits : m <= k
    BY DEF CpuId
  <1>4. L <= MaxCpus /\ MaxCpus \in Nat
    BY SmpAssumption DEF ParsedOK
  <1> HIDE DEF L
  <1>5. hits = {n - 1}
    <2>1. n - 1 \in hits
      BY <1>1
    <2>2. ASSUME NEW m \in hits PROVE m = n - 1
      <3>1. m + 1 \in 1 .. L /\ n \in 1 .. L /\ m \in Nat /\ g_apic_ids[m + 1] = g_apic_ids[n]
        BY <1>1, <2>2
      <3>2. m + 1 = n
        BY <1>2, <3>1
      <3> QED BY <1>1, <3>1, <3>2
    <2> HIDE DEF hits
    <2> QED BY <2>1, <2>2
  <1> HIDE DEF hits
  <1>6. CpuId(g_apic_ids[n]) = n - 1
    BY <1>1, <1>3, <1>5
  <1> QED BY <1>1, <1>4, <1>6 DEF Number, L

(* A started processor c goes on to state s, which may fill its region in. *)
LEMMA ApStep ==
    ASSUME SmpInv, NEW c \in DOMAIN ap, NEW s \in ApState,
           ap' = [ap EXCEPT ![c] = s],
           ap[c].at \notin {"off", "boot"}, s.at \notin {"off", "boot"},
           ap[c].at \in {"counting", "idle"} => s.at \in {"counting", "idle"},
           UNCHANGED <<g_apic_ids, cpu>>,
           \/ g_kpcr_table' = g_kpcr_table
           \/ g_kpcr_table' = [g_kpcr_table EXCEPT ![CpuId(c)] = @ \cup {c}] /\ s.at = "counting",
           g_online_cpu_count' = g_online_cpu_count \/ g_online_cpu_count' = CpuId(c) + 1
    PROVE  SmpInv'
  <1> USE DEF SmpInv
  <1> DEFINE L == Len(g_apic_ids)
  <1>1. ParsedOK' /\ g_cpu_count' = g_cpu_count /\ Len(g_apic_ids') = L
    BY DEF ParsedOK, g_cpu_count
  <1>2. /\ DOMAIN ap' = DOMAIN ap /\ ap' \in [DOMAIN ap -> ApState]
        /\ ap'[c] = s /\ \A id \in DOMAIN ap : id # c => ap'[id] = ap[id]
    BY DEF SmpTypeOK
  <1>3. PICK k \in 2 .. L : g_apic_ids[k] = c
    BY DEF StartedInTurn
  <1>4. /\ CpuId(c) = k - 1 /\ k - 1 \in Number \ {0} /\ g_cpu_count = L /\ k \in 1 .. L
        /\ (k - 1) + 1 = k /\ L \in Nat /\ c \in Nat
    <2>1. CpuId(c) = k - 1 /\ k - 1 \in Number \ {0} /\ g_cpu_count = L
      BY <1>3, CpuIdIs
    <2>2. L \in Nat
      BY CpuCountIs
    <2>3. k \in 1 .. L
      BY <2>2
    <2>4. c \in Nat
      BY <1>3, <2>3, ElementOfSeq DEF ParsedOK
    <2> QED BY <2>1, <2>2, <2>3, <2>4
  <1>5. StartedInTurn'
    <2>1. \A id \in DOMAIN ap' : ap'[id].at \notin {"off", "boot"} =>
             \E n \in 2 .. L : g_apic_ids[n] = id
      BY <1>2, <1>3 DEF StartedInTurn
    <2>2. \A n \in cpu + 2 .. L : ap'[g_apic_ids[n]].at = "off"
      <3> TAKE n \in cpu + 2 .. L
      <3>1. n \in 1 .. L
        BY <1>4 DEF SmpTypeOK
      <3>2. ap[g_apic_ids[n]].at = "off" /\ g_apic_ids[n] \in DOMAIN ap
        BY <3>1 DEF StartedInTurn, SmpTypeOK
      <3> QED BY <1>2, <3>2
    <2> QED BY <2>1, <2>2 DEF StartedInTurn
  <1>6. FilledByOwner' /\ g_kpcr_table' \in [Number -> SUBSET Nat]
    <2>1. g_kpcr_table \in [Number -> SUBSET Nat] /\ 0 \in Number
      BY SmpAssumption DEF Number, SmpTypeOK
    <2>2. \A n \in Number :
             \/ g_kpcr_table'[n] = g_kpcr_table[n]
             \/ n = k - 1 /\ g_kpcr_table'[n] = g_kpcr_table[n] \cup {c} /\ s.at = "counting"
      BY <1>4, <2>1
    <2>3. g_kpcr_table' \in [Number -> SUBSET Nat]
      <3>1. CASE g_kpcr_table' = g_kpcr_table
        BY <2>1, <3>1
      <3>2. CASE g_kpcr_table' = [g_kpcr_table EXCEPT ![CpuId(c)] = @ \cup {c}]
        BY <1>4, <2>1, <3>2
      <3> QED BY <3>1, <3>2
    <2>4. g_kpcr_table'[0] = g_kpcr_table[0]
      BY <1>4, <2>1, <2>2
    <2>5. ASSUME NEW n \in Number \ {0}, NEW id \in g_kpcr_table'[n]
          PROVE  n + 1 \in 1 .. L /\ g_apic_ids[n + 1] = id /\ ap'[id].at \in {"counting", "idle"}
      <3>1. CASE id \in g_kpcr_table[n]
        <4>1. n + 1 \in 1 .. L /\ g_apic_ids[n + 1] = id /\ ap[id].at \in {"counting", "idle"}
          BY <2>5, <3>1 DEF FilledByOwner
        <4>2. id \in DOMAIN ap
          BY <4>1 DEF SmpTypeOK
        <4> QED BY <1>2, <4>1, <4>2
      <3>2. CASE id \notin g_kpcr_table[n]
        <4>1. n = k - 1 /\ id = c /\ s.at = "counting"
          BY <2>2, <2>5, <3>2
        <4> QED BY <1>2, <1>3, <1>4, <4>1
      <3> QED BY <3>1, <3>2
    <2> QED BY <2>3, <2>4, <2>5 DEF FilledByOwner
  <1>7. SmpTypeOK'
    <2>1. g_online_cpu_count' \in Nat /\ g_online_cpu_count' <= g_cpu_count
      BY <1>4 DEF SmpTypeOK
    <2> QED BY <1>1, <1>2, <1>6, <2>1 DEF SmpTypeOK
  <1> QED BY <1>1, <1>5, <1>6, <1>7

(* The next processor of the table, which was off, is reset. *)
LEMMA ResetInv == ASSUME SmpInv, apic_start_all_aps PROVE SmpInv'
  <1> USE DEF SmpInv
  <1> DEFINE L == Len(g_apic_ids)
             c == g_apic_ids[cpu + 2]
             s == [at |-> "reset"]
  <1>1. /\ cpu' = cpu + 1 /\ ap' = [ap EXCEPT ![c] = s]
        /\ UNCHANGED <<g_apic_ids, g_kpcr_table, g_online_cpu_count>>
        /\ s \in ApState /\ s.at = "reset"
    BY DEF apic_start_all_aps, ApState
  <1>2. ParsedOK' /\ g_cpu_count' = g_cpu_count /\ Len(g_apic_ids') = L
    BY <1>1 DEF ParsedOK, g_cpu_count
  <1>3. /\ cpu \in Nat /\ L \in Nat /\ cpu + 2 \in 1 .. L /\ cpu + 2 \in 2 .. L
        /\ cpu + 2 \in cpu + 2 .. L
    <2>1. cpu \in Nat /\ cpu + 1 < g_cpu_count
      BY DEF SmpTypeOK, apic_start_all_aps
    <2> QED BY <2>1, CpuCountIs
  <1>4. c \in DOMAIN ap /\ ap[c].at = "off"
    BY <1>3 DEF SmpTypeOK, StartedInTurn
  <1> HIDE DEF s
  <1>5. /\ DOMAIN ap' = DOMAIN ap /\ ap' \in [DOMAIN ap -> ApState]
        /\ ap'[c] = s /\ \A id \in DOMAIN ap : id # c => ap'[id] = ap[id]
    BY <1>1, <1>4 DEF SmpTypeOK
  <1>6. StartedInTurn'
    <2>1. \A id \in DOMAIN ap' : ap'[id].at \notin {"off", "boot"} =>
             \E n \in 2 .. L : g_apic_ids[n] = id
      BY <1>3, <1>5 DEF StartedInTurn
    <2>2. \A n \in cpu' + 2 .. L : ap'[g_apic_ids[n]].at = "off"
      <3> TAKE n \in cpu' + 2 .. L
      <3>1. n \in 1 .. L /\ n # cpu + 2 /\ n \in cpu + 2 .. L
        BY <1>1, <1>3
      <3>2. g_apic_ids[n] # c /\ g_apic_ids[n] \in DOMAIN ap /\ ap[g_apic_ids[n]].at = "off"
        BY <1>3, <3>1 DEF ParsedOK, SmpTypeOK, StartedInTurn
      <3> QED BY <1>5, <3>2
    <2> QED BY <1>1, <2>1, <2>2 DEF StartedInTurn
  <1>7. FilledByOwner'
    <2>1. ASSUME NEW n \in Number \ {0}, NEW id \in g_kpcr_table[n]
          PROVE  n + 1 \in 1 .. L /\ g_apic_ids[n + 1] = id /\ ap'[id].at \in {"counting", "idle"}
      <3>1. n + 1 \in 1 .. L /\ g_apic_ids[n + 1] = id /\ ap[id].at \in {"counting", "idle"}
        BY <2>1 DEF FilledByOwner
      <3>2. id \in DOMAIN ap /\ id # c
        BY <1>4, <3>1 DEF SmpTypeOK
      <3> QED BY <1>5, <3>1, <3>2
    <2> QED BY <1>1, <2>1 DEF FilledByOwner
  <1>8. SmpTypeOK'
    BY <1>1, <1>2, <1>3, <1>5 DEF SmpTypeOK
  <1> QED BY <1>2, <1>6, <1>7, <1>8

(* What depends on the state of the processors only. *)
LEMMA StillSmp ==
    ASSUME SmpInv, UNCHANGED <<g_apic_ids, g_kpcr_table, g_online_cpu_count, cpu, ap>>
    PROVE  SmpInv'
  <1> USE DEF SmpInv
  <1>1. ParsedOK'
    BY DEF ParsedOK
  <1>2. SmpTypeOK'
    BY DEF SmpTypeOK, g_cpu_count
  <1>3. StartedInTurn'
    BY DEF StartedInTurn
  <1>4. FilledByOwner'
    BY DEF FilledByOwner
  <1> QED BY <1>1, <1>2, <1>3, <1>4

(* One step per operation of the boot processor and of the others. *)
LEMMA SmpStep == SmpInv /\ [SmpNext]_smpVars => SmpInv'
  <1> SUFFICES ASSUME SmpInv, [SmpNext]_smpVars PROVE SmpInv'
    OBVIOUS
  <1>1. CASE apic_start_all_aps
    BY <1>1, ResetInv
  <1>2. CASE apic_send_ipi
    <2> DEFINE c == g_apic_ids[cpu + 1]
               s == IF ap[c].at = "reset" THEN [at |-> "trampoline"] ELSE ap[c]
    <2>1. ap' = [ap EXCEPT ![c] = s] /\ UNCHANGED <<g_apic_ids, cpu, g_kpcr_table, g_online_cpu_count>>
      BY <1>2 DEF apic_send_ipi
    <2>2. CASE c \in DOMAIN ap /\ ap[c].at = "reset"
      <3>1. s = [at |-> "trampoline"]
        BY <2>2
      <3> HIDE DEF c, s
      <3>2. s.at = "trampoline" /\ s \in ApState
        BY <3>1 DEF ApState
      <3> QED BY <2>1, <2>2, <3>2, ApStep
    <2>3. CASE ~(c \in DOMAIN ap /\ ap[c].at = "reset")
      <3>1. ap' = ap
        <4>1. ap \in [DOMAIN ap -> ApState]
          BY DEF SmpInv, SmpTypeOK
        <4>2. CASE c \in DOMAIN ap
          <5>1. s = ap[c]
            BY <2>3, <4>2
          <5> HIDE DEF c, s
          <5> QED BY <2>1, <4>1, <4>2, <5>1
        <4>3. CASE c \notin DOMAIN ap
          <5> HIDE DEF c, s
          <5> QED BY <2>1, <4>1, <4>3
        <4> QED BY <4>2, <4>3
      <3> QED BY <2>1, <3>1, StillSmp
    <2> QED BY <2>2, <2>3
  <1>3. ASSUME NEW id \in DOMAIN ap, ap_kernel_entry_c(id) PROVE SmpInv'
    <2> DEFINE s == [at |-> "counting", seen |-> g_online_cpu_count]
    <2>1. /\ ap[id].at = "trampoline" /\ ap' = [ap EXCEPT ![id] = s] /\ s.at = "counting"
          /\ g_kpcr_table' = [g_kpcr_table EXCEPT ![CpuId(id)] = @ \cup {id}]
          /\ UNCHANGED <<g_apic_ids, g_online_cpu_count, cpu>>
      BY <1>3 DEF ap_kernel_entry_c
    <2>2. s \in ApState
      BY DEF ApState, SmpInv, SmpTypeOK
    <2> HIDE DEF s
    <2> QED BY <2>1, <2>2, ApStep
  <1>4. ASSUME NEW id \in DOMAIN ap, kpcr_init(id) PROVE SmpInv'
    <2> DEFINE s == [at |-> "idle"]
    <2>1. /\ ap[id].at = "counting" /\ ap' = [ap EXCEPT ![id] = s] /\ s.at = "idle"
          /\ g_online_cpu_count' = g_online_cpu_count \/ g_online_cpu_count' = CpuId(id) + 1
          /\ UNCHANGED <<g_apic_ids, g_kpcr_table, cpu>>
      BY <1>4 DEF kpcr_init
    <2>2. s \in ApState
      BY DEF ApState
    <2> HIDE DEF s
    <2> QED BY <2>1, <2>2, ApStep
  <1>5. CASE UNCHANGED smpVars
    BY <1>5, StillSmp DEF smpVars
  <1> QED BY <1>1, <1>2, <1>3, <1>4, <1>5 DEF SmpNext

(* The invariant of the processors. *)
LEMMA SmpInvHolds == SmpSpec => []SmpInv
  BY SmpInitInv, SmpStep, PTL DEF SmpSpec

(* A region that more than one processor fills would be of two numbers. *)
LEMMA SmpInvImplies == SmpInv => RegionsOwned
  <1> SUFFICES ASSUME SmpInv PROVE RegionsOwned
    OBVIOUS
  <1>1. ASSUME NEW n \in Number PROVE Cardinality(g_kpcr_table[n]) <= 1
    <2>1. \E b : g_kpcr_table[n] \subseteq {b}
      <3>1. CASE n = 0
        BY <3>1 DEF SmpInv, FilledByOwner
      <3>2. CASE n # 0
        <4>1. g_kpcr_table[n] \subseteq {g_apic_ids[n + 1]}
          BY <3>2 DEF SmpInv, FilledByOwner
        <4> QED BY <4>1
      <3> QED BY <3>1, <3>2
    <2>2. PICK b : g_kpcr_table[n] = {} \/ g_kpcr_table[n] = {b}
      BY <2>1
    <2>3. Cardinality({}) = 0 /\ Cardinality({b}) = 1
      BY FS_EmptySet, FS_Singleton
    <2> QED BY <2>2, <2>3
  <1> QED BY <1>1 DEF SmpInv, SmpTypeOK, FilledByOwner, RegionsOwned

-----------------------------------------------------------------------------
(* Deferred calls of a processor. *)

DpcInv == /\ {dpc_queue, made, ran} \subseteq Seq(Dpc)
          /\ CallsInOrder

(* Calls are put at the end of the list and taken from its head (kpcr.c). *)
LEMMA DpcInvHolds == DpcSpec => []DpcInv
  <1>1. DpcInit => DpcInv
    <2>1. << >> \in Seq(Dpc) /\ << >> \o << >> = << >> /\ Len(<< >>) = 0
      BY EmptySeq, ConcatEmptySeq
    <2> QED BY <2>1 DEF DpcInit, DpcInv, CallsInOrder
  <1>2. DpcInv /\ [DpcNext]_dpcVars => DpcInv'
    <2> SUFFICES ASSUME DpcInv, [DpcNext]_dpcVars PROVE DpcInv'
      OBVIOUS
    <2>0. dpc_queue \in Seq(Dpc) /\ made \in Seq(Dpc) /\ ran \in Seq(Dpc)
      BY DEF DpcInv
    <2>1. ASSUME NEW d \in Dpc, kpcr_queue_dpc(d) PROVE DpcInv'
      <3>1. /\ dpc_queue' = Append(dpc_queue, d) /\ dpc_queue_count' = dpc_queue_count + 1
            /\ made' = Append(made, d) /\ ran' = ran
        BY <2>1 DEF kpcr_queue_dpc
      <3>2. /\ Append(dpc_queue, d) = dpc_queue \o <<d>> /\ Append(made, d) = made \o <<d>>
            /\ Len(Append(dpc_queue, d)) = Len(dpc_queue) + 1
            /\ Append(dpc_queue, d) \in Seq(Dpc) /\ Append(made, d) \in Seq(Dpc)
            /\ <<d>> \in Seq(Dpc)
        BY <2>0, AppendIsConcat, AppendProperties
      <3>3. (ran \o dpc_queue) \o <<d>> = ran \o (dpc_queue \o <<d>>)
        BY <2>0, <3>2, ConcatAssociative, SMTT(40)
      <3>4. ran \o dpc_queue = made /\ dpc_queue_count = Len(dpc_queue)
        BY DEF DpcInv, CallsInOrder
      <3>5. ran' \o dpc_queue' = made'
        BY <3>1, <3>2, <3>3, <3>4
      <3>6. dpc_queue_count' = Len(dpc_queue')
        BY <3>1, <3>2, <3>4
      <3> QED BY <2>0, <3>1, <3>2, <3>5, <3>6 DEF DpcInv, CallsInOrder
    <2>2. CASE kpcr_flush_dpc_queue
      <3> DEFINE h == Head(dpc_queue)
                 t == Tail(dpc_queue)
      <3>1. /\ dpc_queue' = t /\ dpc_queue_count' = dpc_queue_count - 1
            /\ ran' = Append(ran, h) /\ made' = made /\ dpc_queue # << >>
        BY <2>2 DEF kpcr_flush_dpc_queue
      <3>2. h \in Dpc /\ t \in Seq(Dpc) /\ Len(t) = Len(dpc_queue) - 1
            /\ \A i \in 1 .. Len(t) : t[i] = dpc_queue[i + 1]
        BY <2>0, <3>1, HeadTailProperties
      <3>3. Append(ran, h) = ran \o <<h>> /\ Append(ran, h) \in Seq(Dpc) /\ <<h>> \in Seq(Dpc)
        BY <2>0, <3>2, AppendIsConcat, AppendProperties
      <3>4. <<h>> \o t = dpc_queue
        <4>1. h = dpc_queue[1] /\ Len(dpc_queue) \in Nat
          BY <2>0, <3>1, LenProperties
        <4> HIDE DEF h, t
        <4>2. /\ <<h>> \o t \in Seq(Dpc) /\ Len(<<h>> \o t) = 1 + Len(t)
              /\ \A i \in 1 .. 1 + Len(t) : (<<h>> \o t)[i] = IF i <= 1 THEN <<h>>[i] ELSE t[i - 1]
          <5>1. Len(<<h>>) = 1
            OBVIOUS
          <5> QED BY <3>2, <3>3, <5>1, ConcatProperties
        <4>3. Len(<<h>> \o t) = Len(dpc_queue)
          BY <3>2, <4>1, <4>2
        <4>4. ASSUME NEW i \in 1 .. Len(<<h>> \o t) PROVE (<<h>> \o t)[i] = dpc_queue[i]
          <5>1. CASE i = 1
            BY <4>1, <4>2, <5>1
          <5>2. CASE i # 1
            <6>1. i - 1 \in 1 .. Len(t) /\ (i - 1) + 1 = i /\ ~(i <= 1) /\ i \in 1 .. 1 + Len(t)
              BY <3>2, <4>1, <4>2, <5>2
            <6> QED BY <3>2, <4>2, <6>1
          <5> QED BY <5>1, <5>2
        <4> QED BY <2>0, <4>2, <4>3, <4>4, SeqEqual
      <3> HIDE DEF h, t
      <3>5. (ran \o <<h>>) \o t = ran \o (<<h>> \o t)
        BY <2>0, <3>2, <3>3, ConcatAssociative
      <3>6. ran \o dpc_queue = made /\ dpc_queue_count = Len(dpc_queue)
        BY DEF DpcInv, CallsInOrder
      <3>7. ran' \o dpc_queue' = made'
        BY <3>1, <3>3, <3>4, <3>5, <3>6
      <3>8. dpc_queue_count' = Len(dpc_queue')
        BY <3>1, <3>2, <3>6
      <3> QED BY <2>0, <3>1, <3>2, <3>3, <3>7, <3>8 DEF DpcInv, CallsInOrder
    <2>3. CASE CallbackReturns
      BY <2>3 DEF CallbackReturns, DpcInv, CallsInOrder
    <2>4. CASE UNCHANGED dpcVars
      BY <2>4 DEF dpcVars, DpcInv, CallsInOrder
    <2> QED BY <2>1, <2>2, <2>3, <2>4 DEF DpcNext
  <1> QED BY <1>1, <1>2, PTL DEF DpcSpec

-----------------------------------------------------------------------------
(* The ring of deferred calls. *)

RingSlot == 0 .. Depth - 1

(* Where the i-th call behind the one at h is. *)
Behind(h, i) == IF h + i < Depth THEN h + i ELSE h + i - Depth

RingInv == /\ ring \in [RingSlot -> Nat]
           /\ head \in RingSlot
           /\ g_dpc_count \in 0 .. Depth
           /\ tail = Behind(head, g_dpc_count)
           /\ called \in Nat /\ processed \in Int
           /\ accepted = called + g_dpc_count
           /\ \A i \in 0 .. g_dpc_count - 1 : ring[Behind(head, i)] = called + i + 1

(* The ring has a slot. *)
LEMMA DepthFact == Depth \in Nat /\ Depth > 0
  BY InterruptsAssumption

(* An index past the end of the ring wraps once. *)
LEMMA DepthWrap ==
    ASSUME NEW x \in Nat, x < 2 * Depth
    PROVE  x % Depth = IF x < Depth THEN x ELSE x - Depth
  BY DepthFact, SMTT(30)

(* Places of the ring, counted from one that is its head. *)
LEMMA BehindFacts ==
    ASSUME NEW h \in RingSlot
    PROVE  /\ \A i \in 0 .. Depth : Behind(h, i) \in RingSlot /\ (h + i) % Depth = Behind(h, i)
           /\ \A i, j \in 0 .. Depth - 1 : Behind(h, i) = Behind(h, j) => i = j
           /\ (h + 1) % Depth = Behind(h, 1) /\ Behind(h, 1) \in RingSlot
           /\ \A i \in 0 .. Depth - 1 : /\ Behind(Behind(h, 1), i) = Behind(h, i + 1)
                                        /\ (Behind(h, i) + 1) % Depth = Behind(h, i + 1)
  <1>0. Depth \in Nat /\ Depth > 0 /\ h \in Nat /\ h < Depth
    BY DepthFact DEF RingSlot
  <1>1. ASSUME NEW i \in 0 .. Depth
        PROVE  Behind(h, i) \in RingSlot /\ (h + i) % Depth = Behind(h, i)
    <2> DEFINE x == h + i
    <2>1. x \in Nat /\ x < 2 * Depth
      BY <1>0
    <2>2. Behind(h, i) = IF x < Depth THEN x ELSE x - Depth
      BY <1>0 DEF Behind
    <2> HIDE DEF x
    <2>3. x % Depth = Behind(h, i)
      BY <2>1, <2>2, DepthWrap
    <2>4. Behind(h, i) \in RingSlot
      BY <1>0, <2>1, <2>2 DEF RingSlot
    <2> QED BY <2>3, <2>4 DEF x
  <1>2. \A i, j \in 0 .. Depth - 1 : Behind(h, i) = Behind(h, j) => i = j
    BY <1>0 DEF Behind
  <1>3. (h + 1) % Depth = Behind(h, 1) /\ Behind(h, 1) \in RingSlot
    <2>1. 1 \in 0 .. Depth
      BY <1>0
    <2> QED BY <1>1, <2>1
  <1>4. \A i \in 0 .. Depth - 1 : Behind(Behind(h, 1), i) = Behind(h, i + 1)
    BY <1>0 DEF Behind
  <1>5. ASSUME NEW i \in 0 .. Depth - 1
        PROVE  (Behind(h, i) + 1) % Depth = Behind(h, i + 1)
    <2> DEFINE x == Behind(h, i) + 1
               y == Behind(h, i + 1)
    <2>1. x \in Nat /\ x < 2 * Depth /\ y = IF x < Depth THEN x ELSE x - Depth
      BY <1>0 DEF Behind
    <2> HIDE DEF x, y
    <2>2. x % Depth = y
      BY <2>1, DepthWrap
    <2> QED BY <2>2 DEF x, y
  <1> QED BY <1>1, <1>2, <1>3, <1>4, <1>5

(* A call is written behind the last one. *)
LEMMA EnqueueInv == ASSUME RingInv, dpc_enqueue PROVE RingInv'
  <1>0. /\ Depth \in Nat /\ Depth > 0 /\ head \in RingSlot /\ g_dpc_count \in 0 .. Depth - 1
        /\ called \in Nat /\ tail \in RingSlot /\ tail = Behind(head, g_dpc_count)
        /\ accepted = called + g_dpc_count
    <2>1. Depth \in Nat /\ Depth > 0 /\ g_dpc_count \in 0 .. Depth - 1 /\ g_dpc_count \in 0 .. Depth
      BY DepthFact DEF RingInv, dpc_enqueue
    <2> QED BY <2>1, BehindFacts DEF RingInv
  <1>1. /\ head' = head /\ called' = called /\ processed' = processed
        /\ g_dpc_count' = g_dpc_count + 1 /\ accepted' = accepted + 1
        /\ ring' = [ring EXCEPT ![tail] = accepted + 1]
        /\ tail' = (tail + 1) % Depth
    BY DEF dpc_enqueue
  <1>2. tail' = Behind(head, g_dpc_count + 1)
    BY <1>0, <1>1, BehindFacts
  <1>3. /\ ring' \in [RingSlot -> Nat] /\ ring'[tail] = called + g_dpc_count + 1
        /\ \A s \in RingSlot : s # tail => ring'[s] = ring[s]
    BY <1>0, <1>1 DEF RingInv
  <1>4. ASSUME NEW i \in 0 .. g_dpc_count PROVE ring'[Behind(head, i)] = called + i + 1
    <2>1. CASE i = g_dpc_count
      BY <1>0, <1>3, <2>1
    <2>2. CASE i # g_dpc_count
      <3>1. i \in 0 .. g_dpc_count - 1 /\ i \in 0 .. Depth - 1 /\ i \in 0 .. Depth
        BY <1>0, <2>2
      <3>2. Behind(head, i) # tail /\ Behind(head, i) \in RingSlot
        BY <1>0, <2>2, <3>1, BehindFacts
      <3>3. ring[Behind(head, i)] = called + i + 1
        BY <3>1 DEF RingInv
      <3> QED BY <1>3, <3>2, <3>3
    <2> QED BY <2>1, <2>2
  <1>5. /\ g_dpc_count' \in 0 .. Depth /\ accepted' = called' + g_dpc_count'
        /\ g_dpc_count' - 1 = g_dpc_count
    BY <1>0, <1>1
  <1> QED BY <1>0, <1>1, <1>2, <1>3, <1>4, <1>5 DEF RingInv

(* The call at the head is made. *)
LEMMA DrainInv == ASSUME RingInv, dpc_drain PROVE RingInv'
  <1>1. CASE g_dpc_count > 0 /\ processed < Batch
    <2>1. /\ called' = ring[head] /\ head' = (head + 1) % Depth
          /\ g_dpc_count' = g_dpc_count - 1 /\ processed' = processed + 1
          /\ ring' = ring /\ tail' = tail /\ accepted' = accepted
      BY <1>1 DEF dpc_drain
    <2>2. /\ Depth \in Nat /\ Depth > 0 /\ head \in RingSlot /\ g_dpc_count \in 1 .. Depth
          /\ called \in Nat /\ processed \in Int /\ ring \in [RingSlot -> Nat]
          /\ accepted = called + g_dpc_count
          /\ tail = Behind(head, g_dpc_count)
      BY <1>1, DepthFact DEF RingInv
    <2>3. head = Behind(head, 0)
      BY <2>2 DEF Behind, RingSlot
    <2>4. called' = called + 1
      <3>1. 0 \in 0 .. g_dpc_count - 1
        BY <2>2
      <3>2. ring[Behind(head, 0)] = called + 0 + 1
        BY <3>1 DEF RingInv
      <3> QED BY <2>1, <2>2, <2>3, <3>2
    <2>5. head' = Behind(head, 1) /\ head' \in RingSlot
      BY <2>1, <2>2, BehindFacts
    <2>6. tail' = Behind(head', g_dpc_count')
      <3>1. g_dpc_count - 1 \in 0 .. Depth - 1 /\ (g_dpc_count - 1) + 1 = g_dpc_count
        BY <2>2
      <3> QED BY <2>1, <2>2, <2>5, <3>1, BehindFacts
    <2>7. ASSUME NEW i \in 0 .. g_dpc_count' - 1 PROVE ring'[Behind(head', i)] = called' + i + 1
      <3>1. i \in 0 .. Depth - 1 /\ i + 1 \in 0 .. g_dpc_count - 1
        BY <2>1, <2>2
      <3>2. Behind(head', i) = Behind(head, i + 1)
        BY <2>2, <2>5, <3>1, BehindFacts
      <3>3. ring[Behind(head, i + 1)] = called + (i + 1) + 1
        BY <3>1 DEF RingInv
      <3> QED BY <2>1, <2>2, <2>4, <3>2, <3>3
    <2>8. g_dpc_count' \in 0 .. Depth /\ called' \in Nat /\ processed' \in Int
          /\ accepted' = called' + g_dpc_count'
      BY <2>1, <2>2, <2>4
    <2> QED BY <2>1, <2>2, <2>5, <2>6, <2>7, <2>8 DEF RingInv
  <1>2. CASE ~(g_dpc_count > 0 /\ processed < Batch)
    <2>1. processed' = -1 /\ UNCHANGED <<called, head, g_dpc_count, ring, tail, accepted>>
      BY <1>2 DEF dpc_drain
    <2> QED BY <2>1 DEF RingInv
  <1> QED BY <1>1, <1>2

(* The invariant of the ring, whatever interrupts do. *)
LEMMA RingInvHolds == InterruptsSpec => []RingInv
  <1>1. InterruptsInit => RingInv
    BY DepthFact DEF InterruptsInit, RingInv, RingSlot, Behind
  <1>2. RingInv /\ [InterruptsNext]_intVars => RingInv'
    <2> SUFFICES ASSUME RingInv, [InterruptsNext]_intVars PROVE RingInv'
      OBVIOUS
    <2>1. CASE dpc_enqueue
      BY <2>1, EnqueueInv
    <2>2. CASE dpc_drain
      BY <2>2, DrainInv
    <2>3. CASE TimerTicks
      BY <2>3 DEF TimerTicks, RingInv
    <2>4. CASE UNCHANGED ringVars
      BY <2>4 DEF ringVars, RingInv
    <2> QED BY <2>1, <2>2, <2>3, <2>4
         DEF InterruptsNext, DeviceInterrupts, SpuriousInterrupt, Faults, NmiComes, Enter, Yields,
             Halts, OtherInterrupt, TickEnds, TimerEnds, Returns, intVars
  <1> QED BY <1>1, <1>2, PTL DEF InterruptsSpec

(* It says where the calls are, as the runs check it. *)
LEMMA RingInvImplies == RingInv => CallsInRing
  <1> SUFFICES ASSUME RingInv PROVE CallsInRing
    OBVIOUS
  <1>1. ASSUME NEW i \in 0 .. g_dpc_count - 1
        PROVE  ring[(head + i) % Depth] = called + i + 1
    <2>1. i \in 0 .. Depth
      BY DepthFact DEF RingInv
    <2>2. (head + i) % Depth = Behind(head, i)
      BY <2>1, BehindFacts DEF RingInv
    <2> QED BY <2>2 DEF RingInv
  <1> QED BY <1>1 DEF RingInv, CallsInRing

(* A usable processor's region is filled by itself alone; calls deferred in the
   list of a processor are made once and in order, and those in the scheduler's
   ring are the accepted ones not yet made: for any table of processors, any
   size of the ring and any number of calls (apic.c, kpcr.c, sched.c).      *)
THEOREM ProcessorsStayOwn == SmpSpec /\ DpcSpec /\ InterruptsSpec => []ProcessorsKeepOwn
  <1>1. SmpInv /\ DpcInv /\ RingInv => ProcessorsKeepOwn
    BY SmpInvImplies, RingInvImplies DEF DpcInv, ProcessorsKeepOwn
  <1> QED BY <1>1, SmpInvHolds, DpcInvHolds, RingInvHolds, PTL

-----------------------------------------------------------------------------
(* Interrupts. *)

(* The invariant is stated of a running context r with its flag f, the saved
   flags s, the stacks n and the vectors in service sv, so that a step that
   changes a frame and then switches can be taken apart.                    *)

Stage == {"entered", "ticking", "ticked", "done", "halted"}
Frame == [vector : Vector, flag : BOOLEAN, stage : Stage]
Stacks == [Context -> Seq(Frame)]

Gated(frame) == g_idt[frame.vector].type = "interrupt"
Open(frame) == Hardware(frame.vector) /\ frame.stage # "done"

StagesFit(n) ==
    \A c \in Context : \A i \in 1 .. Len(n[c]) :
        /\ n[c][i].stage \in {"ticking", "ticked"} => n[c][i].vector = Timer
        /\ n[c][i].stage = "halted" => n[c][i].vector \in Fatal

(* Over a frame of an interrupt gate there is at most an NMI's, and it saved
   a flag that was clear.                                                   *)
Masked(n) ==
    \A c \in Context : \A i \in 1 .. Len(n[c]) : Gated(n[c][i]) =>
        \A j \in i + 1 .. Len(n[c]) : /\ n[c][j].vector = Nmi
                                      /\ j = i + 1 => n[c][j].flag = FALSE

FlagClear(r, f, s, n) ==
    \A c \in Context : Len(n[c]) > 0 /\ Gated(n[c][Len(n[c])]) =>
        (IF c = r THEN f ELSE s[c]) = FALSE

(* A vector in service has one frame that is not answered, and vice versa. *)
ServiceIsOpen(n, sv) ==
    /\ \A c \in Context : \A i \in 1 .. Len(n[c]) : Open(n[c][i]) => n[c][i].vector \in sv
    /\ \A v \in sv : \E c \in Context : \E i \in 1 .. Len(n[c]) : n[c][i].vector = v /\ Open(n[c][i])
    /\ \A c, d \in Context : \A i \in 1 .. Len(n[c]), j \in 1 .. Len(n[d]) :
          n[c][i].vector = n[d][j].vector /\ Open(n[c][i]) /\ Open(n[d][j]) => c = d /\ i = j

(* Only a timer interrupt is left unanswered by a switch; in the context that
   runs a vector is above those it interrupted.                             *)
OpenInOrder(r, n) ==
    /\ \A c \in Context : \A i \in 1 .. Len(n[c]) :
          Open(n[c][i]) /\ n[c][i].vector # Timer => c = r
    /\ \A i, j \in 1 .. Len(n[r]) : i < j /\ Open(n[r][i]) /\ Open(n[r][j]) =>
          Class(n[r][i].vector) < Class(n[r][j].vector)

(* An NMI is handled alone, a double fault or a machine check at the bottom
   of the stack of the context that runs.                                   *)
StacksOwn(r, n) ==
    /\ \A c, d \in Context : \A i \in 1 .. Len(n[c]), j \in 1 .. Len(n[d]) :
          n[c][i].vector = Nmi /\ n[d][j].vector = Nmi => c = d /\ i = j
    /\ \A c \in Context : \A i \in 1 .. Len(n[c]) :
          n[c][i].vector \in {DoubleFault, 18} => c = r /\ i = 1

IntTypeOK(r, f, s, n, sv) ==
    /\ r \in Context /\ f \in BOOLEAN /\ s \in [Context -> BOOLEAN] /\ n \in Stacks
    /\ sv \subseteq {v \in Vector : Hardware(v)}

IntInvOf(r, f, s, n, sv) ==
    /\ IntTypeOK(r, f, s, n, sv) /\ StagesFit(n) /\ Masked(n) /\ FlagClear(r, f, s, n)
    /\ ServiceIsOpen(n, sv) /\ OpenInOrder(r, n) /\ StacksOwn(r, n)

IntInv == IntInvOf(running, iflag, savedIF, nest, in_service)

-----------------------------------------------------------------------------
(* The gates of idt_init and the stacks they name. *)
LEMMA GateFacts ==
    ASSUME NEW v \in 0 .. 255
    PROVE  /\ g_idt[v].type \in {"interrupt", "trap"}
           /\ g_idt[v].type = "trap" <=> v \in {1, 3, 128}
           /\ g_idt[v].ist = 1 <=> v = DoubleFault
           /\ g_idt[v].ist = 2 <=> v = Nmi
           /\ g_idt[v].ist = 3 <=> v = 18
           /\ g_idt[v].ist = 4 <=> v = 1
  <1> DEFINE g == Gate(0, "interrupt")
  <1>1. g_idt[v] = IF v = 128 THEN Gate(0, "trap") ELSE IF v = 3 THEN Gate(0, "trap")
                   ELSE IF v = 18 THEN Gate(3, "interrupt") ELSE IF v = 8 THEN Gate(1, "interrupt")
                   ELSE IF v = 2 THEN Gate(2, "interrupt") ELSE IF v = 1 THEN Gate(4, "trap") ELSE g
    BY DEF g_idt, Nmi, DoubleFault
  <1>2. \A k, t : Gate(k, t).ist = k /\ Gate(k, t).type = t
    BY DEF Gate
  <1> HIDE DEF g
  <1>3. g.ist = 0 /\ g.type = "interrupt"
    BY <1>2 DEF g
  <1> QED BY <1>1, <1>2, <1>3 DEF Nmi, DoubleFault

(* The frames on a stack. *)
LEMMA StackLen ==
    ASSUME NEW n \in Stacks, NEW c \in Context
    PROVE  /\ Len(n[c]) \in Nat /\ n[c] \in Seq(Frame) /\ DOMAIN n[c] = 1 .. Len(n[c])
           /\ \A i \in 1 .. Len(n[c]) : n[c][i] \in Frame /\ n[c][i].vector \in Vector
                                        /\ n[c][i].vector \in 0 .. 255
           /\ n[c] = << >> <=> Len(n[c]) = 0
  <1>1. n[c] \in Seq(Frame)
    BY DEF Stacks
  <1>2. Len(n[c]) \in Nat /\ DOMAIN n[c] = 1 .. Len(n[c]) /\ (n[c] = << >> <=> Len(n[c]) = 0)
    BY <1>1, LenProperties, EmptySeq
  <1>3. ASSUME NEW i \in 1 .. Len(n[c])
        PROVE  n[c][i] \in Frame /\ n[c][i].vector \in Vector /\ n[c][i].vector \in 0 .. 255
    <2>1. n[c][i] \in Frame
      BY <1>1, ElementOfSeq
    <2> QED BY <2>1, InterruptsAssumption DEF Frame
  <1> QED BY <1>1, <1>2, <1>3

(* What pushing a frame, changing the innermost one and taking it off do to
   the stacks.                                                              *)
IsPushed(n, r, x, m) == m = [n EXCEPT ![r] = Append(n[r], x)]
IsRestaged(n, r, t, m) == m = [n EXCEPT ![r][Len(n[r])].stage = t]
IsPopped(n, r, m) ==
    LET outer == SubSeq(n[r], 1, Len(n[r]) - 1) IN
    m = [n EXCEPT ![r] = [i \in DOMAIN outer |->
            IF outer[i].stage = "halted" THEN [outer[i] EXCEPT !.stage = "done"] ELSE outer[i]]]

(* A frame is pushed. *)
LEMMA Pushed ==
    ASSUME NEW n \in Stacks, NEW r \in Context, NEW x \in Frame,
           NEW m, IsPushed(n, r, x, m)
    PROVE  /\ m \in Stacks
           /\ Len(m[r]) = Len(n[r]) + 1
           /\ m[r][Len(n[r]) + 1] = x
           /\ \A i \in 1 .. Len(n[r]) : m[r][i] = n[r][i]
           /\ \A c \in Context : c # r => m[c] = n[c]
  <1>1. n[r] \in Seq(Frame)
    BY StackLen
  <1>2. /\ Append(n[r], x) \in Seq(Frame) /\ Len(Append(n[r], x)) = Len(n[r]) + 1
        /\ \A i \in 1 .. Len(n[r]) : Append(n[r], x)[i] = n[r][i]
        /\ Append(n[r], x)[Len(n[r]) + 1] = x
    BY <1>1, AppendProperties
  <1>3. m[r] = Append(n[r], x) /\ (\A c \in Context : c # r => m[c] = n[c]) /\ m \in Stacks
    BY <1>2 DEF Stacks, IsPushed
  <1> QED BY <1>2, <1>3

(* The handler of the innermost frame goes on. *)
LEMMA Restaged ==
    ASSUME NEW n \in Stacks, NEW r \in Context, Len(n[r]) > 0, NEW t \in Stage,
           NEW m, IsRestaged(n, r, t, m)
    PROVE  /\ m \in Stacks
           /\ Len(m[r]) = Len(n[r])
           /\ m[r][Len(n[r])].vector = n[r][Len(n[r])].vector
           /\ m[r][Len(n[r])].flag = n[r][Len(n[r])].flag
           /\ m[r][Len(n[r])].stage = t
           /\ \A i \in 1 .. Len(n[r]) : i # Len(n[r]) => m[r][i] = n[r][i]
           /\ \A c \in Context : c # r => m[c] = n[c]
  <1> DEFINE k == Len(n[r])
             x == [n[r][k] EXCEPT !.stage = t]
             w == [n[r] EXCEPT ![k] = x]
  <1>1. n[r] \in Seq(Frame) /\ k \in Nat /\ k \in 1 .. Len(n[r]) /\ n[r][k] \in Frame
    <2>1. n[r] \in Seq(Frame) /\ k \in Nat /\ k \in 1 .. Len(n[r])
      BY StackLen
    <2> QED BY <2>1, StackLen
  <1>2. m = [n EXCEPT ![r] = w]
    BY DEF IsRestaged
  <1> HIDE DEF k
  <1>3. /\ x \in Frame /\ x.vector = n[r][k].vector /\ x.flag = n[r][k].flag /\ x.stage = t
    BY <1>1 DEF Frame
  <1> HIDE DEF x
  <1>4. /\ w \in Seq(Frame) /\ Len(w) = Len(n[r])
        /\ \A j \in 1 .. Len(n[r]) : w[j] = IF j = k THEN x ELSE n[r][j]
    BY <1>1, <1>3, ExceptSeq
  <1> HIDE DEF w
  <1>5. m[r] = w /\ (\A c \in Context : c # r => m[c] = n[c]) /\ m \in Stacks
    BY <1>2, <1>4 DEF Stacks
  <1> QED BY <1>1, <1>3, <1>4, <1>5 DEF k

(* A frame is taken off: those under it that were halted go on. *)
LEMMA Popped ==
    ASSUME NEW n \in Stacks, NEW r \in Context, Len(n[r]) > 0, NEW m, IsPopped(n, r, m)
    PROVE  /\ m \in Stacks
           /\ Len(m[r]) = Len(n[r]) - 1
           /\ \A i \in 1 .. Len(n[r]) - 1 :
                 /\ m[r][i].vector = n[r][i].vector /\ m[r][i].flag = n[r][i].flag
                 /\ m[r][i].stage = IF n[r][i].stage = "halted" THEN "done" ELSE n[r][i].stage
           /\ \A c \in Context : c # r => m[c] = n[c]
  <1> DEFINE k == Len(n[r]) - 1
             outer == SubSeq(n[r], 1, k)
             x(i) == IF outer[i].stage = "halted" THEN [outer[i] EXCEPT !.stage = "done"] ELSE outer[i]
             w == [i \in DOMAIN outer |-> x(i)]
  <1>1. /\ k \in Nat /\ 1 \in Int /\ \A i \in 1 .. k : n[r][i] \in Frame
        /\ k = Len(n[r]) - 1
    BY StackLen
  <1>2. m = [n EXCEPT ![r] = w]
    BY DEF IsPopped
  <1> HIDE DEF k
  <1>3. outer \in Seq(Frame) /\ Len(outer) = k /\ \A i \in 1 .. k : outer[i] = n[r][i]
    <2>1. /\ outer \in Seq(Frame) /\ Len(outer) = IF 1 <= k THEN k - 1 + 1 ELSE 0
          /\ \A i \in 1 .. k - 1 + 1 : outer[i] = n[r][1 + i - 1]
      BY <1>1, SubSeqProperties
    <2>2. k - 1 + 1 = k /\ (IF 1 <= k THEN k - 1 + 1 ELSE 0) = k /\ \A i \in 1 .. k : 1 + i - 1 = i
      BY <1>1
    <2> HIDE DEF outer
    <2> QED BY <2>1, <2>2
  <1>4. DOMAIN outer = 1 .. k
    BY <1>3, LenProperties
  <1> HIDE DEF outer
  <1>5. ASSUME NEW i \in 1 .. k
        PROVE  /\ x(i) \in Frame /\ x(i).vector = n[r][i].vector /\ x(i).flag = n[r][i].flag
               /\ x(i).stage = IF n[r][i].stage = "halted" THEN "done" ELSE n[r][i].stage
    <2>1. n[r][i] \in Frame /\ outer[i] = n[r][i]
      BY <1>1, <1>3
    <2>2. CASE n[r][i].stage = "halted"
      <3>1. x(i) = [n[r][i] EXCEPT !.stage = "done"]
        BY <2>1, <2>2
      <3> QED BY <2>1, <2>2, <3>1 DEF Frame, Stage
    <2>3. CASE n[r][i].stage # "halted"
      BY <2>1, <2>3
    <2> QED BY <2>2, <2>3
  <1>6. w = [i \in 1 .. k |-> x(i)]
    BY <1>4
  <1> HIDE DEF x
  <1>7. w \in [1 .. k -> Frame] /\ \A i \in 1 .. k : w[i] = x(i)
    BY <1>5, <1>6
  <1> HIDE DEF w
  <1>8. w \in Seq(Frame) /\ Len(w) = k
    <2>1. k \in Nat BY <1>1
    <2>2. DOMAIN w = 1 .. k BY <1>7
    <2>3. Len(w) = k BY <2>1, <2>2
    <2>4. w \in Seq(Frame) BY <2>1, <1>7, SMTT(30)
    <2> QED BY <2>3, <2>4
  <1>9. m[r] = w /\ (\A c \in Context : c # r => m[c] = n[c]) /\ m \in Stacks
    BY <1>2, <1>8 DEF Stacks
  <1> QED BY <1>1, <1>5, <1>7, <1>8, <1>9

(* A vector of a higher class is a higher vector. *)
LEMMA ClassOrder ==
    ASSUME NEW u \in 0 .. 255, NEW v \in 0 .. 255
    PROVE  Class(u) < Class(v) => u < v
  BY DEF Class

(* What halts the processor is an exception. *)
LEMMA FatalIsException == \A u \in Fatal : ~Hardware(u)
  <1>1. \A u \in Fatal : u \in Nat /\ u < 32
    BY DEF Fatal, DoubleFault
  <1> QED BY <1>1 DEF Hardware

(* No device has a lower class than the timer. *)
LEMMA TimerIsLeast == \A u \in 32 .. 254 : ~(Class(u) < Class(32))
  BY DEF Class

(* How a vector v comes to be taken: one of a device, above all that are in
   service; a spurious one; a fault or a trap of a thread; or an NMI.       *)
Taken(r, f, n, sv, v, sv2) ==
    \/ /\ Hardware(v) /\ f = TRUE /\ sv2 = sv \cup {v}
       /\ \A u \in sv : Class(v) > Class(u)
    \/ v = Spurious /\ f = TRUE /\ sv2 = sv
    \/ n[r] = << >> /\ v < 32 /\ v # Nmi /\ sv2 = sv
    \/ /\ v = Nmi /\ sv2 = sv
       /\ \A c \in Context : \A i \in 1 .. Len(n[c]) : n[c][i].vector # Nmi

(* A frame is pushed. *)
LEMMA PushInv ==
    ASSUME NEW r, NEW f, NEW s, NEW n, NEW sv, IntInvOf(r, f, s, n, sv),
           NEW v \in Vector, NEW x, x = [vector |-> v, flag |-> f, stage |-> "entered"],
           NEW m, IsPushed(n, r, x, m),
           NEW f2, f2 = (f /\ g_idt[v].type = "trap"), NEW sv2,
           Taken(r, f, n, sv, v, sv2)
    PROVE  IntInvOf(r, f2, s, m, sv2)
  <1> DEFINE k == Len(n[r])
  <1>1. IntTypeOK(r, f, s, n, sv) /\ v \in 0 .. 255 /\ r \in Context /\ f \in BOOLEAN /\ n \in Stacks
    BY InterruptsAssumption DEF IntInvOf, IntTypeOK
  <1>2. x \in Frame /\ x.vector = v /\ x.flag = f /\ x.stage = "entered"
    BY <1>1 DEF Frame, Stage
  <1>3. /\ m \in Stacks /\ Len(m[r]) = k + 1 /\ k \in Nat /\ m[r][k + 1] = x
        /\ \A i \in 1 .. k : m[r][i] = n[r][i]
        /\ \A c \in Context : c # r => m[c] = n[c]
    <2>1. k \in Nat
      BY <1>1, StackLen
    <2>2. /\ m \in Stacks /\ Len(m[r]) = Len(n[r]) + 1 /\ m[r][Len(n[r]) + 1] = x
          /\ \A i \in 1 .. Len(n[r]) : m[r][i] = n[r][i]
          /\ \A c \in Context : c # r => m[c] = n[c]
      BY <1>1, <1>2, Pushed
    <2> QED BY <2>1, <2>2
  <1>9. /\ Hardware(v) => f = TRUE /\ (\A u \in sv : Class(v) > Class(u)) /\ sv2 = sv \cup {v}
        /\ ~Hardware(v) => sv2 = sv
        /\ v = Nmi => \A c \in Context : \A i \in 1 .. Len(n[c]) : n[c][i].vector # Nmi
        /\ v \in {DoubleFault, 18} => n[r] = << >>
        /\ v = Nmi \/ f = TRUE \/ n[r] = << >>
    <2>1. /\ Hardware(v) <=> v \in 32 .. 254
          /\ Spurious = 255 /\ Nmi = 2 /\ DoubleFault = 8
      BY DEF Hardware, Spurious, Nmi, DoubleFault
    <2>2. v \in 0 .. 255
      BY <1>1
    <2>3. CASE Hardware(v)
      <3>1. v # Spurious /\ v # Nmi /\ v \notin {DoubleFault, 18} /\ ~(v < 32)
        BY ONLY <2>1, <2>2, <2>3
      <3> QED BY <2>3, <3>1 DEF Taken
    <2>4. CASE ~Hardware(v)
      <3>1. Nmi # Spurious /\ Nmi \notin {DoubleFault, 18} /\ Spurious \notin {DoubleFault, 18}
        BY ONLY <2>1
      <3> QED BY <2>4, <3>1 DEF Taken
    <2> QED BY <2>3, <2>4
  <1>4. ASSUME NEW c \in Context, NEW i \in 1 .. Len(m[c])
        PROVE  \/ c = r /\ i = k + 1 /\ m[c][i] = x
               \/ i \in 1 .. Len(n[c]) /\ m[c][i] = n[c][i]
    <2>1. CASE c = r
      <3>1. i \in 1 .. k + 1
        BY <1>3, <2>1
      <3> HIDE DEF k
      <3>2. i = k + 1 \/ i \in 1 .. k
        BY <1>3, <3>1
      <3> QED BY <1>3, <2>1, <3>2 DEF k
    <2>2. CASE c # r
      BY <1>3, <2>2
    <2> QED BY <2>1, <2>2
  <1>5. ASSUME NEW c \in Context, NEW i \in 1 .. Len(n[c])
        PROVE  i \in 1 .. Len(m[c]) /\ m[c][i] = n[c][i]
    <2> QED BY <1>3
  <1>6. ASSUME NEW c \in Context, NEW i \in 1 .. Len(n[c])
        PROVE  n[c][i].vector \in 0 .. 255 /\ n[c][i] \in Frame /\ Len(n[c]) \in Nat
    BY <1>1, StackLen, SMTT(30)
  <1>7. k > 0 => k \in 1 .. k
    BY <1>3
  <1>8. ASSUME NEW i \in 1 .. k, Gated(n[r][i])
        PROVE  /\ v = Nmi
               /\ \A j \in i + 1 .. k : n[r][j].vector = Nmi
               /\ i = k => f = FALSE
    <2> USE <1>8
    <2>1. \A j \in i + 1 .. k : n[r][j].vector = Nmi
      BY <1>1 DEF IntInvOf, Masked
    <2>2. i = k => f = FALSE
      <3>1. k > 0
        BY <1>3
      <3> QED BY <1>1, <3>1 DEF IntInvOf, FlagClear
    <2>3. ASSUME f
          PROVE  FALSE
      <3>1. i # k
        BY <2>2, <2>3
      <3>2. k \in i + 1 .. k
        BY <1>3, <3>1
      <3>3. n[r][k].vector = Nmi
        BY <2>1, <3>2
      <3>4. Gated(n[r][k])
        <4>1. g_idt[2].type = "interrupt"
          <5>1. 2 \in 0 .. 255 /\ 2 \notin {1, 3, 128}
            OBVIOUS
          <5> QED BY ONLY <5>1, GateFacts
        <4> QED BY <3>3, <4>1 DEF Gated, Nmi
      <3>5. f = FALSE
        BY <1>1, <1>3, <3>4 DEF IntInvOf, FlagClear
      <3> QED BY <2>3, <3>5
    <2>4. n[r] # << >>
      BY <1>1, <1>3, StackLen, SMTT(30)
    <2> QED BY <1>9, <2>1, <2>2, <2>3, <2>4
  <1> HIDE DEF k
  <1>10. StagesFit(m)
    <2> SUFFICES ASSUME NEW c \in Context, NEW i \in 1 .. Len(m[c])
                 PROVE  /\ m[c][i].stage \in {"ticking", "ticked"} => m[c][i].vector = Timer
                        /\ m[c][i].stage = "halted" => m[c][i].vector \in Fatal
      BY DEF StagesFit
    <2>1. CASE i \in 1 .. Len(n[c]) /\ m[c][i] = n[c][i]
      BY <2>1 DEF IntInvOf, StagesFit
    <2>2. CASE m[c][i] = x
      BY <1>2, <2>2
    <2> QED BY <1>4, <2>1, <2>2
  <1>11. Masked(m)
    <2> SUFFICES ASSUME NEW c \in Context, NEW i \in 1 .. Len(m[c]), Gated(m[c][i]),
                        NEW j \in i + 1 .. Len(m[c])
                 PROVE  m[c][j].vector = Nmi /\ (j = i + 1 => m[c][j].flag = FALSE)
      BY DEF Masked
    <2>1. CASE c # r
      <3>1. m[c] = n[c]
        BY <1>3, <2>1
      <3>2. i \in 1 .. Len(n[c]) /\ j \in i + 1 .. Len(n[c]) /\ Gated(n[c][i])
        BY <3>1
      <3>3. n[c][j].vector = Nmi /\ (j = i + 1 => n[c][j].flag = FALSE)
        BY <3>2 DEF IntInvOf, Masked
      <3> QED BY <3>1, <3>3
    <2>2. CASE c = r
      <3>1. i \in 1 .. k /\ m[r][i] = n[r][i] /\ j \in 1 .. k + 1
        BY <1>3, <2>2
      <3>2. Gated(n[r][i])
        BY <2>2, <3>1
      <3>3. CASE j = k + 1
        <4>1. m[r][j] = x /\ v = Nmi
          BY <1>3, <1>8, <3>1, <3>2, <3>3
        <4>2. ASSUME j = i + 1
              PROVE  f = FALSE
          <5>1. i = k
            BY <1>3, <3>3, <4>2
          <5> QED BY <1>8, <3>1, <3>2, <5>1
        <4> QED BY <1>2, <2>2, <4>1, <4>2
      <3>4. CASE j # k + 1
        <4>1. j \in 1 .. k /\ j \in i + 1 .. k
          BY <1>3, <3>1, <3>4
        <4>2. m[r][j] = n[r][j]
          BY <1>3, <4>1
        <4>3. j \in i + 1 .. Len(n[r]) /\ i \in 1 .. Len(n[r])
          BY <4>1, <3>1 DEF k
        <4>4. n[r][j].vector = Nmi /\ (j = i + 1 => n[r][j].flag = FALSE)
          BY <1>1, <3>2, <4>3 DEF IntInvOf, Masked
        <4> QED BY <2>2, <4>2, <4>4
      <3> QED BY <3>3, <3>4
    <2> QED BY <2>1, <2>2
  <1>12. FlagClear(r, f2, s, m)
    <2> SUFFICES ASSUME NEW c \in Context, Len(m[c]) > 0, Gated(m[c][Len(m[c])])
                 PROVE  (IF c = r THEN f2 ELSE s[c]) = FALSE
      BY DEF FlagClear
    <2>1. CASE c # r
      <3>1. m[c] = n[c]
        BY <1>3, <2>1
      <3> QED BY <2>1, <3>1 DEF IntInvOf, FlagClear
    <2>2. CASE c = r
      <3>1. m[r][Len(m[r])].vector = v
        BY <1>2, <1>3
      <3>2. g_idt[v].type = "interrupt"
        BY <2>2, <3>1 DEF Gated
      <3> QED BY <1>1, <2>2, <3>2
    <2> QED BY <2>1, <2>2
  <1>13. ServiceIsOpen(m, sv2)
    <2>1. ASSUME NEW c \in Context, NEW i \in 1 .. Len(m[c]), Open(m[c][i])
          PROVE  m[c][i].vector \in sv2
      <3>1. CASE i \in 1 .. Len(n[c]) /\ m[c][i] = n[c][i]
        <4>1. n[c][i].vector \in sv
          BY <2>1, <3>1 DEF IntInvOf, ServiceIsOpen
        <4> QED BY <1>9, <3>1, <4>1
      <3>2. CASE m[c][i] = x
        BY <1>2, <1>9, <2>1, <3>2 DEF Open
      <3> QED BY <1>4, <3>1, <3>2
    <2>2. ASSUME NEW u \in sv2
          PROVE  \E c \in Context : \E i \in 1 .. Len(m[c]) : m[c][i].vector = u /\ Open(m[c][i])
      <3>1. CASE u \in sv
        <4>1. PICK c \in Context : \E i \in 1 .. Len(n[c]) : n[c][i].vector = u /\ Open(n[c][i])
          BY <3>1 DEF IntInvOf, ServiceIsOpen
        <4>2. PICK i \in 1 .. Len(n[c]) : n[c][i].vector = u /\ Open(n[c][i])
          BY <4>1
        <4> QED BY <1>5, <4>2
      <3>2. CASE u \notin sv
        <4>1. u = v /\ Hardware(v)
          BY <1>9, <2>2, <3>2
        <4>2. k + 1 \in 1 .. Len(m[r]) /\ Open(x)
          BY <1>2, <1>3, <4>1 DEF Open
        <4> QED BY <1>1, <1>2, <1>3, <4>1, <4>2
      <3> QED BY <3>1, <3>2
    <2>3. ASSUME NEW c \in Context, NEW i \in 1 .. Len(n[c]), n[c][i].vector = v, Open(n[c][i]), Open(x)
          PROVE  FALSE
      <3>1. v \in sv /\ Hardware(v)
        BY <2>3 DEF IntInvOf, ServiceIsOpen, Open
      <3>2. Class(v) > Class(v)
        BY <1>9, <3>1
      <3>3. v \in 0 .. 255
        BY <1>1
      <3> QED BY ONLY <3>2, <3>3 DEF Class
    <2>4. ASSUME NEW c \in Context, NEW d \in Context,
                 NEW i \in 1 .. Len(m[c]), NEW j \in 1 .. Len(m[d]),
                 m[c][i].vector = m[d][j].vector, Open(m[c][i]), Open(m[d][j])
          PROVE  c = d /\ i = j
      <3>1. CASE c = r /\ i = k + 1 /\ m[c][i] = x
        <4>1. CASE d = r /\ j = k + 1 /\ m[d][j] = x
          BY <3>1, <4>1
        <4>2. CASE j \in 1 .. Len(n[d]) /\ m[d][j] = n[d][j]
          BY <1>2, <2>3, <2>4, <3>1, <4>2
        <4> QED BY <1>4, <4>1, <4>2
      <3>2. CASE i \in 1 .. Len(n[c]) /\ m[c][i] = n[c][i]
        <4>1. CASE d = r /\ j = k + 1 /\ m[d][j] = x
          BY <1>2, <2>3, <2>4, <3>2, <4>1
        <4>2. CASE j \in 1 .. Len(n[d]) /\ m[d][j] = n[d][j]
          BY <2>4, <3>2, <4>2 DEF IntInvOf, ServiceIsOpen
        <4> QED BY <1>4, <4>1, <4>2
      <3> QED BY <1>4, <3>1, <3>2
    <2> QED BY <2>1, <2>2, <2>4 DEF ServiceIsOpen
  <1>14. OpenInOrder(r, m)
    <2>1. ASSUME NEW c \in Context, NEW i \in 1 .. Len(m[c]), Open(m[c][i]), m[c][i].vector # Timer
          PROVE  c = r
      <3>1. CASE i \in 1 .. Len(n[c]) /\ m[c][i] = n[c][i]
        BY <2>1, <3>1 DEF IntInvOf, OpenInOrder
      <3> QED BY <1>4, <3>1
    <2>2. ASSUME NEW i \in 1 .. Len(m[r]), NEW j \in 1 .. Len(m[r]), i < j,
                 Open(m[r][i]), Open(m[r][j])
          PROVE  Class(m[r][i].vector) < Class(m[r][j].vector)
      <3>1. i \in 1 .. k /\ m[r][i] = n[r][i]
        BY <1>3, <2>2
      <3>2. CASE j = k + 1
        <4>1. n[r][i].vector \in sv /\ m[r][j] = x
          BY <1>1, <1>3, <2>2, <3>1, <3>2 DEF IntInvOf, ServiceIsOpen, k
        <4>2. Class(v) > Class(n[r][i].vector)
          BY <1>2, <1>9, <2>2, <4>1 DEF Open
        <4> QED BY <1>2, <1>6, <3>1, <4>1, <4>2 DEF Class
      <3>3. CASE j # k + 1
        <4>1. j \in 1 .. k /\ m[r][j] = n[r][j]
          BY <1>3, <2>2, <3>3
        <4> QED BY <2>2, <3>1, <4>1 DEF IntInvOf, OpenInOrder, k
      <3> QED BY <3>2, <3>3
    <2> QED BY <2>1, <2>2 DEF OpenInOrder
  <1>15. StacksOwn(r, m)
    <2>1. ASSUME NEW c \in Context, NEW d \in Context,
                 NEW i \in 1 .. Len(m[c]), NEW j \in 1 .. Len(m[d]),
                 m[c][i].vector = Nmi, m[d][j].vector = Nmi
          PROVE  c = d /\ i = j
      <3>1. CASE c = r /\ i = k + 1 /\ m[c][i] = x
        <4>1. v = Nmi
          BY <1>2, <2>1, <3>1
        <4>2. \A e \in Context : \A h \in 1 .. Len(n[e]) : n[e][h].vector # Nmi
          BY <1>9, <4>1
        <4> QED BY <1>4, <2>1, <3>1, <4>2
      <3>2. CASE i \in 1 .. Len(n[c]) /\ m[c][i] = n[c][i]
        <4>1. v # Nmi
          BY <1>9, <2>1, <3>2
        <4>2. j \in 1 .. Len(n[d]) /\ m[d][j] = n[d][j]
          BY <1>2, <1>4, <2>1, <4>1
        <4> QED BY <2>1, <3>2, <4>2 DEF IntInvOf, StacksOwn
      <3> QED BY <1>4, <3>1, <3>2
    <2>2. ASSUME NEW c \in Context, NEW i \in 1 .. Len(m[c]), m[c][i].vector \in {DoubleFault, 18}
          PROVE  c = r /\ i = 1
      <3>1. CASE c = r /\ i = k + 1 /\ m[c][i] = x
        <4>1. n[r] = << >>
          BY <1>2, <1>9, <2>2, <3>1
        <4>2. k = 0
          BY <1>1, <4>1, StackLen DEF k
        <4> QED BY <3>1, <4>2
      <3>2. CASE i \in 1 .. Len(n[c]) /\ m[c][i] = n[c][i]
        BY <2>2, <3>2 DEF IntInvOf, StacksOwn
      <3> QED BY <1>4, <3>1, <3>2
    <2> QED BY <2>1, <2>2 DEF StacksOwn
  <1>16. IntTypeOK(r, f2, s, m, sv2)
    <2>1. sv2 \subseteq {u \in Vector : Hardware(u)}
      BY <1>1, <1>9 DEF IntTypeOK
    <2>2. f2 \in BOOLEAN
      BY <1>1
    <2> QED BY <1>1, <1>3, <2>1, <2>2 DEF IntTypeOK
  <1> QED BY <1>10, <1>11, <1>12, <1>13, <1>14, <1>15, <1>16 DEF IntInvOf

(* A step of a handler that leaves its interrupt answered or unanswered. *)
LEMMA StageInv ==
    ASSUME NEW r, NEW f, NEW s, NEW n, NEW sv, IntInvOf(r, f, s, n, sv),
           Len(n[r]) > 0, NEW t \in Stage, NEW m, IsRestaged(n, r, t, m),
           Hardware(n[r][Len(n[r])].vector) => (t = "done" <=> n[r][Len(n[r])].stage = "done"),
           t \in {"ticking", "ticked"} => n[r][Len(n[r])].vector = Timer,
           t = "halted" => n[r][Len(n[r])].vector \in Fatal,
           NEW f2, f2 = f \/ f2 = FALSE
    PROVE  IntInvOf(r, f2, s, m, sv)
  <1>1. IntTypeOK(r, f, s, n, sv) /\ r \in Context /\ f \in BOOLEAN /\ f2 \in BOOLEAN /\ n \in Stacks
    BY DEF IntInvOf, IntTypeOK
  <1>2. /\ m \in Stacks
        /\ Len(m[r]) = Len(n[r])
        /\ m[r][Len(n[r])].vector = n[r][Len(n[r])].vector
        /\ m[r][Len(n[r])].flag = n[r][Len(n[r])].flag
        /\ m[r][Len(n[r])].stage = t
        /\ \A i \in 1 .. Len(n[r]) : i # Len(n[r]) => m[r][i] = n[r][i]
        /\ \A c \in Context : c # r => m[c] = n[c]
    BY <1>1, Restaged
  <1>3. \A c \in Context : Len(m[c]) = Len(n[c])
    BY <1>2
  <1>4. ASSUME NEW c \in Context, NEW i \in 1 .. Len(n[c])
        PROVE  /\ m[c][i].vector = n[c][i].vector /\ m[c][i].flag = n[c][i].flag
               /\ Gated(m[c][i]) <=> Gated(n[c][i])
               /\ Open(m[c][i]) <=> Open(n[c][i])
               /\ m[c][i].stage = n[c][i].stage \/ (c = r /\ i = Len(n[r]))
    <2>1. CASE c = r /\ i = Len(n[r])
      BY <1>2, <2>1 DEF Gated, Open
    <2>2. CASE ~(c = r /\ i = Len(n[r]))
      <3>1. m[c][i] = n[c][i]
        BY <1>2, <2>2
      <3> QED BY <3>1
    <2> QED BY <2>1, <2>2
  <1>5. StagesFit(m)
    <2> SUFFICES ASSUME NEW c \in Context, NEW i \in 1 .. Len(n[c])
                 PROVE  /\ m[c][i].stage \in {"ticking", "ticked"} => m[c][i].vector = Timer
                        /\ m[c][i].stage = "halted" => m[c][i].vector \in Fatal
      BY <1>3 DEF StagesFit
    <2>1. CASE c = r /\ i = Len(n[r])
      BY <1>2, <2>1
    <2>2. CASE m[c][i].stage = n[c][i].stage
      BY <1>4, <2>2 DEF IntInvOf, StagesFit
    <2> QED BY <1>4, <2>1, <2>2
  <1>6. Masked(m)
    <2> SUFFICES ASSUME NEW c \in Context, NEW i \in 1 .. Len(m[c]), Gated(m[c][i]),
                        NEW j \in i + 1 .. Len(m[c])
                 PROVE  m[c][j].vector = Nmi /\ (j = i + 1 => m[c][j].flag = FALSE)
      BY DEF Masked
    <2>0. i \in 1 .. Len(n[c]) /\ j \in i + 1 .. Len(n[c]) /\ Gated(n[c][i])
      BY <1>3, <1>4
    <2>1. n[c][j].vector = Nmi /\ (j = i + 1 => n[c][j].flag = FALSE)
      BY <2>0 DEF IntInvOf, Masked
    <2>2. j \in 1 .. Len(n[c])
      BY <2>0
    <2> QED BY <1>4, <2>1, <2>2
  <1>7. FlagClear(r, f2, s, m)
    <2> SUFFICES ASSUME NEW c \in Context, Len(n[c]) > 0, Gated(m[c][Len(n[c])])
                 PROVE  (IF c = r THEN f2 ELSE s[c]) = FALSE
      BY <1>3 DEF FlagClear
    <2>1. Len(n[c]) \in 1 .. Len(n[c])
      BY <1>1, StackLen
    <2>2. Gated(n[c][Len(n[c])])
      BY <1>4, <2>1
    <2>3. (IF c = r THEN f ELSE s[c]) = FALSE
      BY <2>2 DEF IntInvOf, FlagClear
    <2> QED BY <1>1, <2>3
  <1>8. ServiceIsOpen(m, sv)
    <2>1. ASSUME NEW c \in Context, NEW i \in 1 .. Len(m[c]), Open(m[c][i])
          PROVE  m[c][i].vector \in sv
      BY <1>3, <1>4, <2>1 DEF IntInvOf, ServiceIsOpen
    <2>2. ASSUME NEW v \in sv
          PROVE  \E c \in Context : \E i \in 1 .. Len(m[c]) : m[c][i].vector = v /\ Open(m[c][i])
      <3>1. PICK c \in Context : \E i \in 1 .. Len(n[c]) : n[c][i].vector = v /\ Open(n[c][i])
        BY DEF IntInvOf, ServiceIsOpen
      <3>2. PICK i \in 1 .. Len(n[c]) : n[c][i].vector = v /\ Open(n[c][i])
        BY <3>1
      <3> QED BY <1>3, <1>4, <3>2
    <2>3. ASSUME NEW c \in Context, NEW d \in Context,
                 NEW i \in 1 .. Len(m[c]), NEW j \in 1 .. Len(m[d]),
                 m[c][i].vector = m[d][j].vector, Open(m[c][i]), Open(m[d][j])
          PROVE  c = d /\ i = j
      <3>1. i \in 1 .. Len(n[c]) /\ j \in 1 .. Len(n[d])
        BY <1>3
      <3>2. n[c][i].vector = n[d][j].vector /\ Open(n[c][i]) /\ Open(n[d][j])
        BY <1>4, <2>3, <3>1
      <3> QED BY <3>1, <3>2 DEF IntInvOf, ServiceIsOpen
    <2> QED BY <2>1, <2>2, <2>3 DEF ServiceIsOpen
  <1>9. OpenInOrder(r, m)
    <2>1. ASSUME NEW c \in Context, NEW i \in 1 .. Len(m[c]), Open(m[c][i]), m[c][i].vector # Timer
          PROVE  c = r
      BY <1>3, <1>4, <2>1 DEF IntInvOf, OpenInOrder
    <2>2. ASSUME NEW i \in 1 .. Len(m[r]), NEW j \in 1 .. Len(m[r]), i < j,
                 Open(m[r][i]), Open(m[r][j])
          PROVE  Class(m[r][i].vector) < Class(m[r][j].vector)
      <3>1. i \in 1 .. Len(n[r]) /\ j \in 1 .. Len(n[r])
        BY <1>1, <1>3
      <3>2. Open(n[r][i]) /\ Open(n[r][j])
        BY <1>1, <1>4, <2>2, <3>1
      <3>3. Class(n[r][i].vector) < Class(n[r][j].vector)
        BY <2>2, <3>1, <3>2 DEF IntInvOf, OpenInOrder
      <3> QED BY <1>1, <1>4, <3>1, <3>3
    <2> QED BY <2>1, <2>2 DEF OpenInOrder
  <1>10. StacksOwn(r, m)
    <2>1. ASSUME NEW c \in Context, NEW d \in Context,
                 NEW i \in 1 .. Len(m[c]), NEW j \in 1 .. Len(m[d]),
                 m[c][i].vector = Nmi, m[d][j].vector = Nmi
          PROVE  c = d /\ i = j
      <3>1. i \in 1 .. Len(n[c]) /\ j \in 1 .. Len(n[d])
        BY <1>3
      <3>2. n[c][i].vector = Nmi /\ n[d][j].vector = Nmi
        BY <1>4, <2>1, <3>1
      <3> QED BY <3>1, <3>2 DEF IntInvOf, StacksOwn
    <2>2. ASSUME NEW c \in Context, NEW i \in 1 .. Len(m[c]), m[c][i].vector \in {DoubleFault, 18}
          PROVE  c = r /\ i = 1
      <3>1. i \in 1 .. Len(n[c]) /\ n[c][i].vector \in {DoubleFault, 18}
        BY <1>3, <1>4, <2>2
      <3> QED BY <3>1 DEF IntInvOf, StacksOwn
    <2> QED BY <2>1, <2>2 DEF StacksOwn
  <1> QED BY <1>1, <1>2, <1>5, <1>6, <1>7, <1>8, <1>9, <1>10 DEF IntInvOf, IntTypeOK

(* The innermost frame is answered: its vector is the highest in service. *)
LEMMA HighestIsInner ==
    ASSUME NEW r, NEW f, NEW s, NEW n, NEW sv, IntInvOf(r, f, s, n, sv),
           Len(n[r]) > 0, Open(n[r][Len(n[r])])
    PROVE  /\ n[r][Len(n[r])].vector \in sv
           /\ \A u \in sv : u <= n[r][Len(n[r])].vector
           /\ (CHOOSE v \in sv : \A u \in sv : u <= v) = n[r][Len(n[r])].vector
  <1> DEFINE k == Len(n[r])
             w == n[r][k].vector
  <1>1. r \in Context /\ n \in Stacks /\ sv \subseteq Vector
    BY DEF IntInvOf, IntTypeOK
  <1>2. k \in Nat /\ k \in 1 .. k
    BY <1>1, StackLen
  <1>3. w \in sv
    BY <1>1, <1>2 DEF IntInvOf, ServiceIsOpen
  <1>4. sv \subseteq 0 .. 255
    BY <1>1, InterruptsAssumption
  <1>5. w \in 32 .. 254
    BY DEF Open, Hardware
  <1> HIDE DEF w
  <1>6. ASSUME NEW u \in sv
        PROVE  u <= w
    <2>1. PICK c \in Context : \E i \in 1 .. Len(n[c]) : n[c][i].vector = u /\ Open(n[c][i])
      BY DEF IntInvOf, ServiceIsOpen
    <2>2. PICK i \in 1 .. Len(n[c]) : n[c][i].vector = u /\ Open(n[c][i])
      BY <2>1
    <2>3. CASE u = Timer
      BY <1>5, <2>3 DEF Timer
    <2>4. CASE u # Timer
      <3>1. c = r
        BY <2>2, <2>4 DEF IntInvOf, OpenInOrder
      <3>2. CASE i = k
        <4>1. u = w
          BY <2>2, <3>1, <3>2 DEF w
        <4> QED BY <1>5, <4>1
      <3>3. CASE i # k
        <4>1. i \in 1 .. Len(n[r]) /\ i < k /\ k \in 1 .. Len(n[r]) /\ Open(n[r][i]) /\ n[r][i].vector = u
          BY <1>2, <2>2, <3>1, <3>3
        <4>2. Class(u) < Class(w)
          BY <4>1 DEF IntInvOf, OpenInOrder, w
        <4>3. u \in 0 .. 255 /\ w \in 0 .. 255
          BY <1>4, <1>5
        <4>4. u < w
          BY <4>2, <4>3, ClassOrder
        <4> QED BY <4>3, <4>4
      <3> QED BY <3>2, <3>3
    <2> QED BY <2>3, <2>4
  <1>7. ASSUME NEW v \in sv, \A u \in sv : u <= v
        PROVE  v = w
    BY <1>3, <1>4, <1>6, <1>7
  <1>8. (CHOOSE v \in sv : \A u \in sv : u <= v) = w
    <2> DEFINE h == CHOOSE v \in sv : \A u \in sv : u <= v
    <2>1. h \in sv /\ \A u \in sv : u <= h
      BY <1>3, <1>6
    <2> HIDE DEF h
    <2>2. h = w
      BY <1>7, <2>1
    <2> QED BY <2>2 DEF h
  <1> QED BY <1>3, <1>6, <1>8 DEF w

(* The innermost interrupt is answered. *)
LEMMA AnswerInv ==
    ASSUME NEW r, NEW f, NEW s, NEW n, NEW sv, IntInvOf(r, f, s, n, sv),
           Len(n[r]) > 0, Open(n[r][Len(n[r])]), NEW m, IsRestaged(n, r, "done", m)
    PROVE  IntInvOf(r, f, s, m, sv \ {n[r][Len(n[r])].vector})
  <1> DEFINE k == Len(n[r])
             w == n[r][k].vector
  <1>1. IntTypeOK(r, f, s, n, sv) /\ r \in Context /\ n \in Stacks /\ "done" \in Stage
    BY DEF IntInvOf, IntTypeOK, Stage
  <1>2. /\ m \in Stacks
        /\ Len(m[r]) = Len(n[r])
        /\ m[r][k].vector = n[r][k].vector
        /\ m[r][k].flag = n[r][k].flag
        /\ m[r][k].stage = "done"
        /\ \A i \in 1 .. Len(n[r]) : i # k => m[r][i] = n[r][i]
        /\ \A c \in Context : c # r => m[c] = n[c]
    BY <1>1, Restaged
  <1>3. \A c \in Context : Len(m[c]) = Len(n[c])
    BY <1>2
  <1>4. ASSUME NEW c \in Context, NEW i \in 1 .. Len(n[c])
        PROVE  /\ m[c][i].vector = n[c][i].vector /\ m[c][i].flag = n[c][i].flag
               /\ Gated(m[c][i]) <=> Gated(n[c][i])
               /\ Open(m[c][i]) <=> (Open(n[c][i]) /\ ~(c = r /\ i = k))
               /\ m[c][i].stage = n[c][i].stage \/ m[c][i].stage = "done"
    <2>1. CASE c = r /\ i = k
      BY <1>2, <2>1 DEF Gated, Open
    <2>2. CASE ~(c = r /\ i = k)
      <3>1. m[c][i] = n[c][i]
        BY <1>2, <2>2
      <3> QED BY <2>2, <3>1
    <2> QED BY <2>1, <2>2
  <1>5. StagesFit(m)
    <2> SUFFICES ASSUME NEW c \in Context, NEW i \in 1 .. Len(n[c])
                 PROVE  /\ m[c][i].stage \in {"ticking", "ticked"} => m[c][i].vector = Timer
                        /\ m[c][i].stage = "halted" => m[c][i].vector \in Fatal
      BY <1>3 DEF StagesFit
    <2>1. CASE m[c][i].stage = "done"
      BY <2>1
    <2>2. CASE m[c][i].stage = n[c][i].stage
      BY <1>4, <2>2 DEF IntInvOf, StagesFit
    <2> QED BY <1>4, <2>1, <2>2
  <1>6. Masked(m)
    <2> SUFFICES ASSUME NEW c \in Context, NEW i \in 1 .. Len(m[c]), Gated(m[c][i]),
                        NEW j \in i + 1 .. Len(m[c])
                 PROVE  m[c][j].vector = Nmi /\ (j = i + 1 => m[c][j].flag = FALSE)
      BY DEF Masked
    <2>0. i \in 1 .. Len(n[c]) /\ j \in i + 1 .. Len(n[c]) /\ Gated(n[c][i])
      BY <1>3, <1>4
    <2>1. n[c][j].vector = Nmi /\ (j = i + 1 => n[c][j].flag = FALSE)
      BY <2>0 DEF IntInvOf, Masked
    <2>2. j \in 1 .. Len(n[c])
      BY <2>0
    <2> QED BY <1>4, <2>1, <2>2
  <1>7. FlagClear(r, f, s, m)
    <2> SUFFICES ASSUME NEW c \in Context, Len(n[c]) > 0, Gated(m[c][Len(n[c])])
                 PROVE  (IF c = r THEN f ELSE s[c]) = FALSE
      BY <1>3 DEF FlagClear
    <2>1. Len(n[c]) \in 1 .. Len(n[c])
      BY <1>1, StackLen
    <2>2. Gated(n[c][Len(n[c])])
      BY <1>4, <2>1
    <2> QED BY <2>2 DEF IntInvOf, FlagClear
  <1>8. ServiceIsOpen(m, sv \ {w})
    <2>0. Len(n[r]) \in 1 .. Len(n[r])
      BY <1>1, StackLen
    <2>1. ASSUME NEW c \in Context, NEW i \in 1 .. Len(m[c]), Open(m[c][i])
          PROVE  m[c][i].vector \in sv \ {w}
      <3>1. i \in 1 .. Len(n[c]) /\ Open(n[c][i]) /\ ~(c = r /\ i = k)
        BY <1>3, <1>4, <2>1
      <3>2. n[c][i].vector \in sv
        BY <3>1 DEF IntInvOf, ServiceIsOpen
      <3>3. n[c][i].vector # w
        BY <1>1, <2>0, <3>1 DEF IntInvOf, ServiceIsOpen
      <3> QED BY <1>4, <3>1, <3>2, <3>3
    <2>2. ASSUME NEW v \in sv \ {w}
          PROVE  \E c \in Context : \E i \in 1 .. Len(m[c]) : m[c][i].vector = v /\ Open(m[c][i])
      <3>1. PICK c \in Context : \E i \in 1 .. Len(n[c]) : n[c][i].vector = v /\ Open(n[c][i])
        BY DEF IntInvOf, ServiceIsOpen
      <3>2. PICK i \in 1 .. Len(n[c]) : n[c][i].vector = v /\ Open(n[c][i])
        BY <3>1
      <3>3. ~(c = r /\ i = k)
        BY <3>2
      <3> QED BY <1>3, <1>4, <3>2, <3>3
    <2>3. ASSUME NEW c \in Context, NEW d \in Context,
                 NEW i \in 1 .. Len(m[c]), NEW j \in 1 .. Len(m[d]),
                 m[c][i].vector = m[d][j].vector, Open(m[c][i]), Open(m[d][j])
          PROVE  c = d /\ i = j
      <3>1. i \in 1 .. Len(n[c]) /\ j \in 1 .. Len(n[d])
        BY <1>3
      <3>2. n[c][i].vector = n[d][j].vector /\ Open(n[c][i]) /\ Open(n[d][j])
        BY <1>4, <2>3, <3>1
      <3> QED BY <3>1, <3>2 DEF IntInvOf, ServiceIsOpen
    <2> QED BY <2>1, <2>2, <2>3 DEF ServiceIsOpen
  <1>9. OpenInOrder(r, m)
    <2>1. ASSUME NEW c \in Context, NEW i \in 1 .. Len(m[c]), Open(m[c][i]), m[c][i].vector # Timer
          PROVE  c = r
      BY <1>3, <1>4, <2>1 DEF IntInvOf, OpenInOrder
    <2>2. ASSUME NEW i \in 1 .. Len(m[r]), NEW j \in 1 .. Len(m[r]), i < j,
                 Open(m[r][i]), Open(m[r][j])
          PROVE  Class(m[r][i].vector) < Class(m[r][j].vector)
      <3>1. i \in 1 .. Len(n[r]) /\ j \in 1 .. Len(n[r])
        BY <1>1, <1>3
      <3>2. Open(n[r][i]) /\ Open(n[r][j])
        BY <1>1, <1>4, <2>2, <3>1
      <3>3. Class(n[r][i].vector) < Class(n[r][j].vector)
        BY <2>2, <3>1, <3>2 DEF IntInvOf, OpenInOrder
      <3> QED BY <1>1, <1>4, <3>1, <3>3
    <2> QED BY <2>1, <2>2 DEF OpenInOrder
  <1>10. StacksOwn(r, m)
    <2>1. ASSUME NEW c \in Context, NEW d \in Context,
                 NEW i \in 1 .. Len(m[c]), NEW j \in 1 .. Len(m[d]),
                 m[c][i].vector = Nmi, m[d][j].vector = Nmi
          PROVE  c = d /\ i = j
      <3>1. i \in 1 .. Len(n[c]) /\ j \in 1 .. Len(n[d])
        BY <1>3
      <3>2. n[c][i].vector = Nmi /\ n[d][j].vector = Nmi
        BY <1>4, <2>1, <3>1
      <3> QED BY <3>1, <3>2 DEF IntInvOf, StacksOwn
    <2>2. ASSUME NEW c \in Context, NEW i \in 1 .. Len(m[c]), m[c][i].vector \in {DoubleFault, 18}
          PROVE  c = r /\ i = 1
      <3>1. i \in 1 .. Len(n[c]) /\ n[c][i].vector \in {DoubleFault, 18}
        BY <1>3, <1>4, <2>2
      <3> QED BY <3>1 DEF IntInvOf, StacksOwn
    <2> QED BY <2>1, <2>2 DEF StacksOwn
  <1>11. IntTypeOK(r, f, s, m, sv \ {w})
    BY <1>1, <1>2 DEF IntTypeOK
  <1> QED BY <1>5, <1>6, <1>7, <1>8, <1>9, <1>10, <1>11 DEF IntInvOf

(* The innermost handler returns. *)
LEMMA PopInv ==
    ASSUME NEW r, NEW f, NEW s, NEW n, NEW sv, IntInvOf(r, f, s, n, sv),
           Len(n[r]) > 0, n[r][Len(n[r])].stage = "done", NEW m, IsPopped(n, r, m)
    PROVE  IntInvOf(r, n[r][Len(n[r])].flag, s, m, sv)
  <1> DEFINE k == Len(n[r])
  <1>1. /\ IntTypeOK(r, f, s, n, sv) /\ r \in Context /\ n \in Stacks /\ k \in Nat /\ k \in 1 .. k
        /\ n[r][k] \in Frame
    <2>1. IntTypeOK(r, f, s, n, sv) /\ r \in Context /\ n \in Stacks
      BY DEF IntInvOf, IntTypeOK
    <2>2. k \in Nat /\ k \in 1 .. k
      BY <2>1, StackLen
    <2> QED BY <2>1, <2>2, StackLen
  <1>2. /\ m \in Stacks
        /\ Len(m[r]) = k - 1
        /\ \A i \in 1 .. k - 1 :
              /\ m[r][i].vector = n[r][i].vector /\ m[r][i].flag = n[r][i].flag
              /\ m[r][i].stage = IF n[r][i].stage = "halted" THEN "done" ELSE n[r][i].stage
        /\ \A c \in Context : c # r => m[c] = n[c]
    BY <1>1, Popped
  <1>3. ASSUME NEW c \in Context, NEW i \in 1 .. Len(m[c])
        PROVE  i \in 1 .. Len(n[c]) /\ ~(c = r /\ i = k)
    BY <1>1, <1>2
  <1>3a. ASSUME NEW c \in Context, NEW i \in 1 .. Len(n[c]), ~(c = r /\ i = k)
         PROVE  i \in 1 .. Len(m[c])
    BY <1>1, <1>2, <1>3a
  <1>4. ASSUME NEW c \in Context, NEW i \in 1 .. Len(n[c]), ~(c = r /\ i = k)
        PROVE  /\ m[c][i].vector = n[c][i].vector /\ m[c][i].flag = n[c][i].flag
               /\ Gated(m[c][i]) <=> Gated(n[c][i])
               /\ Open(m[c][i]) <=> Open(n[c][i])
               /\ m[c][i].stage = n[c][i].stage \/ m[c][i].stage = "done"
    <2>1. CASE c = r
      <3>1. i \in 1 .. k - 1
        BY <1>1, <1>4, <2>1
      <3>2. /\ m[c][i].vector = n[c][i].vector /\ m[c][i].flag = n[c][i].flag
            /\ m[c][i].stage = IF n[c][i].stage = "halted" THEN "done" ELSE n[c][i].stage
        BY <1>2, <2>1, <3>1
      <3>3. n[c][i].stage = "halted" => ~Hardware(n[c][i].vector)
        <4>1. n[c][i].stage = "halted" => n[c][i].vector \in Fatal
          BY DEF IntInvOf, StagesFit
        <4> QED BY <4>1, FatalIsException
      <3> HIDE DEF k
      <3>4. Gated(m[c][i]) <=> Gated(n[c][i])
        BY <3>2 DEF Gated
      <3>5. Open(m[c][i]) <=> Open(n[c][i])
        BY <3>2, <3>3 DEF Open
      <3> QED BY <3>2, <3>4, <3>5
    <2>2. CASE c # r
      <3>1. m[c] = n[c]
        BY <1>2, <2>2
      <3> QED BY <3>1
    <2> QED BY <2>1, <2>2
  <1>4a. ~Open(n[r][k])
    BY DEF Open
  <1>5. StagesFit(m)
    <2> SUFFICES ASSUME NEW c \in Context, NEW i \in 1 .. Len(m[c])
                 PROVE  /\ m[c][i].stage \in {"ticking", "ticked"} => m[c][i].vector = Timer
                        /\ m[c][i].stage = "halted" => m[c][i].vector \in Fatal
      BY DEF StagesFit
    <2>1. CASE m[c][i].stage = "done"
      BY <2>1
    <2>2. CASE m[c][i].stage = n[c][i].stage
      BY <1>3, <1>4, <2>2 DEF IntInvOf, StagesFit
    <2> QED BY <1>3, <1>4, <2>1, <2>2
  <1>6. Masked(m)
    <2> SUFFICES ASSUME NEW c \in Context, NEW i \in 1 .. Len(m[c]), Gated(m[c][i]),
                        NEW j \in i + 1 .. Len(m[c])
                 PROVE  m[c][j].vector = Nmi /\ (j = i + 1 => m[c][j].flag = FALSE)
      BY DEF Masked
    <2>0. j \in 1 .. Len(m[c])
      BY <1>1, <1>2, StackLen
    <2>1. i \in 1 .. Len(n[c]) /\ j \in 1 .. Len(n[c]) /\ Gated(n[c][i]) /\ j \in i + 1 .. Len(n[c])
      <3>1. i \in 1 .. Len(n[c]) /\ j \in 1 .. Len(n[c]) /\ Gated(n[c][i])
        BY <1>3, <1>4, <2>0
      <3> QED BY <3>1
    <2>2. n[c][j].vector = Nmi /\ (j = i + 1 => n[c][j].flag = FALSE)
      BY <2>1 DEF IntInvOf, Masked
    <2> QED BY <1>3, <1>4, <2>0, <2>2
  <1>7. FlagClear(r, n[r][k].flag, s, m)
    <2> SUFFICES ASSUME NEW c \in Context, Len(m[c]) > 0, Gated(m[c][Len(m[c])])
                 PROVE  (IF c = r THEN n[r][k].flag ELSE s[c]) = FALSE
      BY DEF FlagClear
    <2>1. CASE c = r
      <3>1. k - 1 \in 1 .. Len(m[r]) /\ Len(m[r]) = k - 1
        BY <1>1, <1>2, <2>1
      <3>2. k - 1 \in 1 .. Len(n[r]) /\ Gated(n[r][k - 1])
        BY <1>1, <1>3, <1>4, <2>1, <3>1
      <3>3. k \in (k - 1) + 1 .. Len(n[r]) /\ k = (k - 1) + 1
        BY <1>1
      <3>4. n[r][k].flag = FALSE
        BY <1>1, <3>2, <3>3 DEF IntInvOf, Masked
      <3> QED BY <2>1, <3>4
    <2>2. CASE c # r
      <3>1. m[c] = n[c]
        BY <1>2, <2>2
      <3> QED BY <2>2, <3>1 DEF IntInvOf, FlagClear
    <2> QED BY <2>1, <2>2
  <1>8. ServiceIsOpen(m, sv)
    <2>1. ASSUME NEW c \in Context, NEW i \in 1 .. Len(m[c]), Open(m[c][i])
          PROVE  m[c][i].vector \in sv
      BY <1>3, <1>4, <2>1 DEF IntInvOf, ServiceIsOpen
    <2>2. ASSUME NEW v \in sv
          PROVE  \E c \in Context : \E i \in 1 .. Len(m[c]) : m[c][i].vector = v /\ Open(m[c][i])
      <3>1. PICK c \in Context : \E i \in 1 .. Len(n[c]) : n[c][i].vector = v /\ Open(n[c][i])
        BY DEF IntInvOf, ServiceIsOpen
      <3>2. PICK i \in 1 .. Len(n[c]) : n[c][i].vector = v /\ Open(n[c][i])
        BY <3>1
      <3>3. ~(c = r /\ i = k)
        BY <1>4a, <3>2
      <3> QED BY <1>3a, <1>4, <3>2, <3>3
    <2>3. ASSUME NEW c \in Context, NEW d \in Context,
                 NEW i \in 1 .. Len(m[c]), NEW j \in 1 .. Len(m[d]),
                 m[c][i].vector = m[d][j].vector, Open(m[c][i]), Open(m[d][j])
          PROVE  c = d /\ i = j
      <3>1. i \in 1 .. Len(n[c]) /\ j \in 1 .. Len(n[d])
        BY <1>3
      <3>2. n[c][i].vector = n[d][j].vector /\ Open(n[c][i]) /\ Open(n[d][j])
        BY <1>3, <1>4, <2>3
      <3> QED BY <3>1, <3>2 DEF IntInvOf, ServiceIsOpen
    <2> QED BY <2>1, <2>2, <2>3 DEF ServiceIsOpen
  <1>9. OpenInOrder(r, m)
    <2>1. ASSUME NEW c \in Context, NEW i \in 1 .. Len(m[c]), Open(m[c][i]), m[c][i].vector # Timer
          PROVE  c = r
      BY <1>3, <1>4, <2>1 DEF IntInvOf, OpenInOrder
    <2>2. ASSUME NEW i \in 1 .. Len(m[r]), NEW j \in 1 .. Len(m[r]), i < j,
                 Open(m[r][i]), Open(m[r][j])
          PROVE  Class(m[r][i].vector) < Class(m[r][j].vector)
      <3>1. i \in 1 .. Len(n[r]) /\ j \in 1 .. Len(n[r]) /\ i # k /\ j # k
        BY <1>1, <1>3
      <3>2. Open(n[r][i]) /\ Open(n[r][j])
        BY <1>1, <1>4, <2>2, <3>1
      <3>3. Class(n[r][i].vector) < Class(n[r][j].vector)
        BY <2>2, <3>1, <3>2 DEF IntInvOf, OpenInOrder
      <3> QED BY <1>1, <1>4, <3>1, <3>3
    <2> QED BY <2>1, <2>2 DEF OpenInOrder
  <1>10. StacksOwn(r, m)
    <2>1. ASSUME NEW c \in Context, NEW d \in Context,
                 NEW i \in 1 .. Len(m[c]), NEW j \in 1 .. Len(m[d]),
                 m[c][i].vector = Nmi, m[d][j].vector = Nmi
          PROVE  c = d /\ i = j
      <3>1. i \in 1 .. Len(n[c]) /\ j \in 1 .. Len(n[d])
        BY <1>3
      <3>2. n[c][i].vector = Nmi /\ n[d][j].vector = Nmi
        BY <1>3, <1>4, <2>1
      <3> QED BY <3>1, <3>2 DEF IntInvOf, StacksOwn
    <2>2. ASSUME NEW c \in Context, NEW i \in 1 .. Len(m[c]), m[c][i].vector \in {DoubleFault, 18}
          PROVE  c = r /\ i = 1
      <3>1. i \in 1 .. Len(n[c]) /\ n[c][i].vector \in {DoubleFault, 18}
        BY <1>3, <1>4, <2>2
      <3> QED BY <3>1 DEF IntInvOf, StacksOwn
    <2> QED BY <2>1, <2>2 DEF StacksOwn
  <1>11. IntTypeOK(r, n[r][k].flag, s, m, sv)
    BY <1>1, <1>2 DEF IntTypeOK, Frame
  <1> QED BY <1>5, <1>6, <1>7, <1>8, <1>9, <1>10, <1>11 DEF IntInvOf

(* A context with no unanswered frame but a timer's is switched away. *)
LEMMA SwitchInv ==
    ASSUME NEW r, NEW f, NEW s, NEW n, NEW sv, IntInvOf(r, f, s, n, sv),
           \A i \in 1 .. Len(n[r]) : /\ Open(n[r][i]) => n[r][i].vector = Timer
                                     /\ n[r][i].vector \notin {DoubleFault, 18},
           NEW d \in Context, d # r
    PROVE  IntInvOf(d, s[d], [s EXCEPT ![r] = f], n, sv)
  <1> DEFINE s2 == [s EXCEPT ![r] = f]
  <1>1. IntTypeOK(r, f, s, n, sv)
    BY DEF IntInvOf
  <1>2. s2 \in [Context -> BOOLEAN] /\ s2[r] = f /\ \A c \in Context : c # r => s2[c] = s[c]
    BY <1>1 DEF IntTypeOK
  <1> HIDE DEF s2
  <1>3. IntTypeOK(d, s[d], s2, n, sv)
    BY <1>1, <1>2 DEF IntTypeOK
  <1>4. FlagClear(d, s[d], s2, n)
    <2> SUFFICES ASSUME NEW c \in Context, Len(n[c]) > 0, Gated(n[c][Len(n[c])])
                 PROVE  (IF c = d THEN s[d] ELSE s2[c]) = FALSE
      BY DEF FlagClear
    <2>1. (IF c = r THEN f ELSE s[c]) = FALSE
      BY DEF IntInvOf, FlagClear
    <2> QED BY <1>2, <2>1
  <1>5. ASSUME NEW c \in Context, NEW i \in 1 .. Len(n[c]), Open(n[c][i])
        PROVE  n[c][i].vector = Timer
    BY <1>5 DEF IntInvOf, OpenInOrder
  <1>6. OpenInOrder(d, n)
    <2>1. ASSUME NEW i \in 1 .. Len(n[d]), NEW j \in 1 .. Len(n[d]), i < j, Open(n[d][i]), Open(n[d][j])
          PROVE  Class(n[d][i].vector) < Class(n[d][j].vector)
      <3>1. i = j
        BY <1>5, <2>1 DEF IntInvOf, ServiceIsOpen
      <3> QED BY <2>1, <3>1
    <2> QED BY <1>5, <2>1 DEF OpenInOrder
  <1>7. StacksOwn(d, n)
    <2>1. ASSUME NEW c \in Context, NEW i \in 1 .. Len(n[c]), n[c][i].vector \in {DoubleFault, 18}
          PROVE  FALSE
      <3>1. c = r
        BY <2>1 DEF IntInvOf, StacksOwn
      <3> QED BY <2>1, <3>1
    <2> QED BY <2>1 DEF IntInvOf, StacksOwn
  <1> QED BY <1>3, <1>4, <1>6, <1>7 DEF IntInvOf, s2

(* Under a timer interrupt that is not answered nothing is unanswered, and no
   handler behind an interrupt gate was interrupted.                        *)
LEMMA UnderTimer ==
    ASSUME NEW r, NEW f, NEW s, NEW n, NEW sv, IntInvOf(r, f, s, n, sv),
           Len(n[r]) > 0, n[r][Len(n[r])].vector = Timer, n[r][Len(n[r])].stage # "done"
    PROVE  \A i \in 1 .. Len(n[r]) : /\ Open(n[r][i]) => n[r][i].vector = Timer
                                     /\ n[r][i].vector \notin {DoubleFault, 18}
  <1> DEFINE k == Len(n[r])
  <1>1. r \in Context /\ n \in Stacks /\ k \in Nat
    <2>1. r \in Context /\ n \in Stacks
      BY DEF IntInvOf, IntTypeOK
    <2> QED BY <2>1, StackLen
  <1>2. Open(n[r][k]) /\ k \in 1 .. Len(n[r])
    BY <1>1 DEF Open, Hardware, Timer
  <1> SUFFICES ASSUME NEW i \in 1 .. Len(n[r])
               PROVE  /\ Open(n[r][i]) => n[r][i].vector = Timer
                      /\ n[r][i].vector \notin {DoubleFault, 18}
    OBVIOUS
  <1>3. CASE i = k
    BY <1>3 DEF DoubleFault, Timer
  <1>4. CASE i # k
    <2>1. i < k /\ n[r][i].vector \in 0 .. 255 /\ k \in i + 1 .. Len(n[r])
      <3>1. i < k /\ k \in i + 1 .. Len(n[r])
        BY <1>1, <1>4
      <3> QED BY <1>1, <3>1, StackLen
    <2>2. ASSUME Open(n[r][i])
          PROVE  FALSE
      <3>1. Class(n[r][i].vector) < Class(32)
        BY <1>2, <2>1, <2>2 DEF IntInvOf, OpenInOrder, Timer
      <3> DEFINE u == n[r][i].vector
      <3>2. Class(u) < Class(32) /\ u \in 0 .. 255 /\ u \in 32 .. 254
        BY <2>1, <2>2, <3>1 DEF Open, Hardware
      <3> HIDE DEF u
      <3> QED BY <3>2, TimerIsLeast, Zenon
    <2>3. ~Gated(n[r][i])
      <3>1. Gated(n[r][i]) => n[r][k].vector = Nmi
        BY <1>1, <2>1 DEF IntInvOf, Masked
      <3> QED BY <3>1 DEF Nmi, Timer
    <2>4. ASSUME n[r][i].vector \in {DoubleFault, 18}
          PROVE  FALSE
      <3>1. g_idt[n[r][i].vector].type = "interrupt"
        <4>1. g_idt[8].type = "interrupt" /\ g_idt[18].type = "interrupt"
          <5>1. 8 \in 0 .. 255 /\ 8 \notin {1, 3, 128} /\ 18 \in 0 .. 255 /\ 18 \notin {1, 3, 128}
            OBVIOUS
          <5> QED BY ONLY <5>1, GateFacts, ZenonT(30)
        <4>2. n[r][i].vector = 8 \/ n[r][i].vector = 18
          BY <2>4 DEF DoubleFault
        <4> QED BY <4>1, <4>2
      <3> QED BY <2>3, <3>1 DEF Gated
    <2> QED BY <2>2, <2>4
  <1> QED BY <1>3, <1>4

(* The frames on the stacks of all contexts and the vectors in service keep
   this order, whatever interrupts, faults and switches come (kpcr.c).      *)
THEOREM IntInvHolds == InterruptsSpec => []IntInv
  <1>1. InterruptsInit => IntInv
    <2> SUFFICES ASSUME InterruptsInit
                 PROVE  IntInv
      OBVIOUS
    <2>1. \A c \in Context : Len(nest[c]) = 0
      BY DEF InterruptsInit
    <2>2. IntTypeOK(running, iflag, savedIF, nest, in_service)
      BY InterruptsAssumption DEF InterruptsInit, IntTypeOK, Stacks
    <2>3. in_service = {}
      BY DEF InterruptsInit
    <2>4. \A c \in Context : 1 .. Len(nest[c]) = {}
      BY <2>1
    <2>5. StagesFit(nest) /\ Masked(nest) /\ FlagClear(running, iflag, savedIF, nest)
      BY <2>1, <2>4 DEF StagesFit, Masked, FlagClear
    <2>6. ServiceIsOpen(nest, in_service)
      BY <2>3, <2>4 DEF ServiceIsOpen
    <2>7. running \in Context
      BY <2>2 DEF IntTypeOK
    <2>8. OpenInOrder(running, nest) /\ StacksOwn(running, nest)
      BY <2>4, <2>7 DEF OpenInOrder, StacksOwn
    <2> QED BY <2>2, <2>5, <2>6, <2>8 DEF IntInv, IntInvOf
  <1>2. IntInv /\ [InterruptsNext]_intVars => IntInv'
    <2> SUFFICES ASSUME IntInv, [InterruptsNext]_intVars
                 PROVE  IntInvOf(running', iflag', savedIF', nest', in_service')
      BY DEF IntInv
    <2> DEFINE k == Len(nest[running])
    <2>1. IntInvOf(running, iflag, savedIF, nest, in_service)
      BY DEF IntInv
    <2>2. /\ running \in Context /\ iflag \in BOOLEAN /\ nest \in Stacks /\ k \in Nat
          /\ in_service \subseteq Vector
      <3>1. running \in Context /\ iflag \in BOOLEAN /\ nest \in Stacks /\ in_service \subseteq Vector
        BY <2>1 DEF IntInvOf, IntTypeOK
      <3> QED BY <3>1, StackLen
    <2>3. nest[running] # << >> => k > 0
      BY <2>2, StackLen
    <2>4. \A c \in Context : DOMAIN nest[c] = 1 .. Len(nest[c])
      BY <2>2, StackLen
    <2>5. ASSUME UNCHANGED apicVars
          PROVE  IntInvOf(running', iflag', savedIF', nest', in_service')
      BY <2>1, <2>5 DEF apicVars
    <2>6. ASSUME NEW v \in Vector, Enter(v)
          PROVE  /\ running' = running /\ savedIF' = savedIF
                 /\ iflag' = (iflag /\ g_idt[v].type = "trap")
                 /\ IsPushed(nest, running, [vector |-> v, flag |-> iflag, stage |-> "entered"], nest')
      BY <2>6 DEF Enter, IsPushed
    <2>7. ASSUME NEW t, To(t)
          PROVE  IsRestaged(nest, running, t, nest')
      BY <2>7 DEF To, IsRestaged
    <2>8. CASE DeviceInterrupts
      <3>1. PICK v \in Vector : /\ Hardware(v) /\ iflag
                                /\ \A u \in in_service : Class(v) > Class(u)
                                /\ in_service' = in_service \cup {v}
                                /\ Enter(v)
        BY <2>8 DEF DeviceInterrupts
      <3>2. Taken(running, iflag, nest, in_service, v, in_service')
        BY <3>1 DEF Taken
      <3>3. /\ running' = running /\ savedIF' = savedIF
            /\ iflag' = (iflag /\ g_idt[v].type = "trap")
            /\ IsPushed(nest, running, [vector |-> v, flag |-> iflag, stage |-> "entered"], nest')
        BY <2>6, <3>1
      <3> QED BY <2>1, <3>2, <3>3, PushInv
    <2>9. CASE SpuriousInterrupt
      <3>1. Spurious \in Vector /\ iflag /\ Enter(Spurious) /\ in_service' = in_service
        BY <2>9 DEF SpuriousInterrupt
      <3>2. Taken(running, iflag, nest, in_service, Spurious, in_service')
        BY <3>1 DEF Taken
      <3> QED BY <2>1, <2>6, <3>1, <3>2, PushInv
    <2>10. CASE Faults
      <3>1. PICK v \in Vector : v < 32 /\ v # Nmi /\ nest[running] = << >> /\ Enter(v)
                                /\ in_service' = in_service
        BY <2>10 DEF Faults, Exceptional
      <3>2. Taken(running, iflag, nest, in_service, v, in_service')
        BY <3>1 DEF Taken
      <3> QED BY <2>1, <2>6, <3>1, <3>2, PushInv
    <2>11. CASE NmiComes
      <3>1. /\ Nmi \in Vector /\ Enter(Nmi) /\ in_service' = in_service
            /\ \A c \in Context : \A i \in 1 .. Len(nest[c]) : nest[c][i].vector # Nmi
        BY <2>4, <2>11 DEF NmiComes, Live
      <3>2. Taken(running, iflag, nest, in_service, Nmi, in_service')
        BY <3>1 DEF Taken
      <3> QED BY <2>1, <2>6, <3>1, <3>2, PushInv
    <2>12. CASE Yields
      <3>1. PICK d \in Context \ {running} : /\ running' = d /\ iflag' = savedIF[d]
                                             /\ savedIF' = [savedIF EXCEPT ![running] = iflag]
                                             /\ nest[running] = << >>
                                             /\ nest' = nest /\ in_service' = in_service
        BY <2>12 DEF Yields, switch_to_thread
      <3>2. k = 0
        BY <2>2, <3>1, StackLen
      <3>3. \A i \in 1 .. Len(nest[running]) : /\ Open(nest[running][i]) => nest[running][i].vector = Timer
                                               /\ nest[running][i].vector \notin {DoubleFault, 18}
        BY <3>2
      <3>4. d \in Context /\ d # running
        OBVIOUS
      <3>5. IntInvOf(d, savedIF[d], [savedIF EXCEPT ![running] = iflag], nest, in_service)
        BY <2>1, <3>3, <3>4, SwitchInv
      <3> QED BY <3>1, <3>5
    <2>13. CASE Halts
      <3>1. /\ k > 0 /\ Inner.vector \in Fatal /\ IsRestaged(nest, running, "halted", nest')
            /\ iflag' = FALSE /\ running' = running /\ savedIF' = savedIF /\ in_service' = in_service
        BY <2>3, <2>7, <2>13 DEF Halts, At
      <3>2. ~Hardware(nest[running][k].vector) /\ nest[running][k].vector \in Fatal
        <4> QED BY <3>1, FatalIsException DEF Inner
      <3>3. "halted" \in Stage /\ "halted" \notin {"ticking", "ticked"}
        BY DEF Stage
      <3> QED BY <2>1, <3>1, <3>2, <3>3, StageInv
    <2>14. CASE TimerTicks
      <3>1. /\ k > 0 /\ Inner.vector = Timer /\ Inner.stage = "entered"
            /\ IsRestaged(nest, running, "ticking", nest')
            /\ iflag' = iflag /\ running' = running /\ savedIF' = savedIF /\ in_service' = in_service
        BY <2>3, <2>7, <2>14 DEF TimerTicks, At
      <3>2. nest[running][k].vector = Timer /\ nest[running][k].stage = "entered"
        BY <3>1 DEF Inner
      <3>3. "ticking" \in Stage
        BY DEF Stage
      <3> QED BY <2>1, <3>1, <3>2, <3>3, StageInv
    <2>15. CASE OtherInterrupt
      <3>1. /\ k > 0 /\ Inner.vector \notin Fatal \cup {Timer} /\ Inner.stage = "entered"
            /\ IsRestaged(nest, running, "done", nest')
            /\ iflag' = iflag /\ running' = running /\ savedIF' = savedIF
            /\ IF Inner.vector \in 33 .. 254 THEN apic_eoi ELSE UNCHANGED in_service
        BY <2>3, <2>7, <2>15 DEF OtherInterrupt, At
      <3>2. nest[running][k].stage = "entered" /\ nest[running][k] = Inner
        BY <3>1 DEF Inner
      <3>3. CASE Inner.vector \in 33 .. 254
        <4>1. Open(nest[running][k])
          BY <3>2, <3>3 DEF Open, Hardware
        <4>2. in_service' = in_service \ {nest[running][k].vector}
          <5>1. Highest = nest[running][k].vector
            BY <2>1, <3>1, <4>1, HighestIsInner DEF Highest
          <5> QED BY <3>1, <3>3, <5>1 DEF apic_eoi
        <4> QED BY <2>1, <3>1, <4>1, <4>2, AnswerInv
      <3>4. CASE Inner.vector \notin 33 .. 254
        <4>1. ~Hardware(nest[running][k].vector)
          BY <3>1, <3>2, <3>4 DEF Hardware, Timer
        <4>2. "done" \in Stage
          BY DEF Stage
        <4> QED BY <2>1, <3>1, <3>4, <4>1, <4>2, StageInv
      <3> QED BY <3>3, <3>4
    <2>16. CASE TickEnds
      <3>1. /\ k > 0 /\ Inner.stage = "ticking" /\ IsRestaged(nest, running, "ticked", nest')
            /\ in_service' = in_service
        BY <2>3, <2>7, <2>16 DEF TickEnds, At
      <3>2. nest[running][k].stage = "ticking" /\ nest[running][k].vector = Timer
        <4>1. nest[running][k].stage = "ticking" /\ k \in 1 .. k
          BY <2>2, <3>1 DEF Inner
        <4> QED BY <2>1, <2>2, <4>1 DEF IntInvOf, StagesFit
      <3>3. "ticked" \in Stage
        BY DEF Stage
      <3>4. IntInvOf(running, iflag, savedIF, nest', in_service)
        BY <2>1, <3>1, <3>2, <3>3, StageInv
      <3>5. CASE UNCHANGED <<running, savedIF, iflag>>
        BY <3>1, <3>4, <3>5
      <3>6. CASE \E d \in Context \ {running} : switch_to_thread(d)
        <4>1. PICK d \in Context \ {running} : /\ running' = d /\ iflag' = savedIF[d]
                                               /\ savedIF' = [savedIF EXCEPT ![running] = iflag]
          BY <3>6 DEF switch_to_thread
        <4>2. /\ Len(nest'[running]) = k
              /\ nest'[running][k].vector = Timer /\ nest'[running][k].stage = "ticked"
          BY <2>2, <3>1, <3>2, <3>3, Restaged
        <4>3. \A i \in 1 .. Len(nest'[running]) : /\ Open(nest'[running][i]) => nest'[running][i].vector = Timer
                                                  /\ nest'[running][i].vector \notin {DoubleFault, 18}
          BY <3>1, <3>4, <4>2, UnderTimer
        <4>4. d \in Context /\ d # running
          OBVIOUS
        <4>5. IntInvOf(d, savedIF[d], [savedIF EXCEPT ![running] = iflag], nest', in_service)
          BY <3>4, <4>3, <4>4, SwitchInv
        <4> QED BY <3>1, <4>1, <4>5
      <3> QED BY <2>16, <3>5, <3>6 DEF TickEnds
    <2>17. CASE TimerEnds
      <3>1. /\ k > 0 /\ Inner.stage = "ticked" /\ IsRestaged(nest, running, "done", nest') /\ apic_eoi
            /\ iflag' = iflag /\ running' = running /\ savedIF' = savedIF
        BY <2>3, <2>7, <2>17 DEF TimerEnds, At
      <3>2. nest[running][k].stage = "ticked" /\ nest[running][k].vector = Timer
        <4>1. nest[running][k].stage = "ticked" /\ k \in 1 .. k
          BY <2>2, <3>1 DEF Inner
        <4> QED BY <2>1, <2>2, <4>1 DEF IntInvOf, StagesFit
      <3>3. Open(nest[running][k])
        BY <3>2 DEF Open, Hardware, Timer
      <3>4. in_service' = in_service \ {nest[running][k].vector}
        <4>1. Highest = nest[running][k].vector
          BY <2>1, <3>1, <3>3, HighestIsInner DEF Highest
        <4> QED BY <3>1, <4>1 DEF apic_eoi
      <3> QED BY <2>1, <3>1, <3>3, <3>4, AnswerInv
    <2>18. CASE Returns
      <3>1. /\ k > 0 /\ Inner.stage = "done" /\ IsPopped(nest, running, nest')
            /\ iflag' = Inner.flag /\ running' = running /\ savedIF' = savedIF
            /\ in_service' = in_service
        BY <2>3, <2>18 DEF Returns, At, IsPopped
      <3>2. nest[running][k].stage = "done" /\ iflag' = nest[running][k].flag
        BY <3>1 DEF Inner
      <3>3. IntInvOf(running, nest[running][k].flag, savedIF, nest', in_service)
        BY <2>1, <3>1, <3>2, PopInv
      <3> QED BY <3>1, <3>2, <3>3
    <2>19. CASE dpc_enqueue
      BY <2>5, <2>19 DEF dpc_enqueue
    <2>20. CASE dpc_drain
      BY <2>5, <2>20 DEF dpc_drain
    <2>21. CASE UNCHANGED intVars
      BY <2>5, <2>21 DEF intVars
    <2> QED BY <2>8, <2>9, <2>10, <2>11, <2>12, <2>13, <2>14, <2>15, <2>16, <2>17, <2>18, <2>19,
               <2>20, <2>21 DEF InterruptsNext
  <1> QED BY <1>1, <1>2, PTL DEF InterruptsSpec

-----------------------------------------------------------------------------
(* A set whose elements are all the same has one at most. *)
LEMMA AtMostOne ==
    ASSUME NEW S, \A a, b \in S : a = b
    PROVE  Cardinality(S) \in {0, 1} /\ (Cardinality(S) = 0 <=> S = {}) /\ IsFiniteSet(S)
  <1>1. CASE S = {}
    BY <1>1, FS_EmptySet
  <1>2. CASE S # {}
    <2>1. PICK a \in S : TRUE
      BY <1>2
    <2>2. S = {a}
      BY <2>1
    <2>3. Cardinality({a}) = 1 /\ IsFiniteSet({a})
      BY FS_Singleton
    <2> QED BY <1>2, <2>2, <2>3
  <1> QED BY <1>1, <1>2

(* What the invariant says of gates, stacks and acknowledgements. *)
LEMMA IntInvImplies == ASSUME IntInv PROVE Acknowledged
  <1>1. /\ IntTypeOK(running, iflag, savedIF, nest, in_service) /\ nest \in Stacks
        /\ running \in Context
    BY DEF IntInv, IntInvOf, IntTypeOK
  <1>2. \A c \in Context : DOMAIN nest[c] = 1 .. Len(nest[c]) /\ Len(nest[c]) \in Nat
    BY <1>1, StackLen
  <1>3. ASSUME NEW g \in Frames
        PROVE  \E c \in Context : \E i \in 1 .. Len(nest[c]) :
                  g = <<c, i>> /\ FrameAt(g) = nest[c][i] /\ nest[c][i].vector \in Vector
    <2>1. PICK c \in Context : g \in {<<c, i>> : i \in DOMAIN nest[c]}
      BY DEF Frames
    <2>2. PICK i \in 1 .. Len(nest[c]) : g = <<c, i>>
      BY <1>2, <2>1
    <2>3. FrameAt(g) = nest[c][i]
      BY <2>2 DEF FrameAt
    <2> QED BY <1>1, <2>2, <2>3, StackLen
  <1>4. ASSUME NEW c \in Context, NEW i \in 1 .. Len(nest[c])
        PROVE  <<c, i>> \in Frames /\ FrameAt(<<c, i>>) = nest[c][i]
    BY <1>2 DEF Frames, FrameAt
  <1>5. ASSUME NEW v \in Vector, Hardware(v)
        PROVE  Cardinality(Unanswered(v)) = (IF v \in in_service THEN 1 ELSE 0)
    <2>1. ASSUME NEW g \in Unanswered(v), NEW h \in Unanswered(v)
          PROVE  g = h
      <3>1. PICK c \in Context : \E i \in 1 .. Len(nest[c]) : g = <<c, i>> /\ FrameAt(g) = nest[c][i]
        BY <1>3 DEF Unanswered
      <3>2. PICK i \in 1 .. Len(nest[c]) : g = <<c, i>> /\ FrameAt(g) = nest[c][i]
        BY <3>1
      <3>3. PICK d \in Context : \E j \in 1 .. Len(nest[d]) : h = <<d, j>> /\ FrameAt(h) = nest[d][j]
        BY <1>3 DEF Unanswered
      <3>4. PICK j \in 1 .. Len(nest[d]) : h = <<d, j>> /\ FrameAt(h) = nest[d][j]
        BY <3>3
      <3>5. /\ nest[c][i].vector = nest[d][j].vector
            /\ Open(nest[c][i]) /\ Open(nest[d][j])
        BY <1>5, <3>2, <3>4 DEF Unanswered, Open
      <3>6. c = d /\ i = j
        BY <3>5 DEF IntInv, IntInvOf, ServiceIsOpen
      <3> QED BY <3>2, <3>4, <3>6
    <2>2. ASSUME v \in in_service
          PROVE  Unanswered(v) # {}
      <3>1. PICK c \in Context : \E i \in 1 .. Len(nest[c]) : nest[c][i].vector = v /\ Open(nest[c][i])
        BY <2>2 DEF IntInv, IntInvOf, ServiceIsOpen
      <3>2. PICK i \in 1 .. Len(nest[c]) : nest[c][i].vector = v /\ Open(nest[c][i])
        BY <3>1
      <3>3. <<c, i>> \in Unanswered(v)
        BY <1>4, <3>2 DEF Unanswered, Open
      <3> QED BY <3>3
    <2>3. ASSUME NEW g \in Unanswered(v)
          PROVE  v \in in_service
      <3>1. PICK c \in Context : \E i \in 1 .. Len(nest[c]) : g = <<c, i>> /\ FrameAt(g) = nest[c][i]
        BY <1>3 DEF Unanswered
      <3>2. PICK i \in 1 .. Len(nest[c]) : g = <<c, i>> /\ FrameAt(g) = nest[c][i]
        BY <3>1
      <3>3. Open(nest[c][i]) /\ nest[c][i].vector = v
        BY <1>5, <3>2 DEF Unanswered, Open
      <3> QED BY <3>3 DEF IntInv, IntInvOf, ServiceIsOpen
    <2> HIDE DEF Unanswered
    <2>4. Cardinality(Unanswered(v)) \in {0, 1} /\ (Cardinality(Unanswered(v)) = 0 <=> Unanswered(v) = {})
      BY <2>1, AtMostOne
    <2> QED BY <2>2, <2>3, <2>4
  <1>6. ASSUME NEW c \in Context, nest[c] # << >>, g_idt[nest[c][Len(nest[c])].vector].type = "interrupt"
        PROVE  ~(IF c = running THEN iflag ELSE savedIF[c])
    <2>1. Len(nest[c]) > 0
      BY <1>1, <1>2, <1>6, StackLen
    <2>2. (IF c = running THEN iflag ELSE savedIF[c]) = FALSE
      BY <1>6, <2>1 DEF IntInv, IntInvOf, FlagClear, Gated
    <2> QED BY <2>2
  <1>7. ASSUME NEW ist \in IstStack
        PROVE  Cardinality(OnStack(ist)) <= 1
    <2>1. ASSUME NEW g \in OnStack(ist), NEW h \in OnStack(ist)
          PROVE  g = h
      <3>1. PICK c \in Context : \E i \in 1 .. Len(nest[c]) :
               g = <<c, i>> /\ FrameAt(g) = nest[c][i] /\ nest[c][i].vector \in Vector
        BY <1>3 DEF OnStack
      <3>2. PICK i \in 1 .. Len(nest[c]) : g = <<c, i>> /\ FrameAt(g) = nest[c][i] /\ nest[c][i].vector \in Vector
        BY <3>1
      <3>3. PICK d \in Context : \E j \in 1 .. Len(nest[d]) :
               h = <<d, j>> /\ FrameAt(h) = nest[d][j] /\ nest[d][j].vector \in Vector
        BY <1>3 DEF OnStack
      <3>4. PICK j \in 1 .. Len(nest[d]) : h = <<d, j>> /\ FrameAt(h) = nest[d][j] /\ nest[d][j].vector \in Vector
        BY <3>3
      <3> DEFINE u == nest[c][i].vector
                 w == nest[d][j].vector
      <3>5. g_idt[u].ist = ist /\ g_idt[w].ist = ist /\ u \in Vector /\ w \in Vector
        BY <3>2, <3>4 DEF OnStack
      <3>6. u \in 0 .. 255 /\ w \in 0 .. 255 /\ u # 1 /\ w # 1
        BY <3>5, InterruptsAssumption
      <3> HIDE DEF u, w
      <3>7. (u = Nmi /\ w = Nmi) \/ (u \in {DoubleFault, 18} /\ w \in {DoubleFault, 18})
        <4>1. ASSUME NEW y \in 0 .. 255, y # 1
              PROVE  /\ g_idt[y].ist = 1 => y = DoubleFault
                     /\ g_idt[y].ist = 2 => y = Nmi
                     /\ g_idt[y].ist = 3 => y = 18
                     /\ g_idt[y].ist # 4
          BY <4>1, GateFacts
        <4>2. /\ g_idt[u].ist = 1 => u = DoubleFault
              /\ g_idt[u].ist = 2 => u = Nmi
              /\ g_idt[u].ist = 3 => u = 18
              /\ g_idt[u].ist # 4
          BY <3>6, <4>1
        <4>3. /\ g_idt[w].ist = 1 => w = DoubleFault
              /\ g_idt[w].ist = 2 => w = Nmi
              /\ g_idt[w].ist = 3 => w = 18
          BY <3>6, <4>1
        <4>4. ist = 1 \/ ist = 2 \/ ist = 3 \/ ist = 4
          BY DEF IstStack
        <4> QED BY ONLY <3>5, <4>2, <4>3, <4>4
      <3>8. c = d /\ i = j
        BY <3>7 DEF IntInv, IntInvOf, StacksOwn, u, w
      <3> QED BY <3>2, <3>4, <3>8
    <2> HIDE DEF OnStack
    <2>2. Cardinality(OnStack(ist)) \in {0, 1}
      BY <2>1, AtMostOne
    <2> QED BY <2>2
  <1> QED BY <1>5, <1>6, <1>7 DEF Acknowledged

(* Every acknowledgement is of the interrupt it is meant for, no handler behind
   an interrupt gate is interrupted but by an NMI, and a stack of the TSS never
   has two frames, for any number of contexts and any vectors raised (kpcr.c,
   gdt_idt.c).                                                              *)
THEOREM EachAcknowledged == InterruptsSpec => []Acknowledged
  <1>1. IntInv => Acknowledged
    BY IntInvImplies
  <1> QED BY <1>1, IntInvHolds, PTL

-----------------------------------------------------------------------------
(* Devices on the bus. *)

Device == [slot : Nat, func : Nat, model : Model]

OnBusBefore(d, e) == \/ d.slot < e.slot
                     \/ d.slot = e.slot /\ d.func < e.func

BusOK == /\ bus \in Seq([funcs : Seq(Model), multi : BOOLEAN])
         /\ \A s \in DOMAIN bus : Len(bus[s].funcs) \in 1 .. 8

InTable(s, f) == \E i \in 1 .. Len(g_devices) : g_devices[i].slot = s /\ g_devices[i].func = f

TableComplete ==
    /\ \A s \in DOMAIN bus : s < slot => \A f \in 0 .. 7 : Answers(s, f) <=> InTable(s, f)
    /\ \A i \in 1 .. Len(g_devices) : g_devices[i].slot \in DOMAIN bus /\ g_devices[i].func \in 0 .. 7

(* While there is room the table holds what answers on the slots gone by. *)
DevicesInv ==
    /\ BusOK
    /\ g_devices \in Seq(Device) /\ Len(g_devices) <= MaxDevices
    /\ slot \in Nat \ {0} /\ slot <= Len(bus) + 1
    /\ \A i \in 1 .. Len(g_devices) : g_devices[i].slot < slot
    /\ \A i, j \in 1 .. Len(g_devices) : i < j => OnBusBefore(g_devices[i], g_devices[j])
    /\ Len(g_devices) < MaxDevices => TableComplete
    /\ nic # << >> => slot > Len(bus)
    /\ nic # << >> /\ nic[1] # "e1000" =>
          \A i \in 1 .. Len(g_devices), k \in DOMAIN Gigabit : g_devices[i].model # Gigabit[k]

(* The devices of a slot, in order. *)
LEMMA FoundFacts ==
    ASSUME BusOK, NEW s \in DOMAIN bus
    PROVE  /\ Found(s) \in Seq(Device)
           /\ \A n \in 1 .. Len(Found(s)) : Found(s)[n].slot = s
           /\ \A m, n \in 1 .. Len(Found(s)) : m < n => Found(s)[m].func < Found(s)[n].func
           /\ \A n \in 1 .. Len(Found(s)) : Found(s)[n].func \in 0 .. 7
           /\ \A f \in 0 .. 7 : Answers(s, f) <=> \E n \in 1 .. Len(Found(s)) : Found(s)[n].func = f
  <1> DEFINE fs == bus[s].funcs
             L == Len(fs)
             last == IF fs[1] = Absent THEN 0 ELSE IF bus[s].multi THEN L ELSE 1
             there == {f \in 1 .. last : fs[f] # Absent}
             A == Ascending(there)
             K == Cardinality(there)
  <1>1. fs \in Seq(Model) /\ L \in 1 .. 8 /\ bus[s].multi \in BOOLEAN /\ s \in Nat
    <2>1. DOMAIN bus = 1 .. Len(bus)
      BY LenProperties DEF BusOK
    <2>2. bus[s] \in [funcs : Seq(Model), multi : BOOLEAN]
      BY <2>1, ElementOfSeq DEF BusOK
    <2> QED BY <2>1, <2>2 DEF BusOK
  <1>2. \A f \in 1 .. L : fs[f] \in Model
    BY <1>1, ElementOfSeq
  <1> HIDE DEF fs, L
  <1>3. last \in Nat /\ last <= L
    BY <1>1
  <1>4. there \subseteq Nat /\ there \subseteq 1 .. L /\ IsFiniteSet(there)
    <2>1. IsFiniteSet(1 .. last)
      BY <1>3, FS_Interval
    <2> QED BY <1>1, <1>3, <2>1, FS_Subset
  <1>5. ASSUME NEW f \in 0 .. 7 PROVE Answers(s, f) <=> f + 1 \in there
    <2>1. Answers(s, f) <=> /\ f < L /\ fs[f + 1] # Absent /\ fs[1] # Absent
                            /\ (f = 0 \/ bus[s].multi)
      BY DEF Answers, fs, L
    <2>2. f + 1 \in there <=> f + 1 <= last /\ fs[f + 1] # Absent
      <3> HIDE DEF last
      <3> QED BY <1>3
    <2>3. CASE fs[1] = Absent
      BY <2>1, <2>2, <2>3
    <2>4. CASE fs[1] # Absent /\ bus[s].multi
      <3>1. last = L
        BY <2>4
      <3> QED BY <1>1, <2>1, <2>2, <2>4, <3>1
    <2>5. CASE fs[1] # Absent /\ ~bus[s].multi
      <3>1. last = 1
        BY <2>5
      <3> QED BY <1>1, <2>1, <2>2, <2>5, <3>1
    <2> QED BY <1>1, <2>3, <2>4, <2>5
  <1> DEFINE new == [n \in 1 .. K |-> [slot |-> s, func |-> A[n] - 1, model |-> fs[A[n]]]]
  <1>6. Found(s) = new
    BY DEF Found, fs, L
  <1> HIDE DEF there
  <1>7. /\ K \in Nat /\ A \in [1 .. K -> there]
        /\ \A m, n \in 1 .. K : m < n => A[m] < A[n]
        /\ \A i \in there : \E n \in 1 .. K : A[n] = i
    BY <1>4, AscendingFacts
  <1> HIDE DEF A, K
  <1>8. ASSUME NEW n \in 1 .. K
        PROVE  /\ new[n] \in Device /\ new[n].slot = s /\ new[n].func = A[n] - 1
               /\ A[n] \in 1 .. L /\ A[n] - 1 \in 0 .. 7
    <2>1. A[n] \in 1 .. L
      BY <1>4, <1>7
    <2>2. A[n] - 1 \in 0 .. 7 /\ A[n] - 1 \in Nat /\ fs[A[n]] \in Model
      BY <1>1, <1>2, <2>1, SMTT(30)
    <2> QED BY <1>1, <2>1, <2>2 DEF Device
  <1>9. new \in Seq(Device) /\ Len(new) = K
    <2>1. new \in [1 .. K -> Device]
      BY <1>8
    <2> HIDE DEF new
    <2> QED BY <1>7, <2>1
  <1> HIDE DEF new
  <1>10. ASSUME NEW m \in 1 .. K, NEW n \in 1 .. K, m < n PROVE new[m].func < new[n].func
    <2>1. A[m] < A[n] /\ A[m] \in Int /\ A[n] \in Int
      BY <1>7, <1>8, <1>10
    <2> QED BY <1>8, <2>1
  <1>11. ASSUME NEW f \in 0 .. 7
         PROVE  Answers(s, f) <=> \E n \in 1 .. K : new[n].func = f
    <2>1. ASSUME f + 1 \in there PROVE \E n \in 1 .. K : new[n].func = f
      <3>1. PICK n \in 1 .. K : A[n] = f + 1
        BY <1>7, <2>1
      <3>2. new[n].func = f
        BY <1>8, <3>1
      <3> QED BY <3>2
    <2>2. ASSUME NEW n \in 1 .. K, new[n].func = f PROVE f + 1 \in there
      <3>1. A[n] \in there /\ A[n] \in 1 .. L /\ A[n] - 1 = f
        BY <1>7, <1>8, <2>2
      <3>2. A[n] = f + 1
        BY <3>1
      <3> QED BY <3>1, <3>2
    <2> QED BY <1>5, <2>1, <2>2
  <1> QED BY <1>6, <1>8, <1>9, <1>10, <1>11

(* No slot is scanned and the table is empty. *)
LEMMA DevicesInitInv == DevicesInit => DevicesInv
  <1> SUFFICES ASSUME DevicesInit PROVE DevicesInv
    OBVIOUS
  <1>1. BusOK
    BY DevicesAssumption DEF DevicesInit, BusOK
  <1>2. Len(bus) \in Nat /\ DOMAIN bus = 1 .. Len(bus)
    BY <1>1, LenProperties DEF BusOK
  <1>3. g_devices = << >> /\ slot = 1 /\ nic = << >> /\ Len(<< >>) = 0
    BY DEF DevicesInit
  <1> QED BY <1>1, <1>2, <1>3, DevicesAssumption DEF DevicesInv, TableComplete, InTable

(* A slot is scanned: what answers on it goes to the end of the table. *)
LEMMA ScanInv == ASSUME DevicesInv, drvmgr_scan_bus PROVE DevicesInv'
  <1> DEFINE F == Found(slot)
             G == g_devices
             new == G \o F
             room == IF Len(new) < MaxDevices THEN Len(new) ELSE MaxDevices
  <1>1. /\ slot \in DOMAIN bus /\ nic' = nic /\ bus' = bus
        /\ g_devices' = SubSeq(new, 1, room)
        /\ slot' = IF Len(new) > MaxDevices THEN Len(bus) + 1 ELSE slot + 1
    BY DEF drvmgr_scan_bus
  <1>2. /\ BusOK /\ G \in Seq(Device) /\ Len(G) <= MaxDevices /\ MaxDevices \in Nat
        /\ slot \in Nat \ {0}
    BY DevicesAssumption DEF DevicesInv
  <1>3. DOMAIN bus = 1 .. Len(bus) /\ Len(bus) \in Nat
    BY <1>2, LenProperties DEF BusOK
  <1>4. /\ F \in Seq(Device)
        /\ \A n \in 1 .. Len(F) : F[n].slot = slot
        /\ \A m, n \in 1 .. Len(F) : m < n => F[m].func < F[n].func
        /\ \A n \in 1 .. Len(F) : F[n].func \in 0 .. 7
        /\ \A f \in 0 .. 7 : Answers(slot, f) <=> \E n \in 1 .. Len(F) : F[n].func = f
    BY <1>1, <1>2, FoundFacts
  <1> HIDE DEF F
  <1>5. /\ new \in Seq(Device) /\ Len(new) = Len(G) + Len(F)
        /\ \A i \in 1 .. Len(G) + Len(F) : new[i] = IF i <= Len(G) THEN G[i] ELSE F[i - Len(G)]
        /\ Len(G) \in Nat /\ Len(F) \in Nat
    BY <1>2, <1>4, ConcatProperties, LenProperties
  <1> HIDE DEF new
  <1>6. room \in Nat /\ room <= Len(new) /\ room <= MaxDevices
    BY <1>2, <1>5
  <1>7. /\ g_devices' \in Seq(Device) /\ Len(g_devices') = room
        /\ \A i \in 1 .. room : g_devices'[i] = new[i]
    <2>1. \A i \in 1 .. room : new[i] \in Device
      BY <1>5, <1>6, ElementOfSeq
    <2>2. 1 \in Int /\ room \in Int
      BY <1>6
    <2> HIDE DEF room
    <2>3. /\ SubSeq(new, 1, room) \in Seq(Device)
          /\ Len(SubSeq(new, 1, room)) = IF 1 <= room THEN room - 1 + 1 ELSE 0
          /\ \A i \in 1 .. room - 1 + 1 : SubSeq(new, 1, room)[i] = new[1 + i - 1]
      BY <2>1, <2>2, SubSeqProperties
    <2>4. /\ Len(SubSeq(new, 1, room)) = room /\ room - 1 + 1 = room
          /\ \A i \in 1 .. room : 1 + i - 1 = i
      BY <1>6, <2>3
    <2> QED BY <1>1, <2>3, <2>4
  <1>8. slot' \in Nat \ {0} /\ slot' <= Len(bus) + 1 /\ slot < slot'
    BY <1>1, <1>2, <1>3
  <1>9. ASSUME NEW i \in 1 .. Len(new)
        PROVE  /\ new[i] \in Device
               /\ \/ i <= Len(G) /\ i \in 1 .. Len(G) /\ new[i] = G[i] /\ new[i].slot < slot
                  \/ /\ i > Len(G) /\ i - Len(G) \in 1 .. Len(F) /\ new[i] = F[i - Len(G)]
                     /\ new[i].slot = slot
    <2>1. CASE i <= Len(G)
      <3>1. i \in 1 .. Len(G) /\ new[i] = G[i]
        BY <1>5, <2>1
      <3> QED BY <1>5, <2>1, <3>1, ElementOfSeq DEF DevicesInv
    <2>2. CASE i > Len(G)
      <3>1. i - Len(G) \in 1 .. Len(F) /\ new[i] = F[i - Len(G)]
        BY <1>5, <2>2
      <3> QED BY <1>4, <1>5, <2>2, <3>1, ElementOfSeq
    <2> QED BY <1>5, <2>1, <2>2
  <1>10. ASSUME NEW i \in 1 .. Len(new), NEW j \in 1 .. Len(new), i < j PROVE OnBusBefore(new[i], new[j])
    <2>1. CASE j <= Len(G)
      <3>1. i \in 1 .. Len(G) /\ j \in 1 .. Len(G) /\ new[i] = G[i] /\ new[j] = G[j]
        BY <1>5, <1>10, <2>1
      <3> QED BY <1>10, <3>1 DEF DevicesInv
    <2>2. CASE j > Len(G) /\ i <= Len(G)
      <3>1. new[i].slot < slot /\ new[j].slot = slot
        BY <1>5, <1>9, <2>2
      <3>2. new[i].slot < new[j].slot
        BY <3>1
      <3> QED BY <3>2 DEF OnBusBefore
    <2>3. CASE i > Len(G)
      <3>1. /\ i \in 1 .. Len(G) + Len(F) /\ j \in 1 .. Len(G) + Len(F)
            /\ i > Len(G) /\ j > Len(G) /\ i < j /\ Len(G) \in Nat /\ Len(F) \in Nat
        BY <1>5, <1>10, <2>3
      <3>2. /\ i - Len(G) \in 1 .. Len(F) /\ j - Len(G) \in 1 .. Len(F)
            /\ i - Len(G) < j - Len(G) /\ ~ (i <= Len(G)) /\ ~ (j <= Len(G))
        BY <3>1
      <3>3. new[i] = F[i - Len(G)] /\ new[j] = F[j - Len(G)]
        BY <1>5, <3>1, <3>2
      <3>4. F[i - Len(G)].func < F[j - Len(G)].func /\ F[i - Len(G)].slot = slot /\ F[j - Len(G)].slot = slot
        BY <1>4, <3>2
      <3> QED BY <3>3, <3>4 DEF OnBusBefore
    <2> QED BY <1>5, <2>1, <2>2, <2>3
  <1>11. /\ \A i \in 1 .. Len(g_devices') : g_devices'[i].slot < slot'
         /\ \A i, j \in 1 .. Len(g_devices') : i < j => OnBusBefore(g_devices'[i], g_devices'[j])
    <2>1. \A i \in 1 .. room : i \in 1 .. Len(new)
      BY <1>5, <1>6
    <2>2. ASSUME NEW i \in 1 .. room PROVE g_devices'[i].slot < slot'
      <3>0. i \in 1 .. Len(new) /\ new[i] \in Device
        BY <1>5, <2>1, ElementOfSeq
      <3>a. new[i].slot \in Nat /\ slot \in Nat
        BY <1>2, <3>0 DEF Device
      <3>b. new[i].slot < slot \/ new[i].slot = slot
        BY <1>9, <3>0
      <3>1. new[i].slot \in Nat /\ new[i].slot <= slot
        BY <3>a, <3>b
      <3> QED BY <1>2, <1>7, <1>8, <3>1
    <2>3. \A i, j \in 1 .. room : i < j => OnBusBefore(g_devices'[i], g_devices'[j])
      BY <1>7, <1>10, <2>1
    <2> HIDE DEF room
    <2> QED BY <1>7, <2>2, <2>3
  <1>16. UNCHANGED bus /\ BusOK' /\ \A s, f : Answers(s, f)' = Answers(s, f)
    BY <1>1, <1>2 DEF BusOK, Answers
  <1>12. ASSUME Len(g_devices') < MaxDevices PROVE TableComplete'
    <2>1. room = Len(new) /\ Len(G) < MaxDevices /\ slot' = slot + 1
      BY <1>1, <1>2, <1>5, <1>7, <1>12
    <2>2. /\ \A s \in DOMAIN bus : s < slot => \A f \in 0 .. 7 :
               Answers(s, f) <=> \E i \in 1 .. Len(G) : G[i].slot = s /\ G[i].func = f
          /\ \A i \in 1 .. Len(G) : G[i].slot \in DOMAIN bus /\ G[i].func \in 0 .. 7
      BY <2>1 DEF DevicesInv, TableComplete, InTable
    <2>3. ASSUME NEW i \in 1 .. Len(new) PROVE new[i].slot \in DOMAIN bus /\ new[i].func \in 0 .. 7
      BY <1>1, <1>4, <1>9, <2>2, ZenonT(30)
    <2>4. ASSUME NEW s \in DOMAIN bus, NEW f \in 0 .. 7, s < slot + 1
          PROVE  Answers(s, f) <=> \E i \in 1 .. Len(new) : new[i].slot = s /\ new[i].func = f
      <3>1. CASE s = slot
        <4>1. ASSUME NEW n \in 1 .. Len(F), F[n].func = f
              PROVE  \E i \in 1 .. Len(new) : new[i].slot = s /\ new[i].func = f
          <5> DEFINE i == Len(G) + n
          <5>1. i \in 1 .. Len(new) /\ i > Len(G) /\ i - Len(G) = n
            BY <1>5
          <5> HIDE DEF i
          <5>2. new[i].slot = slot /\ new[i] = F[n]
            BY <1>5, <1>9, <5>1
          <5> QED BY <3>1, <4>1, <5>1, <5>2
        <4>2. ASSUME NEW i \in 1 .. Len(new), new[i].slot = s, new[i].func = f
              PROVE  \E n \in 1 .. Len(F) : F[n].func = f
          <5>1. i - Len(G) \in 1 .. Len(F) /\ new[i] = F[i - Len(G)]
            BY <1>2, <1>9, <3>1, <4>2
          <5> QED BY <4>2, <5>1
        <4> QED BY <1>4, <3>1, <4>1, <4>2
      <3>2. CASE s # slot
        <4>1. s < slot
          BY <1>2, <1>3, <2>4, <3>2
        <4>2. ASSUME NEW i \in 1 .. Len(G), G[i].slot = s, G[i].func = f
              PROVE  \E k \in 1 .. Len(new) : new[k].slot = s /\ new[k].func = f
          <5>1. i \in 1 .. Len(new) /\ new[i] = G[i]
            BY <1>5
          <5> QED BY <4>2, <5>1
        <4>3. ASSUME NEW i \in 1 .. Len(new), new[i].slot = s, new[i].func = f
              PROVE  \E k \in 1 .. Len(G) : G[k].slot = s /\ G[k].func = f
          <5>1. i \in 1 .. Len(G) /\ new[i] = G[i]
            BY <1>9, <3>2, <4>3
          <5> QED BY <4>3, <5>1
        <4> QED BY <2>2, <4>1, <4>2, <4>3, SMTT(30)
      <3> QED BY <3>1, <3>2
    <2>5. Len(g_devices') = Len(new) /\ \A i \in 1 .. Len(new) : g_devices'[i] = new[i]
      BY <1>7, <2>1
    <2> HIDE DEF room
    <2>6. ASSUME NEW i \in 1 .. Len(g_devices')
          PROVE  g_devices'[i].slot \in DOMAIN bus' /\ g_devices'[i].func \in 0 .. 7
      BY <1>1, <2>3, <2>5
    <2>7. ASSUME NEW s, NEW f PROVE InTable(s, f)' <=> \E i \in 1 .. Len(new) : new[i].slot = s /\ new[i].func = f
      BY <2>5 DEF InTable
    <2>8. ASSUME NEW s \in DOMAIN bus', s < slot', NEW f \in 0 .. 7
          PROVE  Answers(s, f)' <=> InTable(s, f)'
      BY <1>16, <2>1, <2>4, <2>7, <2>8
    <2> QED BY <2>6, <2>8 DEF TableComplete
  <1>14. nic' = << >>
    BY <1>1, <1>3 DEF DevicesInv
  <1>15. Len(g_devices') <= MaxDevices'
    BY <1>6, <1>7
  <1> HIDE DEF room
  <1> QED BY <1>1, <1>7, <1>8, <1>11, <1>12, <1>14, <1>15, <1>16 DEF DevicesInv

(* A model is in the table unless drvmgr_find_device says 0. *)
LEMMA FindDevice ==
    ASSUME DevicesInv, NEW model, drvmgr_find_device(model) = 0, NEW i \in 1 .. Len(g_devices)
    PROVE  g_devices[i].model # model
  <1> DEFINE at == {j \in DOMAIN g_devices : g_devices[j].model = model}
  <1>1. DOMAIN g_devices = 1 .. Len(g_devices) /\ Len(g_devices) \in Nat
    BY LenProperties DEF DevicesInv
  <1>2. at \subseteq Nat /\ 0 \notin at
    BY <1>1
  <1>3. at # {} => \E n \in at : \A m \in at : n <= m
    <2> HIDE DEF at
    <2> QED BY <1>2, LeastNat
  <1>4. drvmgr_find_device(model) = IF at = {} THEN 0 ELSE CHOOSE n \in at : \A m \in at : n <= m
    BY DEF drvmgr_find_device
  <1>5. at = {}
    <2> HIDE DEF at
    <2>1. CASE at # {}
      <3>1. drvmgr_find_device(model) \in at
        BY <1>3, <1>4, <2>1
      <3> QED BY <1>2, <3>1
    <2> QED BY <2>1
  <1> QED BY <1>1, <1>5

(* The drivers of the network cards only read the table. *)
LEMMA NicInv == ASSUME DevicesInv, e1000_init \/ rtl8139_init PROVE DevicesInv'
  <1>1. bus' = bus /\ g_devices' = g_devices /\ slot' = slot /\ slot > Len(bus)
    BY DEF e1000_init, rtl8139_init
  <1>2. BusOK' /\ \A s, f : Answers(s, f)' = Answers(s, f)
    BY <1>1 DEF DevicesInv, BusOK, Answers
  <1>3. nic' # << >> /\ nic'[1] # "e1000" =>
          \A i \in 1 .. Len(g_devices), k \in DOMAIN Gigabit : g_devices[i].model # Gigabit[k]
    <2>1. CASE e1000_init
      <3>1. nic'[1] = "e1000"
        BY <2>1 DEF e1000_init, Take
      <3> QED BY <3>1
    <2>2. CASE rtl8139_init
      BY <2>2, FindDevice DEF rtl8139_init
    <2> QED BY <2>1, <2>2
  <1>4. Len(g_devices) < MaxDevices => TableComplete'
    <2> SUFFICES ASSUME Len(g_devices) < MaxDevices PROVE TableComplete'
      OBVIOUS
    <2>1. TableComplete
      BY DEF DevicesInv
    <2>2. \A s, f : InTable(s, f)' = InTable(s, f)
      BY <1>1 DEF InTable
    <2>3. DOMAIN bus' = DOMAIN bus
      BY <1>1
    <2>4. ASSUME NEW s \in DOMAIN bus', s < slot', NEW f \in 0 .. 7
          PROVE  Answers(s, f)' <=> InTable(s, f)'
      BY <1>1, <1>2, <2>1, <2>2, <2>4 DEF TableComplete
    <2>5. \A i \in 1 .. Len(g_devices') : g_devices'[i].slot \in DOMAIN bus' /\ g_devices'[i].func \in 0 .. 7
      BY <1>1, <2>1 DEF TableComplete
    <2> QED BY <2>4, <2>5 DEF TableComplete
  <1> QED BY <1>1, <1>2, <1>3, <1>4 DEF DevicesInv

(* One step per operation of drvmgr.c and of the drivers. *)
LEMMA DevicesInvHolds == DevicesSpec => []DevicesInv
  <1>1. DevicesInv /\ [DevicesNext]_devicesVars => DevicesInv'
    <2> SUFFICES ASSUME DevicesInv, [DevicesNext]_devicesVars PROVE DevicesInv'
      OBVIOUS
    <2>1. CASE drvmgr_scan_bus
      BY <2>1, ScanInv
    <2>2. CASE e1000_init \/ rtl8139_init
      BY <2>2, NicInv
    <2>3. CASE UNCHANGED devicesVars
      BY <2>3 DEF devicesVars, DevicesInv, BusOK, Answers, TableComplete, InTable
    <2> QED BY <2>1, <2>2, <2>3 DEF DevicesNext
  <1> QED BY <1>1, DevicesInitInv, PTL DEF DevicesSpec

(* When the scan is over and the table was not full, it holds what answers on
   the bus and nothing else, every function once and in the order of the bus,
   whatever the machine's slots hold (drvmgr.c).                            *)
THEOREM TableStaysBus == DevicesSpec => []TableIsBus
  <1>1. DevicesInv => TableIsBus
    <2> SUFFICES ASSUME DevicesInv PROVE TableIsBus
      OBVIOUS
    <2>1. /\ DOMAIN g_devices = 1 .. Len(g_devices)
          /\ DOMAIN bus = 1 .. Len(bus) /\ Len(bus) \in Nat /\ slot \in Nat
      BY LenProperties DEF DevicesInv, BusOK
    <2>2. ASSUME slot > Len(bus), Len(g_devices) < MaxDevices
          PROVE  {<<g_devices[i].slot, g_devices[i].func>> : i \in DOMAIN g_devices} = OnBus
      <3>1. \A s \in DOMAIN bus : s < slot
        BY <2>1, <2>2
      <3>a. TableComplete
        BY <2>2 DEF DevicesInv
      <3>2. ASSUME NEW s \in DOMAIN bus, NEW f \in 0 .. 7
            PROVE  Answers(s, f) <=> \E i \in DOMAIN g_devices : g_devices[i].slot = s /\ g_devices[i].func = f
        <4>1. Answers(s, f) <=> InTable(s, f)
          BY <3>1, <3>2, <3>a DEF TableComplete
        <4> QED BY <2>1, <4>1 DEF InTable
      <3>3. \A i \in DOMAIN g_devices : g_devices[i].slot \in DOMAIN bus /\ g_devices[i].func \in 0 .. 7
        BY <2>1, <3>a DEF TableComplete
      <3> QED BY <3>2, <3>3 DEF OnBus
    <2> QED BY <2>1, <2>2 DEF DevicesInv, TableIsBus, OnBusBefore
  <1> QED BY <1>1, DevicesInvHolds, PTL

-----------------------------------------------------------------------------
(* The block structure of the kernel pool, for a pool of any size and any
   requests.  The invariants are inductive together: a merge keeps the tiling
   because a block's neighbours are blocks (Tiled), and it leaves no two free
   blocks side by side because there were none before (Coalesced).          *)

BlocksInv == PoolTypeOK /\ Tiled /\ Coalesced

(* A block lies in the pool. *)
LEMMA BlockInPool ==
    ASSUME PoolTypeOK, Tiled, NEW a \in Start
    PROVE  /\ a \in Nat /\ a < Words /\ len[a] \in Nat /\ len[a] > 0
           /\ a + len[a] <= Words
<1>1. a \in Nat /\ a < Words /\ len[a] \in Nat /\ len[a] > 0
  BY PoolAssumption DEF PoolTypeOK, Start, Word
<1>2. a + len[a] = Words \/ a + len[a] \in Start
  BY DEF Tiled
<1>3. a + len[a] \in Start => a + len[a] < Words
  BY PoolAssumption DEF Start, Word
<1> QED BY <1>1, <1>2, <1>3, PoolAssumption

LEMMA BlocksInitInv == PoolInit => BlocksInv
<1> SUFFICES ASSUME PoolInit PROVE BlocksInv
  OBVIOUS
<1>1. 0 \in Word /\ Words > 0
  BY PoolAssumption DEF Word
<1>2. /\ len[0] = Words
      /\ \A b \in Word \ {0} : len[b] = 0
  BY <1>1 DEF PoolInit
<1>3. Start = {0}
  BY <1>1, <1>2 DEF Start
<1>4. PoolTypeOK
  BY <1>1, <1>2, PoolAssumption DEF PoolInit, PoolTypeOK
<1> QED BY <1>1, <1>2, <1>3, <1>4, PoolAssumption DEF BlocksInv, Tiled, Coalesced

(* An allocation that takes the whole block changes no boundary. *)
LEMMA AllocateWholeInv ==
    ASSUME BlocksInv, NEW a \in Word, NEW n \in Needs, Allocate(a, n),
           ~ (len[a] >= n + MinBlock)
    PROVE  BlocksInv'
<1>1. len' = len /\ Start' = Start /\ Free(a)
  BY DEF Allocate, Start
<1>2. used' = [used EXCEPT ![a] = TRUE]
  BY DEF Allocate
<1>3. PoolTypeOK'
  BY <1>1, <1>2 DEF BlocksInv, PoolTypeOK, Free
<1>4. Tiled'
  BY <1>1 DEF BlocksInv, Tiled
<1>5. Coalesced'
  BY <1>1, <1>2 DEF BlocksInv, PoolTypeOK, Coalesced, Start
<1> QED BY <1>3, <1>4, <1>5 DEF BlocksInv

(* One that splits adds the boundary a + n, inside the block at a. *)
LEMMA AllocateSplitInv ==
    ASSUME BlocksInv, NEW a \in Word, NEW n \in Needs, Allocate(a, n),
           len[a] >= n + MinBlock
    PROVE  BlocksInv'
<1> DEFINE c == a + n
           r == len[a] - n
<1>1. /\ a \in Start /\ ~ used[a] /\ a \in Nat /\ len[a] \in Nat
      /\ a + len[a] <= Words /\ n \in Nat /\ n > 0 /\ MinBlock \in Nat /\ MinBlock > 0
  BY BlockInPool, PoolAssumption DEF Allocate, Free, BlocksInv, Word
<1>2. /\ c \in Word /\ c > a /\ r \in 1 .. Words /\ c + r = a + len[a] /\ n \in 1 .. Words
  BY <1>1, PoolAssumption DEF Word
<1>3. c \notin Start
  BY <1>1, <1>2 DEF BlocksInv, Tiled
<1>4. /\ len' = [len EXCEPT ![a] = n, ![c] = r]
      /\ used' = [used EXCEPT ![a] = TRUE]
  BY DEF Allocate
<1>5. /\ len'[a] = n /\ len'[c] = r
      /\ \A b \in Word \ {a, c} : len'[b] = len[b]
      /\ used'[a] /\ \A b \in Word \ {a} : used'[b] = used[b]
  BY <1>2, <1>4 DEF BlocksInv, PoolTypeOK
<1>6. Start' = Start \cup {c}
  <2>1. ASSUME NEW b \in Word PROVE len'[b] > 0 <=> (len[b] > 0 \/ b = c)
    BY <1>1, <1>2, <1>5
  <2> QED BY <1>2, <2>1 DEF Start
<1>7. PoolTypeOK'
  <2>1. len' \in [Word -> 0 .. Words]
    BY <1>2, <1>4 DEF BlocksInv, PoolTypeOK
  <2>2. used' \in [Word -> BOOLEAN]
    BY <1>4 DEF BlocksInv, PoolTypeOK
  <2>3. \A b \in Word : used'[b] => b \in Start'
    BY <1>1, <1>5, <1>6 DEF BlocksInv, PoolTypeOK
  <2> QED BY <2>1, <2>2, <2>3 DEF PoolTypeOK
<1>8. Tiled'
  <2>1. 0 \in Start'
    BY <1>6 DEF BlocksInv, Tiled
  <2>2. ASSUME NEW b \in Start' PROVE b + len'[b] = Words \/ b + len'[b] \in Start'
    <3>1. CASE b = a
      BY <1>5, <1>6, <3>1
    <3>2. CASE b = c
      BY <1>1, <1>2, <1>5, <1>6, <3>2 DEF BlocksInv, Tiled
    <3>3. CASE b \in Start \ {a, c}
      BY <1>5, <1>6, <3>3 DEF BlocksInv, Tiled, Start
    <3> QED BY <1>6, <3>1, <3>2, <3>3
  <2>3. ASSUME NEW b \in Start', NEW d \in Start', b < d PROVE b + len'[b] <= d
    <3>0. /\ \A x \in Start : x \in Nat /\ len[x] \in Nat /\ len[x] > 0
          /\ \A x, y \in Start : x < y => x + len[x] <= y
      BY BlockInPool DEF BlocksInv, Tiled
    <3>1. CASE b = a /\ d = c
      BY <1>1, <1>2, <1>5, <3>1
    <3>2. CASE b = a /\ d \in Start \ {a, c}
      BY <1>1, <1>2, <1>5, <2>3, <3>0, <3>2
    <3>3. CASE b = c /\ d \in Start
      <4>1. a < d
        BY <1>1, <1>2, <2>3, <3>0, <3>3
      <4> QED BY <1>1, <1>2, <1>5, <3>0, <3>3, <4>1
    <3>4. CASE b \in Start \ {a, c} /\ d = c
      <4>1. b \in Word /\ len'[b] = len[b] /\ b \in Nat /\ len[b] \in Nat
        BY <1>5, <3>0, <3>4 DEF Start
      <4>2. b < a
        <5>1. ~ (a < b)
          BY <1>1, <1>2, <2>3, <3>0, <3>4
        <5> QED BY <1>1, <3>4, <4>1, <5>1
      <4> QED BY <1>1, <1>2, <3>0, <3>4, <4>1, <4>2
    <3>5. CASE b \in Start \ {a, c} /\ d \in Start
      BY <1>5, <2>3, <3>0, <3>5 DEF Start
    <3>6. b # c \/ d # c
      BY <1>2, <2>3 DEF Word
    <3> QED BY <1>3, <1>6, <3>1, <3>2, <3>3, <3>4, <3>5, <3>6, <2>3, <1>1
  <2>4. ASSUME NEW b \in Start' \ {0} PROVE \E p \in Start' : p + len'[p] = b
    <3>1. CASE b = c
      BY <1>1, <1>5, <1>6, <3>1
    <3>2. CASE b # c
      <4>1. PICK p \in Start : p + len[p] = b
        BY <1>6, <3>2 DEF BlocksInv, Tiled
      <4>2. CASE p = a
        BY <1>2, <1>5, <1>6, <4>1, <4>2
      <4>3. CASE p # a
        <5>1. p \in Word /\ p # c
          BY <1>3 DEF Start
        <5> QED BY <1>5, <1>6, <4>1, <4>3, <5>1
      <4> QED BY <4>2, <4>3
    <3> QED BY <3>1, <3>2
  <2> QED BY <2>1, <2>2, <2>3, <2>4 DEF Tiled
<1>9. Coalesced'
  <2> SUFFICES ASSUME NEW b \in Start', NEW d \in Start', b + len'[b] = d
               PROVE  used'[b] \/ used'[d]
    BY DEF Coalesced
  <2>1. CASE b = a \/ d = a
    BY <1>5, <2>1
  <2>2. CASE b = c
    <3>1. d \in Start /\ a + len[a] = d
      BY <1>1, <1>2, <1>3, <1>5, <1>6, <2>2, PoolAssumption DEF Word
    <3>2. used[d] /\ d # a
      BY <1>1, <3>1 DEF BlocksInv, Coalesced
    <3> QED BY <1>5, <3>1, <3>2 DEF Start
  <2>3. CASE b \in Start \ {a, c} /\ d = c
    <3>1. b + len[b] = c
      BY <1>5, <2>3 DEF Start
    <3>2. c \in Start \/ c = Words
      BY <2>3, <3>1 DEF BlocksInv, Tiled
    <3> QED BY <1>2, <1>3, <3>2, PoolAssumption DEF Word
  <2>4. CASE b \in Start \ {a, c} /\ d \in Start \ {a, c}
    <3>1. b + len[b] = d /\ b \in Word /\ d \in Word
      BY <1>5, <2>4 DEF Start
    <3> QED BY <1>5, <2>4, <3>1 DEF BlocksInv, Coalesced
  <2> QED BY <1>6, <2>1, <2>2, <2>3, <2>4
<1> QED BY <1>7, <1>8, <1>9 DEF BlocksInv

-----------------------------------------------------------------------------

(* Where the block that results from freeing the one at a begins and ends:
   at a block boundary on either side, with nothing but free blocks and the
   one at a between, and an allocated block or the pool's edge beyond.      *)
LEMMA FreedBlock ==
    ASSUME BlocksInv, NEW a \in Start, used[a]
    PROVE  /\ First(a) \in Start /\ First(a) <= a
           /\ First(a) # a => Free(First(a)) /\ First(a) + len[First(a)] = a
           /\ First(a) = a => \A p \in Start : p + len[p] = a => used[p]
           /\ After(a) \in Nat /\ a < After(a) /\ After(a) <= Words
           /\ After(a) = Words \/ After(a) \in Start
           /\ After(a) = a + len[a] \/ (a + len[a] \in Start
                   /\ Free(a + len[a]) /\ After(a) = a + len[a] + len[a + len[a]])
           /\ After(a) \in Start => used[After(a)]
<1> DEFINE m == a + len[a]
<1>1. /\ \A x \in Start : /\ x \in Nat /\ x < Words /\ len[x] \in Nat
                           /\ len[x] > 0 /\ x + len[x] <= Words
      /\ Words \in Nat
  BY BlockInPool, PoolAssumption DEF BlocksInv
<1>2. \A p \in Word : Free(p) => p \in Start
  BY DEF Free
<1>3. First(a) = a \/ (Free(First(a)) /\ First(a) \in Start /\ First(a) + len[First(a)] = a)
  BY <1>2 DEF First
<1>4. First(a) \in Start /\ First(a) <= a
  BY <1>1, <1>3
<1>5. First(a) = a => \A p \in Start : p + len[p] = a => used[p]
  <2> SUFFICES ASSUME NEW p \in Start, First(a) = a, p + len[p] = a, ~ used[p]
               PROVE  FALSE
    OBVIOUS
  <2>1. p \in Word /\ Free(p)
    BY DEF Free, Start
  <2>2. Free(First(a))
    BY <2>1 DEF First
  <2> QED BY <2>2 DEF Free
<1>6. m = Words \/ m \in Start
  BY DEF BlocksInv, Tiled
<1>7. m \in Word <=> m \in Start
  BY <1>1, <1>6 DEF Word, Start
<1>8. CASE m \in Start /\ ~ used[m]
  <2>1. After(a) = m + len[m] /\ Free(m)
    BY <1>7, <1>8 DEF After, Free
  <2>2. After(a) = Words \/ After(a) \in Start
    BY <1>8, <2>1 DEF BlocksInv, Tiled
  <2>3. After(a) \in Start => used[After(a)]
    BY <1>8, <2>1 DEF BlocksInv, Coalesced
  <2>4. After(a) \in Nat /\ a < After(a) /\ After(a) <= Words
    BY <1>1, <1>8, <2>1
  <2> QED BY <1>3, <1>4, <1>5, <1>8, <2>1, <2>2, <2>3, <2>4
<1>9. CASE ~ (m \in Start /\ ~ used[m])
  <2>1. After(a) = m
    BY <1>7, <1>9 DEF After, Free
  <2>2. m \in Nat /\ a < m /\ m <= Words
    BY <1>1
  <2> QED BY <1>3, <1>4, <1>5, <1>6, <1>9, <2>1, <2>2
<1> QED BY <1>8, <1>9

LEMMA DeallocateInv ==
    ASSUME BlocksInv, NEW a \in Word, Deallocate(a)
    PROVE  BlocksInv'
<1> DEFINE F == First(a)
           E == After(a)
<1>1. a \in Start /\ used[a]
  BY DEF Deallocate, BlocksInv, PoolTypeOK
<1>2. /\ F \in Start /\ F <= a /\ E \in Nat /\ a < E /\ E <= Words
      /\ E = Words \/ E \in Start
      /\ E \in Start => used[E]
      /\ F # a => Free(F) /\ F + len[F] = a
      /\ F = a => \A p \in Start : p + len[p] = a => used[p]
      /\ E = a + len[a] \/ (a + len[a] \in Start
             /\ Free(a + len[a]) /\ E = a + len[a] + len[a + len[a]])
  BY <1>1, FreedBlock
<1> HIDE DEF F, E
<1>3. /\ \A x \in Start : /\ x \in Nat /\ x \in Word /\ len[x] \in Nat
                           /\ len[x] > 0 /\ x + len[x] <= Words
      /\ \A x, y \in Start : x < y => x + len[x] <= y
      /\ Words \in Nat
  BY BlockInPool, PoolAssumption DEF BlocksInv, Tiled, Start
<1>4. F < E /\ F \in Word /\ E - F \in 1 .. Words
  BY <1>1, <1>2, <1>3
<1>5. /\ len' = [b \in Word |-> IF b = F THEN E - F
                                ELSE IF b \in F .. E - 1 THEN 0 ELSE len[b]]
      /\ used' = [used EXCEPT ![a] = FALSE]
  BY DEF Deallocate, F, E
<1>6. /\ len'[F] = E - F
      /\ \A b \in Word : b # F /\ F <= b /\ b < E => len'[b] = 0
      /\ \A b \in Word : b < F \/ E <= b => len'[b] = len[b]
      /\ ~ used'[a] /\ \A b \in Word \ {a} : used'[b] = used[b]
  <2>1. \A b \in Word : b \in F .. E - 1 <=> (F <= b /\ b < E)
    BY <1>2, <1>3 DEF Word
  <2> QED BY <1>1, <1>2, <1>3, <1>4, <1>5, <2>1 DEF BlocksInv, PoolTypeOK, Word
<1>7. \A b \in Word : b \in Start' <=> b = F \/ (b \in Start /\ (b < F \/ E <= b))
  <2> TAKE b \in Word
  <2>1. b \in Nat /\ F \in Nat /\ E \in Nat /\ (b \in Start' <=> len'[b] > 0)
        /\ (b \in Start <=> len[b] > 0)
    BY <1>2, <1>3 DEF Start, Word
  <2>2. CASE b = F
    BY <1>4, <1>6, <2>1, <2>2
  <2>3. CASE b # F /\ F <= b /\ b < E
    BY <1>6, <2>1, <2>3
  <2>4. CASE b < F \/ E <= b
    BY <1>2, <1>4, <1>6, <2>1, <2>4
  <2> QED BY <2>1, <2>2, <2>3, <2>4
(* A block that is not merged lies wholly before or wholly after. *)
<1>8. \A b \in Start : b < F => b + len[b] <= F
  BY <1>2, <1>3
(* The blocks that are merged are F, a and the one after a. *)
<1>9. \A b \in Start : F <= b /\ b < E => b = F \/ b = a \/ (b = a + len[a] /\ b # E)
  <2> SUFFICES ASSUME NEW b \in Start, F <= b, b < E, b # F, b # a
               PROVE  b = a + len[a] /\ b # E
    OBVIOUS
  <2>1. b > a
    BY <1>1, <1>2, <1>3
  <2>2. b >= a + len[a]
    BY <1>1, <1>3, <2>1
  <2>3. CASE E = a + len[a]
    BY <1>1, <1>2, <1>3, <2>2, <2>3
  <2>4. CASE a + len[a] \in Start /\ E = a + len[a] + len[a + len[a]]
    BY <1>1, <1>2, <1>3, <2>2, <2>4
  <2> QED BY <1>2, <2>3, <2>4
<1>10. PoolTypeOK'
  <2>1. len' \in [Word -> 0 .. Words]
    <3>1. 1 .. Words \subseteq 0 .. Words /\ 0 \in 0 .. Words
      BY <1>3, PoolAssumption
    <3>2. \A b \in Word : len[b] \in 0 .. Words
      BY DEF BlocksInv, PoolTypeOK
    <3> QED BY <1>4, <1>5, <3>1, <3>2
  <2>2. used' \in [Word -> BOOLEAN]
    BY <1>5 DEF BlocksInv, PoolTypeOK
  <2>3. ASSUME NEW b \in Word, used'[b] PROVE b \in Start'
    <3>1. b # a /\ used[b] /\ b \in Start
      BY <1>6, <2>3 DEF BlocksInv, PoolTypeOK
    <3>2. ~ (F <= b /\ b < E) \/ b = F
      BY <1>2, <1>9, <3>1 DEF Free
    <3> QED BY <1>2, <1>3, <1>7, <3>1, <3>2
  <2> QED BY <2>1, <2>2, <2>3 DEF PoolTypeOK
<1>11. Tiled'
  <2>0. \A b \in Start' : b \in Word
    BY DEF Start
  <2>1. 0 \in Start'
    <3>1. 0 \in Start /\ 0 \in Word
      BY <1>3 DEF BlocksInv, Tiled
    <3> QED BY <1>2, <1>3, <1>7, <3>1
  <2>2. ASSUME NEW b \in Start' PROVE b + len'[b] = Words \/ b + len'[b] \in Start'
    <3>1. CASE b = F
      BY <1>2, <1>3, <1>4, <1>6, <1>7, <3>1
    <3>2. CASE b \in Start /\ b < F
      <4>1. b + len'[b] = b + len[b] /\ b + len[b] <= F
        BY <1>3, <1>6, <1>8, <3>2
      <4>2. b + len[b] \in Start
        BY <1>2, <1>3, <3>2, <4>1 DEF BlocksInv, Tiled
      <4> QED BY <1>2, <1>3, <1>4, <1>7, <4>1, <4>2
    <3>3. CASE b \in Start /\ E <= b
      <4>1. b + len'[b] = b + len[b] /\ b + len[b] > E
        BY <1>2, <1>3, <1>6, <3>3
      <4>2. b + len[b] = Words \/ b + len[b] \in Start
        BY <3>3 DEF BlocksInv, Tiled
      <4> QED BY <1>2, <1>3, <1>7, <4>1, <4>2
    <3> QED BY <1>7, <2>0, <3>1, <3>2, <3>3
  <2>3. ASSUME NEW b \in Start', NEW d \in Start', b < d PROVE b + len'[b] <= d
    <3>1. /\ b = F \/ (b \in Start /\ (b < F \/ E <= b))
          /\ d = F \/ (d \in Start /\ (d < F \/ E <= d))
      BY <1>7, <2>0
    <3>2. CASE b = F
      BY <1>2, <1>3, <1>4, <1>6, <2>3, <3>1, <3>2
    <3>3. CASE b # F
      <4>1. b \in Start /\ len'[b] = len[b]
        BY <1>3, <1>6, <3>1, <3>3
      <4>2. d \in Start
        BY <1>2, <3>1
      <4> QED BY <1>3, <2>3, <4>1, <4>2
    <3> QED BY <3>2, <3>3
  <2>4. ASSUME NEW b \in Start' \ {0} PROVE \E p \in Start' : p + len'[p] = b
    <3>1. b = F \/ (b \in Start /\ (b < F \/ E <= b))
      BY <1>7, <2>0
    <3>2. PICK p \in Start : p + len[p] = b
      BY <1>2, <3>1 DEF BlocksInv, Tiled
    <3>3. CASE b <= F
      <4>1. p < F
        BY <1>2, <1>3, <3>2, <3>3
      <4> QED BY <1>3, <1>6, <1>7, <3>2, <4>1
    <3>4. CASE b = E
      BY <1>3, <1>4, <1>6, <1>7, <3>4, <1>2
    <3>5. CASE E < b
      <4>1. E <= p
        <5>1. E \in Start
          BY <1>2, <1>3, <2>0, <3>5 DEF Word
        <5> QED BY <1>2, <1>3, <3>2, <3>5, <5>1
      <4> QED BY <1>3, <1>6, <1>7, <3>2, <4>1
    <3> QED BY <1>2, <1>3, <2>0, <3>1, <3>3, <3>4, <3>5
  <2> QED BY <2>1, <2>2, <2>3, <2>4 DEF Tiled
<1>12. Coalesced'
  <2> SUFFICES ASSUME NEW b \in Start', NEW d \in Start', b + len'[b] = d
               PROVE  used'[b] \/ used'[d]
    BY DEF Coalesced
  <2>1. /\ b \in Word /\ d \in Word
        /\ b = F \/ (b \in Start /\ (b < F \/ E <= b))
        /\ d = F \/ (d \in Start /\ (d < F \/ E <= d))
    BY <1>7 DEF Start
  <2>2. CASE b = F
    <3>1. d = E
      BY <1>2, <1>3, <1>4, <1>6, <2>2
    <3>2. d \in Start /\ d # a
      BY <1>1, <1>2, <1>3, <2>1, <3>1
    <3> QED BY <1>2, <1>6, <2>1, <3>1, <3>2
  <2>3. CASE b # F /\ d = F
    <3>1. b \in Start /\ b + len[b] = F
      BY <1>3, <1>6, <2>1, <2>3
    <3>2. b < F
      BY <1>2, <1>3, <3>1
    <3>3. used[b]
      BY <1>2, <3>1 DEF BlocksInv, Coalesced, Free
    <3> QED BY <1>1, <1>2, <1>3, <1>6, <2>1, <3>2, <3>3
  <2>4. CASE b # F /\ d # F
    <3>1. b \in Start /\ d \in Start /\ b + len[b] = d /\ b # a /\ d # a
      BY <1>1, <1>2, <1>3, <1>6, <2>1, <2>4
    <3> QED BY <1>6, <3>1, <2>1 DEF BlocksInv, Coalesced
  <2> QED BY <2>2, <2>3, <2>4
<1> QED BY <1>10, <1>11, <1>12 DEF BlocksInv

-----------------------------------------------------------------------------

THEOREM BlocksInvHolds == PoolSpec => []BlocksInv
<1>1. BlocksInv /\ [PoolNext]_poolVars => BlocksInv'
  <2> SUFFICES ASSUME BlocksInv, [PoolNext]_poolVars PROVE BlocksInv'
    OBVIOUS
  <2>1. ASSUME NEW a \in Word, NEW n \in Needs, Allocate(a, n) PROVE BlocksInv'
    BY <2>1, AllocateWholeInv, AllocateSplitInv
  <2>2. ASSUME NEW a \in Word, Deallocate(a) PROVE BlocksInv'
    BY <2>2, DeallocateInv
  <2>3. CASE UNCHANGED poolVars
    BY <2>3 DEF poolVars, BlocksInv, PoolTypeOK, Tiled, Coalesced, Start
  <2> QED BY <2>1, <2>2, <2>3 DEF PoolNext
<1> QED BY <1>1, BlocksInitInv, PTL DEF PoolSpec

(* Block sizes and flags keep their types, for any pool. *)
THEOREM BlocksTyped == PoolSpec => []PoolTypeOK
  BY BlocksInvHolds, PTL DEF BlocksInv

(* Whatever is allocated and freed (kmalloc, kfree), the blocks tile the pool:
   no two allocations share a word.                                         *)
THEOREM BlocksTile == PoolSpec => []Tiled
  BY BlocksInvHolds, PTL DEF BlocksInv

(* Boundary-tag coalescing (kfree) leaves no two free blocks side by side. *)
THEOREM FreeBlocksCoalesce == PoolSpec => []Coalesced
  BY BlocksInvHolds, PTL DEF BlocksInv

(* When every allocation has been freed, the pool is one free block again:
   no sequence of kmalloc and kfree loses memory.                           *)
THEOREM PoolIsRestored == PoolSpec => []NothingLost
<1>1. ASSUME BlocksInv PROVE NothingLost
  <2> SUFFICES ASSUME \A a \in Word : ~ used[a] PROVE len[0] = Words
    BY DEF NothingLost
  <2>1. 0 \in Start /\ 0 \in Word
    BY <1>1 DEF BlocksInv, Tiled, Start
  <2>2. len[0] \notin Start
    BY <1>1, <2>1, BlockInPool DEF BlocksInv, Coalesced, Start
  <2>3. 0 + len[0] = Words \/ 0 + len[0] \in Start
    BY <1>1, <2>1 DEF BlocksInv, Tiled
  <2>4. len[0] \in Nat
    BY <1>1, <2>1, BlockInPool DEF BlocksInv
  <2> QED BY <2>2, <2>3, <2>4
<1> QED BY <1>1, BlocksInvHolds, PTL

-----------------------------------------------------------------------------
(* The multimedia scheduler.  MissesAreLate is not inductive: a miss is blamed
   on a late round because a deadline of a client with a period of a tick at
   least lies behind the last round.                                        *)

MmcssClient == [thread : Client, period : Nat, next : Nat, active : BOOLEAN,
                latency : Nat, missed : Nat]

(* What holds of a client c at tick n, the last round having been at r. *)
Punctual(c, n, r, l) ==
    /\ c.missed > 0 /\ c.period > 0 => l
    /\ c.active => c.next >= r /\ c.next <= n + c.period
    /\ c.active /\ c.period > 0 => c.next > r

MmcssInv ==
    /\ now \in Nat /\ round \in Nat /\ round <= now /\ late \in BOOLEAN
    /\ g_clients \in Seq(MmcssClient)
    /\ \A i \in DOMAIN g_clients : Punctual(g_clients[i], now, round, late)

LEMMA ReviewedFacts ==
    ASSUME NEW c \in MmcssClient, MmcssInv, now > round, Punctual(c, now, round, late)
    PROVE  /\ Reviewed(c) \in MmcssClient
           /\ Punctual(Reviewed(c), now, now, late \/ now > round + 1)
  <1>1. CASE ~c.active
    <2>1. Reviewed(c) = c
      BY <1>1 DEF Reviewed
    <2> QED BY <2>1, <1>1 DEF Punctual, MmcssClient
  <1>2. CASE c.active
    <2> DEFINE miss == now > c.next
               d == [c EXCEPT !.missed = IF miss THEN @ + 1 ELSE @,
                              !.latency = IF miss THEN now - c.next ELSE 0,
                              !.next = IF now >= @ THEN now + c.period ELSE @]
    <2>1. Reviewed(c) = d
      BY <1>2 DEF Reviewed
    <2>2. now \in Nat /\ round \in Nat /\ c.next \in Nat /\ c.period \in Nat /\ c.missed \in Nat
      BY DEF MmcssInv, MmcssClient
    <2>3. /\ d.active = c.active /\ d.period = c.period
          /\ d.missed = IF now > c.next THEN c.missed + 1 ELSE c.missed
          /\ d.next = IF now >= c.next THEN now + c.period ELSE c.next
      BY DEF MmcssClient
    <2>4. d \in MmcssClient
      <3> DEFINE m == IF miss THEN c.missed + 1 ELSE c.missed
                 l == IF miss THEN now - c.next ELSE 0
                 x == IF now >= c.next THEN now + c.period ELSE c.next
      <3>1. m \in Nat /\ l \in Nat /\ x \in Nat
        BY <2>2
      <3>2. d = [c EXCEPT !.missed = m, !.latency = l, !.next = x]
        OBVIOUS
      <3> HIDE DEF m, l, x, d
      <3> QED BY <3>1, <3>2 DEF MmcssClient
    <2> HIDE DEF d
    <2> QED BY <1>2, <2>1, <2>2, <2>3, <2>4 DEF Punctual
  <1> QED BY <1>1, <1>2

LEMMA MmcssNextInv == MmcssInv /\ [MmcssNext]_mmcssVars => MmcssInv'
  <1> SUFFICES ASSUME MmcssInv, [MmcssNext]_mmcssVars PROVE MmcssInv'
    OBVIOUS
  <1>1. /\ now \in Nat /\ round \in Nat /\ round <= now /\ late \in BOOLEAN
        /\ g_clients \in Seq(MmcssClient)
        /\ \A i \in DOMAIN g_clients : /\ g_clients[i] \in MmcssClient
                                       /\ Punctual(g_clients[i], now, round, late)
    BY DEF MmcssInv
  <1>2. CASE NextPeriod
    <2>1. ASSUME NEW i \in DOMAIN g_clients PROVE Punctual(g_clients[i], now + 1, round, late)
      BY <1>1 DEF Punctual, MmcssClient
    <2> QED BY <1>1, <1>2, <2>1 DEF NextPeriod, MmcssInv
  <1>3. CASE mmcss_schedule_clients
    <2>1. \A i \in DOMAIN g_clients :
             /\ Reviewed(g_clients[i]) \in MmcssClient
             /\ Punctual(Reviewed(g_clients[i]), now, now, late \/ now > round + 1)
      BY <1>1, <1>3, ReviewedFacts DEF mmcss_schedule_clients
    <2>2. g_clients' = [i \in DOMAIN g_clients |-> Reviewed(g_clients[i])]
      BY <1>3 DEF mmcss_schedule_clients
    <2>3. g_clients' \in Seq(MmcssClient)
      BY <1>1, <2>1, <2>2
    <2>4. /\ round' = now /\ now' = now /\ late' = (late \/ now > round + 1)
          /\ late' \in BOOLEAN
      BY <1>1, <1>3 DEF mmcss_schedule_clients
    <2>5. \A i \in DOMAIN g_clients' : Punctual(g_clients'[i], now', round', late')
      BY <2>1, <2>2, <2>4
    <2> QED BY <1>1, <2>3, <2>4, <2>5 DEF MmcssInv
  <1>4. ASSUME NEW t \in Client, mmcss_unregister(t) PROVE MmcssInv'
    <2>1. g_clients' = [i \in DOMAIN g_clients |->
                         [g_clients[i] EXCEPT !.active = @ /\ g_clients[i].thread # t]]
      BY <1>4 DEF mmcss_unregister
    <2>2. ASSUME NEW i \in DOMAIN g_clients
          PROVE  /\ g_clients'[i] \in MmcssClient
                 /\ Punctual(g_clients'[i], now, round, late)
      <3> DEFINE c == g_clients[i]
      <3>1. c \in MmcssClient /\ Punctual(c, now, round, late)
        BY <1>1
      <3>2. g_clients'[i] = [c EXCEPT !.active = @ /\ c.thread # t]
        BY <2>1
      <3> HIDE DEF c
      <3>3. PICK b \in BOOLEAN : b = (c.active /\ c.thread # t)
        BY <3>1 DEF MmcssClient
      <3>4. g_clients'[i] = [c EXCEPT !.active = b] /\ (b => c.active)
        BY <3>2, <3>3
      <3> QED BY <3>1, <3>4 DEF MmcssClient, Punctual
    <2>3. g_clients' \in Seq(MmcssClient) /\ DOMAIN g_clients' = DOMAIN g_clients
      BY <1>1, <2>1, <2>2
    <2> QED BY <1>1, <1>4, <2>2, <2>3 DEF MmcssInv, mmcss_unregister
  <1>5. ASSUME NEW t \in Client, NEW p \in Period, mmcss_register(t, p) PROVE MmcssInv'
    <2> DEFINE c == [thread |-> t, period |-> p, next |-> now + p,
                     active |-> TRUE, latency |-> 0, missed |-> 0]
    <2>1. p \in Nat
      BY MultimediaAssumption
    <2>2. c \in MmcssClient /\ Punctual(c, now, round, late)
      BY <1>1, <2>1 DEF MmcssClient, Punctual
    <2>3. g_clients' = Append(g_clients, c) /\ UNCHANGED <<now, round, late>>
      BY <1>5 DEF mmcss_register
    <2> HIDE DEF c
    <2>4. g_clients' \in Seq(MmcssClient)
      BY <1>1, <2>2, <2>3
    <2>5. \A i \in DOMAIN g_clients' : g_clients'[i] = c \/ (i \in DOMAIN g_clients /\ g_clients'[i] = g_clients[i])
      BY <1>1, <2>2, <2>3
    <2> QED BY <1>1, <2>2, <2>3, <2>4, <2>5 DEF MmcssInv
  <1>6. CASE UNCHANGED mmcssVars
    BY <1>6 DEF mmcssVars, MmcssInv
  <1> QED BY <1>2, <1>3, <1>4, <1>5, <1>6 DEF MmcssNext

LEMMA MmcssInvHolds == MmcssSpec => []MmcssInv
  <1>1. ASSUME MmcssInit PROVE MmcssInv
    <2>1. g_clients \in Seq(MmcssClient) /\ DOMAIN g_clients = {}
      BY <1>1 DEF MmcssInit
    <2>2. now \in Nat /\ round \in Nat /\ round <= now
      BY <1>1 DEF MmcssInit
    <2>4. late \in BOOLEAN
      BY <1>1 DEF MmcssInit
    <2>3. \A i \in DOMAIN g_clients : Punctual(g_clients[i], now, round, late)
      BY <2>1
    <2> QED BY <2>1, <2>2, <2>3, <2>4 DEF MmcssInv
  <1> QED BY <1>1, MmcssNextInv, PTL DEF MmcssSpec

-----------------------------------------------------------------------------
(* The prefetch service: what its two loops do to the table. *)

(* The pairs compared before p. *)
Earlier(n, p) == {w \in Pairs(n) : Before(w, p)}

LEMMA PairsFinite ==
    ASSUME NEW n \in Nat
    PROVE  /\ IsFiniteSet(Pairs(n)) /\ Cardinality(Pairs(n)) \in Nat
           /\ \A p : /\ IsFiniteSet(Earlier(n, p)) /\ Cardinality(Earlier(n, p)) \in Nat
                     /\ IsFiniteSet(Earlier(n, p) \cup {p})
  <1>1. IsFiniteSet(1 .. n)
    BY FS_Interval
  <1>2. IsFiniteSet((1 .. n) \X (1 .. n))
    BY <1>1, FS_Product
  <1>3. Pairs(n) \subseteq (1 .. n) \X (1 .. n)
    BY DEF Pairs
  <1>4. IsFiniteSet(Pairs(n)) /\ Cardinality(Pairs(n)) \in Nat
    BY <1>2, <1>3, FS_Subset, FS_CardinalityType
  <1>5. ASSUME NEW p
        PROVE  /\ IsFiniteSet(Earlier(n, p)) /\ Cardinality(Earlier(n, p)) \in Nat
               /\ IsFiniteSet(Earlier(n, p) \cup {p})
    <2>1. Earlier(n, p) \subseteq Pairs(n)
      BY DEF Earlier
    <2>2. IsFiniteSet(Earlier(n, p))
      BY <1>4, <2>1, FS_Subset
    <2> QED BY <2>2, FS_CardinalityType, FS_AddElement
  <1> QED BY <1>4, <1>5

(* The order of the loops: total, and later pairs have more before them. *)
LEMMA PairOrder ==
    ASSUME NEW n \in Nat, NEW p \in Pairs(n), NEW w \in Pairs(n)
    PROVE  /\ Before(p, w) \/ Before(w, p) \/ p = w
           /\ ~ Before(p, p)
           /\ Before(p, w) => Cardinality(Earlier(n, p)) < Cardinality(Earlier(n, w))
           /\ Cardinality(Earlier(n, p)) < Cardinality(Pairs(n))
  <1>1. /\ p = <<p[1], p[2]>> /\ p[1] \in 1 .. n /\ p[2] \in 1 .. n /\ p[1] < p[2]
        /\ w = <<w[1], w[2]>> /\ w[1] \in 1 .. n /\ w[2] \in 1 .. n /\ w[1] < w[2]
    BY DEF Pairs
  <1>2. Before(p, w) \/ Before(w, p) \/ p = w
    <2>1. Before(p, w) \/ Before(w, p) \/ (p[1] = w[1] /\ p[2] = w[2])
      BY <1>1 DEF Before
    <2> QED BY <1>1, <2>1
  <1>3. ~ Before(p, p)
    BY <1>1 DEF Before
  <1>4. p \notin Earlier(n, p)
    BY <1>3 DEF Earlier
  <1>5. Cardinality(Earlier(n, p) \cup {p}) = Cardinality(Earlier(n, p)) + 1
    BY <1>4, PairsFinite, FS_AddElement
  <1>6. Cardinality(Earlier(n, p) \cup {p}) <= Cardinality(Pairs(n))
    <2>1. Earlier(n, p) \cup {p} \subseteq Pairs(n)
      BY DEF Earlier
    <2> QED BY <2>1, PairsFinite, FS_Subset
  <1>7. ASSUME Before(p, w) PROVE Cardinality(Earlier(n, p)) < Cardinality(Earlier(n, w))
    <2>1. ASSUME NEW r \in Pairs(n), Before(r, p) PROVE Before(r, w)
      <3>1. r[1] \in 1 .. n /\ r[2] \in 1 .. n
        BY DEF Pairs
      <3> QED BY <1>1, <1>7, <2>1, <3>1 DEF Before
    <2>2. Earlier(n, p) \cup {p} \subseteq Earlier(n, w)
      BY <1>7, <2>1 DEF Earlier
    <2>3. Cardinality(Earlier(n, p) \cup {p}) <= Cardinality(Earlier(n, w))
      BY <2>2, PairsFinite, FS_Subset
    <2>4. Cardinality(Earlier(n, p)) \in Nat /\ Cardinality(Earlier(n, w)) \in Nat
      BY PairsFinite
    <2> QED BY <1>5, <2>3, <2>4
  <1>8. Cardinality(Earlier(n, p)) < Cardinality(Pairs(n))
    <2>1. Cardinality(Earlier(n, p)) \in Nat /\ Cardinality(Pairs(n)) \in Nat
      BY PairsFinite
    <2> QED BY <1>5, <1>6, <2>1
  <1> QED BY <1>2, <1>3, <1>7, <1>8

(* Step k of the loops compares the pair that has k - 1 before it. *)
LEMMA PairAtFacts ==
    ASSUME NEW n \in Nat, NEW k \in 1 .. Cardinality(Pairs(n))
    PROVE  /\ PairAt(n, k) \in Pairs(n)
           /\ Cardinality(Earlier(n, PairAt(n, k))) = k - 1
  <1> DEFINE K == Cardinality(Pairs(n))
             rank == [p \in Pairs(n) |-> Cardinality(Earlier(n, p))]
  <1>1. K \in Nat /\ IsFiniteSet(Pairs(n))
    BY PairsFinite
  <1>2. \A p \in Pairs(n) : rank[p] = Cardinality(Earlier(n, p))
    OBVIOUS
  <1>3. rank \in [Pairs(n) -> 0 .. K - 1]
    <2>1. \A p \in Pairs(n) : rank[p] \in 0 .. K - 1
      <3> TAKE p \in Pairs(n)
      <3>1. Cardinality(Earlier(n, p)) \in Nat /\ Cardinality(Earlier(n, p)) < K
        BY PairsFinite, PairOrder
      <3> HIDE DEF K
      <3> QED BY <1>1, <1>2, <3>1
    <2> QED BY <2>1
  <1> HIDE DEF rank, K
  <1>4. \A p, w \in Pairs(n) : rank[p] = rank[w] => p = w
    <2> TAKE p, w \in Pairs(n)
    <2>1. Before(p, w) \/ Before(w, p) \/ p = w
      BY PairOrder
    <2>2. Before(p, w) => rank[p] < rank[w]
      BY <1>2, PairOrder
    <2>3. Before(w, p) => rank[w] < rank[p]
      BY <1>2, PairOrder
    <2>4. rank[p] \in Nat /\ rank[w] \in Nat
      BY <1>1, <1>3
    <2> QED BY <2>1, <2>2, <2>3, <2>4
  <1>5. rank \in Injection(Pairs(n), 0 .. K - 1)
    BY <1>3, <1>4 DEF Injection, IsInjective
  <1>6. IsFiniteSet(0 .. K - 1) /\ Cardinality(0 .. K - 1) = K
    <2>1. 0 \in Int /\ K - 1 \in Int
      BY <1>1
    <2> QED BY <1>1, <2>1, FS_Interval
  <1>7. rank \in Surjection(Pairs(n), 0 .. K - 1)
    BY <1>5, <1>6, FS_Injection DEF K
  <1>8. k - 1 \in 0 .. K - 1
    BY <1>1 DEF K
  <1>9. \E p \in Pairs(n) : Cardinality(Earlier(n, p)) = k - 1
    BY <1>2, <1>7, <1>8 DEF Surjection
  <1>10. PairAt(n, k) = CHOOSE p \in Pairs(n) : Cardinality(Earlier(n, p)) = k - 1
    BY DEF PairAt, Earlier
  <1> QED BY <1>9, <1>10

PrefetchEntry == [tag : Tag, count : Nat, last : Nat, warm : BOOLEAN]

(* A table t that tells of each application how often it was launched. *)
Booked(t, l) ==
    /\ t \in Seq(PrefetchEntry)
    /\ \A i, j \in DOMAIN t : t[i].tag = t[j].tag => i = j
    /\ \A i \in DOMAIN t : t[i].count = l[t[i].tag]
    /\ \A a \in Tag : l[a] # 0 => \E i \in DOMAIN t : t[i].tag = a

(* The tables of n entries that do. *)
Tables(l, n) == {t \in Seq(PrefetchEntry) : Booked(t, l) /\ Len(t) = n}

(* An exchange loses no entry. *)
LEMMA ExchangeBooked ==
    ASSUME NEW l, NEW n \in Nat, NEW t \in Tables(l, n), NEW i \in 1 .. n, NEW j \in 1 .. n
    PROVE  /\ Exchange(t, i, j) \in Tables(l, n)
           /\ Exchange(t, i, j) = IF t[j].count > t[i].count
                                  THEN [k \in 1 .. n |-> IF k = i THEN t[j]
                                                         ELSE IF k = j THEN t[i] ELSE t[k]]
                                  ELSE t
  <1> DEFINE x == [k \in 1 .. n |-> IF k = i THEN t[j] ELSE IF k = j THEN t[i] ELSE t[k]]
             to == [k \in 1 .. n |-> IF k = i THEN j ELSE IF k = j THEN i ELSE k]
  <1>1. t \in Seq(PrefetchEntry) /\ Len(t) = n /\ DOMAIN t = 1 .. n /\ Booked(t, l)
        /\ \A k \in 1 .. n : t[k] \in PrefetchEntry
    BY DEF Tables
  <1>2. /\ to \in [1 .. n -> 1 .. n] /\ \A k \in 1 .. n : x[k] = t[to[k]] /\ to[to[k]] = k
    OBVIOUS
  <1>3. x \in Seq(PrefetchEntry) /\ Len(x) = n /\ DOMAIN x = 1 .. n
    <2>1. \A k \in 1 .. n : x[k] \in PrefetchEntry
      BY <1>1
    <2> QED BY <2>1
  <1>4. Exchange(t, i, j) = IF t[j].count > t[i].count THEN x ELSE t
    <2>1. [t EXCEPT ![i] = t[j], ![j] = t[i]] = x
      <3>1. t = [k \in 1 .. n |-> t[k]]
        BY <1>1
      <3> QED BY <3>1
    <2> HIDE DEF x
    <2> QED BY <2>1 DEF Exchange
  <1> HIDE DEF x, to
  <1>5. Booked(x, l)
    <2>1. ASSUME NEW k \in 1 .. n, NEW m \in 1 .. n, x[k].tag = x[m].tag PROVE k = m
      <3>1. to[k] = to[m]
        BY <1>1, <1>2, <2>1 DEF Booked
      <3> QED BY <1>2, <3>1
    <2>2. \A k \in 1 .. n : x[k].count = l[x[k].tag]
      BY <1>1, <1>2 DEF Booked
    <2>3. ASSUME NEW a \in Tag, l[a] # 0 PROVE \E k \in 1 .. n : x[k].tag = a
      <3>1. PICK k \in 1 .. n : t[k].tag = a
        BY <1>1, <2>3 DEF Booked
      <3> QED BY <1>2, <3>1
    <2> QED BY <1>3, <2>1, <2>2, <2>3 DEF Booked
  <1>6. x \in Tables(l, n)
    BY <1>3, <1>5 DEF Tables
  <1> QED BY <1>4, <1>6 DEF x

(* The pairs up to p are in descending order; c are the counts. *)
Descends(c, n, p) == \A w \in Pairs(n) : Before(w, p) => c[w[2]] <= c[w[1]]

(* After the exchange of p they are so with p. *)
LEMMA ExchangeDescends ==
    ASSUME NEW n \in Nat, NEW c \in [1 .. n -> Nat], NEW d \in [1 .. n -> Nat],
           NEW p \in Pairs(n), Descends(c, n, p),
           \A k \in 1 .. n : d[k] = IF c[p[2]] > c[p[1]]
                                    THEN IF k = p[1] THEN c[p[2]]
                                         ELSE IF k = p[2] THEN c[p[1]] ELSE c[k]
                                    ELSE c[k]
    PROVE  \A w \in Pairs(n) : Before(w, p) \/ w = p => d[w[2]] <= d[w[1]]
  <1> DEFINE i == p[1]
             j == p[2]
  <1>1. i \in 1 .. n /\ j \in 1 .. n /\ i < j
    BY DEF Pairs
  <1>2. \A k, m \in 1 .. n : k < m /\ (k < i \/ (k = i /\ m < j)) => c[m] <= c[k]
    <2> TAKE k, m \in 1 .. n
    <2> HAVE k < m /\ (k < i \/ (k = i /\ m < j))
    <2>1. <<k, m>> \in Pairs(n) /\ <<k, m>>[1] = k /\ <<k, m>>[2] = m
      BY DEF Pairs
    <2>2. Before(<<k, m>>, p)
      BY <2>1 DEF Before
    <2> QED BY <2>1, <2>2 DEF Descends
  <1>3. \A k \in 1 .. n : /\ d[k] = IF c[j] > c[i]
                                    THEN IF k = i THEN c[j] ELSE IF k = j THEN c[i] ELSE c[k]
                                    ELSE c[k]
                          /\ c[k] \in Nat /\ d[k] \in Nat
    OBVIOUS
  <1> HIDE DEF i, j
  <1>4. ASSUME NEW k \in 1 .. n, NEW m \in 1 .. n, k < m,
               k < i \/ (k = i /\ m <= j)
        PROVE  d[m] <= d[k]
    <2>1. CASE k < i
      <3>1. c[m] <= c[k] /\ c[i] <= c[k] /\ c[j] <= c[k]
        BY <1>1, <1>2, <1>4, <2>1
      <3>2. d[k] = c[k]
        BY <1>1, <1>3, <2>1
      <3>3. d[m] = c[m] \/ d[m] = c[i] \/ d[m] = c[j]
        BY <1>1, <1>3
      <3> QED BY <3>1, <3>2, <3>3
    <2>2. CASE k = i /\ m < j
      <3>1. c[m] <= c[i]
        BY <1>2, <1>4, <2>2
      <3>2. d[m] = c[m]
        BY <1>1, <1>3, <1>4, <2>2
      <3>3. d[i] >= c[i]
        BY <1>1, <1>3
      <3> QED BY <1>1, <1>3, <2>2, <3>1, <3>2, <3>3
    <2>3. CASE k = i /\ m = j
      BY <1>1, <1>3, <2>3
    <2> QED BY <1>1, <1>4, <2>1, <2>2, <2>3
  <1>5. ASSUME NEW w \in Pairs(n), Before(w, p) \/ w = p PROVE d[w[2]] <= d[w[1]]
    <2>1. w[1] \in 1 .. n /\ w[2] \in 1 .. n /\ w[1] < w[2]
      BY DEF Pairs
    <2>2. w[1] < i \/ (w[1] = i /\ w[2] <= j)
      <3>1. CASE Before(w, p)
        <4>1. w[1] < i \/ (w[1] = i /\ w[2] < j)
          BY <3>1 DEF Before, i, j
        <4> QED BY <1>1, <2>1, <4>1
      <3>2. CASE w = p
        <4>1. w[1] = i /\ w[2] = j
          BY <3>2 DEF i, j
        <4> QED BY <1>1, <4>1
      <3> QED BY <1>5, <3>1, <3>2
    <2> QED BY <1>4, <2>1, <2>2
  <1> QED BY <1>5

(* The sort: the same entries, those with the highest counts first. *)
LEMMA SortedFacts ==
    ASSUME NEW l, NEW t, Booked(t, l), t \in Seq(PrefetchEntry)
    PROVE  /\ Booked(Sorted(t), l) /\ Len(Sorted(t)) = Len(t)
           /\ \A i, j \in 1 .. Len(t) : i < j => Sorted(t)[j].count <= Sorted(t)[i].count
  <1> DEFINE n == Len(t)
             K == Cardinality(Pairs(n))
             D == Tables(l, n)
             IsAfter(g) == g = [k \in 0 .. K |->
                IF k = 0 THEN t ELSE Exchange(g[k - 1], PairAt(n, k)[1], PairAt(n, k)[2])]
  <1>1. n \in Nat /\ K \in Nat /\ t \in D
    BY PairsFinite DEF Tables
  <1>2. \A k \in 1 .. K : /\ PairAt(n, k) \in Pairs(n)
                          /\ PairAt(n, k)[1] \in 1 .. n /\ PairAt(n, k)[2] \in 1 .. n
                          /\ Cardinality(Earlier(n, PairAt(n, k))) = k - 1
    BY <1>1, PairAtFacts DEF Pairs
  <1> HIDE DEF n, K
  <1>3. \A k \in 1 .. K, s \in D : Exchange(s, PairAt(n, k)[1], PairAt(n, k)[2]) \in D
    BY <1>1, <1>2, ExchangeBooked
  <1>4. PICK g : /\ g \in [0 .. K -> D] /\ g[0] = t
                 /\ \A k \in 1 .. K : g[k] = Exchange(g[k - 1], PairAt(n, k)[1], PairAt(n, k)[2])
    <2> DEFINE F == [k \in 1 .. K |-> [s \in D |-> Exchange(s, PairAt(n, k)[1], PairAt(n, k)[2])]]
    <2>1. \A k \in 1 .. K, s \in D : F[k][s] = Exchange(s, PairAt(n, k)[1], PairAt(n, k)[2])
      OBVIOUS
    <2> HIDE DEF F, D
    <2>2. StaysIn(F, D, K)
      BY <1>3, <2>1 DEF StaysIn
    <2>3. PICK g : Walked(g, F, t, D, K)
      BY <1>1, <2>2, StepByStep
    <2>4. \A k \in 1 .. K : g[k - 1] \in D
      BY <1>1, <2>3 DEF Walked
    <2>5. g \in [0 .. K -> D] /\ g[0] = t /\ \A k \in 1 .. K : g[k] = F[k][g[k - 1]]
      BY <2>3 DEF Walked
    <2>6. \A k \in 1 .. K : g[k] = Exchange(g[k - 1], PairAt(n, k)[1], PairAt(n, k)[2])
      BY <2>1, <2>4, <2>5
    <2> QED BY <2>5, <2>6
  <1>5. IsAfter(g)
    BY <1>1, <1>4
  <1> DEFINE after == CHOOSE h : IsAfter(h)
  <1>6. IsAfter(after)
    <2> HIDE DEF IsAfter
    <2> QED BY <1>5
  <1>7. Sorted(t) = after[K]
    BY DEF Sorted, n, K
  <1> HIDE DEF after
  <1>8. /\ after[0] = t
        /\ \A k \in 1 .. K : after[k] = Exchange(after[k - 1], PairAt(n, k)[1], PairAt(n, k)[2])
    BY <1>1, <1>6
  <1> HIDE DEF IsAfter, D
  <1> DEFINE Done(k) == \A w \in Pairs(n) : Cardinality(Earlier(n, w)) < k
                                => after[k][w[2]].count <= after[k][w[1]].count
             A == {k \in 0 .. K : after[k] \in D /\ Done(k)}
  <1>9. 0 \in A
    <2>1. Done(0)
      <3> TAKE w \in Pairs(n)
      <3>1. Cardinality(Earlier(n, w)) \in Nat
        BY <1>1, PairsFinite
      <3> QED BY <3>1
    <2> HIDE DEF Done
    <2> QED BY <1>1, <1>8, <2>1
  <1>10. ASSUME NEW k \in 1 .. K, k - 1 \in A PROVE k \in A
    <2> DEFINE p == PairAt(n, k)
               s == after[k - 1]
               c == [x \in 1 .. n |-> s[x].count]
               d == [x \in 1 .. n |-> after[k][x].count]
    <2>1. s \in D /\ p \in Pairs(n) /\ p[1] \in 1 .. n /\ p[2] \in 1 .. n /\ p[1] < p[2]
      BY <1>2, <1>10 DEF Pairs
    <2>2. after[k] = Exchange(s, p[1], p[2]) /\ after[k] \in D
      BY <1>3, <1>8, <2>1
    <2>3. \A u \in D : /\ DOMAIN u = 1 .. n /\ \A x \in 1 .. n : u[x].count \in Nat
      <3> TAKE u \in D
      <3>1. u \in Seq(PrefetchEntry) /\ Len(u) = n
        BY DEF D, Tables
      <3>2. \A x \in 1 .. n : u[x] \in PrefetchEntry
        BY <1>1, <3>1
      <3> QED BY <1>1, <3>1, <3>2 DEF PrefetchEntry
    <2>4. \A x \in 1 .. n : d[x] = IF c[p[2]] > c[p[1]]
                                   THEN IF x = p[1] THEN c[p[2]]
                                        ELSE IF x = p[2] THEN c[p[1]] ELSE c[x]
                                   ELSE c[x]
      <3>1. Exchange(s, p[1], p[2]) = IF s[p[2]].count > s[p[1]].count
                   THEN [x \in 1 .. n |-> IF x = p[1] THEN s[p[2]]
                                          ELSE IF x = p[2] THEN s[p[1]] ELSE s[x]]
                   ELSE s
        <4>1. s \in Tables(l, n)
          BY <2>1 DEF D
        <4> HIDE DEF p, s
        <4>2. \A i, j \in 1 .. n : Exchange(s, i, j) = IF s[j].count > s[i].count
                   THEN [x \in 1 .. n |-> IF x = i THEN s[j]
                                          ELSE IF x = j THEN s[i] ELSE s[x]]
                   ELSE s
          BY <1>1, <4>1, ExchangeBooked
        <4> QED BY <2>1, <4>2
      <3> HIDE DEF p, s
      <3> QED BY <2>1, <2>2, <3>1
    <2>5. c \in [1 .. n -> Nat] /\ d \in [1 .. n -> Nat]
      BY <2>1, <2>2, <2>3
    <2>6. Descends(c, n, p)
      <3> SUFFICES ASSUME NEW w \in Pairs(n), Before(w, p) PROVE c[w[2]] <= c[w[1]]
        BY DEF Descends
      <3>1. w[1] \in 1 .. n /\ w[2] \in 1 .. n
        BY DEF Pairs
      <3>2. Cardinality(Earlier(n, w)) < Cardinality(Earlier(n, p))
        BY <1>1, <2>1, PairOrder
      <3>3. Cardinality(Earlier(n, w)) < k - 1
        BY <1>2, <3>2
      <3>4. s[w[2]].count <= s[w[1]].count
        BY <1>10, <3>3
      <3> QED BY <3>1, <3>4
    <2> HIDE DEF c, d, s, p
    <2>7. \A w \in Pairs(n) : Before(w, p) \/ w = p => d[w[2]] <= d[w[1]]
      BY <1>1, <2>1, <2>4, <2>5, <2>6, ExchangeDescends
    <2>8. Done(k)
      <3> SUFFICES ASSUME NEW w \in Pairs(n), Cardinality(Earlier(n, w)) < k
                   PROVE  after[k][w[2]].count <= after[k][w[1]].count
        OBVIOUS
      <3>1. w[1] \in 1 .. n /\ w[2] \in 1 .. n
        BY DEF Pairs
      <3>2. Cardinality(Earlier(n, p)) = k - 1 /\ Cardinality(Earlier(n, w)) \in Nat
        BY <1>1, <1>2, PairsFinite DEF p
      <3>3. ~ (Cardinality(Earlier(n, p)) < Cardinality(Earlier(n, w)))
        BY <3>2
      <3>4. Before(w, p) \/ w = p
        BY <1>1, <2>1, <3>3, PairOrder
      <3>5. d[w[2]] <= d[w[1]]
        BY <2>7, <3>4
      <3> QED BY <3>1, <3>5 DEF d
    <2> HIDE DEF Done
    <2> QED BY <2>2, <2>8
  <1> HIDE DEF A
  <1>11. K \in A
    <2>1. \A k \in 0 .. K : k \in A
      BY <1>1, <1>9, <1>10, Climb
    <2>2. K \in 0 .. K
      BY <1>1
    <2> QED BY <2>1, <2>2
  <1>12. after[K] \in D /\ Done(K)
    BY <1>11 DEF A
  <1>13. Booked(Sorted(t), l) /\ Len(Sorted(t)) = n
    BY <1>7, <1>12 DEF D, Tables
  <1>14. ASSUME NEW i \in 1 .. n, NEW j \in 1 .. n, i < j
         PROVE  Sorted(t)[j].count <= Sorted(t)[i].count
    <2>1. <<i, j>> \in Pairs(n) /\ <<i, j>>[1] = i /\ <<i, j>>[2] = j
      BY <1>14 DEF Pairs
    <2>2. Cardinality(Earlier(n, <<i, j>>)) < K
      BY <1>1, <2>1, PairOrder DEF K
    <2> QED BY <1>7, <1>12, <2>1, <2>2
  <1> QED BY <1>13, <1>14 DEF n

(* After a scan: the most used are warm unless they are cold, and nothing
   that is cold is warm.                                                    *)
Warmed(t) ==
    \A i \in DOMAIN t : /\ t[i].warm => ~ IsCold(t[i])
                        /\ i <= Top => t[i].warm \/ IsCold(t[i])
                        /\ \A j \in 1 .. i - 1 : t[j].count >= t[i].count

SysInv == /\ launches \in [Tag -> Nat] /\ ticks \in Nat
          /\ prefetch_table \in Seq(PrefetchEntry)
          /\ Booked(prefetch_table, launches)
          /\ scanned => Warmed(prefetch_table)

LEMMA LaunchInv ==
    ASSUME SysInv, NEW a \in Tag, sysmain_record_launch(a)
    PROVE  /\ launches' \in [Tag -> Nat] /\ prefetch_table' \in Seq(PrefetchEntry)
           /\ Booked(prefetch_table', launches')
  <1> DEFINE t == prefetch_table
  <1>1. /\ launches \in [Tag -> Nat] /\ ticks \in Nat
        /\ t \in Seq(PrefetchEntry) /\ DOMAIN t = 1 .. Len(t) /\ Len(t) \in Nat
        /\ \A i \in DOMAIN t : t[i] \in PrefetchEntry
        /\ \A i, j \in DOMAIN t : t[i].tag = t[j].tag => i = j
        /\ \A i \in DOMAIN t : t[i].count = launches[t[i].tag]
        /\ \A b \in Tag : launches[b] # 0 => \E i \in DOMAIN t : t[i].tag = b
    BY DEF SysInv, Booked
  <1>2. CASE Known(a)
    <2> DEFINE e(i) == IF t[i].tag # a THEN t[i]
                       ELSE [t[i] EXCEPT !.count = @ + 1, !.last = ticks, !.warm = FALSE]
    <2>1. /\ prefetch_table' = [i \in DOMAIN t |-> e(i)]
          /\ launches' = [launches EXCEPT ![a] = @ + 1]
      BY <1>2 DEF sysmain_record_launch
    <2>2. ASSUME NEW i \in DOMAIN t
          PROVE  /\ e(i) \in PrefetchEntry /\ e(i).tag = t[i].tag
                 /\ e(i).count = IF t[i].tag = a THEN t[i].count + 1 ELSE t[i].count
      <3> DEFINE c == t[i]
      <3>1. c \in PrefetchEntry /\ ticks \in Nat
        BY <1>1
      <3>2. e(i) = IF c.tag # a THEN c
                   ELSE [c EXCEPT !.count = c.count + 1, !.last = ticks, !.warm = FALSE]
        OBVIOUS
      <3> HIDE DEF c, e
      <3>3. /\ e(i) \in PrefetchEntry /\ e(i).tag = c.tag
            /\ e(i).count = IF c.tag = a THEN c.count + 1 ELSE c.count
        <4>1. CASE c.tag # a
          BY <3>1, <3>2, <4>1
        <4>2. CASE c.tag = a
          <5>1. e(i) = [c EXCEPT !.count = c.count + 1, !.last = ticks, !.warm = FALSE]
            BY <3>2, <4>2
          <5>2. c.count + 1 \in Nat
            BY <3>1 DEF PrefetchEntry
          <5> QED BY <3>1, <4>2, <5>1, <5>2 DEF PrefetchEntry
        <4> QED BY <4>1, <4>2
      <3> QED BY <3>3 DEF c
    <2> HIDE DEF e
    <2>3. prefetch_table' \in Seq(PrefetchEntry) /\ DOMAIN prefetch_table' = DOMAIN t
      BY <1>1, <2>1, <2>2
    <2>4. \A i \in DOMAIN t : prefetch_table'[i].count = launches'[prefetch_table'[i].tag]
      <3> TAKE i \in DOMAIN t
      <3>1. t[i].tag \in Tag
        BY <1>1 DEF PrefetchEntry
      <3> QED BY <1>1, <2>1, <2>2, <3>1
    <2>5. \A i, j \in DOMAIN t : prefetch_table'[i].tag = prefetch_table'[j].tag => i = j
      BY <1>1, <2>1, <2>2
    <2>6. \A b \in Tag : launches'[b] # 0 => \E i \in DOMAIN t : prefetch_table'[i].tag = b
      <3> SUFFICES ASSUME NEW b \in Tag, launches'[b] # 0
                   PROVE  \E i \in DOMAIN t : prefetch_table'[i].tag = b
        OBVIOUS
      <3>1. \E i \in DOMAIN t : t[i].tag = b
        BY <1>1, <1>2, <2>1 DEF Known
      <3> QED BY <2>1, <2>2, <3>1
    <2>7. launches' \in [Tag -> Nat]
      BY <1>1, <2>1
    <2> QED BY <2>3, <2>4, <2>5, <2>6, <2>7 DEF Booked
  <1>3. CASE ~ Known(a) /\ Len(t) < PrefetchEntries
    <2> DEFINE e == [tag |-> a, count |-> 1, last |-> ticks, warm |-> FALSE]
               u == Append(t, e)
    <2>1. prefetch_table' = u /\ launches' = [launches EXCEPT ![a] = @ + 1]
      BY <1>3 DEF sysmain_record_launch
    <2>2. e \in PrefetchEntry /\ e.tag = a /\ e.count = 1
      BY <1>1 DEF PrefetchEntry
    <2> HIDE DEF e
    <2>3. /\ u \in Seq(PrefetchEntry) /\ DOMAIN u = 1 .. Len(t) + 1
          /\ u[Len(t) + 1] = e /\ \A i \in 1 .. Len(t) : u[i] = t[i]
      BY <1>1, <2>2
    <2> HIDE DEF u
    <2>4. launches[a] = 0 /\ \A i \in 1 .. Len(t) : t[i].tag # a
      BY <1>1, <1>3 DEF Known
    <2>5. launches' \in [Tag -> Nat] /\ launches'[a] = 1 /\ \A b \in Tag \ {a} : launches'[b] = launches[b]
      BY <1>1, <2>1, <2>4
    <2>6. ASSUME NEW i \in DOMAIN u PROVE u[i].count = launches'[u[i].tag]
      <3>1. CASE i = Len(t) + 1
        BY <2>2, <2>3, <2>5, <3>1
      <3>2. CASE i \in 1 .. Len(t)
        <4>1. t[i].tag \in Tag \ {a}
          BY <1>1, <2>4, <3>2 DEF PrefetchEntry
        <4> QED BY <1>1, <2>3, <2>5, <3>2, <4>1
      <3> QED BY <1>1, <2>3, <3>1, <3>2
    <2>7. ASSUME NEW i \in DOMAIN u, NEW j \in DOMAIN u, u[i].tag = u[j].tag PROVE i = j
      <3>1. i \in 1 .. Len(t) \/ i = Len(t) + 1
        BY <1>1, <2>3
      <3>2. j \in 1 .. Len(t) \/ j = Len(t) + 1
        BY <1>1, <2>3
      <3> QED BY <1>1, <2>2, <2>3, <2>4, <2>7, <3>1, <3>2
    <2>8. ASSUME NEW b \in Tag, launches'[b] # 0 PROVE \E i \in DOMAIN u : u[i].tag = b
      <3>1. CASE b = a
        <4>1. Len(t) + 1 \in DOMAIN u
          BY <1>1, <2>3
        <4> QED BY <2>2, <2>3, <3>1, <4>1
      <3>2. CASE b # a
        <4>1. PICK i \in 1 .. Len(t) : t[i].tag = b
          BY <1>1, <2>5, <2>8, <3>2
        <4>2. i \in DOMAIN u
          BY <1>1, <2>3
        <4> QED BY <2>3, <4>1, <4>2
      <3> QED BY <3>1, <3>2
    <2>9. Booked(u, launches')
      BY <2>3, <2>6, <2>7, <2>8 DEF Booked
    <2> QED BY <2>1, <2>3, <2>5, <2>9
  <1>4. CASE ~ Known(a) /\ ~ (Len(t) < PrefetchEntries)
    <2>1. prefetch_table' = t /\ launches' = launches
      <3>1. launches' = [launches EXCEPT ![a] = @]
        BY <1>4 DEF sysmain_record_launch
      <3> QED BY <1>1, <1>4, <3>1 DEF sysmain_record_launch
    <2> QED BY <2>1 DEF SysInv
  <1> QED BY <1>2, <1>3, <1>4

LEMMA ScanWarms ==
    ASSUME SysInv, sysmain_scan
    PROVE  /\ prefetch_table' \in Seq(PrefetchEntry)
           /\ Booked(prefetch_table', launches') /\ Warmed(prefetch_table)'
  <1> DEFINE s == Sorted(prefetch_table)
             n == Len(prefetch_table)
             t == Prefetched(s)
             u == Compressed(t)
  <1>1. /\ s \in Seq(PrefetchEntry) /\ Booked(s, launches) /\ Len(s) = n /\ n \in Nat
        /\ \A i, j \in 1 .. n : i < j => s[j].count <= s[i].count
    <2>1. prefetch_table \in Seq(PrefetchEntry) /\ Booked(prefetch_table, launches)
      BY DEF SysInv
    <2>2. Booked(s, launches) /\ Len(s) = n /\ \A i, j \in 1 .. n : i < j => s[j].count <= s[i].count
      BY <2>1, SortedFacts
    <2> QED BY <2>1, <2>2 DEF Booked
  <1>2. /\ prefetch_table' = u /\ scanned' = TRUE /\ launches' = launches /\ ticks' = ticks
        /\ ticks \in Nat
    BY DEF sysmain_scan, SysInv
  <1>3. DOMAIN s = 1 .. n /\ \A i \in 1 .. n : s[i] \in PrefetchEntry
    BY <1>1
  <1> HIDE DEF s, n
  <1>4. /\ DOMAIN t = 1 .. n
        /\ \A i \in 1 .. n : /\ t[i] \in PrefetchEntry
                             /\ t[i].tag = s[i].tag /\ t[i].count = s[i].count
                             /\ t[i].last = s[i].last /\ (i <= Top => t[i].warm = TRUE)
    BY <1>3 DEF Prefetched, PrefetchEntry
  <1> HIDE DEF t
  <1>5. /\ DOMAIN u = 1 .. n /\ u \in [1 .. n -> PrefetchEntry]
        /\ \A i \in 1 .. n : /\ u[i] \in PrefetchEntry
                             /\ u[i].tag = s[i].tag /\ u[i].count = s[i].count
                             /\ IsCold(u[i]) <=> IsCold(t[i])
                             /\ u[i].warm = IF IsCold(t[i]) THEN FALSE ELSE t[i].warm
    <2>1. u = [i \in 1 .. n |-> IF IsCold(t[i]) THEN [t[i] EXCEPT !.warm = FALSE] ELSE t[i]]
      BY <1>4 DEF Compressed
    <2>2. ASSUME NEW i \in 1 .. n
          PROVE  /\ u[i] \in PrefetchEntry
                 /\ u[i].tag = t[i].tag /\ u[i].count = t[i].count /\ u[i].last = t[i].last
                 /\ u[i].warm = IF IsCold(t[i]) THEN FALSE ELSE t[i].warm
      <3>1. t[i] \in PrefetchEntry
        BY <1>4
      <3>2. u[i] = IF IsCold(t[i]) THEN [t[i] EXCEPT !.warm = FALSE] ELSE t[i]
        BY <2>1
      <3> HIDE DEF u
      <3> QED BY <3>1, <3>2 DEF PrefetchEntry
    <2>3. DOMAIN u = 1 .. n /\ u \in [1 .. n -> PrefetchEntry]
      <3>1. \A i \in 1 .. n : u[i] \in PrefetchEntry
        BY <2>2
      <3> HIDE DEF u
      <3>2. DOMAIN u = 1 .. n /\ u = [i \in 1 .. n |-> u[i]]
        BY <2>1
      <3> QED BY <3>1, <3>2
    <2> HIDE DEF u
    <2> QED BY <1>4, <2>2, <2>3 DEF IsCold
  <1> HIDE DEF u
  <1>6. u \in Seq(PrefetchEntry)
    BY <1>1, <1>5
  <1>7. Booked(u, launches)
    <2>0. /\ \A i, j \in 1 .. n : s[i].tag = s[j].tag => i = j
          /\ \A i \in 1 .. n : s[i].count = launches[s[i].tag]
      BY <1>1, <1>3 DEF Booked
    <2>1. \A i, j \in 1 .. n : u[i].tag = u[j].tag => i = j
      BY <1>5, <2>0
    <2>2. \A i \in 1 .. n : u[i].count = launches[u[i].tag]
      BY <1>5, <2>0
    <2>3. ASSUME NEW b \in Tag, launches[b] # 0 PROVE \E i \in 1 .. n : u[i].tag = b
      <3>1. PICK i \in 1 .. n : s[i].tag = b
        BY <1>1, <1>3, <2>3 DEF Booked
      <3> QED BY <1>5, <3>1
    <2> QED BY <1>5, <1>6, <2>1, <2>2, <2>3 DEF Booked
  <1>8. ASSUME NEW i \in 1 .. n
        PROVE  /\ u[i].warm => ~ IsCold(u[i])
               /\ i <= Top => u[i].warm \/ IsCold(u[i])
               /\ \A j \in 1 .. i - 1 : u[j].count >= u[i].count
    <2>1. /\ u[i].warm => ~ IsCold(u[i])
          /\ i <= Top => u[i].warm \/ IsCold(u[i])
      BY <1>4, <1>5
    <2>2. ASSUME NEW j \in 1 .. i - 1 PROVE u[j].count >= u[i].count
      <3>1. j \in 1 .. n /\ j < i
        BY <1>1
      <3>2. s[i].count <= s[j].count /\ u[i].count = s[i].count /\ u[j].count = s[j].count
        BY <1>1, <1>5, <3>1
      <3>3. s[i].count \in Nat /\ s[j].count \in Nat
        BY <1>3, <3>1 DEF PrefetchEntry
      <3> QED BY <3>2, <3>3
    <2> QED BY <2>1, <2>2
  <1>9. Warmed(prefetch_table)'
    BY <1>2, <1>5, <1>8 DEF Warmed, IsCold
  <1> QED BY <1>2, <1>6, <1>7, <1>9

LEMMA SysInvHolds == SysMainSpec => []SysInv
  <1>1. ASSUME SysMainInit PROVE SysInv
    <2>1. /\ launches = [a \in Tag |-> 0] /\ ticks = 0 /\ scanned = FALSE
          /\ prefetch_table = << >>
      BY <1>1 DEF SysMainInit
    <2>2. prefetch_table \in Seq(PrefetchEntry) /\ DOMAIN prefetch_table = {}
      BY <2>1
    <2>3. Booked(prefetch_table, launches)
      BY <2>1, <2>2 DEF Booked
    <2>4. launches \in [Tag -> Nat] /\ ticks \in Nat /\ ~scanned
      BY <2>1
    <2> QED BY <2>2, <2>3, <2>4 DEF SysInv
  <1>2. ASSUME SysInv, [SysMainNext]_sysmainVars PROVE SysInv'
    <2>1. ASSUME NEW a \in Tag, sysmain_record_launch(a) PROVE SysInv'
      <3>1. ticks' = ticks /\ scanned' = FALSE
        BY <2>1 DEF sysmain_record_launch
      <3> QED BY <1>2, <2>1, <3>1, LaunchInv DEF SysInv
    <2>2. CASE sysmain_scan
      <3>1. ticks' = ticks /\ launches' = launches
        BY <2>2 DEF sysmain_scan
      <3> QED BY <1>2, <2>2, <3>1, ScanWarms DEF SysInv
    <2>3. CASE PassTime
      BY <1>2, <2>3 DEF PassTime, SysInv
    <2>4. CASE UNCHANGED sysmainVars
      BY <1>2, <2>4 DEF sysmainVars, SysInv, Warmed, IsCold
    <2> QED BY <1>2, <2>1, <2>2, <2>3, <2>4 DEF SysMainNext
  <1> QED BY <1>1, <1>2, PTL DEF SysMainSpec

LEMMA SysInvImplies == ASSUME SysInv PROVE MostUsedAreWarm
  <1> DEFINE t == prefetch_table
             E == {t[i] : i \in DOMAIN t}
  <1>1. ASSUME NEW a \in Tag
        PROVE  launches[a] = IF Known(a) THEN (CHOOSE e \in E : e.tag = a).count ELSE 0
    <2>1. CASE Known(a)
      <3>1. \E e \in E : e.tag = a
        BY <2>1 DEF Known
      <3> DEFINE x == CHOOSE e \in E : e.tag = a
      <3>2. x \in E /\ x.tag = a
        BY <3>1
      <3> HIDE DEF x
      <3>3. PICK i \in DOMAIN t : x = t[i]
        BY <3>2
      <3>4. t[i].count = launches[t[i].tag]
        BY DEF SysInv, Booked
      <3>5. x.count = launches[a]
        BY <3>2, <3>3, <3>4
      <3> QED BY <2>1, <3>5 DEF x
    <2>2. CASE ~ Known(a)
      BY <2>2 DEF SysInv, Booked, Known
    <2> QED BY <2>1, <2>2
  <1>2. \A i, j \in DOMAIN t : t[i].tag = t[j].tag => i = j
    BY DEF SysInv, Booked
  <1>3. scanned => Warmed(t)
    BY DEF SysInv
  <1> QED BY <1>1, <1>2, <1>3 DEF MostUsedAreWarm, Warmed

(* A client of the multimedia scheduler with a period of a tick or more has
   missed a deadline only if a round was late, and no round leaves a deadline
   behind that is over (mmcss.c); no launch is lost or counted for another
   application by sorting, and a scan leaves the most used applications warm
   and nothing that is cold (sysmain.c).                                    *)
THEOREM ServicesStay == MmcssSpec /\ SysMainSpec => []ServicesKeepCount
  <1>1. MmcssInv => MissesAreLate
    BY DEF MmcssInv, Punctual, MissesAreLate
  <1>2. SysInv => MostUsedAreWarm
    BY SysInvImplies
  <1>3. MmcssInv /\ SysInv => ServicesKeepCount
    BY <1>1, <1>2 DEF ServicesKeepCount
  <1> QED BY <1>3, MmcssInvHolds, SysInvHolds, PTL

=============================================================================
