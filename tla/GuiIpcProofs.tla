---------------------------- MODULE GuiIpcProofs ----------------------------
(***************************************************************************)
(* The messages of the desktop.  The ring of gui_ipc.c implements a queue  *)
(* that drops its oldest message, for a ring of any size, and the panel's  *)
(* log on it keeps the newest entries: the indices stay in the ring, and   *)
(* the messages between head and tail, counted with wrap-around, are the   *)
(* queue.  Both shells keep one connection to the pipe, though a lost one  *)
(* runs two handlers, for any number of sockets and attempts.  The host's  *)
(* servers end every request once.                                         *)
(***************************************************************************)
EXTENDS MCStartup, SequenceTheorems, TLAPS

(* An index that has gone past the end of the ring at most once. *)
LEMMA Wrap ==
    ASSUME NEW x \in Nat, x < 2 * RingSize
    PROVE  /\ Wrapped(x) = IF x < RingSize THEN x ELSE x - RingSize
           /\ Wrapped(x) \in Slots
  BY RingAssumption, SMTT(30) DEF Wrapped, Slots

LEMMA SuccIs ==
    ASSUME NEW s \in Slots
    PROVE  Succ(s) = (IF s = RingSize - 1 THEN 0 ELSE s + 1) /\ Succ(s) \in Slots
<1>1. s + 1 \in Nat /\ s + 1 < 2 * RingSize /\ s \in Nat /\ s < RingSize
  BY RingAssumption DEF Slots
<1>2. Wrapped(s + 1) = IF s + 1 < RingSize THEN s + 1 ELSE s + 1 - RingSize
  BY <1>1, Wrap, RingAssumption
<1> QED BY <1>1, <1>2, Wrap, RingAssumption DEF Succ

(* The messages between two indices. *)
LEMMA BetweenFacts ==
    ASSUME NEW r \in [Slots -> Nat], NEW h \in Slots, NEW t \in Slots
    PROVE  /\ Count(h, t) \in 0 .. RingSize - 1
           /\ Between(r, h, t) \in Seq(Nat)
           /\ Len(Between(r, h, t)) = Count(h, t)
           /\ \A i \in 1 .. Count(h, t) :
                 Between(r, h, t)[i] = r[IF h + i <= RingSize THEN h + i - 1
                                         ELSE h + i - 1 - RingSize]
<1>1. Count(h, t) \in 0 .. RingSize - 1 /\ Count(h, t) \in Nat
  BY RingAssumption DEF Count, Slots
<1>2. ASSUME NEW i \in 1 .. Count(h, t)
      PROVE  /\ Wrapped((h + i) - 1) = IF h + i <= RingSize THEN h + i - 1
                                       ELSE h + i - 1 - RingSize
             /\ Wrapped((h + i) - 1) \in Slots
  <2>1. /\ (h + i) - 1 \in Nat /\ (h + i) - 1 < 2 * RingSize
        /\ h \in Nat /\ i \in Nat /\ RingSize \in Nat
    BY <1>1, RingAssumption DEF Slots
  <2>2. /\ Wrapped((h + i) - 1) = IF (h + i) - 1 < RingSize THEN (h + i) - 1
                                  ELSE (h + i) - 1 - RingSize
        /\ Wrapped((h + i) - 1) \in Slots
    BY <2>1, Wrap
  <2> QED BY <2>1, <2>2
<1>3. \A i \in 1 .. Count(h, t) : r[Wrapped((h + i) - 1)] \in Nat
  BY <1>2
<1>4. Between(r, h, t) \in Seq(Nat) /\ Len(Between(r, h, t)) = Count(h, t)
  BY <1>1, <1>3 DEF Between
<1>5. \A i \in 1 .. Count(h, t) : Between(r, h, t)[i] = r[Wrapped((h + i) - 1)]
  BY DEF Between
<1> QED BY <1>1, <1>2, <1>4, <1>5

LEMMA InitType == RingInit => RingTypeOK
<1> SUFFICES ASSUME RingInit PROVE RingTypeOK
  OBVIOUS
<1>1. 0 \in Slots
  BY RingAssumption DEF Slots
<1>2. out \in Seq(Nat)
  BY DEF RingInit
<1> QED BY <1>1, <1>2 DEF RingInit, RingTypeOK

LEMMA NextType == RingTypeOK /\ [RingNext]_ringVars => RingTypeOK'
<1> SUFFICES ASSUME RingTypeOK, [RingNext]_ringVars PROVE RingTypeOK'
  OBVIOUS
<1>1. CASE ipc_ring_push
  <2>1. head' \in Slots /\ tail' \in Slots
    BY <1>1, SuccIs DEF ipc_ring_push, RingTypeOK
  <2>2. sent' \in Nat /\ ring' \in [Slots -> Nat]
    BY <1>1 DEF ipc_ring_push, RingTypeOK
  <2> QED BY <1>1, <2>1, <2>2 DEF ipc_ring_push, RingTypeOK
<1>2. CASE gui_ipc_tick
  <2>1. Queued \in Seq(Nat)
    BY BetweenFacts DEF Queued, RingTypeOK
  <2> QED BY <1>2, <2>1 DEF gui_ipc_tick, RingTypeOK
<1>3. CASE gui_ipc_init
  <2>1. 0 \in Slots
    BY RingAssumption DEF Slots
  <2> QED BY <1>3, <2>1 DEF gui_ipc_init, RingTypeOK
<1>4. CASE UNCHANGED ringVars
  BY <1>4 DEF ringVars, RingTypeOK
<1> QED BY <1>1, <1>2, <1>3, <1>4 DEF RingNext, gui_ipc_send

(* The indices and slots keep their types, for a ring of any size. *)
THEOREM TypeCorrect == RingSpec => []RingTypeOK
  BY InitType, NextType, PTL DEF RingSpec

-----------------------------------------------------------------------------

(* Sequences by their elements. *)
LEMMA AppendIs ==
    ASSUME NEW Q \in Seq(Nat), NEW T \in Seq(Nat), NEW n \in Nat,
           Len(T) = Len(Q) + 1, T[Len(Q) + 1] = n,
           \A i \in 1 .. Len(Q) : T[i] = Q[i]
    PROVE  T = Append(Q, n)
<1>1. /\ Append(Q, n) \in Seq(Nat) /\ Len(Append(Q, n)) = Len(Q) + 1
      /\ Append(Q, n)[Len(Q) + 1] = n
      /\ \A i \in 1 .. Len(Q) : Append(Q, n)[i] = Q[i]
  OBVIOUS
<1>2. \A i \in 1 .. Len(Q) + 1 : i \in 1 .. Len(Q) \/ i = Len(Q) + 1
  OBVIOUS
<1>3. \A i \in 1 .. Len(Q) + 1 : T[i] = Append(Q, n)[i]
  BY <1>1, <1>2
<1> QED BY <1>1, <1>3

LEMMA TailIs ==
    ASSUME NEW Q \in Seq(Nat), Len(Q) >= 1
    PROVE  /\ Tail(Q) \in Seq(Nat) /\ Len(Tail(Q)) = Len(Q) - 1
           /\ \A i \in 1 .. Len(Q) - 1 : Tail(Q)[i] = Q[i + 1]
  OBVIOUS

(* How a push moves the indices, and how many messages are then between
   them.                                                                   *)
LEMMA PushCounts ==
    ASSUME NEW N \in Nat, N >= 2, NEW h \in 0 .. N - 1, NEW t \in 0 .. N - 1,
           NEW c \in Nat, NEW u \in Nat, NEW g \in Nat, NEW d \in Nat,
           c = (IF h <= t THEN t - h ELSE (t + N) - h),
           u = (IF t = N - 1 THEN 0 ELSE t + 1),
           g = (IF u = h THEN (IF h = N - 1 THEN 0 ELSE h + 1) ELSE h),
           d = (IF g <= u THEN u - g ELSE (u + N) - g)
    PROVE  /\ u = h <=> c = N - 1
           /\ c < N - 1 => g = h /\ d = c + 1
           /\ c = N - 1 => d = c
           /\ g \in 0 .. N - 1
  OBVIOUS

(* Where the i-th message from index h on is: in the ring, and not at the
   index t where the messages end.                                         *)
LEMMA Place ==
    ASSUME NEW N \in Nat, N >= 2, NEW h \in 0 .. N - 1, NEW t \in 0 .. N - 1,
           NEW i \in 1 .. (IF h <= t THEN t - h ELSE (t + N) - h)
    PROVE  /\ (IF h + i <= N THEN h + i - 1 ELSE h + i - 1 - N) \in 0 .. N - 1
           /\ (IF h + i <= N THEN h + i - 1 ELSE h + i - 1 - N) # t
  OBVIOUS

(* A push appends to the queue, after dropping its first message if the ring
   has no free slot but the one that is always kept free.                   *)
LEMMA PushRefines == ASSUME RingTypeOK, RingTypeOK', ipc_ring_push PROVE Fifo!Put
<1> DEFINE n == sent + 1
           c == Count(head, tail)
           d == Count(head', tail')
<1>1. /\ head \in Slots /\ tail \in Slots /\ sent \in Nat
      /\ head \in 0 .. RingSize - 1 /\ tail \in 0 .. RingSize - 1
      /\ RingSize \in Nat /\ RingSize >= 2
      /\ ring \in [Slots -> Nat] /\ ring' \in [Slots -> Nat]
      /\ head' \in Slots /\ tail' \in Slots
  BY RingAssumption DEF RingTypeOK, Slots
<1>2. /\ sent < MaxSent /\ sent' = n /\ out' = out
      /\ ring' = [ring EXCEPT ![tail] = n]
      /\ tail' = (IF tail = RingSize - 1 THEN 0 ELSE tail + 1)
      /\ head' = (IF Succ(tail) = head THEN Succ(head) ELSE head)
      /\ Succ(tail) = (IF tail = RingSize - 1 THEN 0 ELSE tail + 1)
      /\ Succ(head) = (IF head = RingSize - 1 THEN 0 ELSE head + 1)
  BY <1>1, SuccIs DEF ipc_ring_push
<1>0. /\ ring \in [Slots -> Nat] /\ head \in Slots /\ tail \in Slots
      /\ ring' \in [Slots -> Nat] /\ head' \in Slots /\ tail' \in Slots
  BY <1>1
<1>3. /\ c \in 0 .. RingSize - 1 /\ Queued \in Seq(Nat) /\ Len(Queued) = c
      /\ \A i \in 1 .. c : Queued[i] = ring[IF head + i <= RingSize THEN head + i - 1
                                            ELSE head + i - 1 - RingSize]
  <2>1. Queued = Between(ring, head, tail)
    BY DEF Queued
  <2> HIDE DEF c
  <2>2. c = Count(head, tail)
    BY DEF c
  <2> QED BY <1>0, <2>1, <2>2, BetweenFacts
<1>4. /\ d \in 0 .. RingSize - 1 /\ Queued' \in Seq(Nat) /\ Len(Queued') = d
      /\ \A i \in 1 .. d : Queued'[i] = ring'[IF head' + i <= RingSize THEN head' + i - 1
                                              ELSE head' + i - 1 - RingSize]
  <2>1. Queued' = Between(ring', head', tail')
    BY DEF Queued
  <2> HIDE DEF d
  <2>2. d = Count(head', tail')
    BY DEF d
  <2> QED BY <1>0, <2>1, <2>2, BetweenFacts
<1>5. c = (IF head <= tail THEN tail - head ELSE (tail + RingSize) - head)
      /\ d = (IF head' <= tail' THEN tail' - head' ELSE (tail' + RingSize) - head')
  BY DEF Count
<1> HIDE DEF c, d
<1>6. /\ Succ(tail) = head <=> c = RingSize - 1
      /\ c < RingSize - 1 => head' = head /\ d = c + 1
      /\ c = RingSize - 1 => d = c
  <2>1. /\ c \in Nat /\ d \in Nat /\ tail' \in Nat /\ head' \in Nat
        /\ tail' = Succ(tail)
        /\ head' = (IF tail' = head THEN (IF head = RingSize - 1 THEN 0 ELSE head + 1)
                    ELSE head)
    BY <1>1, <1>2, <1>3, <1>4 DEF Slots
  <2> QED BY <1>1, <1>2, <1>5, <2>1, PushCounts
<1>7. \A s \in Slots : s # tail => ring'[s] = ring[s]
  BY <1>1, <1>2
<1>8. ring'[tail] = n
  BY <1>1, <1>2
<1>9. CASE c < RingSize - 1
  <2>1. head' = head /\ d = c + 1
    BY <1>6, <1>9
  <2>2. Queued'[c + 1] = n
    <3>1. (IF head + (c + 1) <= RingSize THEN head + (c + 1) - 1
           ELSE head + (c + 1) - 1 - RingSize) = tail
      BY <1>1, <1>3, <1>5
    <3> QED BY <1>3, <1>4, <1>8, <2>1, <3>1
  <2>3. ASSUME NEW i \in 1 .. c PROVE Queued'[i] = Queued[i]
    <3> DEFINE s == IF head + i <= RingSize THEN head + i - 1 ELSE head + i - 1 - RingSize
    <3>1. s \in Slots /\ s # tail
      BY <1>1, <1>5, Place DEF Slots
    <3>2. Queued'[i] = ring'[s] /\ Queued[i] = ring[s]
      BY <1>3, <1>4, <2>1
    <3> QED BY <1>7, <3>1, <3>2
  <2>4. Queued' = Append(Queued, n)
    <3>1. n \in Nat /\ Len(Queued) = c /\ Len(Queued') = c + 1
      BY <1>1, <1>3, <1>4, <2>1
    <3> QED BY <1>3, <1>4, <2>2, <2>3, <3>1, AppendIs
  <2> QED BY <1>2, <1>3, <1>9, <2>4 DEF Fifo!Put, Fifo!Room, c
<1>10. CASE ~ (c < RingSize - 1)
  <2>1. c = RingSize - 1 /\ head' = Succ(head) /\ d = c
    <3>1. c = RingSize - 1
      BY <1>1, <1>3, <1>10
    <3> QED BY <1>2, <1>6, <3>1
  <2>2. Queued'[c] = n
    <3>1. (IF head' + c <= RingSize THEN head' + c - 1
           ELSE head' + c - 1 - RingSize) = tail
      <4>1. tail = IF head = 0 THEN RingSize - 1 ELSE head - 1
        BY <1>1, <1>5, <2>1
      <4>2. head' = IF head = RingSize - 1 THEN 0 ELSE head + 1
        BY <1>2, <2>1
      <4> QED BY <1>1, <2>1, <4>1, <4>2
    <3>2. c \in 1 .. d
      BY <1>1, <2>1
    <3> QED BY <1>4, <1>8, <3>1, <3>2
  <2>3. ASSUME NEW i \in 1 .. c - 1 PROVE Queued'[i] = Queued[i + 1]
    <3> DEFINE s == IF head' + i <= RingSize THEN head' + i - 1
                    ELSE head' + i - 1 - RingSize
    <3>2. i \in 1 .. d /\ i + 1 \in 1 .. c
      BY <1>1, <1>3, <2>1
    <3>1. s \in Slots /\ s # tail
      <4>1. tail = IF head = 0 THEN RingSize - 1 ELSE head - 1
        BY <1>1, <1>5, <2>1
      <4>2. head' = IF head = RingSize - 1 THEN 0 ELSE head + 1
        BY <1>2, <2>1
      <4>3. s \in 0 .. RingSize - 1
        BY <1>1, <2>1, <3>2, <4>2
      <4>4. s # tail
        BY <1>1, <2>1, <3>2, <4>1, <4>2
      <4> QED BY <4>3, <4>4 DEF Slots
    <3>3. s = IF head + (i + 1) <= RingSize THEN head + (i + 1) - 1
              ELSE head + (i + 1) - 1 - RingSize
      BY <1>1, <1>2, <1>3, <2>1
    <3>4. Queued'[i] = ring'[s] /\ Queued[i + 1] = ring[s]
      BY <1>3, <1>4, <3>2, <3>3
    <3> QED BY <1>7, <3>1, <3>4
  <2>4. /\ Tail(Queued) \in Seq(Nat) /\ Len(Tail(Queued)) = c - 1
        /\ \A i \in 1 .. c - 1 : Tail(Queued)[i] = Queued[i + 1]
    <3>1. Len(Queued) = c /\ c >= 1
      BY <1>1, <1>3, <2>1
    <3> QED BY <1>3, <3>1, TailIs
  <2>5. Queued' = Append(Tail(Queued), n)
    <3> DEFINE T == Tail(Queued)
    <3>1. T \in Seq(Nat) /\ Len(T) = c - 1 /\ \A i \in 1 .. c - 1 : T[i] = Queued'[i]
      BY <2>3, <2>4
    <3>2. n \in Nat /\ (c - 1) + 1 = c /\ Len(Queued') = c
      BY <1>1, <1>4, <2>1
    <3> HIDE DEF T
    <3>3. Queued' = Append(T, n)
      BY <1>4, <2>2, <3>1, <3>2, AppendIs
    <3> QED BY <3>3 DEF T
  <2> QED BY <1>2, <1>3, <1>10, <2>5 DEF Fifo!Put, Fifo!Room, c
<1> QED BY <1>9, <1>10

(* The ring of gui_ipc.c is a queue of RingSize - 1 messages that drops the
   oldest, for a ring of any size: ipc_ring_push is a put, gui_ipc_tick a
   drain, gui_ipc_init a clear.                                             *)
THEOREM RingIsFifo == RingSpec => ImplementsFifo
<1>1. RingInit => Fifo!QueueInit
  <2> SUFFICES ASSUME RingInit PROVE Fifo!QueueInit
    OBVIOUS
  <2>1. 0 \in Slots /\ ring \in [Slots -> Nat] /\ Count(0, 0) = 0
    BY RingAssumption DEF RingInit, Slots, Count
  <2>2. Queued \in Seq(Nat) /\ Len(Queued) = 0
    BY <2>1, BetweenFacts DEF Queued, RingInit
  <2> QED BY <2>2 DEF RingInit, Fifo!QueueInit
<1>2. RingTypeOK /\ RingTypeOK' /\ [RingNext]_ringVars => [Fifo!QueueNext]_(Fifo!queueVars)
  <2> SUFFICES ASSUME RingTypeOK, RingTypeOK', [RingNext]_ringVars PROVE [Fifo!QueueNext]_(Fifo!queueVars)
    OBVIOUS
  <2>1. CASE ipc_ring_push
    BY <2>1, PushRefines DEF Fifo!QueueNext
  <2>2. CASE gui_ipc_tick
    <3>1. head' = tail' /\ tail' \in Slots /\ ring' \in [Slots -> Nat] /\ Count(tail', tail') = 0
      BY <2>2, RingAssumption DEF gui_ipc_tick, RingTypeOK, Slots, Count
    <3>2. Queued' \in Seq(Nat) /\ Len(Queued') = 0
      BY <3>1, BetweenFacts DEF Queued
    <3> QED BY <2>2, <3>2 DEF gui_ipc_tick, Fifo!QueueNext, Fifo!Drain
  <2>3. CASE gui_ipc_init
    <3>1. head' = 0 /\ tail' = 0 /\ 0 \in Slots /\ ring' \in [Slots -> Nat] /\ Count(0, 0) = 0
      BY <2>3, RingAssumption DEF gui_ipc_init, RingTypeOK, Slots, Count
    <3>2. Queued' \in Seq(Nat) /\ Len(Queued') = 0
      BY <3>1, BetweenFacts DEF Queued
    <3> QED BY <2>3, <3>2 DEF gui_ipc_init, Fifo!QueueNext, Fifo!Clear
  <2>4. CASE UNCHANGED ringVars
    BY <2>4 DEF ringVars, Fifo!queueVars, Queued
  <2> QED BY <2>1, <2>2, <2>3, <2>4 DEF RingNext, gui_ipc_send
<1> QED BY <1>1, <1>2, TypeCorrect, PTL DEF RingSpec, ImplementsFifo, Fifo!QueueSpec


-----------------------------------------------------------------------------
(* The event log. *)

(* The slot of the i-th entry from the one at h, counted with wrap-around. *)
SlotOf(h, i) == IF h + i <= LogSize THEN h + i - 1 ELSE h + i - 1 - LogSize

(* An entry is where the oldest one's place and its own rank put it. *)
EntriesInOrder(e, h, c, n) == \A i \in 1 .. c : e[SlotOf(h, i)] = (n - c - 1) + i

LogInv == /\ entries \in [LogSlots -> Nat]
          /\ log_head \in LogSlots
          /\ log_count \in 0 .. LogSize
          /\ next_id \in Nat
          /\ EntriesInOrder(entries, log_head, log_count, next_id)

LEMMA LogWrap ==
    ASSUME NEW x \in Nat, x < 2 * LogSize
    PROVE  x % LogSize = IF x < LogSize THEN x ELSE x - LogSize
  BY LogAssumption, SMTT(30)

(* The slots of the entries are slots of the ring, and differ. *)
LEMMA SlotFacts ==
    ASSUME NEW h \in LogSlots
    PROVE  /\ \A i \in 1 .. LogSize : SlotOf(h, i) \in LogSlots /\ ((h + i) - 1) % LogSize = SlotOf(h, i)
           /\ \A i, j \in 1 .. LogSize : SlotOf(h, i) = SlotOf(h, j) => i = j
           /\ \A c \in 0 .. LogSize : (h + c) % LogSize = IF c < LogSize THEN SlotOf(h, c + 1) ELSE h
           /\ Advance(h) \in LogSlots
           /\ SlotOf(Advance(h), LogSize) = h
           /\ \A i \in 1 .. LogSize - 1 : SlotOf(Advance(h), i) = SlotOf(h, i + 1)
  <1>0. LogSize \in Nat /\ LogSize > 0 /\ h \in Nat /\ h < LogSize
    BY LogAssumption DEF LogSlots
  <1>1. ASSUME NEW i \in 1 .. LogSize
        PROVE  SlotOf(h, i) \in LogSlots /\ ((h + i) - 1) % LogSize = SlotOf(h, i)
    <2> DEFINE x == (h + i) - 1
    <2>1. x \in Nat /\ x < 2 * LogSize
      BY <1>0
    <2>2. SlotOf(h, i) = IF x < LogSize THEN x ELSE x - LogSize
      BY <1>0 DEF SlotOf
    <2> HIDE DEF x
    <2>3. x % LogSize = SlotOf(h, i)
      BY <2>1, <2>2, LogWrap
    <2>4. SlotOf(h, i) \in LogSlots
      BY <1>0, <2>1, <2>2 DEF LogSlots
    <2> QED BY <2>3, <2>4 DEF x
  <1>2. \A i, j \in 1 .. LogSize : SlotOf(h, i) = SlotOf(h, j) => i = j
    BY <1>0 DEF SlotOf
  <1>3. ASSUME NEW c \in 0 .. LogSize
        PROVE  (h + c) % LogSize = IF c < LogSize THEN SlotOf(h, c + 1) ELSE h
    <2> DEFINE x == h + c
    <2>1. x \in Nat /\ x < 2 * LogSize
      BY <1>0
    <2>2. (IF c < LogSize THEN SlotOf(h, c + 1) ELSE h) = IF x < LogSize THEN x ELSE x - LogSize
      BY <1>0 DEF SlotOf
    <2> HIDE DEF x
    <2> DEFINE y == IF c < LogSize THEN SlotOf(h, c + 1) ELSE h
    <2> HIDE DEF y
    <2>3. y = (IF x < LogSize THEN x ELSE x - LogSize)
      BY <2>2 DEF y
    <2>4. x % LogSize = y
      BY <2>1, <2>3, LogWrap
    <2> QED BY <2>4 DEF x, y
  <1>4. Advance(h) = IF h + 1 < LogSize THEN h + 1 ELSE 0
    <2> DEFINE x == h + 1
               y == IF h + 1 < LogSize THEN h + 1 ELSE 0
    <2>1. x \in Nat /\ x < 2 * LogSize
      BY <1>0
    <2>2. y = (IF x < LogSize THEN x ELSE x - LogSize)
      BY <1>0
    <2> HIDE DEF x, y
    <2>3. x % LogSize = y
      BY <2>1, <2>2, LogWrap
    <2> QED BY <2>3 DEF Advance, x, y
  <1>5. /\ Advance(h) \in LogSlots
        /\ SlotOf(Advance(h), LogSize) = h
        /\ \A i \in 1 .. LogSize - 1 : SlotOf(Advance(h), i) = SlotOf(h, i + 1)
    BY <1>0, <1>4 DEF SlotOf, LogSlots
  <1> QED BY <1>1, <1>2, <1>3, <1>5

(* An entry written behind the others, over the oldest of a full log. *)
LEMMA WriteInv ==
    ASSUME LogInv, panelmgr_log PROVE LogInv'
  <1> DEFINE s == (log_head + log_count) % LogSize
  <1>0. /\ LogSize \in Nat /\ LogSize > 0 /\ log_count \in Nat /\ log_count <= LogSize
        /\ next_id \in Nat /\ log_head \in LogSlots
    BY LogAssumption DEF LogInv
  <1>1. /\ s \in LogSlots
        /\ \A i \in 1 .. LogSize : SlotOf(log_head, i) \in LogSlots
    <2>1. CASE log_count < LogSize
      BY <1>0, <2>1, SlotFacts
    <2>2. CASE log_count = LogSize
      BY <1>0, <2>2, SlotFacts
    <2> QED BY <1>0, <2>1, <2>2, SlotFacts
  <1> HIDE DEF s
  <1>2. entries' = [entries EXCEPT ![s] = next_id] /\ next_id' = next_id + 1
    BY DEF panelmgr_log, s
  <1>3. /\ entries' \in [LogSlots -> Nat]
        /\ entries'[s] = next_id
        /\ \A t \in LogSlots : t # s => entries'[t] = entries[t]
    BY <1>0, <1>1, <1>2 DEF LogInv
  <1>4. CASE log_count < LogSize
    <2>1. log_head' = log_head /\ log_count' = log_count + 1
      BY <1>4 DEF panelmgr_log
    <2>2. s = SlotOf(log_head, log_count + 1)
      <3>1. log_count \in 0 .. LogSize
        BY <1>0
      <3>2. s = IF log_count < LogSize THEN SlotOf(log_head, log_count + 1) ELSE log_head
        BY <1>0, <3>1, SlotFacts DEF s
      <3> QED BY <1>4, <3>2
    <2>3. ASSUME NEW i \in 1 .. log_count + 1
          PROVE  entries'[SlotOf(log_head, i)] = (next_id' - log_count' - 1) + i
      <3>1. CASE i = log_count + 1
        BY <1>0, <1>2, <1>3, <2>1, <2>2, <3>1
      <3>2. CASE i # log_count + 1
        <4>1. i \in 1 .. log_count /\ i \in 1 .. LogSize /\ log_count + 1 \in 1 .. LogSize
          BY <1>0, <1>4, <3>2
        <4>2. SlotOf(log_head, i) # s
          BY <1>0, <2>2, <3>2, <4>1, SlotFacts
        <4>3. entries'[SlotOf(log_head, i)] = (next_id - log_count - 1) + i
          BY <1>1, <1>3, <4>1, <4>2 DEF LogInv, EntriesInOrder
        <4> QED BY <1>0, <1>2, <2>1, <4>3
      <3> QED BY <3>1, <3>2
    <2> QED BY <1>0, <1>2, <1>3, <1>4, <2>1, <2>3 DEF LogInv, EntriesInOrder
  <1>5. CASE log_count = LogSize
    <2>1. log_head' = Advance(log_head) /\ log_count' = log_count
      BY <1>0, <1>5 DEF panelmgr_log
    <2>2. s = log_head
      BY <1>0, <1>5, SlotFacts DEF s
    <2>3. SlotOf(log_head, 1) = log_head
      BY <1>0 DEF SlotOf, LogSlots
    <2>4. ASSUME NEW i \in 1 .. LogSize
          PROVE  entries'[SlotOf(log_head', i)] = (next_id' - log_count' - 1) + i
      <3>1. CASE i = LogSize
        BY <1>0, <1>2, <1>3, <1>5, <2>1, <2>2, <3>1, SlotFacts
      <3>2. CASE i # LogSize
        <4>1. i \in 1 .. LogSize - 1 /\ i + 1 \in 1 .. LogSize /\ i + 1 # 1 /\ 1 \in 1 .. LogSize
          BY <1>0, <3>2
        <4>2. SlotOf(log_head', i) = SlotOf(log_head, i + 1)
          BY <1>0, <2>1, <4>1, SlotFacts
        <4>3. SlotOf(log_head, i + 1) # s
          BY <1>0, <2>2, <2>3, <4>1, SlotFacts
        <4>4. entries'[SlotOf(log_head', i)] = (next_id - log_count - 1) + (i + 1)
          BY <1>1, <1>3, <1>5, <4>1, <4>2, <4>3 DEF LogInv, EntriesInOrder
        <4> QED BY <1>0, <1>2, <2>1, <4>4
      <3> QED BY <3>1, <3>2
    <2>5. log_head' \in LogSlots
      BY <1>0, <2>1, SlotFacts
    <2> QED BY <1>0, <1>2, <1>3, <1>5, <2>1, <2>4, <2>5 DEF LogInv, EntriesInOrder
  <1> QED BY <1>0, <1>4, <1>5

LEMMA LogInvHolds == LogSpec => []LogInv
  <1>1. LogInit => LogInv
    BY LogAssumption DEF LogInit, LogInv, LogSlots, EntriesInOrder
  <1>2. LogInv /\ [LogNext]_<<ringVars, logVars>> => LogInv'
    <2> SUFFICES ASSUME LogInv, [LogNext]_<<ringVars, logVars>> PROVE LogInv'
      OBVIOUS
    <2>1. CASE panelmgr_log
      BY <2>1, WriteInv
    <2>2. CASE panelmgr_init
      <3>1. /\ log_head' = 0 /\ log_count' = 1 /\ next_id' = next_id + 1
            /\ entries' = [entries EXCEPT ![0] = next_id]
        BY <2>2 DEF panelmgr_init
      <3>2. 0 \in LogSlots /\ LogSize \in Nat /\ LogSize > 0 /\ SlotOf(0, 1) = 0
        BY LogAssumption DEF LogSlots, SlotOf
      <3>3. entries' \in [LogSlots -> Nat] /\ entries'[0] = next_id
        BY <3>1, <3>2 DEF LogInv
      <3> QED BY <3>1, <3>2, <3>3 DEF LogInv, EntriesInOrder
    <2>3. CASE UNCHANGED logVars
      BY <2>3 DEF LogInv, logVars
    <2> QED BY <2>1, <2>2, <2>3 DEF LogNext, Others
  <1> QED BY <1>1, <1>2, PTL DEF LogSpec

(* The event log of panelmgr.c holds, of any number of entries written and any
   size of the ring, the newest, and panelmgr_get_log returns them from the
   oldest to the newest.                                                    *)
THEOREM LogKeepsNewest == LogSpec => []LogHoldsNewest
  <1>1. LogInv => LogHoldsNewest
    <2> SUFFICES ASSUME LogInv, NEW i \in 1 .. log_count
                 PROVE  panelmgr_get_log(LogSize)[i] = (next_id - log_count - 1) + i
      BY DEF LogHoldsNewest
    <2>1. i \in 1 .. LogSize /\ i \in 1 .. (IF log_count < LogSize THEN log_count ELSE LogSize)
      BY LogAssumption DEF LogInv
    <2>2. panelmgr_get_log(LogSize)[i] = entries[((log_head + i) - 1) % LogSize]
      BY <2>1 DEF panelmgr_get_log
    <2> QED BY <2>1, <2>2, SlotFacts DEF LogInv, EntriesInOrder
  <1> QED BY <1>1, LogInvHolds, PTL

-----------------------------------------------------------------------------

(* What the bridge of the render engine and its page hold. *)
RenderType ==
    /\ rSocket \in Socket \cup {None} /\ rPing \in Socket \cup {None}
    /\ rConnected \in BOOLEAN /\ pings \subseteq Socket
    /\ rSock \in [Socket -> {"unused", "connecting", "open", "closing"}]
    /\ wire \in Seq(BOOLEAN) /\ rTimer \in Nat

(* Between two turns the bridge holds the one socket in use. *)
HoldsIt ==
    /\ \A s \in Socket : rSock[s] # "closing" /\ (rSock[s] # "unused" <=> s = rSocket)
    /\ rConnected <=> (\E s \in Socket : rSock[s] = "open")
    /\ pings = {s \in Socket : rSock[s] = "open"}
    /\ \A s \in pings : s = rPing

(* Between the two handlers of a turn it holds none, and one is to be closed. *)
GaveItUp ==
    /\ \E c \in Socket : rSock[c] = "closing" /\ \A s \in Socket \ {c} : rSock[s] = "unused"
    /\ rSocket = None /\ rPing = None /\ pings = {} /\ ~ rConnected

(* The page was told, or will be by the last message on its way. *)
Told ==
    /\ wire # << >> => wire[Len(wire)] = rConnected
    /\ page = "live" /\ ~ asked /\ wire = << >> => shown = rConnected

RenderInv ==
    /\ RenderType /\ Told
    /\ HoldsIt \/ GaveItUp
    /\ ~ window => HoldsIt /\ rSocket = None /\ rTimer = 0

(* A message is put behind the others. *)
LEMMA WireGrows ==
    ASSUME RenderInv, NEW b \in BOOLEAN, wire' = Append(wire, b), rConnected' = b
    PROVE  wire' \in Seq(BOOLEAN) /\ Told'
<1>1. wire \in Seq(BOOLEAN) BY DEF RenderInv, RenderType
<1>2. wire' \in Seq(BOOLEAN) /\ wire' # << >> /\ wire'[Len(wire')] = b
  BY <1>1
<1> QED BY <1>2 DEF Told

(* What holds as the window is not made yet. *)
LEMMA RenderStarts == R!Init => RenderInv
<1> SUFFICES ASSUME R!Init PROVE RenderInv OBVIOUS
<1>1. rSock = [s \in Socket |-> "unused"] /\ rSocket = None /\ rConnected = FALSE /\ pings = {}
      /\ rPing = None /\ rTimer = 0 /\ wire = << >> /\ page = "loading"
  BY DEF R!Init
<1>2. HoldsIt BY <1>1, BridgesAssumption DEF HoldsIt
<1>3. Told BY <1>1 DEF Told
<1>a. << >> \in Seq(BOOLEAN) OBVIOUS
<1>4. << >> \in Seq(BOOLEAN) /\ rConnected \in BOOLEAN BY <1>1, <1>a, Zenon
<1>5. rSock \in [Socket -> {"unused", "connecting", "open", "closing"}] BY <1>1
<1>6. RenderType BY <1>1, <1>4, <1>5 DEF RenderType
<1> QED BY <1>1, <1>2, <1>3, <1>6 DEF RenderInv

(* connect() makes a socket only if the bridge holds none. *)
LEMMA ConnectKeeps ==
    ASSUME RenderInv, HoldsIt, R!connect, UNCHANGED <<rConnected, rPing, pings, wire, page, asked, shown>>,
           rTimer' \in Nat, window'
    PROVE  RenderInv'
<1>1. CASE UNCHANGED <<rSocket, rSock>>
  BY <1>1 DEF RenderInv, RenderType, HoldsIt, Told
<1>2. CASE rSocket = None
  <2>1. PICK s \in Socket : /\ rSock[s] = "unused" /\ rSocket' = s
                            /\ rSock' = [rSock EXCEPT ![s] = "connecting"]
    BY <1>2 DEF R!connect
  <2>2. rSock \in [Socket -> {"unused", "connecting", "open", "closing"}] BY DEF RenderInv, RenderType
  <2>3. \A t \in Socket : rSock[t] = "unused" BY <1>2, BridgesAssumption DEF HoldsIt
  <2>4. \A t \in Socket : rSock'[t] = IF t = s THEN "connecting" ELSE "unused" BY <2>1, <2>2, <2>3
  <2>5. pings = {} /\ ~ rConnected BY <2>3 DEF HoldsIt
  <2>6. HoldsIt' BY <2>1, <2>4, <2>5 DEF HoldsIt
  <2>7. RenderType' BY <2>1, <2>2 DEF RenderInv, RenderType
  <2>8. Told' BY DEF RenderInv, Told
  <2> QED BY <2>6, <2>7, <2>8 DEF RenderInv
<1> QED BY <1>1, <1>2 DEF R!connect

(* The connection is made. *)
LEMMA OpenKeeps ==
    ASSUME RenderInv, NEW s \in Socket, R!on_connect(s) PROVE RenderInv'
<1>1. /\ rSock[s] = "connecting" /\ rSock' = [rSock EXCEPT ![s] = "open"] /\ rConnected' = TRUE
      /\ wire' = Append(wire, TRUE) /\ rPing' = s /\ pings' = pings \cup {s}
      /\ window' = window /\ rSocket' = rSocket /\ rTimer' = rTimer
  BY DEF R!on_connect, R!_sendToRenderer
<1>2. rSock \in [Socket -> {"unused", "connecting", "open", "closing"}] BY DEF RenderInv, RenderType
<1>3. HoldsIt BY <1>1 DEF RenderInv, GaveItUp
<1>4. s = rSocket /\ \A t \in Socket \ {s} : rSock[t] = "unused" BY <1>1, <1>3 DEF HoldsIt
<1>5. pings = {} BY <1>1, <1>4, <1>3 DEF HoldsIt
<1>6. \A t \in Socket : rSock'[t] = IF t = s THEN "open" ELSE "unused" BY <1>1, <1>2, <1>4
<1>7. HoldsIt' BY <1>1, <1>4, <1>5, <1>6 DEF HoldsIt
<1>8. wire' \in Seq(BOOLEAN) /\ Told' BY <1>1, WireGrows
<1>9. RenderType' BY <1>1, <1>2, <1>8 DEF RenderInv, RenderType
<1>10. ~ window => FALSE BY <1>4, BridgesAssumption DEF RenderInv
<1> QED BY <1>1, <1>7, <1>8, <1>9, <1>10 DEF RenderInv

(* The connection is lost: what s becomes is the handler's matter. *)
LEMMA DropKeeps ==
    ASSUME RenderInv, NEW s \in Socket, NEW after \in {"unused", "closing"}, rSock[s] # "unused",
           R!_onDisconnect(s, after), window' = window
    PROVE  RenderInv'
<1>1. /\ rSock' = [t \in Socket |-> IF t = s THEN after ELSE IF t = rSocket THEN "closing" ELSE rSock[t]]
      /\ rConnected' = FALSE /\ wire' = Append(wire, FALSE) /\ rPing' = None
      /\ pings' = pings \ {rPing} /\ rSocket' = None /\ rTimer' = rTimer + 1
  BY DEF R!_onDisconnect, R!_cleanup, R!_sendToRenderer
<1>2. \A t \in Socket \ {s} : rSock[t] = "unused" /\ t # rSocket
  BY BridgesAssumption DEF RenderInv, HoldsIt, GaveItUp
<1>3. pings' = {} BY <1>1 DEF RenderInv, HoldsIt, GaveItUp
<1>4. \A t \in Socket : rSock'[t] = IF t = s THEN after ELSE "unused" BY <1>1, <1>2
<1>5. HoldsIt' \/ GaveItUp'
  <2>1. CASE after = "unused" 
    BY <1>1, <1>3, <1>4, <2>1, BridgesAssumption DEF HoldsIt
  <2>2. CASE after = "closing" 
    BY <1>1, <1>3, <1>4, <2>2 DEF GaveItUp
  <2> QED BY <2>1, <2>2
<1>6. wire' \in Seq(BOOLEAN) /\ Told' BY <1>1, WireGrows
<1>7. RenderType'
  <2>1. rTimer \in Nat /\ rSock \in [Socket -> {"unused", "connecting", "open", "closing"}]
    BY DEF RenderInv, RenderType
  <2>2. rSock' \in [Socket -> {"unused", "connecting", "open", "closing"}] BY <1>1, <2>1
  <2>3. rTimer' \in Nat /\ rSocket' = None /\ rPing' = None
    BY <1>1, <2>1
  <2>4. rConnected' \in BOOLEAN
    BY <1>1, Zenon
  <2> QED BY <1>3, <1>6, <2>2, <2>3, <2>4 DEF RenderType
<1>8. window BY BridgesAssumption DEF RenderInv, HoldsIt
<1> QED BY <1>5, <1>6, <1>7, <1>8 DEF RenderInv

(* Every step of the bridge, the server and the page keeps it. *)
LEMMA RenderSteps == ASSUME RenderInv, [R!Next]_(R!vars) PROVE RenderInv'
<1>1. CASE UNCHANGED R!vars
  BY <1>1 DEF R!vars, R!bridge, R!view, RenderInv, RenderType, HoldsIt, GaveItUp, Told
<1>2. CASE R!createRenderEngineWindow
  <2>1. HoldsIt /\ rTimer \in Nat BY <1>2 DEF R!createRenderEngineWindow, RenderInv, RenderType
  <2>2. R!connect /\ UNCHANGED <<rConnected, rPing, pings, wire, page, asked, shown>>
        /\ rTimer' = rTimer /\ window'
    BY <1>2 DEF R!createRenderEngineWindow, R!view
  <2> QED BY <2>1, <2>2, ConnectKeeps
<1>3. ASSUME NEW s \in Socket, R!on_connect(s) PROVE RenderInv'
  BY <1>3, OpenKeeps
<1>4. ASSUME NEW s \in Socket, R!on_error(s) PROVE RenderInv'
  <2>1. rSock[s] # "unused" /\ R!_onDisconnect(s, "closing") /\ window' = window
    BY <1>4 DEF R!on_error
  <2> QED BY <2>1, DropKeeps
<1>5. ASSUME NEW s \in Socket, R!on_close(s) PROVE RenderInv'
  <2>1. rSock[s] # "unused" /\ R!_onDisconnect(s, "unused") /\ window' = window
    BY <1>5 DEF R!on_close
  <2> QED BY <2>1, DropKeeps
<1>6. CASE R!reconnect
  <2>1. R!connect /\ UNCHANGED <<rConnected, rPing, pings, wire, page, asked, shown>>
        /\ rTimer' = 0 /\ rTimer > 0 /\ window' = window /\ R!TurnOver
    BY <1>6 DEF R!reconnect, R!view
  <2>2. HoldsIt BY <2>1 DEF RenderInv, GaveItUp, R!TurnOver
  <2>3. window BY <2>1 DEF RenderInv
  <2> QED BY <2>1, <2>2, <2>3, ConnectKeeps
<1>7. CASE R!Serve
  BY <1>7 DEF R!Serve, R!bridge, R!view, RenderInv, RenderType, HoldsIt, GaveItUp, Told
<1>8. CASE R!Reload
  BY <1>8 DEF R!Reload, R!bridge, R!view, RenderInv, RenderType, HoldsIt, GaveItUp, Told
<1>9. CASE R!Mount
  BY <1>9 DEF R!Mount, R!bridge, R!view, RenderInv, RenderType, HoldsIt, GaveItUp, Told
<1>10. CASE R!pipe_status
  <2>1. wire' = Append(wire, rConnected) /\ rConnected' = rConnected /\ UNCHANGED R!bridge
    BY <1>10 DEF R!pipe_status, R!_sendToRenderer, R!bridge
  <2>2. rConnected \in BOOLEAN BY DEF RenderInv, RenderType
  <2>3. wire' \in Seq(BOOLEAN) /\ Told' BY <2>1, <2>2, WireGrows
  <2> QED BY <2>1, <2>3 DEF R!bridge, RenderInv, RenderType, HoldsIt, GaveItUp
<1>11. CASE R!Deliver
  <2>1. /\ wire # << >> /\ wire' = Tail(wire) /\ UNCHANGED R!bridge /\ page' = page /\ asked' = asked
        /\ shown' = IF page = "live" THEN Head(wire) ELSE shown
    BY <1>11 DEF R!Deliver
  <2>2. wire \in Seq(BOOLEAN) /\ wire[Len(wire)] = rConnected BY <2>1 DEF RenderInv, RenderType, Told
  <2>3. wire' \in Seq(BOOLEAN) /\ Len(wire') = Len(wire) - 1 /\ Len(wire) \in Nat /\ Len(wire) > 0
        /\ (\A i \in 1 .. Len(wire') : wire'[i] = wire[i + 1])
    BY <2>1, <2>2
  <2>4. wire' # << >> => wire'[Len(wire')] = wire[Len(wire)]
    <3>1. wire' # << >> => Len(wire') \in 1 .. Len(wire') BY <2>3
    <3> QED BY <2>3, <3>1
  <2>5. wire' = << >> => Len(wire) = 1 /\ Head(wire) = wire[Len(wire)]
    <3>1. wire' = << >> => Len(wire') = 0 OBVIOUS
    <3>2. wire' = << >> => Len(wire) = 1 BY <2>3, <3>1
    <3>3. Head(wire) = wire[1] BY <2>1, <2>2
    <3> QED BY <3>2, <3>3
  <2>6. rConnected' = rConnected BY <2>1 DEF R!bridge
  <2>7. Told' BY <2>1, <2>2, <2>4, <2>5, <2>6 DEF Told
  <2> QED BY <2>1, <2>3, <2>7 DEF R!bridge, RenderInv, RenderType, HoldsIt, GaveItUp
<1> QED BY <1>1, <1>2, <1>3, <1>4, <1>5, <1>6, <1>7, <1>8, <1>9, <1>10, <1>11
        DEF R!Next, R!Bridge, R!Connected, R!Failed, R!Closed

(* Between turns the render engine has one socket, and its page knows. *)
LEMMA RenderStays == R!Spec => [](R!OneConnection /\ R!PageKnows)
<1>1. ASSUME RenderInv PROVE R!OneConnection /\ R!PageKnows
  <2>1. CASE R!TurnOver
    <3>1. HoldsIt /\ RenderType /\ Told BY <1>1, <2>1 DEF RenderInv, GaveItUp, R!TurnOver
    <3>2. {s \in Socket : rSock[s] # "unused"} = {rSocket} \ {None}
      BY <3>1, BridgesAssumption DEF HoldsIt, RenderType
    <3>3. rConnected = (\E s \in Socket : rSock[s] = "open")
      BY <3>1 DEF HoldsIt, RenderType
    <3>4. R!OneConnection BY <3>1, <3>2, <3>3 DEF R!OneConnection, HoldsIt
    <3>5. R!PageKnows BY <3>1 DEF Told, R!PageKnows
    <3> QED BY <3>4, <3>5
  <2>2. CASE ~ R!TurnOver
    BY <2>2 DEF R!OneConnection, R!PageKnows
  <2> QED BY <2>1, <2>2
<1>2. ASSUME RenderInv, [R!Next]_(R!vars) PROVE RenderInv' BY <1>2, RenderSteps
<1> QED BY <1>1, <1>2, RenderStarts, PTL DEF R!Spec

-----------------------------------------------------------------------------

(* No socket is in use. *)
AllUnused == \A s \in Socket : shellSock[s] = "unused"

(* The socket the bridge holds is the one in use. *)
Holds == /\ client \in Socket /\ shellSock[client] \in {"connecting", "open"}
         /\ \A s \in Socket \ {client} : shellSock[s] = "unused"
         /\ timers = 0 /\ ~ shellTimer
         /\ shellConnected <=> shellSock[client] = "open"
         /\ beats = {s \in Socket : shellSock[s] = "open"}
         /\ \A s \in beats : s = heartbeat

(* It waits for its timer. *)
Waits == AllUnused /\ timers = 1 /\ shellTimer /\ beats = {} /\ ~ shellConnected

(* The socket that failed is to be closed; the timer is set already. *)
Fails == /\ \E c \in Socket : shellSock[c] = "closing" /\ \A s \in Socket \ {c} : shellSock[s] = "unused"
         /\ timers = 1 /\ shellTimer /\ ~ shellConnected
         /\ \A s \in beats : s = heartbeat

ShellInv ==
    /\ shellSock \in [Socket -> {"unused", "connecting", "open", "closing"}]
    /\ shellConnected \in BOOLEAN /\ beats \subseteq Socket
    /\ shellWindow => Holds \/ Waits \/ Fails
    /\ ~ shellWindow => AllUnused /\ timers = 0 /\ ~ shellTimer /\ beats = {} /\ ~ shellConnected

(* What holds before the shell has its window. *)
LEMMA ShellStarts == S!Init => ShellInv
  BY DEF S!Init, ShellInv, AllUnused

(* A socket is tried while none is in use. *)
LEMMA TryKeeps ==
    ASSUME ShellInv, AllUnused, beats = {}, ~ shellConnected, S!_tryConnect,
           UNCHANGED <<shellConnected, beats>>, timers' = 0, ~ shellTimer', shellWindow'
    PROVE  ShellInv'
<1>1. PICK s \in Socket : client' = s /\ shellSock' = [shellSock EXCEPT ![s] = "connecting"]
  BY DEF S!_tryConnect
<1>2. shellSock \in [Socket -> {"unused", "connecting", "open", "closing"}] BY DEF ShellInv
<1>3. \A t \in Socket : shellSock'[t] = IF t = s THEN "connecting" ELSE "unused"
  BY <1>1, <1>2 DEF AllUnused
<1>4. Holds' BY <1>1, <1>3 DEF Holds
<1> QED BY <1>1, <1>2, <1>4 DEF ShellInv

(* The connection is made. *)
LEMMA ShellOpens == ASSUME ShellInv, NEW s \in Socket, S!on_connect(s) PROVE ShellInv'
<1>1. /\ shellSock[s] = "connecting" /\ shellSock' = [shellSock EXCEPT ![s] = "open"]
      /\ shellConnected' = TRUE /\ heartbeat' = s /\ beats' = beats \cup {s}
      /\ UNCHANGED <<shellWindow, client, shellTimer, timers>>
  BY DEF S!on_connect, S!timer
<1>2. shellSock \in [Socket -> {"unused", "connecting", "open", "closing"}] BY DEF ShellInv
<1>3. shellWindow /\ Holds /\ s = client BY <1>1 DEF ShellInv, Holds, Waits, Fails, AllUnused
<1>4. beats = {} BY <1>1, <1>3 DEF Holds
<1>5. \A t \in Socket : shellSock'[t] = IF t = s THEN "open" ELSE "unused"
  BY <1>1, <1>2, <1>3 DEF Holds
<1>6. Holds' BY <1>1, <1>3, <1>4, <1>5 DEF Holds
<1>7. shellConnected' \in BOOLEAN BY <1>1, Zenon
<1> QED BY <1>1, <1>2, <1>3, <1>4, <1>6, <1>7 DEF ShellInv

(* The socket fails: a timer is set while it is still to be closed. *)
LEMMA ShellFails == ASSUME ShellInv, NEW s \in Socket, S!on_error(s) PROVE ShellInv'
<1>1. /\ shellSock[s] \in {"connecting", "open"} /\ shellSock' = [shellSock EXCEPT ![s] = "closing"]
      /\ shellConnected' = FALSE /\ S!_scheduleReconnect
      /\ UNCHANGED <<shellWindow, client, heartbeat, beats>>
  BY DEF S!on_error
<1>2. shellSock \in [Socket -> {"unused", "connecting", "open", "closing"}] BY DEF ShellInv
<1>3. shellWindow /\ Holds /\ s = client BY <1>1 DEF ShellInv, Holds, Waits, Fails, AllUnused
<1>4. shellTimer' /\ timers' = 1 BY <1>1, <1>3 DEF Holds, S!_scheduleReconnect
<1>5. \A t \in Socket : shellSock'[t] = IF t = s THEN "closing" ELSE "unused"
  BY <1>1, <1>2, <1>3 DEF Holds
<1>6. Fails' BY <1>1, <1>3, <1>4, <1>5 DEF Fails, Holds
<1>7. shellConnected' \in BOOLEAN BY <1>1, Zenon
<1> QED BY <1>1, <1>2, <1>3, <1>6, <1>7 DEF ShellInv

(* The socket is closed: nothing is left of it but the timer. *)
LEMMA ShellCloses == ASSUME ShellInv, NEW s \in Socket, S!on_close(s) PROVE ShellInv'
<1>1. /\ shellSock[s] \in {"open", "closing"} /\ shellSock' = [shellSock EXCEPT ![s] = "unused"]
      /\ shellConnected' = FALSE /\ beats' = beats \ {heartbeat} /\ S!_scheduleReconnect
      /\ UNCHANGED <<shellWindow, client, heartbeat>>
  BY DEF S!on_close
<1>2. shellSock \in [Socket -> {"unused", "connecting", "open", "closing"}] BY DEF ShellInv
<1>3. shellWindow /\ (Holds \/ Fails) BY <1>1 DEF ShellInv, Waits, AllUnused
<1>4. shellTimer' /\ timers' = 1 BY <1>1, <1>3 DEF Holds, Fails, S!_scheduleReconnect, S!timer
<1>5. \A t \in Socket : shellSock'[t] = "unused"
  BY <1>1, <1>2, <1>3 DEF Holds, Fails
<1>6. beats' = {} BY <1>1, <1>3 DEF Holds, Fails
<1>7. Waits' BY <1>1, <1>4, <1>5, <1>6 DEF Waits, AllUnused
<1>8. shellConnected' \in BOOLEAN BY <1>1, Zenon
<1> QED BY <1>1, <1>2, <1>3, <1>6, <1>7, <1>8 DEF ShellInv

(* Every step of the bridge and of the server keeps it. *)
LEMMA ShellSteps == ASSUME ShellInv, [S!Next]_(S!vars) PROVE ShellInv'
<1>1. CASE UNCHANGED S!vars
  BY <1>1 DEF S!vars, S!timer, ShellInv, Holds, Waits, Fails, AllUnused
<1>2. CASE S!createShellWindow
  <2>1. AllUnused /\ timers = 0 /\ ~ shellTimer /\ beats = {} /\ ~ shellConnected
    BY <1>2 DEF S!createShellWindow, ShellInv
  <2>2. S!_tryConnect /\ UNCHANGED <<shellConnected, beats>> /\ timers' = 0 /\ ~ shellTimer' /\ shellWindow'
    BY <1>2, <2>1 DEF S!createShellWindow, S!timer
  <2> QED BY <2>1, <2>2, TryKeeps
<1>3. CASE S!reconnect
  <2>1. S!TurnOver /\ timers > 0 /\ timers' = timers - 1 /\ shellTimer' = FALSE /\ S!_tryConnect
        /\ UNCHANGED <<shellConnected, beats, shellWindow>>
    BY <1>3 DEF S!reconnect
  <2>2. Waits /\ shellWindow BY <2>1 DEF ShellInv, S!TurnOver, Fails, Holds
  <2> QED BY <2>1, <2>2, TryKeeps DEF Waits
<1>4. CASE S!Serve
  BY <1>4 DEF S!Serve, S!timer, ShellInv, Holds, Waits, Fails, AllUnused
<1> QED BY <1>1, <1>2, <1>3, <1>4, ShellOpens, ShellFails, ShellCloses
        DEF S!Next, S!Connected, S!Failed, S!Closed

(* Between turns the first shell has one socket or one timer. *)
LEMMA ShellStays == S!Spec => []S!OneAttempt
<1>1. ASSUME ShellInv PROVE S!OneAttempt
  <2>1. CASE S!TurnOver /\ shellWindow
    <3>1. CASE Holds
      <4>1. shellConnected = (\E s \in Socket : shellSock[s] = "open")
        BY <1>1, <3>1 DEF Holds, ShellInv
      <4> QED BY <3>1, <4>1 DEF Holds, S!OneAttempt
    <3>2. CASE Waits
      <4>1. shellConnected = (\E s \in Socket : shellSock[s] = "open")
        BY <1>1, <3>2 DEF Waits, ShellInv, AllUnused
      <4> QED BY <3>2, <4>1 DEF Waits, AllUnused, S!OneAttempt
    <3>3. ~ Fails BY <2>1 DEF Fails, S!TurnOver
    <3> QED BY <1>1, <2>1, <3>1, <3>2, <3>3 DEF ShellInv
  <2>2. CASE ~ shellWindow
    <3>1. shellConnected = (\E s \in Socket : shellSock[s] = "open")
      BY <1>1, <2>2 DEF ShellInv, AllUnused
    <3> QED BY <1>1, <2>2, <3>1 DEF ShellInv, AllUnused, S!OneAttempt
  <2>3. CASE ~ S!TurnOver BY <2>3 DEF S!OneAttempt
  <2> QED BY <2>1, <2>2, <2>3
<1>2. ASSUME ShellInv, [S!Next]_(S!vars) PROVE ShellInv' BY <1>2, ShellSteps
<1> QED BY <1>1, <1>2, ShellStarts, PTL DEF S!Spec

-----------------------------------------------------------------------------

(* The render engine and the first shell each have one socket at most
   between two turns of their event loops, the first shell one socket or one
   timer, with the flags and intervals that go with it: for any number of
   sockets and of attempts (both ipc_bridge.cjs). *)
THEOREM ConnectionsStay == R!Spec /\ S!Spec => []OneSocketEach
<1> QED BY RenderStays, ShellStays, PTL DEF OneSocketEach

(* What the page of the render engine shows is so once nothing is under way:
   for any number of reloads and messages (ipc_bridge.cjs,
   DesktopShell.tsx). *)
THEOREM PageStaysTold == R!Spec => []PageIsTold
<1> QED BY RenderStays, PTL DEF PageIsTold

-----------------------------------------------------------------------------

(* The child ends before the answer is its output. *)
Ended == /\ answer = "output" => child = "ended"
         /\ answer # "none" => exec = "answered"

(* The command server answers once its child has ended or has failed. *)
LEMMA ExecKeeps == ExecSpec => []Ended
<1>1. ExecInit => Ended
  BY DEF ExecInit, Ended
<1>2. ASSUME Ended, [ExecNext]_execVars PROVE Ended'
  BY <1>2 DEF Ended, execVars, ExecNext, ServerGoesOn, ExecuteCommand, ReadToEnd, WaitForExit,
              Answered, ChildGoesOn, ChildEnds
<1> QED BY <1>1, <1>2, PTL DEF ExecSpec

(* What each request has had done to it at every point it goes through. *)
AsFar(r) ==
    /\ closes[r] = IF at[r] = "closed" THEN 1 ELSE 0
    /\ acted[r] \in Nat /\ acted[r] <= 1
    /\ acted[r] = 1 => path[r] \in {"exec", "restart"}
    /\ at[r] \in {"coming", "taken", "reads"} => acted[r] = 0
    /\ at[r] = "reads" => path[r] \in {"exec", "restart", "other power"}
    /\ pump = r => at[r] = "taken"

DaemonInv ==
    /\ at \in [Request -> {"coming", "taken", "reads", "acts", "writes", "reports", "closes", "closed"}]
    /\ path \in [Request -> Path] /\ pump \in Request \cup {"waits", "ended"}
    /\ acted \in [Request -> Nat] /\ closes \in [Request -> Nat]
    /\ \A r \in Request : AsFar(r)

(* Every handler of the daemon takes a request one step further. *)
LEMMA DaemonKeeps == DaemonSpec => []DaemonInv
<1>1. DaemonInit => DaemonInv
  BY HostRequestsAssumption DEF DaemonInit, DaemonInv, AsFar
<1>2. ASSUME DaemonInv, [DaemonNext]_daemonVars PROVE DaemonInv'
  <2> USE <1>2 DEF DaemonInv
  <2>1. CASE UNCHANGED daemonVars
    BY <2>1 DEF daemonVars, AsFar
  <2>2. CASE GetContextAsync
    <3>1. CASE \E r \in Request : at[r] = "coming" /\ at' = [at EXCEPT ![r] = "taken"]
                           /\ pump' = r /\ UNCHANGED pumpErrors
      BY <2>2, <3>1, HostRequestsAssumption, ZenonT(30) DEF GetContextAsync, AsFar
    <3>2. CASE pump' = "ended" /\ UNCHANGED <<at, pumpErrors>>
      BY <2>2, <3>2, HostRequestsAssumption DEF GetContextAsync, AsFar
    <3>3. CASE UNCHANGED <<at, pump>>
      BY <2>2, <3>3, HostRequestsAssumption DEF GetContextAsync, AsFar
    <3> QED BY <2>2, <3>1, <3>2, <3>3 DEF GetContextAsync
  <2>3. ASSUME NEW r \in Request, ProcessRequestAsync(r) PROVE DaemonInv'
    <3>1. /\ at[r] = "taken" /\ closes[r] = 0 /\ acted[r] = 0
          /\ pump' = "waits" /\ path' = path /\ acted' = acted
      BY <2>3 DEF ProcessRequestAsync, AsFar
    <3>2. PICK w \in {"closed", "closes", "writes", "reads"}, n \in {0, 1} :
             /\ at' = [at EXCEPT ![r] = w] /\ closes' = [closes EXCEPT ![r] = n]
             /\ n = IF w = "closed" THEN 1 ELSE 0
             /\ w = "reads" => path[r] \in {"exec", "restart", "other power"}
      <4>1. CASE path[r] = "options" /\ Goes(r, "closed") /\ closes' = [closes EXCEPT ![r] = @ + 1]
        <5>1. closes' = [closes EXCEPT ![r] = 1] BY <3>1, <4>1
        <5> QED BY <4>1, <5>1 DEF Goes
      <4>2. ASSUME NEW w \in {"closes", "writes", "reads"}, Goes(r, w), closes' = closes,
                   w = "reads" => path[r] \in {"exec", "restart", "other power"}
            PROVE \E v \in {"closed", "closes", "writes", "reads"}, n \in {0, 1} :
             /\ at' = [at EXCEPT ![r] = v] /\ closes' = [closes EXCEPT ![r] = n]
             /\ n = IF v = "closed" THEN 1 ELSE 0
             /\ v = "reads" => path[r] \in {"exec", "restart", "other power"}
        <5>1. closes' = [closes EXCEPT ![r] = 0] BY <3>1, <4>2
        <5> QED BY <4>2, <5>1 DEF Goes
      <4> QED BY <2>3, <4>1, <4>2 DEF ProcessRequestAsync
    <3>3. ASSUME NEW q \in Request PROVE AsFar(q)'
      <4>1. AsFar(q) /\ AsFar(r) OBVIOUS
      <4>2. CASE q = r
        <5>1. at'[r] = w /\ acted'[r] = 0 /\ closes'[r] = n BY <3>1, <3>2
        <5> QED BY <3>1, <3>2, <4>2, <5>1, HostRequestsAssumption DEF AsFar
      <4>3. CASE q # r BY <3>1, <3>2, <4>1, <4>3, HostRequestsAssumption DEF AsFar
      <4> QED BY <4>2, <4>3
    <3>4. closes' \in [Request -> Nat] /\ at' \in [Request -> {"coming", "taken", "reads", "acts", "writes", "reports", "closes", "closed"}]
      BY <3>2
    <3> QED BY <3>1, <3>3, <3>4
  <2>4. ASSUME NEW r \in Request, ReadToEndAsync(r) PROVE DaemonInv'
    <3>1. PICK n \in 0 .. 1 : acted' = [acted EXCEPT ![r] = @ + n] /\ (n = 1 => path[r] \in {"exec", "restart"})
      <4>1. path[r] \in {"exec", "restart", "other power"} BY <2>4 DEF ReadToEndAsync, AsFar
      <4>2. CASE path[r] = "exec" BY <2>4, <4>2 DEF ReadToEndAsync
      <4>3. CASE path[r] = "restart" BY <2>4, <4>3 DEF ReadToEndAsync
      <4>4. CASE path[r] = "other power"
        <5>1. acted' = [acted EXCEPT ![r] = @ + 0] BY <2>4, <4>4 DEF ReadToEndAsync
        <5>2. 0 \in 0 .. 1 /\ ~ (0 = 1) OBVIOUS
        <5> QED BY <5>1, <5>2
      <4> QED BY <4>1, <4>2, <4>3, <4>4
    <3>2. acted[r] = 0 BY <2>4 DEF ReadToEndAsync, AsFar
    <3>3. /\ at[r] = "reads" /\ at' = [at EXCEPT ![r] = "writes"] /\ acted' = [acted EXCEPT ![r] = n]
          /\ pump' = pump /\ path' = path /\ closes' = closes /\ closes[r] = 0 /\ pump # r
      <4>1. AsFar(r) OBVIOUS
      <4>2. acted' = [acted EXCEPT ![r] = n] BY <3>1, <3>2
      <4> QED BY <2>4, <4>1, <4>2 DEF ReadToEndAsync, Goes, AsFar
    <3>4. ASSUME NEW q \in Request PROVE AsFar(q)'
      <4>1. AsFar(q) /\ AsFar(r) OBVIOUS
      <4>2. CASE q = r
        <5>1. at'[r] = "writes" /\ acted'[r] = n /\ closes'[r] = 0 BY <3>3
        <5>2. n \in Nat /\ n <= 1 /\ (n = 1 => path'[r] \in {"exec", "restart"})
          BY <3>1, <3>3
        <5>3. pump' # r BY <3>3
        <5> QED BY <4>2, <5>1, <5>2, <5>3 DEF AsFar
      <4>3. CASE q # r BY <3>3, <4>1, <4>3 DEF AsFar
      <4> QED BY <4>2, <4>3
    <3> QED BY <3>3, <3>4
  <2>5. ASSUME NEW r \in Request, WriteAsync(r) PROVE DaemonInv'
    <3>1. ASSUME NEW q \in Request PROVE AsFar(q)'
      <4>1. AsFar(q) /\ AsFar(r) OBVIOUS
      <4>2. CASE q = r BY <2>5, <4>1, <4>2, HostRequestsAssumption DEF WriteAsync, Goes, AsFar
      <4>3. CASE q # r BY <2>5, <4>1, <4>3, HostRequestsAssumption DEF WriteAsync, Goes, AsFar
      <4> QED BY <4>2, <4>3
    <3> QED BY <2>5, <3>1 DEF WriteAsync, Goes
  <2>6. ASSUME NEW r \in Request, Throws(r) PROVE DaemonInv'
    <3>1. ASSUME NEW q \in Request PROVE AsFar(q)'
      <4>1. AsFar(q) /\ AsFar(r) OBVIOUS
      <4>2. \E w \in {"reports", "closes"} : at' = [at EXCEPT ![r] = w] /\ closes' = closes
            /\ pump' = pump /\ path' = path /\ acted' = acted
        BY <2>6 DEF Throws, Goes
      <4>3. CASE q = r
        <5>1. at'[r] \in {"reports", "closes"} /\ closes'[r] = 0 /\ acted'[r] = acted[r] /\ pump # r
          BY <2>6, <4>2, <4>3, <4>1, HostRequestsAssumption DEF Throws, Goes, AsFar
        <5> QED BY <4>1, <4>2, <4>3, <5>1 DEF AsFar
      <4>4. CASE q # r
        BY <2>6, <4>1, <4>2, <4>4, HostRequestsAssumption DEF Throws, AsFar
      <4> QED BY <4>3, <4>4
    <3> QED BY <2>6, <3>1 DEF Throws, Goes
  <2>7. ASSUME NEW r \in Request, Close(r) PROVE DaemonInv'
    <3>1. ASSUME NEW q \in Request PROVE AsFar(q)'
      <4>1. AsFar(q) /\ AsFar(r) OBVIOUS
      <4>2. at' = [at EXCEPT ![r] = "closed"] /\ closes' = [closes EXCEPT ![r] = @ + 1]
            /\ pump' = pump /\ path' = path /\ acted' = acted
        BY <2>7 DEF Close, Goes
      <4>3. CASE q = r
        <5>0. closes[r] = 0 /\ at[r] = "closes" BY <2>7, <4>1 DEF Close, AsFar
        <5>a. closes' = [closes EXCEPT ![r] = 1] BY <4>2, <5>0
        <5>b. closes'[r] = 1 /\ at'[r] = "closed" BY <4>2, <5>a
        <5>1. at'[r] = "closed" /\ closes'[r] = 1 /\ acted'[r] = acted[r] /\ pump # r
          BY <4>2, <4>1, <5>0, <5>b DEF AsFar
        <5> QED BY <4>1, <4>2, <4>3, <5>1 DEF AsFar
      <4>4. CASE q # r
        BY <2>7, <4>1, <4>2, <4>4, HostRequestsAssumption DEF Close, AsFar
      <4> QED BY <4>3, <4>4
    <3> QED BY <2>7, <3>1 DEF Close, Goes
  <2> QED BY <1>2, <2>1, <2>2, <2>3, <2>4, <2>5, <2>6, <2>7 DEF DaemonNext
<1> QED BY <1>1, <1>2, PTL DEF DaemonSpec

(* Every request that was taken is closed once and at its end, starts one
   process at most and only if it asks for one, and the child whose output
   is the answer has ended: for any number of requests and any output
   (SystemController.cs, WmiTelemetryDaemon.cs). *)
THEOREM RequestsEndOnce == ExecSpec /\ DaemonSpec => []RequestsClosed
<1>1. Ended /\ DaemonInv => RequestsClosed
  BY DEF Ended, DaemonInv, AsFar, RequestsClosed
<1> QED BY <1>1, ExecKeeps, DaemonKeeps, PTL
=============================================================================
