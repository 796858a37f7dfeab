----------------------------- MODULE SchedProofs -----------------------------
(***************************************************************************)
(* The scheduler, and the boot that runs on it, for any number of slots    *)
(* and mutexes and any quanta, periods and delays.                         *)
(*                                                                         *)
(* Two inductive invariants.  FieldsInv is about the fields of the threads *)
(* and needs nothing of the lists.  SchedInv is about the lists: there is  *)
(* a map W from threads to places (a queue, the sleep queue, the waiters   *)
(* of a mutex, or nowhere) that both the links and the states of the       *)
(* threads fit.  W is a ghost: each step lemma says how W changes, one     *)
(* list operation at a time, and a rank of the threads along next shows    *)
(* that no list is circular.  Orderly adds that each READY thread is in    *)
(* the queue of its priority, which the order of the dispatches and of the *)
(* boot (BootInv) rests on.                                                *)
(*                                                                         *)
(* The order: operators and types; Chain (a list seen as ranks along       *)
(* next); Linked (all lists, with prev and tail) and what each operation   *)
(* on the lists does to it; the fields and FieldsInv; walks along lists;   *)
(* Whole (lists and threads together) and what each part of the scheduler  *)
(* does to it; SchedInv, one lemma per action; the theorems; the boot.     *)
(***************************************************************************)
EXTENDS MCSched, KernelBoot, FiniteSetTheorems, WellFoundedInduction, TLAPS

-----------------------------------------------------------------------------
(* Least numbers, functions built step by step, walks, prefixes and the types. *)

LEMMA LeastNat ==
    ASSUME NEW S, S \subseteq Nat, S # {}
    PROVE  \E n \in S : \A m \in S : n <= m
  <1> DEFINE R == OpToRel(<, Nat)
  <1>1. IsWellFoundedOn(R, Nat)
    BY NatLessThanWellFounded
  <1>2. \A x, y \in Nat : x < y => <<x, y>> \in R
    BY DEF OpToRel
  <1> HIDE DEF R
  <1>3. PICK x \in S : \A y \in S : ~ (<<y, x>> \in R)
    BY <1>1, WFMin
  <1>4. \A m \in S : x <= m
    <2> TAKE m \in S
    <2>1. ~(m < x)
      BY <1>2, <1>3
    <2> QED BY <2>1
  <1> QED BY <1>3, <1>4

(* What holds of 0 and of every number up to n whose predecessor has it
   holds of every number up to n.                                          *)
LEMMA Climb ==
    ASSUME NEW n \in Nat, NEW A, 0 \in A, \A i \in 1..n : i - 1 \in A => i \in A
    PROVE  \A i \in 0..n : i \in A
  <1> SUFFICES ASSUME \E i \in 0..n : i \notin A PROVE FALSE
    OBVIOUS
  <1> DEFINE B == {i \in 0..n : i \notin A}
  <1>1. B \subseteq Nat /\ B # {}
    OBVIOUS
  <1>2. PICK m \in B : \A j \in B : m <= j
    <2> HIDE DEF B
    <2> QED BY <1>1, LeastNat
  <1>3. m # 0 /\ m \in 1..n
    BY <1>2
  <1>4. m - 1 \in A
    BY <1>2, <1>3
  <1> QED BY <1>2, <1>3, <1>4

(* F[i][d] is what step i makes of d. *)
StaysIn(F, D, n) == \A i \in 1..n, d \in D : F[i][d] \in D

(* g holds what n steps have made of base. *)
Path(g, F, base, D, n) == /\ g \in [0..n -> D]
                          /\ g[0] = base
                          /\ \A i \in 1..n : g[i] = F[i][g[i-1]]

(* A function that takes a value on from step to step, n times. *)
LEMMA StepByStep ==
    ASSUME NEW D, NEW n \in Nat, NEW base \in D, NEW F, StaysIn(F, D, n)
    PROVE  \E g : Path(g, F, base, D, n)
  <1> DEFINE Good(g, k) == /\ g \in [0..k -> D]
                           /\ g[0] = base
                           /\ \A i \in 1..k : g[i] = F[i][g[i-1]]
             A == {k \in 0..n : \E g : Good(g, k)}
  <1>1. 0 \in A
    <2> DEFINE h == [i \in 0..0 |-> base]
    <2>1. Good(h, 0)
      OBVIOUS
    <2> HIDE DEF Good
    <2> QED BY <2>1
  <1>2. ASSUME NEW i \in 1..n, i - 1 \in A PROVE i \in A
    <2>1. PICK g : Good(g, i-1)
      BY <1>2
    <2> DEFINE x == F[i][g[i-1]]
               h == [j \in 0..i |-> IF j = i THEN x ELSE g[j]]
    <2>2. g[i-1] \in D /\ x \in D
      <3>1. g[i-1] \in D
        BY <2>1
      <3> HIDE DEF Good
      <3> QED BY <3>1 DEF StaysIn
    <2>3. h \in [0..i -> D]
      <3> HIDE DEF x
      <3> QED BY <2>1, <2>2
    <2>4. h[0] = base
      BY <2>1
    <2>5. ASSUME NEW j \in 1..i PROVE h[j] = F[j][h[j-1]]
      <3>0. h[j-1] = g[j-1]
        <4> HIDE DEF x
        <4> QED OBVIOUS
      <3>1. CASE j = i
        <4>1. h[i] = x
          <5> HIDE DEF x
          <5> QED OBVIOUS
        <4> HIDE DEF h
        <4> QED BY <3>1, <3>0, <4>1
      <3>2. CASE j # i
        <4>1. h[j] = g[j] /\ j \in 1..i-1
          <5> HIDE DEF x
          <5> QED BY <3>2
        <4> QED BY <4>1, <3>0, <2>1
      <3> QED BY <3>1, <3>2
    <2>6. Good(h, i)
      <3> HIDE DEF h
      <3> QED BY <2>3, <2>4, <2>5
    <2> HIDE DEF Good, h
    <2> QED BY <2>6
  <1> HIDE DEF A
  <1>3. n \in A
    BY <1>1, <1>2, Climb
  <1> QED BY <1>3 DEF A, Path

Links == [head : [Level -> Link], tail : [Level -> Link],
          next : [Slot -> Link],  prev : [Slot -> Link],
          sleep : Link, waiters : [Mutex -> Link]]

LEMMA FollowSteps ==
    ASSUME NEW L \in Links, NEW t \in Link
    PROVE  /\ Follow(L, t) \in [0..MaxThreads -> Link]
           /\ Follow(L, t)[0] = t
           /\ \A k \in 1..MaxThreads :
                Follow(L, t)[k] = LET u == Follow(L, t)[k-1]
                                  IN IF u = NULL THEN NULL ELSE L.next[u]
  <1> DEFINE Step(u) == IF u = NULL THEN NULL ELSE L.next[u]
             IsFollow(g) == g = [k \in 0..MaxThreads |-> IF k = 0 THEN t ELSE Step(g[k-1])]
  <1>0. MaxThreads \in Nat
    BY SchedAssumption
  <1>1. \A u \in Link : Step(u) \in Link
    BY DEF Links, Link
  <1>2. \E g \in [0..MaxThreads -> Link] :
           g[0] = t /\ \A i \in 1..MaxThreads : g[i] = Step(g[i-1])
    <2> DEFINE F == [i \in 1..MaxThreads |-> [u \in Link |-> Step(u)]]
    <2>1. StaysIn(F, Link, MaxThreads)
      BY <1>1 DEF StaysIn
    <2>2. \A u \in Link, i \in 1..MaxThreads : F[i][u] = Step(u)
      OBVIOUS
    <2> HIDE DEF F
    <2>3. PICK g : Path(g, F, t, Link, MaxThreads)
      <3> HIDE DEF Step
      <3> QED BY <1>0, <2>1, StepByStep
    <2> HIDE DEF Step
    <2>4. \A i \in 1..MaxThreads : g[i-1] \in Link
      BY <1>0, <2>3 DEF Path
    <2>5. g \in [0..MaxThreads -> Link] /\ g[0] = t
      BY <2>3 DEF Path
    <2>6. \A i \in 1..MaxThreads : g[i] = F[i][g[i-1]]
      BY <2>3 DEF Path
    <2>7. \A i \in 1..MaxThreads : g[i] = Step(g[i-1])
      BY <2>2, <2>4, <2>6
    <2> QED BY <2>5, <2>7
  <1>3. \E g : IsFollow(g)
    <2> HIDE DEF Step
    <2>1. PICK g \in [0..MaxThreads -> Link] :
           g[0] = t /\ \A i \in 1..MaxThreads : g[i] = Step(g[i-1])
      BY <1>2
    <2>2. IsFollow(g)
      BY <1>0, <2>1
    <2> QED BY <2>2
  <1>4. Follow(L, t) = CHOOSE g : IsFollow(g)
    BY DEF Follow
  <1>5. IsFollow(Follow(L, t))
    <2> HIDE DEF IsFollow
    <2> QED BY <1>3, <1>4
  <1>6. \A k \in 1..MaxThreads : Follow(L, t)[k] = Step(Follow(L, t)[k-1])
    <2> HIDE DEF Step
    <2> QED BY <1>0, <1>5
  <1>7. Follow(L, t)[0] = t
    BY <1>0, <1>5
  <1> DEFINE A == {k \in 0..MaxThreads : Follow(L, t)[k] \in Link}
  <1>8. \A k \in 0..MaxThreads : k \in A
    <2>1. 0 \in A
      BY <1>0, <1>7
    <2>2. ASSUME NEW i \in 1..MaxThreads, i - 1 \in A PROVE i \in A
      BY <2>2, <1>6, <1>1
    <2> HIDE DEF A
    <2> QED BY <1>0, <2>1, <2>2, Climb
  <1>9. Follow(L, t) \in [0..MaxThreads -> Link]
    <2> HIDE DEF Step
    <2> QED BY <1>5, <1>8
  <1> QED BY <1>6, <1>7, <1>9

(* The walk from t ends where next is NULL, after MaxThreads at the latest. *)
LEMMA WalkSteps ==
    ASSUME NEW L \in Links, NEW t \in Link
    PROVE  \E n \in 0..MaxThreads :
              /\ Walk(L, t) = [i \in 1..n |-> Follow(L, t)[i-1]]
              /\ \A k \in 0..n-1 : Follow(L, t)[k] \in Slot
              /\ n < MaxThreads => Follow(L, t)[n] = NULL
  <1> DEFINE at == Follow(L, t)
             B == {k \in 0..MaxThreads : k = MaxThreads \/ at[k] = NULL}
             M == {k \in 0..MaxThreads-1 : at[k] # NULL}
  <1>0. MaxThreads \in Nat \ {0}
    BY SchedAssumption
  <1>1. at \in [0..MaxThreads -> Link] /\ \A k \in 1..MaxThreads : at[k-1] = NULL => at[k] = NULL
    BY FollowSteps
  <1>2. PICK n \in B : \A k \in B : n <= k
    <2>1. B \subseteq Nat /\ MaxThreads \in B
      BY <1>0
    <2> HIDE DEF B
    <2> QED BY <2>1, LeastNat
  <1>3. \A k \in 0..n-1 : at[k] \in Slot
    <2> TAKE k \in 0..n-1
    <2>1. k \in 0..MaxThreads /\ k # MaxThreads /\ k \notin B
      BY <1>2, <1>0
    <2> HIDE DEF at
    <2> QED BY <2>1, <1>1 DEF Link
  <1>4. \A k \in n..MaxThreads-1 : at[k] = NULL
    <2> DEFINE A == {j \in 0..MaxThreads : j >= n /\ j < MaxThreads => at[j] = NULL}
    <2>1. 0 \in A
      <3>1. CASE n = 0
        BY <3>1, <1>0, <1>2
      <3>2. CASE n # 0
        BY <3>2, <1>0, <1>2
      <3> QED BY <3>1, <3>2
    <2>2. ASSUME NEW j \in 1..MaxThreads, j - 1 \in A PROVE j \in A
      <3>1. CASE j = n
        BY <3>1, <1>0, <1>2
      <3>2. CASE j # n
        <4> HIDE DEF at
        <4> QED BY <3>2, <2>2, <1>0, <1>1, <1>2
      <3> QED BY <3>1, <3>2
    <2>3. \A j \in 0..MaxThreads : j \in A
      <3> HIDE DEF A
      <3> QED BY <1>0, <2>1, <2>2, Climb
    <2> HIDE DEF at
    <2> QED BY <1>0, <1>2, <2>3
  <1>5. M = 0..n-1
    <2> HIDE DEF at
    <2>1. \A k \in 0..n-1 : at[k] # NULL
      BY <1>0, <1>2, <1>3 DEF Slot, NULL
    <2> QED BY <1>0, <1>2, <1>4, <2>1
  <1>6. Cardinality(M) = n
    <2>1. n \in Nat
      BY <1>2
    <2>2. Cardinality(0..n-1) = n
      BY <2>1, FS_Interval
    <2> QED BY <2>2, <1>5
  <1>7. Walk(L, t) = [i \in 1..n |-> at[i-1]]
    BY <1>6 DEF Walk
  <1>8. n \in 0..MaxThreads /\ (n < MaxThreads => at[n] = NULL)
    BY <1>0, <1>2
  <1> QED BY <1>3, <1>7, <1>8

LEMMA WalkType ==
    ASSUME NEW L \in Links, NEW t \in Link
    PROVE  /\ Walk(L, t) \in Seq(Slot)
           /\ Len(Walk(L, t)) \in 0..MaxThreads
           /\ DOMAIN Walk(L, t) = 1..Len(Walk(L, t))
  <1>1. PICK n \in 0..MaxThreads :
              /\ Walk(L, t) = [i \in 1..n |-> Follow(L, t)[i-1]]
              /\ \A k \in 0..n-1 : Follow(L, t)[k] \in Slot
    BY WalkSteps
  <1>2. \A i \in 1..n : Follow(L, t)[i-1] \in Slot
    BY <1>1
  <1>3. n \in Nat
    BY SchedAssumption
  <1>4. Walk(L, t) \in [1..n -> Slot]
    BY <1>1, <1>2
  <1>5. Walk(L, t) \in Seq(Slot) /\ Len(Walk(L, t)) = n
    BY <1>3, <1>4
  <1> QED BY <1>3, <1>5, <1>4

(* The greatest and the least of some numbers. *)
LEMMA MaxIn ==
    ASSUME NEW n \in Nat, NEW S, S \subseteq 0..n, S # {}
    PROVE  Max(S) \in S /\ \A j \in S : j <= Max(S)
  <1> DEFINE U == {k \in 0..n : \A j \in S : j <= k}
  <1>1. U \subseteq Nat /\ n \in U
    OBVIOUS
  <1>2. PICK m \in U : \A k \in U : m <= k
    <2> HIDE DEF U
    <2> QED BY <1>1, LeastNat
  <1>3. m \in S
    <2> SUFFICES ASSUME m \notin S PROVE FALSE
      OBVIOUS
    <2>1. PICK x \in S : TRUE
      OBVIOUS
    <2>2. m # 0
      BY <2>1, <1>2
    <2>3. m - 1 \in U
      BY <1>2, <2>2
    <2> QED BY <1>2, <2>3
  <1>4. \E x \in S : \A y \in S : x >= y
    BY <1>2, <1>3
  <1>5. Max(S) \in S /\ \A y \in S : Max(S) >= y
    BY <1>4 DEF Max
  <1> QED BY <1>5

LEMMA MinIn ==
    ASSUME NEW S, S \subseteq Nat, S # {}
    PROVE  Min(S) \in S /\ \A j \in S : Min(S) <= j
  <1>1. \E x \in S : \A y \in S : x <= y
    BY LeastNat
  <1> QED BY <1>1 DEF Min

LEMMA MaxOfTwo ==
    ASSUME NEW a \in Nat, NEW b \in Nat
    PROVE  Max({a, b}) \in {a, b} /\ Max({a, b}) >= a /\ Max({a, b}) >= b
  <1>1. \E x \in {a, b} : \A y \in {a, b} : x >= y
    OBVIOUS
  <1>2. Max({a, b}) \in {a, b} /\ \A y \in {a, b} : Max({a, b}) >= y
    BY <1>1 DEF Max
  <1> QED BY <1>2

(* Who is due is asleep, and everybody in front of him is due too. *)
LEMMA DueIsPrefix ==
    ASSUME NEW L \in Links, NEW T, NEW d
    PROVE  \E n \in 0..Len(Walk(L, L.sleep)) :
              /\ DuePrefix(L, T, d) = SubSeq(Walk(L, L.sleep), 1, n)
              /\ \A j \in 1..n : T[Walk(L, L.sleep)[j]].until <= d
              /\ \A m \in 0..Len(Walk(L, L.sleep)) :
                    (\A j \in 1..m : T[Walk(L, L.sleep)[j]].until <= d) => m <= n
  <1> DEFINE w == Walk(L, L.sleep)
             B == {i \in 0..Len(w) : \A j \in 1..i : T[w[j]].until <= d}
  <1>1. Len(w) \in Nat
    <2>1. L.sleep \in Link
      BY DEF Links
    <2> QED BY <2>1, WalkType
  <1>2. 0 \in B /\ B \subseteq 0..Len(w)
    BY <1>1
  <1>3. Max(B) \in B /\ \A j \in B : j <= Max(B)
    <2> HIDE DEF B, w
    <2> QED BY <1>1, <1>2, MaxIn
  <1>4. DuePrefix(L, T, d) = SubSeq(w, 1, Max(B))
    BY DEF DuePrefix
  <1> DEFINE n == Max(B)
  <1>5. n \in B /\ \A j \in B : j <= n
    BY <1>3
  <1>6. DuePrefix(L, T, d) = SubSeq(w, 1, n)
    BY <1>4
  <1>7. n \in 0..Len(w) /\ \A j \in 1..n : T[w[j]].until <= d
    BY <1>5
  <1>8. \A m \in 0..Len(w) : (\A j \in 1..m : T[w[j]].until <= d) => m <= n
    BY <1>5
  <1> HIDE DEF n
  <1> QED BY <1>6, <1>7, <1>8


-----------------------------------------------------------------------------
(* Types, and what is so of each thread alone.                             *)

TCB == [st : State, prio : Runnable, base : Runnable, slice : Nat,
        until : Nat, last : Nat, deadline : Nat, missed : BOOLEAN]

(* A thread at tick "now". *)
Thread(now) == {r \in TCB : /\ r.prio >= r.base \/ r.prio >= HIGH
                            /\ r.missed => now > r.deadline}

Threads(now) == [Slot -> Thread(now)]

LEMMA QueueTypes ==
    ASSUME NEW L \in Links, NEW q \in Level, NEW t \in Slot
    PROVE  /\ queue_push_back(L, q, t) \in Links
           /\ queue_push_front(L, q, t) \in Links
           /\ queue_remove(L, q, t) \in Links
           /\ L.head[q] # NULL => queue_pop_front(L, q) \in Links
  <1>1. queue_push_back(L, q, t) \in Links
    BY DEF queue_push_back, Links, Link
  <1>2. queue_push_front(L, q, t) \in Links
    BY DEF queue_push_front, Links, Link
  <1>3. queue_remove(L, q, t) \in Links
    BY ZenonT(30) DEF queue_remove, Links, Link
  <1>4. L.head[q] # NULL => queue_pop_front(L, q) \in Links
    BY DEF queue_pop_front, Links, Link
  <1> QED BY <1>1, <1>2, <1>3, <1>4

LEMMA QuantaType == \A p \in Level : Quanta[p] \in Nat
  BY SchedAssumption

LEMMA WakeOneType ==
    ASSUME NEW now \in Nat, NEW L \in Links, NEW T \in Threads(now), NEW t \in Slot
    PROVE  /\ WakeOne([L |-> L, T |-> T], t).L \in Links
           /\ WakeOne([L |-> L, T |-> T], t).T \in Threads(now)
           /\ WakeOne([L |-> L, T |-> T], t) = [L |-> WakeOne([L |-> L, T |-> T], t).L,
                                               T |-> WakeOne([L |-> L, T |-> T], t).T]
  <1> DEFINE boost == Max({T[t].base, HIGH})
  <1>1. T[t] \in Thread(now) /\ T[t].base \in 0..4
    BY DEF Threads, Thread, TCB, Runnable, IDLE, REALTIME
  <1>2. boost \in 3..4 /\ boost >= T[t].base
    BY <1>1, MaxOfTwo DEF HIGH
  <1>3. WakeOne([L |-> L, T |-> T], t) =
          [L |-> queue_push_front([L EXCEPT !.sleep = L.next[t]], boost, t),
           T |-> [T EXCEPT ![t].st = "READY", ![t].prio = boost, ![t].slice = Quanta[boost]]]
    BY DEF WakeOne
  <1> HIDE DEF boost
  <1>4. [L EXCEPT !.sleep = L.next[t]] \in Links
    BY DEF Links
  <1>5. queue_push_front([L EXCEPT !.sleep = L.next[t]], boost, t) \in Links
    BY <1>2, <1>4, QueueTypes DEF Level, IDLE, ISR
  <1>6. [T EXCEPT ![t].st = "READY", ![t].prio = boost, ![t].slice = Quanta[boost]] \in Threads(now)
    <2>1. Quanta[boost] \in Nat
      BY <1>2, QuantaType DEF Level, IDLE, ISR
    <2> DEFINE r == [T[t] EXCEPT !.st = "READY", !.prio = boost, !.slice = Quanta[boost]]
    <2>2. r \in Thread(now)
      <3>1. T[t] \in TCB /\ (T[t].missed => now > T[t].deadline)
        BY <1>1 DEF Thread
      <3>2. boost \in Runnable
        BY <1>2 DEF Runnable, IDLE, REALTIME
      <3>3. r \in TCB
        BY <3>1, <3>2, <2>1 DEF TCB, State
      <3>4. r.prio = boost /\ r.base = T[t].base /\ r.missed = T[t].missed /\ r.deadline = T[t].deadline
        BY <3>1 DEF TCB
      <3> HIDE DEF r
      <3> QED BY <1>2, <3>1, <3>3, <3>4 DEF Thread
    <2>3. [T EXCEPT ![t].st = "READY", ![t].prio = boost, ![t].slice = Quanta[boost]] = [T EXCEPT ![t] = r]
      BY DEF Threads
    <2> HIDE DEF r
    <2> QED BY <2>2, <2>3 DEF Threads
  <1> QED BY <1>3, <1>5, <1>6

-----------------------------------------------------------------------------
(* A list as a chain: where each thread is (W), and ranks that grow along next. *)

Queue == LOW..REALTIME

(* The lists, as OneList names them, and the place of a thread in none. *)
Lists == ({"READY"} \X Queue) \cup ({"BLOCKED"} \X Mutex) \cup {<<"SLEEPING", NULL>>}
Nowhere == <<"NONE", NULL>>

(* H: the head of each list; N: the links; W: where each thread is; R: its
   rank, which grows along a list.                                         *)
Chain(H, N, W, R) ==
    /\ \A p \in Lists : H[p] # NULL => W[H[p]] = p
    /\ \A t \in Slot : W[t] \in Lists =>
          /\ H[W[t]] # NULL
          /\ t # H[W[t]] => \E u \in Slot : W[u] = W[t] /\ N[u] = t
          /\ N[t] # NULL => W[N[t]] = W[t] /\ R[t] < R[N[t]] /\ N[t] # H[W[t]]
    /\ \A t, u \in Slot : W[t] \in Lists /\ W[u] \in Lists /\ N[t] = N[u] /\ N[t] # NULL => t = u

Ghost(H, N, W, R) == /\ H \in [Lists -> Link] /\ N \in [Slot -> Link]
                     /\ W \in [Slot -> Lists \cup {Nowhere}] /\ R \in [Slot -> Nat]

(* N2 links as N does, but for the threads in X. *)
SameBut(X, N, N2) == \A u \in Slot : u \notin X => N2[u] = N[u]

(* Some ranks grow along the lists. *)
Chained(H, N, W) == \E R \in [Slot -> Nat] : Chain(H, N, W, R)

LEMMA NowhereIsNoList == Nowhere \notin Lists
  BY DEF Nowhere, Lists

LEMMA NullIsNoSlot == NULL \notin Slot /\ (\A x \in Link : x # NULL => x \in Slot)
  BY SchedAssumption DEF NULL, Slot, Link

(* A thread is put in front of a list. *)
LEMMA ChainFront ==
    ASSUME NEW H, NEW N, NEW W, NEW R, Ghost(H, N, W, R), Chain(H, N, W, R),
           NEW p \in Lists, NEW t \in Slot, W[t] = Nowhere,
           NEW N2 \in [Slot -> Link], N2[t] = H[p], SameBut({t}, N, N2)
    PROVE  Chained([H EXCEPT ![p] = t], N2, [W EXCEPT ![t] = p])
  <1> \A u \in Slot : u # t => N2[u] = N[u]
    BY DEF SameBut
  <1> DEFINE H2 == [H EXCEPT ![p] = t]
             W2 == [W EXCEPT ![t] = p]
             R2 == [u \in Slot |-> IF u = t THEN 0 ELSE R[u] + 1]
  <1>1. /\ H2[p] = t /\ \A q \in Lists : q # p => H2[q] = H[q]
        /\ W2[t] = p /\ \A u \in Slot : u # t => W2[u] = W[u]
        /\ R2 \in [Slot -> Nat] /\ R2[t] = 0 /\ \A u \in Slot : u # t => R2[u] = R[u] + 1 /\ R[u] \in Nat
    BY DEF Ghost
  <1>a. /\ \A q \in Lists : H[q] \in Link
        /\ \A u \in Slot : N[u] \in Link /\ W[u] \in Lists \cup {Nowhere}
        /\ Nowhere \notin Lists /\ NULL \notin Slot /\ t # NULL
        /\ (\A x \in Link : x # NULL => x \in Slot)
    BY NowhereIsNoList, NullIsNoSlot DEF Ghost
  <1> HIDE DEF H2, W2, R2
  <1>b. (\A q \in Lists : H[q] # t) /\ (\A u \in Slot : W[u] \in Lists => N[u] # t)
    BY <1>a DEF Chain
  <1>2. \A q \in Lists : H2[q] # NULL => W2[H2[q]] = q
    BY <1>1, <1>a, <1>b DEF Chain
  <1>3. ASSUME NEW x \in Slot, W2[x] \in Lists
        PROVE  /\ H2[W2[x]] # NULL
               /\ x # H2[W2[x]] => \E u \in Slot : W2[u] = W2[x] /\ N2[u] = x
               /\ N2[x] # NULL => W2[N2[x]] = W2[x] /\ R2[x] < R2[N2[x]] /\ N2[x] # H2[W2[x]]
    <2>1. CASE x = t
      BY <2>1, <1>1, <1>a, <1>b DEF Chain
    <2>2. CASE x # t
      <3>1. W2[x] = W[x] /\ N2[x] = N[x] /\ H[W[x]] # NULL
        BY <2>2, <1>1, <1>3 DEF Chain
      <3>2. H2[W2[x]] # NULL
        BY <3>1, <1>1, <1>a, <1>3
      <3>3. ASSUME x # H2[W2[x]] PROVE \E u \in Slot : W2[u] = W2[x] /\ N2[u] = x
        <4>1. CASE x = H[W[x]]
          <5>1. W[x] = p
            BY <4>1, <3>1, <3>3, <1>1, <1>3
          <5> QED BY <5>1, <4>1, <3>1, <1>1
        <4>2. CASE x # H[W[x]]
          <5>1. PICK u \in Slot : W[u] = W[x] /\ N[u] = x
            BY <4>2, <3>1, <1>3 DEF Chain
          <5> QED BY <5>1, <3>1, <1>1, <1>a, <1>3
        <4> QED BY <4>1, <4>2
      <3>4. ASSUME N2[x] # NULL PROVE W2[N2[x]] = W2[x] /\ R2[x] < R2[N2[x]] /\ N2[x] # H2[W2[x]]
        <4>1. N[x] \in Slot /\ N[x] # t /\ W[N[x]] = W[x] /\ R[x] < R[N[x]] /\ N[x] # H[W[x]]
          BY <3>4, <3>1, <1>a, <1>b, <1>3 DEF Chain
        <4> QED BY <4>1, <3>1, <1>1, <2>2, <1>3
      <3> QED BY <3>2, <3>3, <3>4
    <2> QED BY <2>1, <2>2
  <1>4. ASSUME NEW x \in Slot, NEW u \in Slot, W2[x] \in Lists, W2[u] \in Lists, N2[x] = N2[u],
               N2[x] # NULL
        PROVE  x = u
    <2>1. CASE x # t /\ u # t
      BY <2>1, <1>4, <1>1 DEF Chain
    <2>2. ASSUME NEW y \in Slot, y # t, W2[y] \in Lists, N2[y] = N2[t], N2[t] # NULL PROVE FALSE
      <3>1. W[y] \in Lists /\ N[y] = H[p] /\ N[y] # NULL
        BY <2>2, <1>1
      <3> QED BY <3>1 DEF Chain
    <2>3. CASE x = t
      BY <2>3, <1>4, <2>2
    <2>4. CASE u = t
      BY <2>4, <1>4, <2>2
    <2> QED BY <2>1, <2>3, <2>4
  <1>5. Chain(H2, N2, W2, R2)
    BY <1>2, <1>3, <1>4 DEF Chain
  <1> QED BY <1>1, <1>5 DEF H2, W2, Chained

(* A thread is put behind b. *)
LEMMA ChainAfter ==
    ASSUME NEW H, NEW N, NEW W, NEW R, Ghost(H, N, W, R), Chain(H, N, W, R),
           NEW b \in Slot, W[b] \in Lists, NEW t \in Slot, W[t] = Nowhere,
           NEW N2 \in [Slot -> Link], N2[t] = N[b], N2[b] = t,
           SameBut({t, b}, N, N2)
    PROVE  Chained(H, N2, [W EXCEPT ![t] = W[b]])
  <1> \A u \in Slot : u # t /\ u # b => N2[u] = N[u]
    BY DEF SameBut
  <1> DEFINE p == W[b]
             W2 == [W EXCEPT ![t] = p]
             R2 == [u \in Slot |-> IF u = t THEN R[b] + 1
                                   ELSE IF R[u] > R[b] THEN R[u] + 1 ELSE R[u]]
  <1>1. /\ W2[t] = p /\ \A u \in Slot : u # t => W2[u] = W[u]
        /\ R2 \in [Slot -> Nat] /\ R2[t] = R[b] + 1
        /\ \A u \in Slot : R[u] \in Nat
        /\ \A u \in Slot : u # t => R2[u] = IF R[u] > R[b] THEN R[u] + 1 ELSE R[u]
    BY DEF Ghost
  <1>a. /\ \A q \in Lists : H[q] \in Link
        /\ \A u \in Slot : N[u] \in Link /\ W[u] \in Lists \cup {Nowhere}
        /\ Nowhere \notin Lists /\ NULL \notin Slot /\ t # NULL /\ t # b
        /\ (\A x \in Link : x # NULL => x \in Slot)
    BY NowhereIsNoList, NullIsNoSlot DEF Ghost
  <1>c. p \in Lists /\ p = W[b]
    OBVIOUS
  <1> HIDE DEF p, W2, R2
  <1>b. (\A q \in Lists : H[q] # t) /\ (\A u \in Slot : W[u] \in Lists => N[u] # t)
    BY <1>a DEF Chain
  <1>2. \A q \in Lists : H[q] # NULL => W2[H[q]] = q
    BY <1>1, <1>a, <1>b DEF Chain
  <1>3. ASSUME NEW x \in Slot, W2[x] \in Lists
        PROVE  /\ H[W2[x]] # NULL
               /\ x # H[W2[x]] => \E u \in Slot : W2[u] = W2[x] /\ N2[u] = x
               /\ N2[x] # NULL => W2[N2[x]] = W2[x] /\ R2[x] < R2[N2[x]] /\ N2[x] # H[W2[x]]
    <2>1. CASE x = t
      <3>1. H[p] # NULL
        BY <1>c DEF Chain
      <3>2. W2[b] = p /\ N2[b] = x
        BY <2>1, <1>1, <1>a, <1>c
      <3>3. ASSUME N2[t] # NULL PROVE W2[N2[t]] = p /\ R2[t] < R2[N2[t]] /\ N2[t] # H[p]
        <4>1. N[b] \in Slot /\ N[b] # t /\ W[N[b]] = p /\ R[b] < R[N[b]] /\ N[b] # H[p]
          BY <3>3, <1>a, <1>b, <1>c DEF Chain
        <4> QED BY <4>1, <1>1
      <3> QED BY <2>1, <3>1, <3>2, <3>3, <1>1
    <2>2. CASE x # t
      <3>1. W2[x] = W[x] /\ H[W[x]] # NULL
        BY <2>2, <1>1, <1>3 DEF Chain
      <3>3. ASSUME x # H[W2[x]] PROVE \E u \in Slot : W2[u] = W2[x] /\ N2[u] = x
        <4>1. PICK u \in Slot : W[u] = W[x] /\ N[u] = x
          BY <3>3, <3>1, <1>3 DEF Chain
        <4>2. u # t
          BY <4>1, <1>a, <1>3, <3>1
        <4>3. CASE u = b
          BY <4>1, <4>3, <3>1, <1>1, <1>c
        <4>4. CASE u # b
          BY <4>1, <4>2, <4>4, <3>1, <1>1
        <4> QED BY <4>3, <4>4
      <3>4. ASSUME N2[x] # NULL PROVE W2[N2[x]] = W2[x] /\ R2[x] < R2[N2[x]] /\ N2[x] # H[W2[x]]
        <4>1. CASE x = b
          BY <4>1, <1>1, <1>a, <1>b, <1>c
        <4>2. CASE x # b
          <5>1. N2[x] = N[x]
            BY <4>2, <2>2
          <5>2. N[x] \in Slot /\ N[x] # t /\ W[N[x]] = W[x] /\ R[x] < R[N[x]] /\ N[x] # H[W[x]]
            BY <3>4, <5>1, <3>1, <1>a, <1>b, <1>3 DEF Chain
          <5>3. R2[x] < R2[N[x]]
            BY <5>2, <1>1, <2>2
          <5> QED BY <5>1, <5>2, <5>3, <3>1, <1>1, <2>2, <1>3
        <4> QED BY <4>1, <4>2
      <3> QED BY <3>1, <3>3, <3>4
    <2> QED BY <2>1, <2>2
  <1>4. ASSUME NEW x \in Slot, NEW u \in Slot, W2[x] \in Lists, W2[u] \in Lists, N2[x] = N2[u],
               N2[x] # NULL
        PROVE  x = u
    <2>0. \A y \in Slot : y # t /\ y # b /\ W2[y] \in Lists => W[y] \in Lists /\ N2[y] = N[y] /\ N[y] # t
      BY <1>1, <1>b
    <2>1. CASE x # t /\ u # t /\ x # b /\ u # b
      BY <2>0, <2>1, <1>4, <1>1 DEF Chain
    <2>2. ASSUME NEW y \in Slot, y # t, W2[y] \in Lists, N2[y] = N2[t], N2[t] # NULL PROVE FALSE
      <3>1. CASE y = b
        BY <3>1, <2>2, <1>b, <1>c
      <3>2. CASE y # b
        BY <2>0, <2>2, <3>2, <1>c DEF Chain
      <3> QED BY <3>1, <3>2
    <2>3. CASE x = t
      BY <2>3, <1>4, <2>2
    <2>4. CASE u = t
      BY <2>4, <1>4, <2>2
    <2>5. CASE x = b /\ u # t
      BY <2>5, <2>0, <1>4
    <2>6. CASE u = b /\ x # t
      BY <2>6, <2>0, <1>4
    <2> QED BY <2>1, <2>3, <2>4, <2>5, <2>6
  <1>5. Chain(H, N2, W2, R2)
    BY <1>2, <1>3, <1>4 DEF Chain
  <1> QED BY <1>1, <1>5 DEF W2, p, Chained

(* The first thread of a list is taken out. *)
LEMMA ChainPop ==
    ASSUME NEW H, NEW N, NEW W, NEW R, Ghost(H, N, W, R), Chain(H, N, W, R),
           NEW p \in Lists, NEW t \in Slot, H[p] = t,
           NEW N2 \in [Slot -> Link], SameBut({t}, N, N2)
    PROVE  /\ W[t] = p
           /\ Chain([H EXCEPT ![p] = N[t]], N2, [W EXCEPT ![t] = Nowhere], R)
  <1> \A u \in Slot : u # t => N2[u] = N[u]
    BY DEF SameBut
  <1> DEFINE H2 == [H EXCEPT ![p] = N[t]]
             W2 == [W EXCEPT ![t] = Nowhere]
  <1>1. /\ H2[p] = N[t] /\ \A q \in Lists : q # p => H2[q] = H[q]
        /\ W2[t] = Nowhere /\ \A u \in Slot : u # t => W2[u] = W[u]
    BY DEF Ghost
  <1>a. /\ \A q \in Lists : H[q] \in Link
        /\ \A u \in Slot : N[u] \in Link /\ W[u] \in Lists \cup {Nowhere}
        /\ Nowhere \notin Lists /\ NULL \notin Slot /\ t # NULL
        /\ (\A x \in Link : x # NULL => x \in Slot) /\ \A u \in Slot : R[u] \in Nat
    BY NowhereIsNoList, NullIsNoSlot DEF Ghost
  <1> HIDE DEF H2, W2
  <1>b. W[t] = p
    BY <1>a DEF Chain
  <1>c. \A u \in Slot : W[u] \in Lists => N[u] # t
    BY <1>a, <1>b DEF Chain
  <1>2. \A q \in Lists : H2[q] # NULL => W2[H2[q]] = q
    <2> TAKE q \in Lists
    <2>1. CASE q = p
      BY <2>1, <1>1, <1>a, <1>b, <1>c DEF Chain
    <2>2. CASE q # p
      BY <2>2, <1>1, <1>a, <1>b DEF Chain
    <2> QED BY <2>1, <2>2
  <1>3. ASSUME NEW x \in Slot, W2[x] \in Lists
        PROVE  /\ H2[W2[x]] # NULL
               /\ x # H2[W2[x]] => \E u \in Slot : W2[u] = W2[x] /\ N2[u] = x
               /\ N2[x] # NULL => W2[N2[x]] = W2[x] /\ R[x] < R[N2[x]] /\ N2[x] # H2[W2[x]]
    <2>1. x # t /\ W2[x] = W[x] /\ N2[x] = N[x] /\ H[W[x]] # NULL
      BY <1>1, <1>3, <1>a DEF Chain
    <2>2. H2[W2[x]] # NULL
      <3>1. CASE W[x] = p
        <4>1. PICK u \in Slot : W[u] = p /\ N[u] = x
          BY <3>1, <2>1 DEF Chain
        <4>2. N[t] # NULL
          <5> SUFFICES ASSUME N[t] = NULL PROVE FALSE
            OBVIOUS
          <5> DEFINE B == {k \in Nat : \E y \in Slot : y # t /\ W[y] = p /\ R[y] = k}
          <5>1. R[x] \in B
            BY <2>1, <3>1, <1>a
          <5>2. PICK k \in B : \A j \in B : k <= j
            <6>1. B \subseteq Nat /\ B # {}
              BY <5>1
            <6> HIDE DEF B
            <6> QED BY <6>1, LeastNat
          <5>3. PICK y \in Slot : y # t /\ W[y] = p /\ R[y] = k
            BY <5>2
          <5>4. PICK z \in Slot : W[z] = p /\ N[z] = y
            BY <5>3 DEF Chain
          <5>5. R[z] < R[y] /\ z # t
            BY <5>3, <5>4, <1>a DEF Chain
          <5>6. R[z] \in B
            BY <5>4, <5>5, <1>a
          <5> QED BY <5>2, <5>3, <5>5, <5>6, <1>a
        <4> QED BY <3>1, <2>1, <4>2, <1>1
      <3>2. CASE W[x] # p
        BY <3>2, <2>1, <1>1, <1>3
      <3> QED BY <3>1, <3>2
    <2>3. ASSUME x # H2[W2[x]] PROVE \E u \in Slot : W2[u] = W2[x] /\ N2[u] = x
      <3>1. x # H[W[x]]
        BY <2>1, <2>3, <1>1, <1>3
      <3>2. PICK u \in Slot : W[u] = W[x] /\ N[u] = x
        BY <3>1, <2>1, <1>3 DEF Chain
      <3>3. u # t
        BY <3>2, <2>1, <2>3, <1>1, <1>b
      <3> QED BY <3>2, <3>3, <2>1, <1>1
    <2>4. ASSUME N2[x] # NULL PROVE W2[N2[x]] = W2[x] /\ R[x] < R[N2[x]] /\ N2[x] # H2[W2[x]]
      <3>1. N[x] \in Slot /\ N[x] # t /\ W[N[x]] = W[x] /\ R[x] < R[N[x]] /\ N[x] # H[W[x]]
        BY <2>4, <2>1, <1>a, <1>c, <1>3 DEF Chain
      <3>2. N[x] # H2[W[x]]
        <4>1. CASE W[x] = p
          <5>1. N[x] # N[t]
            <6>1. W[x] \in Lists /\ W[t] \in Lists /\ N[x] # NULL /\ x # t
              BY <4>1, <3>1, <2>1, <1>a, <1>b
            <6> QED BY <6>1 DEF Chain
          <5> QED BY <4>1, <5>1, <1>1
        <4>2. CASE W[x] # p
          BY <4>2, <3>1, <1>1, <2>1, <1>3
        <4> QED BY <4>1, <4>2
      <3> QED BY <3>1, <3>2, <2>1, <1>1
    <2> QED BY <2>2, <2>3, <2>4
  <1>4. ASSUME NEW x \in Slot, NEW u \in Slot, W2[x] \in Lists, W2[u] \in Lists, N2[x] = N2[u],
               N2[x] # NULL
        PROVE  x = u
    BY <1>4, <1>1, <1>a DEF Chain
  <1>5. Chain(H2, N2, W2, R)
    BY <1>2, <1>3, <1>4 DEF Chain
  <1> QED BY <1>b, <1>5 DEF W2, H2

(* A thread behind b is taken out. *)
LEMMA ChainCut ==
    ASSUME NEW H, NEW N, NEW W, NEW R, Ghost(H, N, W, R), Chain(H, N, W, R),
           NEW b \in Slot, W[b] \in Lists, NEW t \in Slot, N[b] = t,
           NEW N2 \in [Slot -> Link], N2[b] = N[t],
           SameBut({t, b}, N, N2)
    PROVE  /\ W[t] = W[b] /\ b # t
           /\ Chain(H, N2, [W EXCEPT ![t] = Nowhere], R)
  <1> \A u \in Slot : u # t /\ u # b => N2[u] = N[u]
    BY DEF SameBut
  <1> DEFINE p == W[b]
             W2 == [W EXCEPT ![t] = Nowhere]
  <1>1. /\ W2[t] = Nowhere /\ \A u \in Slot : u # t => W2[u] = W[u]
        /\ p \in Lists /\ W[b] = p
    BY DEF Ghost
  <1>a. /\ \A q \in Lists : H[q] \in Link
        /\ \A u \in Slot : N[u] \in Link /\ W[u] \in Lists \cup {Nowhere}
        /\ Nowhere \notin Lists /\ NULL \notin Slot /\ t # NULL
        /\ (\A x \in Link : x # NULL => x \in Slot) /\ \A u \in Slot : R[u] \in Nat
    BY NowhereIsNoList, NullIsNoSlot DEF Ghost
  <1> HIDE DEF p, W2
  <1>b. W[t] = p /\ R[b] < R[t] /\ t # H[p] /\ b # t
    BY <1>1, <1>a DEF Chain
  <1>c. \A u \in Slot : W[u] \in Lists /\ u # b => N[u] # t
    BY <1>1, <1>a, <1>b DEF Chain
  <1>2. \A q \in Lists : H[q] # NULL => W2[H[q]] = q
    BY <1>1, <1>a, <1>b DEF Chain
  <1>3. ASSUME NEW x \in Slot, W2[x] \in Lists
        PROVE  /\ H[W2[x]] # NULL
               /\ x # H[W2[x]] => \E u \in Slot : W2[u] = W2[x] /\ N2[u] = x
               /\ N2[x] # NULL => W2[N2[x]] = W2[x] /\ R[x] < R[N2[x]] /\ N2[x] # H[W2[x]]
    <2>1. x # t /\ W2[x] = W[x] /\ H[W[x]] # NULL
      BY <1>1, <1>3, <1>a DEF Chain
    <2>3. ASSUME x # H[W2[x]] PROVE \E u \in Slot : W2[u] = W2[x] /\ N2[u] = x
      <3>2. PICK u \in Slot : W[u] = W[x] /\ N[u] = x
        BY <2>1, <2>3, <1>3 DEF Chain
      <3>3. CASE u = t
        BY <3>2, <3>3, <2>1, <1>1, <1>b
      <3>4. CASE u # t
        <4>1. u # b
          BY <3>2, <2>1
        <4> QED BY <3>2, <3>4, <4>1, <2>1, <1>1
      <3> QED BY <3>3, <3>4
    <2>4. ASSUME N2[x] # NULL PROVE W2[N2[x]] = W2[x] /\ R[x] < R[N2[x]] /\ N2[x] # H[W2[x]]
      <3>1. CASE x = b
        <4>1. N[t] \in Slot /\ W[N[t]] = p /\ R[t] < R[N[t]] /\ N[t] # H[p]
          BY <2>4, <3>1, <1>a, <1>b, <1>1 DEF Chain
        <4>2. N[t] # t /\ R[b] < R[N[t]]
          BY <4>1, <1>a, <1>b
        <4> QED BY <4>1, <4>2, <3>1, <2>1, <1>1
      <3>2. CASE x # b
        <4>1. N2[x] = N[x]
          BY <3>2, <2>1
        <4>2. N[x] \in Slot /\ N[x] # t /\ W[N[x]] = W[x] /\ R[x] < R[N[x]] /\ N[x] # H[W[x]]
          BY <4>1, <2>4, <2>1, <1>a, <1>c, <1>3, <3>2 DEF Chain
        <4> QED BY <4>1, <4>2, <2>1, <1>1
      <3> QED BY <3>1, <3>2
    <2> QED BY <2>1, <2>3, <2>4
  <1>4. ASSUME NEW x \in Slot, NEW u \in Slot, W2[x] \in Lists, W2[u] \in Lists, N2[x] = N2[u],
               N2[x] # NULL
        PROVE  x = u
    <2>0. \A y \in Slot : W2[y] \in Lists => y # t /\ W[y] \in Lists /\ (y # b => N2[y] = N[y] /\ N[y] # t)
      BY <1>1, <1>a, <1>c
    <2>1. CASE x # b /\ u # b
      BY <2>0, <2>1, <1>4 DEF Chain
    <2>2. ASSUME NEW y \in Slot, y # b, W2[y] \in Lists, N2[y] = N2[b], N2[b] # NULL PROVE FALSE
      <3>1. y # t /\ W[y] \in Lists /\ N[y] = N[t] /\ N[y] # NULL /\ W[t] \in Lists
        BY <2>0, <2>2, <1>b, <1>1
      <3> QED BY <3>1 DEF Chain
    <2>3. CASE x = b
      BY <2>3, <1>4, <2>2
    <2>4. CASE u = b
      BY <2>4, <1>4, <2>2
    <2> QED BY <2>1, <2>3, <2>4
  <1>5. Chain(H, N2, W2, R)
    BY <1>2, <1>3, <1>4, <1>a DEF Chain
  <1> QED BY <1>b, <1>1, <1>5 DEF W2

-----------------------------------------------------------------------------
(* All the lists of the scheduler at once, and the operations on the ready queues. *)

Heads(L) == [p \in Lists |-> IF p[1] = "READY" THEN L.head[p[2]]
                             ELSE IF p[1] = "BLOCKED" THEN L.waiters[p[2]] ELSE L.sleep]

(* The ready queues backwards. *)
Mirror(L, W) ==
    \A q \in Queue :
        /\ L.head[q] = NULL <=> L.tail[q] = NULL
        /\ L.tail[q] # NULL => W[L.tail[q]] = <<"READY", q>> /\ L.next[L.tail[q]] = NULL
        /\ \A t \in Slot : W[t] = <<"READY", q>> =>
              /\ L.next[t] = NULL => t = L.tail[q]
              /\ t = L.head[q] => L.prev[t] = NULL
              /\ L.next[t] # NULL => L.prev[L.next[t]] = t

(* The idle thread alone can be in the queue of its level, be it queued
   elsewhere or running; it neither sleeps nor waits.                      *)
IdleAside(L, W) ==
    /\ L.head[IDLE] \in {NULL, Idle} /\ L.tail[IDLE] = L.head[IDLE]
    /\ W[Idle] = Nowhere \/ \E q \in Queue : W[Idle] = <<"READY", q>>
    /\ W[Idle] = Nowhere => L.next[Idle] \in {NULL, Idle}

(* The link fields hold the lists that W says. *)
Linked(L, W) == /\ L \in Links /\ W \in [Slot -> Lists \cup {Nowhere}]
                /\ Chained(Heads(L), L.next, W)
                /\ Mirror(L, W)
                /\ IdleAside(L, W)

LEMMA QueueLevels == Queue \subseteq Level /\ IDLE \notin Queue /\ IDLE \in Level /\ Idle \in Slot
                     /\ (Level \ {IDLE} = Queue \cup {ISR}) /\ ISR \notin Queue
  BY SchedAssumption DEF Queue, Level, IDLE, LOW, REALTIME, ISR, Idle, Slot

LEMMA ListNames ==
    /\ \A q \in Queue : <<"READY", q>> \in Lists
    /\ \A m \in Mutex : <<"BLOCKED", m>> \in Lists
    /\ <<"SLEEPING", NULL>> \in Lists
    /\ \A p \in Lists : \/ \E q \in Queue : p = <<"READY", q>>
                        \/ \E m \in Mutex : p = <<"BLOCKED", m>>
                        \/ p = <<"SLEEPING", NULL>>
  BY DEF Lists

LEMMA HeadsType ==
    ASSUME NEW L \in Links
    PROVE  /\ Heads(L) \in [Lists -> Link]
           /\ \A q \in Queue : Heads(L)[<<"READY", q>>] = L.head[q]
           /\ \A m \in Mutex : Heads(L)[<<"BLOCKED", m>>] = L.waiters[m]
           /\ Heads(L)[<<"SLEEPING", NULL>>] = L.sleep
  <1>1. \A q \in Queue : L.head[q] \in Link
    BY QueueLevels DEF Links
  <1>2. \A m \in Mutex : L.waiters[m] \in Link
    BY DEF Links
  <1>3. L.sleep \in Link
    BY DEF Links
  <1>4. /\ \A q \in Queue : Heads(L)[<<"READY", q>>] = L.head[q]
        /\ \A m \in Mutex : Heads(L)[<<"BLOCKED", m>>] = L.waiters[m]
        /\ Heads(L)[<<"SLEEPING", NULL>>] = L.sleep
    BY ListNames DEF Heads
  <1>5. \A p \in Lists : Heads(L)[p] \in Link
    BY <1>1, <1>2, <1>3, <1>4, ListNames
  <1>6. Heads(L) = [p \in Lists |-> Heads(L)[p]]
    BY DEF Heads
  <1> QED BY <1>4, <1>5, <1>6

LEMMA HeadsReady ==
    ASSUME NEW L \in Links, NEW L2 \in Links, NEW q \in Queue,
           L2.sleep = L.sleep, L2.waiters = L.waiters,
           \A r \in Level : r # q => L2.head[r] = L.head[r]
    PROVE  Heads(L2) = [Heads(L) EXCEPT ![<<"READY", q>>] = L2.head[q]]
  <1> DEFINE H == [Heads(L) EXCEPT ![<<"READY", q>>] = L2.head[q]]
  <1>1. \A p \in Lists : Heads(L2)[p] = H[p]
    <2> TAKE p \in Lists
    <2>1. CASE \E r \in Queue : p = <<"READY", r>>
      <3>1. PICK r \in Queue : p = <<"READY", r>>
        BY <2>1
      <3>2. CASE r = q
        BY <3>1, <3>2, HeadsType
      <3>3. CASE r # q
        BY <3>1, <3>3, HeadsType, QueueLevels
      <3> QED BY <3>2, <3>3
    <2>2. CASE \E m \in Mutex : p = <<"BLOCKED", m>>
      <3>1. PICK m \in Mutex : p = <<"BLOCKED", m>>
        BY <2>2
      <3>2. p # <<"READY", q>>
        BY <3>1
      <3> QED BY <3>1, <3>2, HeadsType
    <2>3. CASE p = <<"SLEEPING", NULL>>
      <3>2. p # <<"READY", q>>
        BY <2>3
      <3> QED BY <2>3, <3>2, HeadsType
    <2> QED BY <2>1, <2>2, <2>3, ListNames
  <1>2. Heads(L2) = [p \in Lists |-> Heads(L2)[p]]
    BY DEF Heads
  <1>3. H = [p \in Lists |-> H[p]]
    BY DEF Heads
  <1> QED BY <1>1, <1>2, <1>3

LEMMA HeadsSame ==
    ASSUME NEW L \in Links, NEW L2 \in Links,
           L2.sleep = L.sleep, L2.waiters = L.waiters,
           \A r \in Queue : L2.head[r] = L.head[r]
    PROVE  Heads(L2) = Heads(L)
  <1>1. \A p \in Lists : Heads(L2)[p] = Heads(L)[p]
    BY ListNames, HeadsType
  <1>2. Heads(L2) = [p \in Lists |-> Heads(L2)[p]] /\ Heads(L) = [p \in Lists |-> Heads(L)[p]]
    BY DEF Heads
  <1> QED BY <1>1, <1>2

LEMMA HeadsSleep ==
    ASSUME NEW L \in Links, NEW L2 \in Links, L2.head = L.head, L2.waiters = L.waiters
    PROVE  Heads(L2) = [Heads(L) EXCEPT ![<<"SLEEPING", NULL>>] = L2.sleep]
  <1> DEFINE H == [Heads(L) EXCEPT ![<<"SLEEPING", NULL>>] = L2.sleep]
  <1>1. \A p \in Lists : Heads(L2)[p] = H[p]
    <2> TAKE p \in Lists
    <2>1. CASE p = <<"SLEEPING", NULL>>
      BY <2>1, HeadsType
    <2>2. CASE p # <<"SLEEPING", NULL>>
      <3>1. H[p] = Heads(L)[p]
        BY <2>2, HeadsType
      <3> QED BY <2>2, <3>1, ListNames, HeadsType
    <2> QED BY <2>1, <2>2
  <1>2. Heads(L2) = [p \in Lists |-> Heads(L2)[p]]
    BY DEF Heads
  <1>3. H = [p \in Lists |-> H[p]]
    BY DEF Heads
  <1> QED BY <1>1, <1>2, <1>3

LEMMA HeadsWait ==
    ASSUME NEW L \in Links, NEW L2 \in Links, NEW m \in Mutex, L2.head = L.head, L2.sleep = L.sleep,
           \A n \in Mutex : n # m => L2.waiters[n] = L.waiters[n]
    PROVE  Heads(L2) = [Heads(L) EXCEPT ![<<"BLOCKED", m>>] = L2.waiters[m]]
  <1> DEFINE H == [Heads(L) EXCEPT ![<<"BLOCKED", m>>] = L2.waiters[m]]
  <1>1. \A p \in Lists : Heads(L2)[p] = H[p]
    <2> TAKE p \in Lists
    <2>1. CASE p = <<"BLOCKED", m>>
      BY <2>1, HeadsType
    <2>2. CASE p # <<"BLOCKED", m>>
      <3>1. H[p] = Heads(L)[p]
        BY <2>2, HeadsType
      <3>2. \A n \in Mutex : p = <<"BLOCKED", n>> => n # m
        BY <2>2
      <3> QED BY <2>2, <3>1, <3>2, ListNames, HeadsType
    <2> QED BY <2>1, <2>2
  <1>2. Heads(L2) = [p \in Lists |-> Heads(L2)[p]]
    BY DEF Heads
  <1>3. H = [p \in Lists |-> H[p]]
    BY DEF Heads
  <1> QED BY <1>1, <1>2, <1>3

(* What each operation does to the fields. *)
LEMMA PushBackFields ==
    ASSUME NEW L \in Links, NEW q \in Level, NEW t \in Slot
    PROVE  LET L2 == queue_push_back(L, q, t) last == L.tail[q]
           IN /\ L2 \in Links /\ L2.sleep = L.sleep /\ L2.waiters = L.waiters
              /\ \A r \in Level : r # q => L2.head[r] = L.head[r] /\ L2.tail[r] = L.tail[r]
              /\ L2.tail[q] = t
              /\ L2.head[q] = IF last = NULL THEN t ELSE L.head[q]
              /\ last # t => L2.next[t] = NULL
              /\ last # NULL => L2.next[last] = t
              /\ \A u \in Slot : u # t /\ u # last => L2.next[u] = L.next[u]
              /\ L2.prev[t] = last
              /\ \A u \in Slot : u # t => L2.prev[u] = L.prev[u]
  <1>1. queue_push_back(L, q, t) \in Links
    BY QueueTypes
  <1> QED BY <1>1, NullIsNoSlot DEF queue_push_back, Links

LEMMA PushFrontFields ==
    ASSUME NEW L \in Links, NEW q \in Level, NEW t \in Slot
    PROVE  LET L2 == queue_push_front(L, q, t) first == L.head[q]
           IN /\ L2 \in Links /\ L2.sleep = L.sleep /\ L2.waiters = L.waiters
              /\ \A r \in Level : r # q => L2.head[r] = L.head[r] /\ L2.tail[r] = L.tail[r]
              /\ L2.head[q] = t
              /\ L2.tail[q] = IF first = NULL THEN t ELSE L.tail[q]
              /\ L2.next[t] = first
              /\ \A u \in Slot : u # t => L2.next[u] = L.next[u]
              /\ first # t => L2.prev[t] = NULL
              /\ first # NULL => L2.prev[first] = t
              /\ \A u \in Slot : u # t /\ u # first => L2.prev[u] = L.prev[u]
  <1>1. queue_push_front(L, q, t) \in Links
    BY QueueTypes
  <1> QED BY <1>1, NullIsNoSlot, SMTT(30) DEF queue_push_front, Links

LEMMA PopFields ==
    ASSUME NEW L \in Links, NEW q \in Level, L.head[q] # NULL
    PROVE  LET L2 == queue_pop_front(L, q) t == L.head[q] n == L.next[t]
           IN /\ L2 \in Links /\ L2.sleep = L.sleep /\ L2.waiters = L.waiters
              /\ t \in Slot
              /\ \A r \in Level : r # q => L2.head[r] = L.head[r] /\ L2.tail[r] = L.tail[r]
              /\ L2.head[q] = n
              /\ L2.tail[q] = IF n = NULL THEN NULL ELSE L.tail[q]
              /\ L2.next[t] = NULL
              /\ \A u \in Slot : u # t => L2.next[u] = L.next[u]
              /\ n # NULL => L2.prev[n] = NULL
              /\ L2.prev[t] = NULL
              /\ \A u \in Slot : u # t /\ u # n => L2.prev[u] = L.prev[u]
  <1>1. L.head[q] \in Slot
    BY NullIsNoSlot DEF Links
  <1>2. queue_pop_front(L, q) \in Links
    BY <1>1, QueueTypes
  <1>3. L.next[L.head[q]] = NULL \/ L.next[L.head[q]] \in Slot
    BY <1>1, NullIsNoSlot DEF Links
  <1>4. CASE L.next[L.head[q]] = NULL
    BY <1>1, <1>2, <1>4, NullIsNoSlot DEF queue_pop_front, Links
  <1>5. CASE L.next[L.head[q]] \in Slot
    <2> DEFINE L2 == queue_pop_front(L, q)
               t == L.head[q]
               n == L.next[t]
    <2>1. /\ L2.sleep = L.sleep /\ L2.waiters = L.waiters
          /\ \A r \in Level : r # q => L2.head[r] = L.head[r] /\ L2.tail[r] = L.tail[r]
          /\ L2.head[q] = n
          /\ L2.tail[q] = IF n = NULL THEN NULL ELSE L.tail[q]
      BY <1>1 DEF queue_pop_front, Links
    <2>2. L2.next[t] = NULL /\ \A u \in Slot : u # t => L2.next[u] = L.next[u]
      BY <1>1 DEF queue_pop_front, Links
    <2>3. L2.prev = [L.prev EXCEPT ![n] = NULL, ![t] = NULL]
      BY <1>5, NullIsNoSlot DEF queue_pop_front, Links
    <2>4. /\ L2.prev[n] = NULL /\ L2.prev[t] = NULL
          /\ \A u \in Slot : u # t /\ u # n => L2.prev[u] = L.prev[u]
      <3>1. L.prev \in [Slot -> Link] /\ n \in Slot /\ t \in Slot
        BY <1>1, <1>5 DEF Links
      <3> HIDE DEF n, t, L2
      <3> QED BY <2>3, <3>1
    <2> QED BY <1>1, <1>2, <2>1, <2>2, <2>4
  <1> QED BY <1>3, <1>4, <1>5

LEMMA RemoveFields ==
    ASSUME NEW L \in Links, NEW q \in Level, NEW t \in Slot
    PROVE  LET L2 == queue_remove(L, q, t) p == L.prev[t] n == L.next[t]
           IN /\ L2 \in Links /\ L2.sleep = L.sleep /\ L2.waiters = L.waiters
              /\ \A r \in Level : r # q => L2.head[r] = L.head[r] /\ L2.tail[r] = L.tail[r]
              /\ L2.head[q] = IF p = NULL THEN n ELSE L.head[q]
              /\ L2.tail[q] = IF n = NULL THEN p ELSE L.tail[q]
              /\ L2.next[t] = NULL
              /\ p # NULL /\ p # t => L2.next[p] = n
              /\ \A u \in Slot : u # t /\ u # p => L2.next[u] = L.next[u]
              /\ L2.prev[t] = NULL
              /\ n # NULL /\ n # t => L2.prev[n] = p
              /\ \A u \in Slot : u # t /\ u # n => L2.prev[u] = L.prev[u]
  <1> DEFINE p == L.prev[t]
             n == L.next[t]
             L2 == queue_remove(L, q, t)
  <1>1. L2 \in Links
    BY QueueTypes
  <1>2. /\ L2.sleep = L.sleep /\ L2.waiters = L.waiters
        /\ L2.head = [L.head EXCEPT ![q] = IF p = NULL THEN n ELSE @]
        /\ L2.tail = [L.tail EXCEPT ![q] = IF n = NULL THEN p ELSE @]
        /\ L2.next = IF p = NULL THEN [L.next EXCEPT ![t] = NULL]
                     ELSE [L.next EXCEPT ![p] = n, ![t] = NULL]
        /\ L2.prev = IF n = NULL THEN [L.prev EXCEPT ![t] = NULL]
                     ELSE [L.prev EXCEPT ![n] = p, ![t] = NULL]
    BY DEF queue_remove, Links
  <1>3. /\ L.head \in [Level -> Link] /\ L.tail \in [Level -> Link]
        /\ L.next \in [Slot -> Link] /\ L.prev \in [Slot -> Link]
        /\ p \in Link /\ n \in Link
    BY DEF Links
  <1>4. (p # NULL => p \in Slot) /\ (n # NULL => n \in Slot)
    BY <1>3 DEF Link
  <1> HIDE DEF L2
  <1>5. /\ \A r \in Level : r # q => L2.head[r] = L.head[r] /\ L2.tail[r] = L.tail[r]
        /\ L2.head[q] = IF p = NULL THEN n ELSE L.head[q]
        /\ L2.tail[q] = IF n = NULL THEN p ELSE L.tail[q]
    BY <1>2, <1>3
  <1>6. /\ L2.next[t] = NULL
        /\ p # NULL /\ p # t => L2.next[p] = n
        /\ \A u \in Slot : u # t /\ u # p => L2.next[u] = L.next[u]
    <2> HIDE DEF n, p
    <2> QED BY <1>2, <1>3, <1>4
  <1>7. /\ L2.prev[t] = NULL
        /\ n # NULL /\ n # t => L2.prev[n] = p
        /\ \A u \in Slot : u # t /\ u # n => L2.prev[u] = L.prev[u]
    <2> HIDE DEF n, p
    <2> QED BY <1>2, <1>3, <1>4
  <1> QED BY <1>1, <1>2, <1>5, <1>6, <1>7 DEF L2

(* The sleep queue is left as it is. *)
SleepersKept(L, L2, W) ==
    \A u \in Slot : W[u] = <<"SLEEPING", NULL>> => L2.next[u] = L.next[u]

LEMMA LinkedFacts ==
    ASSUME NEW L, NEW W, Linked(L, W)
    PROVE  /\ L \in Links /\ W \in [Slot -> Lists \cup {Nowhere}]
           /\ Mirror(L, W) /\ IdleAside(L, W)
           /\ \E R \in [Slot -> Nat] : Chain(Heads(L), L.next, W, R) /\ Ghost(Heads(L), L.next, W, R)
           /\ L.next \in [Slot -> Link] /\ L.prev \in [Slot -> Link]
           /\ \A q \in Level : L.head[q] \in Link /\ L.tail[q] \in Link
  <1>1. L \in Links /\ W \in [Slot -> Lists \cup {Nowhere}] /\ Mirror(L, W) /\ IdleAside(L, W)
    BY DEF Linked
  <1>2. L.next \in [Slot -> Link] /\ L.prev \in [Slot -> Link]
        /\ \A q \in Level : L.head[q] \in Link /\ L.tail[q] \in Link
    BY <1>1 DEF Links
  <1>3. PICK R \in [Slot -> Nat] : Chain(Heads(L), L.next, W, R)
    BY DEF Linked, Chained
  <1>4. Ghost(Heads(L), L.next, W, R)
    BY <1>1, <1>2, HeadsType DEF Ghost
  <1> QED BY <1>1, <1>2, <1>3, <1>4

LEMMA NextIsBeside ==
    ASSUME NEW L, NEW W, Linked(L, W), NEW t \in Slot, W[t] \in Lists, L.next[t] # NULL
    PROVE  L.next[t] \in Slot /\ W[L.next[t]] = W[t]
  <1>1. PICK R \in [Slot -> Nat] : Chain(Heads(L), L.next, W, R)
    BY DEF Linked, Chained
  <1>2. L.next[t] \in Link
    BY LinkedFacts
  <1> QED BY <1>1, <1>2, NullIsNoSlot DEF Chain

LEMMA PushBackLinked ==
    ASSUME NEW L, NEW W, Linked(L, W), NEW q \in Queue, NEW t \in Slot, W[t] = Nowhere
    PROVE  /\ Linked(queue_push_back(L, q, t), [W EXCEPT ![t] = <<"READY", q>>])
           /\ SleepersKept(L, queue_push_back(L, q, t), W)
  <1> DEFINE L2 == queue_push_back(L, q, t)
             W2 == [W EXCEPT ![t] = <<"READY", q>>]
             last == L.tail[q]
             p == <<"READY", q>>
  <1>0. /\ L \in Links /\ W \in [Slot -> Lists \cup {Nowhere}] /\ Mirror(L, W) /\ IdleAside(L, W)
        /\ L.next \in [Slot -> Link] /\ L.prev \in [Slot -> Link] /\ q \in Level /\ q # IDLE
        /\ \A r \in Level : L.head[r] \in Link /\ L.tail[r] \in Link
        /\ p \in Lists /\ p # Nowhere /\ Nowhere \notin Lists
        /\ NULL \notin Slot /\ (\A x \in Link : x # NULL => x \in Slot)
        /\ t # NULL /\ Queue \subseteq Level /\ IDLE \in Level
    BY LinkedFacts, QueueLevels, ListNames, NowhereIsNoList, NullIsNoSlot
  <1>1. last # NULL => last \in Slot /\ W[last] = p /\ L.next[last] = NULL /\ last # t
    BY <1>0 DEF Mirror
  <1>2. /\ L2 \in Links /\ L2.sleep = L.sleep /\ L2.waiters = L.waiters
        /\ \A r \in Level : r # q => L2.head[r] = L.head[r] /\ L2.tail[r] = L.tail[r]
        /\ L2.tail[q] = t
        /\ L2.head[q] = IF last = NULL THEN t ELSE L.head[q]
        /\ L2.next[t] = NULL
        /\ last # NULL => L2.next[last] = t
        /\ \A u \in Slot : u # t /\ u # last => L2.next[u] = L.next[u]
        /\ L2.prev[t] = last
        /\ \A u \in Slot : u # t => L2.prev[u] = L.prev[u]
    BY <1>0, <1>1, PushBackFields
  <1>3. L2.next \in [Slot -> Link]
    BY <1>2 DEF Links
  <1>4. W2[t] = p /\ W2 \in [Slot -> Lists \cup {Nowhere}] /\ \A u \in Slot : u # t => W2[u] = W[u]
    BY <1>0
  <1> HIDE DEF L2, W2, last, p
  <1>5. PICK R \in [Slot -> Nat] : Chain(Heads(L), L.next, W, R) /\ Ghost(Heads(L), L.next, W, R)
    BY LinkedFacts
  <1>6. Chained(Heads(L2), L2.next, W2)
    <2>1. CASE last = NULL
      <3>1. Heads(L2) = [Heads(L) EXCEPT ![p] = t]
        BY <2>1, <1>0, <1>2, HeadsReady DEF p
      <3>2. Heads(L)[p] = NULL
        BY <2>1, <1>0, HeadsType DEF Mirror, last, p
      <3>3. SameBut({t}, L.next, L2.next) /\ L2.next[t] = Heads(L)[p]
        BY <2>1, <3>2, <1>0, <1>2 DEF SameBut
      <3>4. W2 = [W EXCEPT ![t] = p]
        BY DEF W2, p
      <3>5. Chained([Heads(L) EXCEPT ![p] = t], L2.next, [W EXCEPT ![t] = p])
        <4>1. p \in Lists
          BY <1>0
        <4> QED BY <4>1, <3>3, <1>3, <1>5, ChainFront
      <3> QED BY <3>1, <3>4, <3>5
    <2>2. CASE last # NULL
      <3>1. Heads(L2) = Heads(L)
        <4>1. \A r \in Queue : L2.head[r] = L.head[r]
          BY <2>2, <1>0, <1>2
        <4> QED BY <4>1, <1>0, <1>2, HeadsSame
      <3>2. W2 = [W EXCEPT ![t] = W[last]]
        BY <2>2, <1>1 DEF W2, p
      <3>3. Chained(Heads(L), L2.next, [W EXCEPT ![t] = W[last]])
        <4>1. L2.next[t] = L.next[last] /\ L2.next[last] = t /\ last \in Slot /\ W[last] \in Lists
          BY <2>2, <1>0, <1>1, <1>2
        <4>2. SameBut({t, last}, L.next, L2.next)
          BY <1>2 DEF SameBut
        <4> QED BY <4>1, <4>2, <1>3, <1>5, ChainAfter
      <3> QED BY <3>1, <3>2, <3>3
    <2> QED BY <2>1, <2>2
  <1>7. ASSUME NEW r \in Queue
        PROVE  /\ L2.head[r] = NULL <=> L2.tail[r] = NULL
               /\ L2.tail[r] # NULL => W2[L2.tail[r]] = <<"READY", r>> /\ L2.next[L2.tail[r]] = NULL
               /\ \A x \in Slot : W2[x] = <<"READY", r>> =>
                     /\ L2.next[x] = NULL => x = L2.tail[r]
                     /\ x = L2.head[r] => L2.prev[x] = NULL
                     /\ L2.next[x] # NULL => L2.prev[L2.next[x]] = x
    <2>a. /\ L.head[r] = NULL <=> L.tail[r] = NULL
          /\ L.tail[r] # NULL => W[L.tail[r]] = <<"READY", r>> /\ L.next[L.tail[r]] = NULL
          /\ \A x \in Slot : W[x] = <<"READY", r>> =>
                     /\ L.next[x] = NULL => x = L.tail[r]
                     /\ x = L.head[r] => L.prev[x] = NULL
                     /\ L.next[x] # NULL => L.prev[L.next[x]] = x
      BY <1>0 DEF Mirror
    <2>b. <<"READY", r>> # Nowhere /\ <<"READY", r>> \in Lists /\ (r # q => <<"READY", r>> # p)
      BY ListNames, <1>0 DEF p
    <2>1. CASE r = q
      <3>1. L2.head[q] # NULL /\ L2.tail[q] = t
        BY <1>0, <1>2, <2>a, <2>1 DEF last
      <3>2. W2[L2.tail[q]] = <<"READY", r>> /\ L2.next[L2.tail[q]] = NULL
        BY <3>1, <1>2, <1>4, <2>1 DEF p
      <3>3. ASSUME NEW x \in Slot, W2[x] = <<"READY", r>>
            PROVE /\ L2.next[x] = NULL => x = L2.tail[r]
                  /\ x = L2.head[r] => L2.prev[x] = NULL
                  /\ L2.next[x] # NULL => L2.prev[L2.next[x]] = x
        <4>1. CASE x = t
          <5>1. x = L2.head[r] => last = NULL
            <6>1. last # NULL => L.head[q] # t
              <7>1. last # NULL => L.head[q] # NULL
                BY <2>a, <2>1 DEF last
              <7>2. last # NULL => W[L.head[q]] = p
                BY <7>1, <1>0, <1>5, HeadsType DEF Chain, p
              <7> QED BY <7>2, <1>0
            <6> QED BY <6>1, <4>1, <1>2, <2>1
          <5> QED BY <4>1, <5>1, <1>2, <2>1
        <4>2. CASE x # t
          <5>1. W[x] = <<"READY", r>>
            BY <3>3, <4>2, <1>4
          <5>2. CASE x = last
            <6>1. x = L2.head[r] => L.prev[x] = NULL
              BY <5>1, <5>2, <2>a, <2>1, <1>0, <1>2
            <6> QED BY <6>1, <5>2, <4>2, <1>0, <1>2, <2>1
          <5>3. CASE x # last
            <6>1. L2.next[x] = L.next[x] /\ L2.next[x] # NULL
              BY <5>1, <5>3, <4>2, <1>2, <2>a, <2>1 DEF last
            <6>2. L.next[x] \in Slot /\ W[L.next[x]] = <<"READY", r>>
              BY <5>1, <6>1, <2>b, NextIsBeside
            <6>3. L.next[x] # t
              BY <6>2, <2>b
            <6>4. x = L2.head[r] => x = L.head[r]
              BY <4>2, <1>2, <2>1
            <6> QED BY <6>1, <6>2, <6>3, <6>4, <5>1, <4>2, <2>a, <1>2
          <5> QED BY <5>2, <5>3
        <4> QED BY <4>1, <4>2
      <3> QED BY <3>1, <3>2, <3>3, <2>1, <1>0
    <2>2. CASE r # q
      <3>1. L2.head[r] = L.head[r] /\ L2.tail[r] = L.tail[r]
        BY <2>2, <1>0, <1>2
      <3>2. ASSUME NEW x \in Slot, W[x] = <<"READY", r>>
            PROVE x # t /\ x # last /\ L2.next[x] = L.next[x] /\ L2.prev[x] = L.prev[x] /\ W2[x] = W[x]
        BY <3>2, <2>b, <2>2, <1>0, <1>1, <1>2, <1>4
      <3>3. \A x \in Slot : W2[x] = <<"READY", r>> => W[x] = <<"READY", r>>
        BY <2>b, <2>2, <1>4
      <3>4. L2.tail[r] # NULL => W2[L2.tail[r]] = <<"READY", r>> /\ L2.next[L2.tail[r]] = NULL
        <4>1. L.tail[r] # NULL => L.tail[r] \in Slot
          BY <1>0
        <4> QED BY <4>1, <3>1, <3>2, <2>a
      <3>5. ASSUME NEW x \in Slot, W[x] = <<"READY", r>>,
                   L.next[x] # NULL PROVE L2.prev[L2.next[x]] = x
        <4>1. L.next[x] \in Slot /\ W[L.next[x]] = <<"READY", r>>
          BY <3>5, <2>b, NextIsBeside
        <4> QED BY <4>1, <3>2, <3>5, <2>a
      <3> QED BY <3>1, <3>2, <3>3, <3>4, <3>5, <2>a
    <2> QED BY <2>1, <2>2
  <1>8. Mirror(L2, W2)
    BY <1>7 DEF Mirror
  <1>9. IdleAside(L2, W2)
    <2>1. L2.head[IDLE] = L.head[IDLE] /\ L2.tail[IDLE] = L.tail[IDLE]
      BY <1>0, <1>2
    <2>2. Idle \in Slot
      BY QueueLevels
    <2>3. CASE Idle = t
      BY <2>1, <2>3, <1>0, <1>4 DEF IdleAside, p
    <2>4. CASE Idle # t
      <3>1. W2[Idle] = W[Idle] /\ (W[Idle] = Nowhere => L2.next[Idle] = L.next[Idle])
        BY <2>2, <2>4, <1>0, <1>1, <1>2, <1>4
      <3> QED BY <3>1, <2>1, <1>0 DEF IdleAside
    <2> QED BY <2>3, <2>4
  <1>10. Linked(L2, W2)
    BY <1>2, <1>4, <1>6, <1>8, <1>9 DEF Linked
  <1>11. SleepersKept(L, L2, W)
    <2>1. \A u \in Slot : W[u] = <<"SLEEPING", NULL>> => u # t /\ u # last
      BY <1>0, <1>1 DEF p, Nowhere
    <2> QED BY <2>1, <1>2 DEF SleepersKept
  <1> QED BY <1>10, <1>11 DEF L2, W2

LEMMA HeadIsBeside ==
    ASSUME NEW L, NEW W, Linked(L, W), NEW q \in Queue
    PROVE  /\ L.head[q] # NULL => L.head[q] \in Slot /\ W[L.head[q]] = <<"READY", q>>
           /\ \A t \in Slot : W[t] = <<"READY", q>> => L.head[q] # NULL /\ L.next[t] # L.head[q]
  <1>1. PICK R \in [Slot -> Nat] : Chain(Heads(L), L.next, W, R)
    BY DEF Linked, Chained
  <1>2. L.head[q] \in Link /\ <<"READY", q>> \in Lists /\ Heads(L)[<<"READY", q>>] = L.head[q]
    BY LinkedFacts, HeadsType, QueueLevels, ListNames
  <1> QED BY <1>1, <1>2, NullIsNoSlot DEF Chain

LEMMA PushFrontLinked ==
    ASSUME NEW L, NEW W, Linked(L, W), NEW q \in Queue, NEW t \in Slot, W[t] = Nowhere
    PROVE  /\ Linked(queue_push_front(L, q, t), [W EXCEPT ![t] = <<"READY", q>>])
           /\ SleepersKept(L, queue_push_front(L, q, t), W)
  <1> DEFINE L2 == queue_push_front(L, q, t)
             W2 == [W EXCEPT ![t] = <<"READY", q>>]
             first == L.head[q]
             p == <<"READY", q>>
  <1>0. /\ L \in Links /\ W \in [Slot -> Lists \cup {Nowhere}] /\ Mirror(L, W) /\ IdleAside(L, W)
        /\ L.next \in [Slot -> Link] /\ L.prev \in [Slot -> Link] /\ q \in Level /\ q # IDLE
        /\ \A r \in Level : L.head[r] \in Link /\ L.tail[r] \in Link
        /\ p \in Lists /\ p # Nowhere /\ Nowhere \notin Lists
        /\ NULL \notin Slot /\ (\A x \in Link : x # NULL => x \in Slot)
        /\ t # NULL /\ Queue \subseteq Level /\ IDLE \in Level
    BY LinkedFacts, QueueLevels, ListNames, NowhereIsNoList, NullIsNoSlot
  <1>1. first # NULL => first \in Slot /\ W[first] = p /\ first # t
    BY <1>0, HeadIsBeside
  <1>2. /\ L2 \in Links /\ L2.sleep = L.sleep /\ L2.waiters = L.waiters
        /\ \A r \in Level : r # q => L2.head[r] = L.head[r] /\ L2.tail[r] = L.tail[r]
        /\ L2.head[q] = t
        /\ L2.tail[q] = IF first = NULL THEN t ELSE L.tail[q]
        /\ L2.next[t] = first
        /\ \A u \in Slot : u # t => L2.next[u] = L.next[u]
        /\ L2.prev[t] = NULL
        /\ first # NULL => L2.prev[first] = t
        /\ \A u \in Slot : u # t /\ u # first => L2.prev[u] = L.prev[u]
    BY <1>0, <1>1, PushFrontFields
  <1>3. L2.next \in [Slot -> Link]
    BY <1>2 DEF Links
  <1>4. W2[t] = p /\ W2 \in [Slot -> Lists \cup {Nowhere}] /\ \A u \in Slot : u # t => W2[u] = W[u]
    BY <1>0
  <1> HIDE DEF L2, W2, first, p
  <1>5. PICK R \in [Slot -> Nat] : Chain(Heads(L), L.next, W, R) /\ Ghost(Heads(L), L.next, W, R)
    BY LinkedFacts
  <1>6. Chained(Heads(L2), L2.next, W2)
    <3>1. Heads(L2) = [Heads(L) EXCEPT ![p] = t]
      BY <1>0, <1>2, HeadsReady DEF p
    <3>2. Heads(L)[p] = first
      BY <1>0, HeadsType DEF first, p
    <3>3. SameBut({t}, L.next, L2.next) /\ L2.next[t] = Heads(L)[p]
      BY <3>2, <1>0, <1>2 DEF SameBut
    <3>4. W2 = [W EXCEPT ![t] = p]
      BY DEF W2, p
    <3>5. Chained([Heads(L) EXCEPT ![p] = t], L2.next, [W EXCEPT ![t] = p])
      <4>1. p \in Lists
        BY <1>0
      <4> QED BY <4>1, <3>3, <1>3, <1>5, ChainFront
    <3> QED BY <3>1, <3>4, <3>5
  <1>7. ASSUME NEW r \in Queue
        PROVE  /\ L2.head[r] = NULL <=> L2.tail[r] = NULL
               /\ L2.tail[r] # NULL => W2[L2.tail[r]] = <<"READY", r>> /\ L2.next[L2.tail[r]] = NULL
               /\ \A x \in Slot : W2[x] = <<"READY", r>> =>
                     /\ L2.next[x] = NULL => x = L2.tail[r]
                     /\ x = L2.head[r] => L2.prev[x] = NULL
                     /\ L2.next[x] # NULL => L2.prev[L2.next[x]] = x
    <2>a. /\ L.head[r] = NULL <=> L.tail[r] = NULL
          /\ L.tail[r] # NULL => W[L.tail[r]] = <<"READY", r>> /\ L.next[L.tail[r]] = NULL
          /\ \A x \in Slot : W[x] = <<"READY", r>> =>
                     /\ L.next[x] = NULL => x = L.tail[r]
                     /\ x = L.head[r] => L.prev[x] = NULL
                     /\ L.next[x] # NULL => L.prev[L.next[x]] = x
      BY <1>0 DEF Mirror
    <2>b. <<"READY", r>> # Nowhere /\ <<"READY", r>> \in Lists /\ (r # q => <<"READY", r>> # p)
      BY ListNames, <1>0 DEF p
    <2>c. L.tail[r] # NULL => L.tail[r] \in Slot /\ L.tail[r] # t
      BY <2>a, <2>b, <1>0
    <2>1. CASE r = q
      <3>1. L2.head[q] # NULL /\ L2.tail[q] # NULL
        BY <1>0, <1>2, <2>a, <2>1 DEF first
      <3>2. W2[L2.tail[q]] = <<"READY", r>> /\ L2.next[L2.tail[q]] = NULL
        <4>1. CASE first = NULL
          BY <4>1, <1>2, <1>4, <2>1 DEF p
        <4>2. CASE first # NULL
          BY <4>2, <1>2, <1>4, <2>1, <2>a, <2>c DEF first
        <4> QED BY <4>1, <4>2
      <3>3. ASSUME NEW x \in Slot, W2[x] = <<"READY", r>>
            PROVE /\ L2.next[x] = NULL => x = L2.tail[r]
                  /\ x = L2.head[r] => L2.prev[x] = NULL
                  /\ L2.next[x] # NULL => L2.prev[L2.next[x]] = x
        <4>1. CASE x = t
          BY <4>1, <1>2, <2>1
        <4>2. CASE x # t
          <5>1. W[x] = <<"READY", r>> /\ L2.next[x] = L.next[x]
            BY <3>3, <4>2, <1>4, <1>2
          <5>2. first # NULL /\ L.next[x] # first
            BY <5>1, <2>1, HeadIsBeside DEF first
          <5>3. ASSUME L.next[x] # NULL PROVE L2.prev[L.next[x]] = x
            <6>1. L.next[x] \in Slot /\ W[L.next[x]] = <<"READY", r>>
              BY <5>1, <5>3, <2>b, NextIsBeside
            <6>2. L.next[x] # t
              BY <6>1, <2>b
            <6> QED BY <6>1, <6>2, <5>1, <5>2, <5>3, <1>2, <2>a
          <5> QED BY <5>1, <5>2, <5>3, <4>2, <1>2, <2>a, <2>1
        <4> QED BY <4>1, <4>2
      <3> QED BY <3>1, <3>2, <3>3, <2>1, <1>0
    <2>2. CASE r # q
      <3>1. L2.head[r] = L.head[r] /\ L2.tail[r] = L.tail[r]
        BY <2>2, <1>0, <1>2
      <3>2. ASSUME NEW x \in Slot, W[x] = <<"READY", r>>
            PROVE x # t /\ x # first /\ L2.next[x] = L.next[x] /\ L2.prev[x] = L.prev[x] /\ W2[x] = W[x]
        BY <3>2, <2>b, <2>2, <1>0, <1>1, <1>2, <1>4
      <3>3. \A x \in Slot : W2[x] = <<"READY", r>> => W[x] = <<"READY", r>>
        BY <2>b, <2>2, <1>4
      <3>4. L2.tail[r] # NULL => W2[L2.tail[r]] = <<"READY", r>> /\ L2.next[L2.tail[r]] = NULL
        BY <2>c, <3>1, <3>2, <2>a
      <3>5. ASSUME NEW x \in Slot, W[x] = <<"READY", r>>,
                   L.next[x] # NULL PROVE L2.prev[L2.next[x]] = x
        <4>1. L.next[x] \in Slot /\ W[L.next[x]] = <<"READY", r>>
          BY <3>5, <2>b, NextIsBeside
        <4> QED BY <4>1, <3>2, <3>5, <2>a
      <3> QED BY <3>1, <3>2, <3>3, <3>4, <3>5, <2>a
    <2> QED BY <2>1, <2>2
  <1>8. Mirror(L2, W2)
    BY <1>7 DEF Mirror
  <1>9. IdleAside(L2, W2)
    <2>1. L2.head[IDLE] = L.head[IDLE] /\ L2.tail[IDLE] = L.tail[IDLE]
      BY <1>0, <1>2
    <2>2. Idle \in Slot
      BY QueueLevels
    <2>3. CASE Idle = t
      BY <2>1, <2>3, <1>0, <1>4 DEF IdleAside, p
    <2>4. CASE Idle # t
      BY <2>1, <2>2, <2>4, <1>0, <1>2, <1>4 DEF IdleAside
    <2> QED BY <2>3, <2>4
  <1>10. Linked(L2, W2)
    BY <1>2, <1>4, <1>6, <1>8, <1>9 DEF Linked
  <1>11. SleepersKept(L, L2, W)
    <2>1. \A u \in Slot : W[u] = <<"SLEEPING", NULL>> => u # t
      BY <1>0 DEF Nowhere
    <2> QED BY <2>1, <1>2 DEF SleepersKept
  <1> QED BY <1>10, <1>11 DEF L2, W2

(* The idle thread, in no other list, is put into the queue of its level. *)
LEMMA IdlePushLinked ==
    ASSUME NEW L, NEW W, Linked(L, W), W[Idle] = Nowhere
    PROVE  /\ Linked(queue_push_front(L, IDLE, Idle), W)
           /\ SleepersKept(L, queue_push_front(L, IDLE, Idle), W)
  <1> DEFINE L2 == queue_push_front(L, IDLE, Idle)
             first == L.head[IDLE]
  <1>0. /\ L \in Links /\ W \in [Slot -> Lists \cup {Nowhere}] /\ Mirror(L, W) /\ IdleAside(L, W)
        /\ L.next \in [Slot -> Link] /\ IDLE \in Level /\ IDLE \notin Queue /\ Queue \subseteq Level
        /\ \A r \in Level : L.head[r] \in Link /\ L.tail[r] \in Link
        /\ Nowhere \notin Lists /\ Idle \in Slot /\ NULL \notin Slot /\ (\A x \in Link : x # NULL => x \in Slot)
    BY LinkedFacts, QueueLevels, NowhereIsNoList, NullIsNoSlot
  <1>1. first = NULL \/ first = Idle
    BY <1>0 DEF IdleAside
  <1>2. /\ L2 \in Links /\ L2.sleep = L.sleep /\ L2.waiters = L.waiters
        /\ \A r \in Queue : L2.head[r] = L.head[r] /\ L2.tail[r] = L.tail[r]
        /\ L2.head[IDLE] = Idle
        /\ L2.tail[IDLE] = Idle
        /\ L2.next[Idle] = first
        /\ \A u \in Slot : u # Idle => L2.next[u] = L.next[u]
        /\ \A u \in Slot : u # Idle => L2.prev[u] = L.prev[u]
    BY <1>0, <1>1, PushFrontFields DEF IdleAside
  <1>3. L2.next \in [Slot -> Link]
    BY <1>2 DEF Links
  <1> HIDE DEF L2, first
  <1>5. PICK R \in [Slot -> Nat] : Chain(Heads(L), L.next, W, R) /\ Ghost(Heads(L), L.next, W, R)
    BY LinkedFacts
  <1>6. Chained(Heads(L2), L2.next, W)
    <2>1. Heads(L2) = Heads(L)
      BY <1>0, <1>2, HeadsSame
    <2>2. \A t \in Slot : W[t] \in Lists => t # Idle /\ L2.next[t] = L.next[t]
      BY <1>0, <1>2
    <2>3. Chain(Heads(L), L2.next, W, R)
      BY <1>5, <2>2 DEF Chain
    <2> QED BY <2>1, <2>3 DEF Chained
  <1>8. Mirror(L2, W)
    <2> SUFFICES ASSUME NEW r \in Queue
        PROVE  /\ L2.head[r] = NULL <=> L2.tail[r] = NULL
               /\ L2.tail[r] # NULL => W[L2.tail[r]] = <<"READY", r>> /\ L2.next[L2.tail[r]] = NULL
               /\ \A x \in Slot : W[x] = <<"READY", r>> =>
                     /\ L2.next[x] = NULL => x = L2.tail[r]
                     /\ x = L2.head[r] => L2.prev[x] = NULL
                     /\ L2.next[x] # NULL => L2.prev[L2.next[x]] = x
      BY DEF Mirror
    <2>1. <<"READY", r>> # Nowhere /\ <<"READY", r>> \in Lists
      BY ListNames, <1>0
    <2>2. \A x \in Slot : W[x] = <<"READY", r>> => x # Idle /\ L2.next[x] = L.next[x] /\ L2.prev[x] = L.prev[x]
      BY <2>1, <1>0, <1>2
    <2>3. ASSUME NEW x \in Slot, W[x] = <<"READY", r>>,
                 L.next[x] # NULL PROVE L2.prev[L2.next[x]] = x
      <3>1. L.next[x] \in Slot /\ W[L.next[x]] = <<"READY", r>>
        BY <2>3, <2>1, NextIsBeside
      <3> QED BY <3>1, <2>2, <2>3, <1>0 DEF Mirror
    <2>4. L.tail[r] \in Link
      BY <1>0
    <2> QED BY <2>2, <2>3, <2>4, <1>0, <1>2 DEF Mirror
  <1>9. IdleAside(L2, W)
    BY <1>0, <1>1, <1>2 DEF IdleAside
  <1>10. Linked(L2, W)
    BY <1>0, <1>2, <1>6, <1>8, <1>9 DEF Linked
  <1>11. SleepersKept(L, L2, W)
    <2>1. \A u \in Slot : W[u] = <<"SLEEPING", NULL>> => u # Idle
      BY <1>0 DEF Nowhere
    <2> QED BY <2>1, <1>2 DEF SleepersKept
  <1> QED BY <1>10, <1>11 DEF L2

(* Nothing is queued above the idle thread: it is popped, and is in no list. *)
LEMMA IdlePopLinked ==
    ASSUME NEW L, NEW W, Linked(L, W), \A q \in Queue : L.head[q] = NULL, L.head[IDLE] # NULL
    PROVE  /\ L.head[IDLE] = Idle /\ W[Idle] = Nowhere
           /\ Linked(queue_pop_front(L, IDLE), W)
           /\ SleepersKept(L, queue_pop_front(L, IDLE), W)
  <1> DEFINE L2 == queue_pop_front(L, IDLE)
             n == L.next[Idle]
  <1>0. /\ L \in Links /\ W \in [Slot -> Lists \cup {Nowhere}] /\ Mirror(L, W) /\ IdleAside(L, W)
        /\ L.next \in [Slot -> Link] /\ IDLE \in Level /\ IDLE \notin Queue /\ Queue \subseteq Level
        /\ \A r \in Level : L.head[r] \in Link /\ L.tail[r] \in Link
        /\ Nowhere \notin Lists /\ Idle \in Slot /\ NULL \notin Slot /\ (\A x \in Link : x # NULL => x \in Slot)
    BY LinkedFacts, QueueLevels, NowhereIsNoList, NullIsNoSlot
  <1>1. L.head[IDLE] = Idle /\ W[Idle] = Nowhere /\ n \in {NULL, Idle} /\ L.tail[IDLE] = Idle
    BY <1>0, HeadIsBeside DEF IdleAside
  <1>2. /\ L2 \in Links /\ L2.sleep = L.sleep /\ L2.waiters = L.waiters
        /\ \A r \in Queue : L2.head[r] = L.head[r] /\ L2.tail[r] = L.tail[r]
        /\ L2.head[IDLE] = n
        /\ L2.tail[IDLE] = IF n = NULL THEN NULL ELSE L.tail[IDLE]
        /\ L2.next[Idle] = NULL
        /\ \A u \in Slot : u # Idle => L2.next[u] = L.next[u]
        /\ \A u \in Slot : u # Idle => L2.prev[u] = L.prev[u]
    BY <1>0, <1>1, PopFields
  <1>3. L2.next \in [Slot -> Link]
    BY <1>2 DEF Links
  <1> HIDE DEF L2, n
  <1>5. PICK R \in [Slot -> Nat] : Chain(Heads(L), L.next, W, R) /\ Ghost(Heads(L), L.next, W, R)
    BY LinkedFacts
  <1>6. Chained(Heads(L2), L2.next, W)
    <2>1. Heads(L2) = Heads(L)
      BY <1>0, <1>2, HeadsSame
    <2>2. \A t \in Slot : W[t] \in Lists => t # Idle /\ L2.next[t] = L.next[t]
      BY <1>0, <1>1, <1>2
    <2>3. Chain(Heads(L), L2.next, W, R)
      BY <1>5, <2>2 DEF Chain
    <2> QED BY <2>1, <2>3 DEF Chained
  <1>8. Mirror(L2, W)
    <2> SUFFICES ASSUME NEW r \in Queue
        PROVE  /\ L2.head[r] = NULL <=> L2.tail[r] = NULL
               /\ L2.tail[r] # NULL => W[L2.tail[r]] = <<"READY", r>> /\ L2.next[L2.tail[r]] = NULL
               /\ \A x \in Slot : W[x] = <<"READY", r>> =>
                     /\ L2.next[x] = NULL => x = L2.tail[r]
                     /\ x = L2.head[r] => L2.prev[x] = NULL
                     /\ L2.next[x] # NULL => L2.prev[L2.next[x]] = x
      BY DEF Mirror
    <2>1. \A x \in Slot : W[x] # <<"READY", r>>
      BY HeadIsBeside
    <2>2. L.tail[r] = NULL /\ L.head[r] = NULL
      BY <1>0 DEF Mirror
    <2> QED BY <2>1, <2>2, <1>2
  <1>9. IdleAside(L2, W)
    BY <1>0, <1>1, <1>2 DEF IdleAside
  <1>10. Linked(L2, W)
    BY <1>0, <1>2, <1>6, <1>8, <1>9 DEF Linked
  <1>11. SleepersKept(L, L2, W)
    <2>1. \A u \in Slot : W[u] = <<"SLEEPING", NULL>> => u # Idle
      BY <1>0, <1>1 DEF Nowhere
    <2> QED BY <2>1, <1>2 DEF SleepersKept
  <1> QED BY <1>1, <1>10, <1>11 DEF L2

(* prev leads to the neighbour in front; only the head has none. *)
LEMMA PrevIsBeside ==
    ASSUME NEW L, NEW W, Linked(L, W), NEW q \in Queue, NEW t \in Slot, W[t] = <<"READY", q>>
    PROVE  /\ L.prev[t] = NULL <=> t = L.head[q]
           /\ L.prev[t] # NULL => /\ L.prev[t] \in Slot /\ W[L.prev[t]] = <<"READY", q>>
                                  /\ L.next[L.prev[t]] = t /\ L.prev[t] # t
           /\ L.next[t] # t
  <1>1. PICK R \in [Slot -> Nat] : Chain(Heads(L), L.next, W, R)
    BY DEF Linked, Chained
  <1>2. <<"READY", q>> \in Lists /\ Heads(L)[<<"READY", q>>] = L.head[q] /\ Mirror(L, W) /\ NULL \notin Slot
    BY LinkedFacts, HeadsType, ListNames, NullIsNoSlot
  <1>3. t # L.head[q] => \E u \in Slot : W[u] = <<"READY", q>> /\ L.next[u] = t
    BY <1>1, <1>2 DEF Chain
  <1>4. \A u \in Slot : W[u] = <<"READY", q>> /\ L.next[u] = t => L.prev[t] = u
    BY <1>2 DEF Mirror
  <1>5. t = L.head[q] => L.prev[t] = NULL
    BY <1>2 DEF Mirror
  <1>6. \A u \in Slot : W[u] = <<"READY", q>> => L.next[u] # u
    <2> TAKE u \in Slot
    <2> HAVE W[u] = <<"READY", q>>
    <2>1. L.next[u] # NULL => R[u] < R[L.next[u]] /\ L.next[u] \in Slot
      BY <1>1, <1>2, NextIsBeside DEF Chain
    <2> QED BY <2>1, <1>2
  <1> QED BY <1>2, <1>3, <1>4, <1>5, <1>6

(* L2 is L without the head t of queue q. *)
HeadGone(L, L2, q, t) ==
    /\ L2 \in Links /\ L2.sleep = L.sleep /\ L2.waiters = L.waiters
    /\ \A r \in Level : r # q => L2.head[r] = L.head[r] /\ L2.tail[r] = L.tail[r]
    /\ L2.head[q] = L.next[t]
    /\ L2.tail[q] = IF L.next[t] = NULL THEN NULL ELSE L.tail[q]
    /\ L2.next[t] = NULL
    /\ \A u \in Slot : u # t => L2.next[u] = L.next[u]
    /\ L.next[t] # NULL => L2.prev[L.next[t]] = NULL
    /\ \A u \in Slot : u # t /\ u # L.next[t] => L2.prev[u] = L.prev[u]

(* The head of a ready queue is taken out. *)
LEMMA HeadGoneLinked ==
    ASSUME NEW L, NEW W, Linked(L, W), NEW q \in Queue, NEW t \in Slot, t = L.head[q],
           NEW L2, HeadGone(L, L2, q, t)
    PROVE  /\ W[t] = <<"READY", q>>
           /\ Linked(L2, [W EXCEPT ![t] = Nowhere])
           /\ SleepersKept(L, L2, W)
  <1> /\ L2 \in Links /\ L2.sleep = L.sleep /\ L2.waiters = L.waiters
      /\ \A r \in Level : r # q => L2.head[r] = L.head[r] /\ L2.tail[r] = L.tail[r]
      /\ L2.head[q] = L.next[t]
      /\ L2.tail[q] = IF L.next[t] = NULL THEN NULL ELSE L.tail[q]
      /\ L2.next[t] = NULL
      /\ \A u \in Slot : u # t => L2.next[u] = L.next[u]
      /\ L.next[t] # NULL => L2.prev[L.next[t]] = NULL
      /\ \A u \in Slot : u # t /\ u # L.next[t] => L2.prev[u] = L.prev[u]
    BY DEF HeadGone
  <1> DEFINE W2 == [W EXCEPT ![t] = Nowhere]
             n == L.next[t]
             p == <<"READY", q>>
  <1>0. /\ L \in Links /\ W \in [Slot -> Lists \cup {Nowhere}] /\ Mirror(L, W) /\ IdleAside(L, W)
        /\ L.next \in [Slot -> Link] /\ L.prev \in [Slot -> Link] /\ q \in Level /\ q # IDLE
        /\ \A r \in Level : L.head[r] \in Link /\ L.tail[r] \in Link
        /\ p \in Lists /\ p # Nowhere /\ Nowhere \notin Lists
        /\ NULL \notin Slot /\ (\A x \in Link : x # NULL => x \in Slot)
        /\ t # NULL /\ Queue \subseteq Level /\ IDLE \in Level
    BY LinkedFacts, QueueLevels, ListNames, NowhereIsNoList, NullIsNoSlot
  <1>1. W[t] = p
    BY <1>0, HeadIsBeside
  <1>2. n # NULL => n \in Slot /\ W[n] = p /\ n # t /\ L.prev[n] = t
    BY <1>0, <1>1, NextIsBeside, PrevIsBeside, SMTT(30) DEF Mirror
  <1>3. L2.next \in [Slot -> Link]
    BY DEF Links
  <1>4. W2[t] = Nowhere /\ W2 \in [Slot -> Lists \cup {Nowhere}] /\ \A u \in Slot : u # t => W2[u] = W[u]
    BY <1>0
  <1> HIDE DEF W2, n, p
  <1>5. PICK R \in [Slot -> Nat] : Chain(Heads(L), L.next, W, R) /\ Ghost(Heads(L), L.next, W, R)
    BY LinkedFacts
  <1>6. Chained(Heads(L2), L2.next, W2)
    <2>1. Heads(L2) = [Heads(L) EXCEPT ![p] = n]
      BY <1>0, HeadsReady DEF p, n
    <2>2. Heads(L)[p] = t /\ p \in Lists
      BY <1>0, HeadsType DEF p
    <2>3. SameBut({t}, L.next, L2.next)
      BY DEF SameBut
    <2>4. Chain([Heads(L) EXCEPT ![p] = L.next[t]], L2.next, [W EXCEPT ![t] = Nowhere], R)
      BY <2>2, <2>3, <1>3, <1>5, ChainPop
    <2> QED BY <2>1, <2>4 DEF Chained, W2, n
  <1>7. ASSUME NEW r \in Queue
        PROVE  /\ L2.head[r] = NULL <=> L2.tail[r] = NULL
               /\ L2.tail[r] # NULL => W2[L2.tail[r]] = <<"READY", r>> /\ L2.next[L2.tail[r]] = NULL
               /\ \A x \in Slot : W2[x] = <<"READY", r>> =>
                     /\ L2.next[x] = NULL => x = L2.tail[r]
                     /\ x = L2.head[r] => L2.prev[x] = NULL
                     /\ L2.next[x] # NULL => L2.prev[L2.next[x]] = x
    <2>a. /\ L.head[r] = NULL <=> L.tail[r] = NULL
          /\ L.tail[r] # NULL => W[L.tail[r]] = <<"READY", r>> /\ L.next[L.tail[r]] = NULL
          /\ \A x \in Slot : W[x] = <<"READY", r>> =>
                     /\ L.next[x] = NULL => x = L.tail[r]
                     /\ x = L.head[r] => L.prev[x] = NULL
                     /\ L.next[x] # NULL => L.prev[L.next[x]] = x
      BY <1>0 DEF Mirror
    <2>b. <<"READY", r>> # Nowhere /\ <<"READY", r>> \in Lists /\ (r # q => <<"READY", r>> # p)
      BY ListNames, <1>0 DEF p
    <2>c. L.tail[r] # NULL => L.tail[r] \in Slot
      BY <1>0
    <2>d. \A x \in Slot : W2[x] = <<"READY", r>> => x # t /\ W[x] = <<"READY", r>> /\ L2.next[x] = L.next[x]
      BY <2>b, <1>4
    <2>1. CASE r = q
      <3>1. L2.head[q] = NULL <=> L2.tail[q] = NULL
        BY <1>0, <2>a, <2>1
      <3>2. ASSUME L2.tail[q] # NULL PROVE W2[L2.tail[q]] = <<"READY",
                   r>> /\ L2.next[L2.tail[q]] = NULL
        <4>1. n # NULL /\ L2.tail[q] = L.tail[q]
          BY <3>2 DEF n
        <4>2. L.tail[q] \in Slot /\ L.next[L.tail[q]] = NULL /\ W[L.tail[q]] = p
          BY <4>1, <3>2, <2>a, <2>c, <2>1 DEF p
        <4>3. L.tail[q] # t
          BY <4>1, <4>2 DEF n
        <4> QED BY <4>1, <4>2, <4>3, <1>4, <2>1 DEF p
      <3>3. ASSUME NEW x \in Slot, W2[x] = <<"READY", r>>
            PROVE /\ L2.next[x] = NULL => x = L2.tail[r]
                  /\ x = L2.head[r] => L2.prev[x] = NULL
                  /\ L2.next[x] # NULL => L2.prev[L2.next[x]] = x
        <4>0. x # t /\ W[x] = <<"READY", r>> /\ L2.next[x] = L.next[x]
          BY <3>3, <2>d
        <4>1. ASSUME L.next[x] = NULL PROVE x = L2.tail[r]
          <5>1. x = L.tail[q]
            BY <4>0, <4>1, <2>a, <2>1
          <5>2. n # NULL
            BY <5>1, <4>0, <2>a, <2>1, <1>1 DEF n, p
          <5> QED BY <5>1, <5>2, <2>1 DEF n
        <4>2. ASSUME x = n PROVE L2.prev[x] = NULL
          BY <4>2, <1>0 DEF n
        <4>3. ASSUME L.next[x] # NULL PROVE L2.prev[L.next[x]] = x
          <5>1. L.next[x] \in Slot /\ L.prev[L.next[x]] = x /\ L.next[x] # t
            BY <4>0, <4>3, <2>a, <2>b, <2>1, NextIsBeside, HeadIsBeside
          <5>2. L.next[x] # n
            BY <5>1, <4>0, <4>3, <1>2
          <5> QED BY <5>1, <5>2 DEF n
        <4> QED BY <4>0, <4>1, <4>2, <4>3, <2>1 DEF n
      <3> QED BY <3>1, <3>2, <3>3, <2>1
    <2>2. CASE r # q
      <3>1. L2.head[r] = L.head[r] /\ L2.tail[r] = L.tail[r]
        BY <2>2, <1>0
      <3>2. ASSUME NEW x \in Slot, W[x] = <<"READY", r>>
            PROVE x # t /\ x # n /\ L2.next[x] = L.next[x] /\ L2.prev[x] = L.prev[x] /\ W2[x] = W[x]
        <4>1. x # t /\ x # n
          BY <3>2, <2>b, <2>2, <1>0, <1>1, <1>2
        <4> QED BY <4>1, <1>4 DEF n
      <3>4. L2.tail[r] # NULL => W2[L2.tail[r]] = <<"READY", r>> /\ L2.next[L2.tail[r]] = NULL
        BY <2>c, <3>1, <3>2, <2>a
      <3>5. ASSUME NEW x \in Slot, W[x] = <<"READY", r>>,
                   L.next[x] # NULL PROVE L2.prev[L2.next[x]] = x
        <4>1. L.next[x] \in Slot /\ W[L.next[x]] = <<"READY", r>>
          BY <3>5, <2>b, NextIsBeside
        <4> QED BY <4>1, <3>2, <3>5, <2>a
      <3> QED BY <3>1, <3>2, <2>d, <3>4, <3>5, <2>a
    <2> QED BY <2>1, <2>2
  <1>8. Mirror(L2, W2)
    BY <1>7 DEF Mirror
  <1>9. IdleAside(L2, W2)
    <2>1. L2.head[IDLE] = L.head[IDLE] /\ L2.tail[IDLE] = L.tail[IDLE] /\ Idle \in Slot
      BY <1>0, QueueLevels
    <2>3. CASE Idle = t
      BY <2>1, <2>3, <1>0, <1>4 DEF IdleAside
    <2>4. CASE Idle # t
      BY <2>1, <2>4, <1>0, <1>4 DEF IdleAside
    <2> QED BY <2>3, <2>4
  <1>10. Linked(L2, W2)
    BY <1>4, <1>6, <1>8, <1>9 DEF Linked
  <1>11. SleepersKept(L, L2, W)
    <2>1. \A u \in Slot : W[u] = <<"SLEEPING", NULL>> => u # t
      BY <1>1 DEF p
    <2> QED BY <2>1 DEF SleepersKept
  <1> QED BY <1>1, <1>10, <1>11 DEF W2, p

LEMMA PopLinked ==
    ASSUME NEW L, NEW W, Linked(L, W), NEW q \in Queue, L.head[q] # NULL
    PROVE  /\ L.head[q] \in Slot /\ W[L.head[q]] = <<"READY", q>>
           /\ Linked(queue_pop_front(L, q), [W EXCEPT ![L.head[q]] = Nowhere])
           /\ SleepersKept(L, queue_pop_front(L, q), W)
  <1> DEFINE L2 == queue_pop_front(L, q)
             t == L.head[q]
  <1>0. L \in Links /\ q \in Level /\ t \in Slot
    BY LinkedFacts, QueueLevels, HeadIsBeside
  <1>1. /\ L2 \in Links /\ L2.sleep = L.sleep /\ L2.waiters = L.waiters
        /\ \A r \in Level : r # q => L2.head[r] = L.head[r] /\ L2.tail[r] = L.tail[r]
        /\ L2.head[q] = L.next[t]
        /\ L2.tail[q] = IF L.next[t] = NULL THEN NULL ELSE L.tail[q]
        /\ L2.next[t] = NULL
        /\ \A u \in Slot : u # t => L2.next[u] = L.next[u]
        /\ L.next[t] # NULL => L2.prev[L.next[t]] = NULL
        /\ \A u \in Slot : u # t /\ u # L.next[t] => L2.prev[u] = L.prev[u]
    BY <1>0, PopFields
  <1> HIDE DEF L2
  <1>3. HeadGone(L, L2, q, t)
    BY <1>1 DEF HeadGone
  <1>2. W[t] = <<"READY", q>> /\ Linked(L2, [W EXCEPT ![t] = Nowhere]) /\ SleepersKept(L, L2, W)
    BY <1>0, <1>3, HeadGoneLinked
  <1> QED BY <1>0, <1>2 DEF L2

LEMMA RemoveLinked ==
    ASSUME NEW L, NEW W, Linked(L, W), NEW q \in Queue, NEW t \in Slot, W[t] = <<"READY", q>>
    PROVE  /\ Linked(queue_remove(L, q, t), [W EXCEPT ![t] = Nowhere])
           /\ SleepersKept(L, queue_remove(L, q, t), W)
  <1> DEFINE L2 == queue_remove(L, q, t)
             W2 == [W EXCEPT ![t] = Nowhere]
             n == L.next[t]
             b == L.prev[t]
             p == <<"READY", q>>
  <1>0. /\ L \in Links /\ W \in [Slot -> Lists \cup {Nowhere}] /\ Mirror(L, W) /\ IdleAside(L, W)
        /\ L.next \in [Slot -> Link] /\ L.prev \in [Slot -> Link] /\ q \in Level /\ q # IDLE
        /\ \A r \in Level : L.head[r] \in Link /\ L.tail[r] \in Link
        /\ p \in Lists /\ p # Nowhere /\ Nowhere \notin Lists
        /\ NULL \notin Slot /\ (\A x \in Link : x # NULL => x \in Slot)
        /\ t # NULL /\ Queue \subseteq Level /\ IDLE \in Level
    BY LinkedFacts, QueueLevels, ListNames, NowhereIsNoList, NullIsNoSlot
  <1>1. W[t] = p
    OBVIOUS
  <1>2. /\ n # NULL => n \in Slot /\ W[n] = p /\ n # t /\ L.prev[n] = t /\ n # L.head[q]
        /\ b # NULL => b \in Slot /\ W[b] = p /\ b # t /\ L.next[b] = t /\ b # n
        /\ b = NULL <=> t = L.head[q]
        /\ n # t /\ b # t
    <2>1. n # NULL => n \in Slot /\ W[n] = p /\ n # t /\ L.prev[n] = t /\ n # L.head[q]
      BY <1>0, <1>1, NextIsBeside, PrevIsBeside, HeadIsBeside DEF Mirror
    <2>2. /\ b # NULL => b \in Slot /\ W[b] = p /\ b # t /\ L.next[b] = t
          /\ b = NULL <=> t = L.head[q]
          /\ n # t
      BY PrevIsBeside
    <2>3. b # NULL => b # n
      <3> SUFFICES ASSUME b # NULL, b = n PROVE FALSE
        OBVIOUS
      <3>1. PICK R \in [Slot -> Nat] : Chain(Heads(L), L.next, W, R)
        BY DEF Linked, Chained
      <3>2. b \in Slot /\ W[b] \in Lists /\ L.next[b] = t /\ L.next[t] = b /\ W[t] \in Lists /\ b # NULL
        BY <2>2, <1>0
      <3> HIDE DEF b, n
      <3>3. R[t] < R[b] /\ R[b] < R[t]
        BY <3>1, <3>2, <1>0 DEF Chain
      <3> QED BY <3>2, <3>3
    <2> QED BY <2>1, <2>2, <2>3, <1>0
  <1>3. /\ L2 \in Links /\ L2.sleep = L.sleep /\ L2.waiters = L.waiters
        /\ \A r \in Level : r # q => L2.head[r] = L.head[r] /\ L2.tail[r] = L.tail[r]
        /\ L2.head[q] = IF b = NULL THEN n ELSE L.head[q]
        /\ L2.tail[q] = IF n = NULL THEN b ELSE L.tail[q]
        /\ L2.next[t] = NULL
        /\ b # NULL => L2.next[b] = n
        /\ \A u \in Slot : u # t /\ u # b => L2.next[u] = L.next[u]
        /\ L2.prev[t] = NULL
        /\ n # NULL => L2.prev[n] = b
        /\ \A u \in Slot : u # t /\ u # n => L2.prev[u] = L.prev[u]
    BY <1>0, <1>2, RemoveFields, SMTT(30)
  <1>4. W2[t] = Nowhere /\ W2 \in [Slot -> Lists \cup {Nowhere}] /\ \A u \in Slot : u # t => W2[u] = W[u]
    BY <1>0
  <1> HIDE DEF L2, W2
  <1>5. CASE b = NULL
    <2>1. HeadGone(L, L2, q, t)
      BY <1>5, <1>0, <1>2, <1>3 DEF HeadGone
    <2>2. t = L.head[q]
      BY <1>5, <1>2
    <2>3. Linked(L2, [W EXCEPT ![t] = Nowhere]) /\ SleepersKept(L, L2, W)
      BY <2>1, <2>2, HeadGoneLinked
    <2> QED BY <2>3 DEF L2
  <1>6. CASE b # NULL
    <2> HIDE DEF n, b, p
    <2>0. /\ b \in Slot /\ W[b] = p /\ L.next[b] = t /\ b # n /\ L2.next[b] = n /\ L2.head[q] = L.head[q]
          /\ t # L.head[q] /\ L.head[q] # NULL
      BY <1>6, <1>2, <1>3, <1>1, HeadIsBeside DEF p
    <2>1. Chained(Heads(L2), L2.next, W2)
      <3>1. PICK R \in [Slot -> Nat] : Chain(Heads(L), L.next, W, R) /\ Ghost(Heads(L), L.next, W, R)
        BY LinkedFacts
      <3>2. Heads(L2) = Heads(L)
        <4>1. \A r \in Queue : L2.head[r] = L.head[r]
          BY <1>0, <1>3, <2>0
        <4> QED BY <4>1, <1>0, <1>3, HeadsSame
      <3>3. SameBut({t, b}, L.next, L2.next)
        BY <1>3 DEF SameBut
      <3>4. W[b] \in Lists /\ L2.next[b] = L.next[t] /\ L2.next \in [Slot -> Link]
        <4>1. L2.next \in [Slot -> Link]
          BY <1>3 DEF Links
        <4> QED BY <4>1, <1>0, <2>0 DEF n
      <3>5. Chain(Heads(L), L2.next, [W EXCEPT ![t] = Nowhere], R)
        BY <3>1, <3>3, <3>4, <2>0, ChainCut
      <3> QED BY <3>2, <3>5 DEF Chained, W2
    <2>2. ASSUME NEW r \in Queue
          PROVE  /\ L2.head[r] = NULL <=> L2.tail[r] = NULL
                 /\ L2.tail[r] # NULL => W2[L2.tail[r]] = <<"READY", r>> /\ L2.next[L2.tail[r]] = NULL
                 /\ \A x \in Slot : W2[x] = <<"READY", r>> =>
                       /\ L2.next[x] = NULL => x = L2.tail[r]
                       /\ x = L2.head[r] => L2.prev[x] = NULL
                       /\ L2.next[x] # NULL => L2.prev[L2.next[x]] = x
      <3>a. /\ L.head[r] = NULL <=> L.tail[r] = NULL
            /\ L.tail[r] # NULL => W[L.tail[r]] = <<"READY", r>> /\ L.next[L.tail[r]] = NULL
            /\ \A x \in Slot : W[x] = <<"READY", r>> =>
                       /\ L.next[x] = NULL => x = L.tail[r]
                       /\ x = L.head[r] => L.prev[x] = NULL
                       /\ L.next[x] # NULL => L.prev[L.next[x]] = x
        BY <1>0 DEF Mirror
      <3>b. <<"READY", r>> # Nowhere /\ <<"READY", r>> \in Lists /\ (r # q => <<"READY", r>> # p)
        BY ListNames, <1>0 DEF p
      <3>c. L.tail[r] # NULL => L.tail[r] \in Slot
        BY <1>0
      <3>d. \A x \in Slot : W2[x] = <<"READY", r>> => x # t /\ W[x] = <<"READY", r>>
        BY <3>b, <1>4
      <3>1. CASE r = q
        <4>1. L2.head[q] # NULL /\ L2.tail[q] # NULL
          BY <1>3, <1>6, <2>0, <3>a, <3>1
        <4>2. W2[L2.tail[q]] = <<"READY", r>> /\ L2.next[L2.tail[q]] = NULL
          <5>1. CASE n = NULL
            BY <5>1, <1>2, <1>3, <1>4, <1>6, <2>0, <3>1 DEF p
          <5>2. CASE n # NULL
            <6>1. L2.tail[q] = L.tail[q] /\ L.tail[q] \in Slot /\ L.next[L.tail[q]] = NULL /\ W[L.tail[q]] = <<"READY", r>>
              BY <5>2, <4>1, <1>3, <3>a, <3>c, <3>1
            <6>2. L.tail[q] # t /\ L.tail[q] # b
              BY <6>1, <5>2, <2>0, <1>0 DEF n
            <6> QED BY <6>1, <6>2, <1>3, <1>4
          <5> QED BY <5>1, <5>2
        <4>3. ASSUME NEW x \in Slot, W2[x] = <<"READY", r>>
              PROVE /\ L2.next[x] = NULL => x = L2.tail[r]
                    /\ x = L2.head[r] => L2.prev[x] = NULL
                    /\ L2.next[x] # NULL => L2.prev[L2.next[x]] = x
          <5>0. x # t /\ W[x] = <<"READY", r>>
            BY <4>3, <3>d
          <5>1. x = L2.head[r] => L2.prev[x] = NULL
            <6>1. x = L2.head[r] => x # n
              BY <1>2, <2>0, <3>1, <5>0
            <6> QED BY <6>1, <5>0, <1>3, <2>0, <3>a, <3>1
          <5>2. CASE x = b
            BY <5>1, <5>2, <1>2, <1>3, <2>0, <3>1
          <5>3. CASE x # b
            <6>1. L2.next[x] = L.next[x]
              BY <5>0, <5>3, <1>3
            <6>2. ASSUME L.next[x] = NULL PROVE x = L2.tail[r]
              <7>1. x = L.tail[q]
                BY <5>0, <6>2, <3>a, <3>1
              <7>2. n # NULL
                BY <7>1, <5>0, <3>a, <3>1, <1>1 DEF n, p
              <7> QED BY <7>1, <7>2, <1>3, <3>1
            <6>3. ASSUME L.next[x] # NULL PROVE L2.prev[L.next[x]] = x
              <7>1. L.next[x] \in Slot /\ L.prev[L.next[x]] = x
                BY <5>0, <6>3, <3>a, <3>b, NextIsBeside
              <7>2. L.next[x] # t
                BY <7>1, <5>3 DEF b
              <7>3. L.next[x] # n
                BY <7>1, <5>0, <6>3, <1>2
              <7> QED BY <7>1, <7>2, <7>3, <1>3
            <6> QED BY <5>1, <6>1, <6>2, <6>3
          <5> QED BY <5>2, <5>3
        <4> QED BY <4>1, <4>2, <4>3, <3>1
      <3>2. CASE r # q
        <4>1. L2.head[r] = L.head[r] /\ L2.tail[r] = L.tail[r]
          BY <3>2, <1>0, <1>3
        <4>2. ASSUME NEW x \in Slot, W[x] = <<"READY", r>>
              PROVE x # t /\ x # n /\ x # b /\ L2.next[x] = L.next[x] /\ L2.prev[x] = L.prev[x] /\ W2[x] = W[x]
          <5>1. x # t /\ x # n /\ x # b
            BY <4>2, <3>b, <3>2, <1>0, <1>1, <1>2
          <5> QED BY <5>1, <1>3, <1>4
        <4>4. L2.tail[r] # NULL => W2[L2.tail[r]] = <<"READY", r>> /\ L2.next[L2.tail[r]] = NULL
          BY <3>c, <4>1, <4>2, <3>a
        <4>5. ASSUME NEW x \in Slot, W[x] = <<"READY", r>>,
                     L.next[x] # NULL PROVE L2.prev[L2.next[x]] = x
          <5>1. L.next[x] \in Slot /\ W[L.next[x]] = <<"READY", r>>
            BY <4>5, <3>b, NextIsBeside
          <5> QED BY <5>1, <4>2, <4>5, <3>a
        <4> QED BY <4>1, <4>2, <3>d, <4>4, <4>5, <3>a
      <3> QED BY <3>1, <3>2
    <2>3. Mirror(L2, W2)
      BY <2>2 DEF Mirror
    <2>4. IdleAside(L2, W2)
      <3>1. L2.head[IDLE] = L.head[IDLE] /\ L2.tail[IDLE] = L.tail[IDLE] /\ Idle \in Slot
        BY <1>0, <1>3, QueueLevels
      <3>3. CASE Idle = t
        BY <3>1, <3>3, <1>0, <1>3, <1>4 DEF IdleAside
      <3>4. CASE Idle # t
        <4>1. W[Idle] = Nowhere => Idle # b
          BY <1>0, <2>0
        <4> QED BY <4>1, <3>1, <3>4, <1>0, <1>3, <1>4 DEF IdleAside
      <3> QED BY <3>3, <3>4
    <2>5. Linked(L2, W2)
      BY <1>3, <1>4, <2>1, <2>3, <2>4 DEF Linked
    <2>6. SleepersKept(L, L2, W)
      <3>1. \A u \in Slot : W[u] = <<"SLEEPING", NULL>> => u # t /\ u # b
        BY <1>1, <2>0 DEF p
      <3> QED BY <3>1, <1>3 DEF SleepersKept
    <2> QED BY <2>5, <2>6 DEF L2, W2
  <1> QED BY <1>5, <1>6

-----------------------------------------------------------------------------
(* The sleep queue and the waiters.                                        *)

(* From L and W to L2 and W2 the thread t alone moves, between lists of
   other kinds.                                                            *)
Aside(L, L2, W, W2, t) ==
    /\ L2 \in Links /\ L2.head = L.head /\ L2.tail = L.tail /\ L2.prev = L.prev
    /\ t \in Slot /\ t # Idle
    /\ \A u \in Slot : u # t => W2[u] = W[u]
    /\ \A q \in Queue : W[t] # <<"READY", q>> /\ W2[t] # <<"READY", q>>
    /\ \A u \in Slot : u # t /\ (W[u] = Nowhere \/ \E q \in Queue : W[u] = <<"READY", q>>)
                         => L2.next[u] = L.next[u]

LEMMA QueuesAside ==
    ASSUME NEW L, NEW W, Linked(L, W), NEW L2, NEW W2, NEW t, Aside(L, L2, W, W2, t)
    PROVE  Mirror(L2, W2) /\ IdleAside(L2, W2)
  <1>a. /\ L2 \in Links /\ L2.head = L.head /\ L2.tail = L.tail /\ L2.prev = L.prev
        /\ t \in Slot /\ t # Idle
        /\ \A u \in Slot : u # t => W2[u] = W[u]
        /\ \A q \in Queue : W[t] # <<"READY", q>> /\ W2[t] # <<"READY", q>>
        /\ \A u \in Slot : u # t /\ (W[u] = Nowhere \/ \E q \in Queue : W[u] = <<"READY", q>>)
                             => L2.next[u] = L.next[u]
    BY DEF Aside
  <1>0. /\ Mirror(L, W) /\ IdleAside(L, W) /\ NULL \notin Slot /\ Idle \in Slot
        /\ \A q \in Queue : L.tail[q] = NULL \/ L.tail[q] \in Slot
        /\ \A u \in Slot : u # t => W2[u] = W[u]
    BY <1>a, LinkedFacts, QueueLevels, NullIsNoSlot
  <1>1. \A q \in Queue, u \in Slot : W[u] = <<"READY", q>> => u # t /\ L2.next[u] = L.next[u]
    BY <1>a
  <1>2. \A q \in Queue, u \in Slot : W2[u] = <<"READY", q>> <=> W[u] = <<"READY", q>>
    BY <1>a
  <1>3. Mirror(L2, W2)
    <2> SUFFICES ASSUME NEW q \in Queue
        PROVE  /\ L2.head[q] = NULL <=> L2.tail[q] = NULL
               /\ L2.tail[q] # NULL => W2[L2.tail[q]] = <<"READY", q>> /\ L2.next[L2.tail[q]] = NULL
               /\ \A x \in Slot : W2[x] = <<"READY", q>> =>
                     /\ L2.next[x] = NULL => x = L2.tail[q]
                     /\ x = L2.head[q] => L2.prev[x] = NULL
                     /\ L2.next[x] # NULL => L2.prev[L2.next[x]] = x
      BY DEF Mirror
    <2>1. /\ L.head[q] = NULL <=> L.tail[q] = NULL
          /\ L.tail[q] # NULL => W[L.tail[q]] = <<"READY", q>> /\ L.next[L.tail[q]] = NULL
          /\ \A x \in Slot : W[x] = <<"READY", q>> =>
                     /\ L.next[x] = NULL => x = L.tail[q]
                     /\ x = L.head[q] => L.prev[x] = NULL
                     /\ L.next[x] # NULL => L.prev[L.next[x]] = x
      BY <1>0 DEF Mirror
    <2>2. L.tail[q] # NULL => L.tail[q] \in Slot
      BY <1>0
    <2>3. \A x \in Slot : W2[x] = <<"READY", q>> => W[x] = <<"READY", q>> /\ L2.next[x] = L.next[x]
      BY <1>1, <1>2
    <2>4. L.tail[q] # NULL => W2[L.tail[q]] = <<"READY", q>> /\ L2.next[L.tail[q]] = NULL
      BY <1>1, <1>2, <2>1, <2>2
    <2> QED BY <1>a, <2>1, <2>3, <2>4
  <1>4. IdleAside(L2, W2)
    <2>1. W2[Idle] = W[Idle]
      BY <1>0, <1>a
    <2>2. W[Idle] = Nowhere => L2.next[Idle] = L.next[Idle]
      BY <1>0, <1>a
    <2> QED BY <1>0, <1>a, <2>1, <2>2 DEF IdleAside
  <1> QED BY <1>3, <1>4

-----------------------------------------------------------------------------
(* The operations on the sleep queue and on the waiters of a mutex.        *)

SleepFirst(L, t)     == [L EXCEPT !.next[t] = L.sleep, !.sleep = t]
SleepBehind(L, b, t) == [L EXCEPT !.next[t] = L.next[b], !.next[b] = t]
WakeFirst(L)         == [L EXCEPT !.sleep = L.next[L.sleep]]
WaitFirst(L, m, t)   == [L EXCEPT !.next[t] = L.waiters[m], !.waiters[m] = t]
WaiterGone(L, m)     == [L EXCEPT !.waiters[m] = L.next[L.waiters[m]]]

LEMMA PlaceKinds ==
    /\ \A q \in Queue : /\ <<"READY", q>> # Nowhere /\ <<"READY", q>> # <<"SLEEPING", NULL>>
                        /\ \A m \in Mutex : <<"READY", q>> # <<"BLOCKED", m>>
    /\ \A m \in Mutex : <<"BLOCKED", m>> # Nowhere /\ <<"BLOCKED", m>> # <<"SLEEPING", NULL>>
    /\ <<"SLEEPING", NULL>> # Nowhere
  BY DEF Nowhere

LEMMA SleepFirstLinked ==
    ASSUME NEW L, NEW W, Linked(L, W), NEW t \in Slot \ {Idle}, W[t] = Nowhere
    PROVE  Linked(SleepFirst(L, t), [W EXCEPT ![t] = <<"SLEEPING", NULL>>])
  <1> DEFINE L2 == SleepFirst(L, t)
             p == <<"SLEEPING", NULL>>
             W2 == [W EXCEPT ![t] = p]
  <1>0. L \in Links /\ W \in [Slot -> Lists \cup {Nowhere}] /\ p \in Lists /\ L.next \in [Slot -> Link]
    BY LinkedFacts, ListNames
  <1>1. /\ L2 \in Links /\ L2.sleep = t /\ L2.waiters = L.waiters /\ L2.head = L.head /\ L2.tail = L.tail
        /\ L2.prev = L.prev /\ L2.next[t] = L.sleep /\ \A u \in Slot : u # t => L2.next[u] = L.next[u]
    BY <1>0 DEF SleepFirst, Links, Link
  <1>2. W2 \in [Slot -> Lists \cup {Nowhere}] /\ SameBut({t}, W, W2) /\ W2[t] = p
    BY <1>0 DEF SameBut
  <1> HIDE DEF L2, W2, p
  <1>3. Chained(Heads(L2), L2.next, W2)
    <2>1. PICK R \in [Slot -> Nat] : Chain(Heads(L), L.next, W, R) /\ Ghost(Heads(L), L.next, W, R)
      BY LinkedFacts
    <2>2. Heads(L2) = [Heads(L) EXCEPT ![p] = t]
      BY <1>0, <1>1, HeadsSleep DEF p
    <2>3. SameBut({t}, L.next, L2.next) /\ L2.next[t] = Heads(L)[p] /\ L2.next \in [Slot -> Link]
      <3>1. L2.next \in [Slot -> Link]
        BY <1>1 DEF Links
      <3> QED BY <3>1, <1>0, <1>1, HeadsType DEF SameBut, p
    <2>4. Chained([Heads(L) EXCEPT ![p] = t], L2.next, [W EXCEPT ![t] = p])
      BY <1>0, <2>1, <2>3, ChainFront
    <2> QED BY <2>2, <2>4 DEF W2
  <1>4. Mirror(L2, W2) /\ IdleAside(L2, W2)
    <2>1. Aside(L, L2, W, W2, t)
      BY <1>1, <1>2, PlaceKinds DEF Aside, SameBut, p
    <2> QED BY <2>1, QueuesAside
  <1>5. Linked(L2, W2)
    BY <1>1, <1>2, <1>3, <1>4 DEF Linked
  <1> QED BY <1>5 DEF L2, W2, p

LEMMA SleepBehindLinked ==
    ASSUME NEW L, NEW W, Linked(L, W), NEW t \in Slot \ {Idle}, W[t] = Nowhere,
           NEW b \in Slot, W[b] = <<"SLEEPING", NULL>>
    PROVE  Linked(SleepBehind(L, b, t), [W EXCEPT ![t] = <<"SLEEPING", NULL>>])
  <1> DEFINE L2 == SleepBehind(L, b, t)
             p == <<"SLEEPING", NULL>>
             W2 == [W EXCEPT ![t] = p]
  <1>0. /\ L \in Links /\ W \in [Slot -> Lists \cup {Nowhere}] /\ p \in Lists /\ L.next \in [Slot -> Link]
        /\ b # t
    BY LinkedFacts, ListNames, PlaceKinds
  <1>1. /\ L2 \in Links /\ L2.sleep = L.sleep /\ L2.waiters = L.waiters /\ L2.head = L.head /\ L2.tail = L.tail
        /\ L2.prev = L.prev /\ L2.next[t] = L.next[b] /\ L2.next[b] = t
        /\ \A u \in Slot : u # t /\ u # b => L2.next[u] = L.next[u]
    BY <1>0 DEF SleepBehind, Links, Link
  <1>2. W2 \in [Slot -> Lists \cup {Nowhere}] /\ SameBut({t}, W, W2) /\ W2[t] = p /\ W[b] = p
    BY <1>0 DEF SameBut
  <1> HIDE DEF L2, W2, p
  <1>3. Chained(Heads(L2), L2.next, W2)
    <2>1. PICK R \in [Slot -> Nat] : Chain(Heads(L), L.next, W, R) /\ Ghost(Heads(L), L.next, W, R)
      BY LinkedFacts
    <2>2. Heads(L2) = Heads(L)
      BY <1>0, <1>1, HeadsSame
    <2>3. SameBut({t, b}, L.next, L2.next) /\ L2.next \in [Slot -> Link] /\ W[b] \in Lists
      <3>1. L2.next \in [Slot -> Link]
        BY <1>1 DEF Links
      <3> QED BY <3>1, <1>0, <1>1, <1>2 DEF SameBut
    <2>4. Chained(Heads(L), L2.next, [W EXCEPT ![t] = W[b]])
      BY <1>1, <2>1, <2>3, ChainAfter
    <2> QED BY <2>2, <2>4, <1>2 DEF W2
  <1>4. Mirror(L2, W2) /\ IdleAside(L2, W2)
    <2>1. Aside(L, L2, W, W2, t)
      BY <1>1, <1>2, PlaceKinds DEF Aside, SameBut, p
    <2> QED BY <2>1, QueuesAside
  <1>5. Linked(L2, W2)
    BY <1>1, <1>2, <1>3, <1>4 DEF Linked
  <1> QED BY <1>5 DEF L2, W2, p

LEMMA WakeFirstLinked ==
    ASSUME NEW L, NEW W, Linked(L, W), L.sleep # NULL
    PROVE  /\ L.sleep \in Slot /\ L.sleep # Idle /\ W[L.sleep] = <<"SLEEPING", NULL>>
           /\ Linked(WakeFirst(L), [W EXCEPT ![L.sleep] = Nowhere])
  <1> DEFINE L2 == WakeFirst(L)
             t == L.sleep
             p == <<"SLEEPING", NULL>>
             W2 == [W EXCEPT ![t] = Nowhere]
  <1>0. /\ L \in Links /\ W \in [Slot -> Lists \cup {Nowhere}] /\ p \in Lists /\ L.next \in [Slot -> Link]
        /\ t \in Slot
    BY LinkedFacts, ListNames, NullIsNoSlot DEF Links
  <1>1. /\ L2 \in Links /\ L2.sleep = L.next[t] /\ L2.waiters = L.waiters /\ L2.head = L.head /\ L2.tail = L.tail
        /\ L2.prev = L.prev /\ L2.next = L.next
    BY <1>0 DEF WakeFirst, Links, Link
  <1>2. W2 \in [Slot -> Lists \cup {Nowhere}] /\ SameBut({t}, W, W2) /\ W2[t] = Nowhere
    BY <1>0 DEF SameBut
  <1> HIDE DEF L2, W2, p
  <1>3. PICK R \in [Slot -> Nat] : Chain(Heads(L), L.next, W, R) /\ Ghost(Heads(L), L.next, W, R)
    BY LinkedFacts
  <1>4. W[t] = p /\ Chain([Heads(L) EXCEPT ![p] = L.next[t]], L2.next, [W EXCEPT ![t] = Nowhere], R)
    <2>1. Heads(L)[p] = t
      BY <1>0, HeadsType DEF p
    <2>2. SameBut({t}, L.next, L2.next) /\ L2.next \in [Slot -> Link]
      BY <1>0, <1>1 DEF SameBut
    <2>3. p \in Lists /\ t \in Slot
      BY <1>0
    <2> HIDE DEF t
    <2> QED BY <1>3, <2>1, <2>2, <2>3, ChainPop
  <1>5. Chained(Heads(L2), L2.next, W2)
    <2>2. Heads(L2) = [Heads(L) EXCEPT ![p] = L.next[t]]
      BY <1>0, <1>1, HeadsSleep DEF p
    <2> QED BY <2>2, <1>4 DEF W2, Chained
  <1>6. t # Idle
    BY <1>4, PlaceKinds, LinkedFacts DEF p, IdleAside
  <1>7. Mirror(L2, W2) /\ IdleAside(L2, W2)
    <2>1. Aside(L, L2, W, W2, t)
      <3> HIDE DEF t
      <3> QED BY <1>0, <1>1, <1>2, <1>4, <1>6, PlaceKinds DEF Aside, SameBut, p
    <2> QED BY <2>1, QueuesAside
  <1>8. Linked(L2, W2)
    BY <1>1, <1>2, <1>5, <1>7 DEF Linked
  <1> QED BY <1>0, <1>4, <1>6, <1>8 DEF L2, W2, p

LEMMA WaitFirstLinked ==
    ASSUME NEW L, NEW W, Linked(L, W), NEW m \in Mutex, NEW t \in Slot \ {Idle}, W[t] = Nowhere
    PROVE  /\ Linked(WaitFirst(L, m, t), [W EXCEPT ![t] = <<"BLOCKED", m>>])
           /\ SleepersKept(L, WaitFirst(L, m, t), W)
  <1> DEFINE L2 == WaitFirst(L, m, t)
             p == <<"BLOCKED", m>>
             W2 == [W EXCEPT ![t] = p]
  <1>0. L \in Links /\ W \in [Slot -> Lists \cup {Nowhere}] /\ p \in Lists /\ L.next \in [Slot -> Link]
    BY LinkedFacts, ListNames
  <1>1. /\ L2 \in Links /\ L2.sleep = L.sleep /\ L2.head = L.head /\ L2.tail = L.tail
        /\ L2.waiters[m] = t /\ \A n \in Mutex : n # m => L2.waiters[n] = L.waiters[n]
        /\ L2.prev = L.prev /\ L2.next[t] = L.waiters[m] /\ \A u \in Slot : u # t => L2.next[u] = L.next[u]
    BY <1>0 DEF WaitFirst, Links, Link
  <1>2. W2 \in [Slot -> Lists \cup {Nowhere}] /\ SameBut({t}, W, W2) /\ W2[t] = p
    BY <1>0 DEF SameBut
  <1> HIDE DEF L2, W2, p
  <1>3. Chained(Heads(L2), L2.next, W2)
    <2>1. PICK R \in [Slot -> Nat] : Chain(Heads(L), L.next, W, R) /\ Ghost(Heads(L), L.next, W, R)
      BY LinkedFacts
    <2>2. Heads(L2) = [Heads(L) EXCEPT ![p] = t]
      BY <1>0, <1>1, HeadsWait DEF p
    <2>3. SameBut({t}, L.next, L2.next) /\ L2.next[t] = Heads(L)[p] /\ L2.next \in [Slot -> Link]
      <3>1. L2.next \in [Slot -> Link]
        BY <1>1 DEF Links
      <3> QED BY <3>1, <1>0, <1>1, HeadsType DEF SameBut, p
    <2>4. Chained([Heads(L) EXCEPT ![p] = t], L2.next, [W EXCEPT ![t] = p])
      BY <1>0, <2>1, <2>3, ChainFront
    <2> QED BY <2>2, <2>4 DEF W2
  <1>4. Mirror(L2, W2) /\ IdleAside(L2, W2)
    <2>1. Aside(L, L2, W, W2, t)
      BY <1>1, <1>2, PlaceKinds DEF Aside, SameBut, p
    <2> QED BY <2>1, QueuesAside
  <1>5. Linked(L2, W2)
    BY <1>1, <1>2, <1>3, <1>4 DEF Linked
  <1>6. SleepersKept(L, L2, W)
    BY <1>1, PlaceKinds DEF SleepersKept
  <1> QED BY <1>5, <1>6 DEF L2, W2, p

LEMMA WaiterGoneLinked ==
    ASSUME NEW L, NEW W, Linked(L, W), NEW m \in Mutex, L.waiters[m] # NULL
    PROVE  /\ L.waiters[m] \in Slot /\ L.waiters[m] # Idle /\ W[L.waiters[m]] = <<"BLOCKED", m>>
           /\ Linked(WaiterGone(L, m), [W EXCEPT ![L.waiters[m]] = Nowhere])
           /\ WaiterGone(L, m).next = L.next
  <1> DEFINE L2 == WaiterGone(L, m)
             t == L.waiters[m]
             p == <<"BLOCKED", m>>
             W2 == [W EXCEPT ![t] = Nowhere]
  <1>0. /\ L \in Links /\ W \in [Slot -> Lists \cup {Nowhere}] /\ p \in Lists /\ L.next \in [Slot -> Link]
        /\ t \in Slot
    BY LinkedFacts, ListNames, NullIsNoSlot DEF Links
  <1>1. /\ L2 \in Links /\ L2.sleep = L.sleep /\ L2.head = L.head /\ L2.tail = L.tail
        /\ L2.waiters[m] = L.next[t] /\ \A n \in Mutex : n # m => L2.waiters[n] = L.waiters[n]
        /\ L2.prev = L.prev /\ L2.next = L.next
    BY <1>0 DEF WaiterGone, Links, Link
  <1>2. W2 \in [Slot -> Lists \cup {Nowhere}] /\ SameBut({t}, W, W2) /\ W2[t] = Nowhere
    BY <1>0 DEF SameBut
  <1> HIDE DEF L2, W2, p
  <1>3. PICK R \in [Slot -> Nat] : Chain(Heads(L), L.next, W, R) /\ Ghost(Heads(L), L.next, W, R)
    BY LinkedFacts
  <1>4. W[t] = p /\ Chain([Heads(L) EXCEPT ![p] = L.next[t]], L2.next, [W EXCEPT ![t] = Nowhere], R)
    <2>1. Heads(L)[p] = t
      BY <1>0, HeadsType DEF p
    <2>2. SameBut({t}, L.next, L2.next) /\ L2.next \in [Slot -> Link]
      BY <1>0, <1>1 DEF SameBut
    <2>3. p \in Lists /\ t \in Slot
      BY <1>0
    <2> HIDE DEF t
    <2> QED BY <1>3, <2>1, <2>2, <2>3, ChainPop
  <1>5. Chained(Heads(L2), L2.next, W2)
    <2>2. Heads(L2) = [Heads(L) EXCEPT ![p] = L.next[t]]
      BY <1>0, <1>1, HeadsWait DEF p
    <2> QED BY <2>2, <1>4 DEF W2, Chained
  <1>6. t # Idle
    BY <1>4, PlaceKinds, LinkedFacts DEF p, IdleAside
  <1>7. Mirror(L2, W2) /\ IdleAside(L2, W2)
    <2>1. Aside(L, L2, W, W2, t)
      <3> HIDE DEF t
      <3> QED BY <1>0, <1>1, <1>2, <1>4, <1>6, PlaceKinds DEF Aside, SameBut, p
    <2> QED BY <2>1, QueuesAside
  <1>8. Linked(L2, W2)
    BY <1>1, <1>2, <1>5, <1>7 DEF Linked
  <1> QED BY <1>0, <1>1, <1>4, <1>6, <1>8 DEF L2, W2, p

-----------------------------------------------------------------------------
(* What the parts of sched_tick make of the fields: the wakeups.           *)

(* The lists with the threads, and what the watchdog passes on. *)
Pair(now) == [L : Links, T : Threads(now)]

LEMMA ThreadsGrow ==
    ASSUME NEW now \in Nat, NEW T \in Threads(now)
    PROVE  T \in Threads(now + 1)
  <1>1. \A r \in Thread(now) : r \in Thread(now + 1)
    <2> TAKE r \in Thread(now)
    <2>1. r \in TCB /\ r.deadline \in Nat
      BY DEF Thread, TCB
    <2> QED BY <2>1 DEF Thread
  <1> QED BY <1>1 DEF Threads

(* A thread with other priority, slice, state and times, of their types. *)
LEMMA ThreadFields ==
    ASSUME NEW now \in Nat, NEW r \in Thread(now)
    PROVE  /\ r \in TCB
           /\ r.prio \in 0..4 /\ r.base \in 0..4 /\ r.st \in State /\ r.slice \in Nat
           /\ r.until \in Nat /\ r.last \in Nat /\ r.deadline \in Nat /\ r.missed \in BOOLEAN
           /\ r.prio >= r.base \/ r.prio >= 3
           /\ r.missed => now > r.deadline
  BY DEF Thread, TCB, Runnable, IDLE, REALTIME, HIGH

LEMMA WakeStep ==
    ASSUME NEW now \in Nat, NEW s \in Pair(now), NEW t \in Slot
    PROVE  WakeOne(s, t) \in Pair(now)
  <1>1. s = [L |-> s.L, T |-> s.T] /\ s.L \in Links /\ s.T \in Threads(now)
    BY DEF Pair
  <1> DEFINE l == s.L
             u == s.T
             v == WakeOne([L |-> l, T |-> u], t)
  <1>2. WakeOne(s, t) = v
    BY <1>1
  <1>3. v.L \in Links /\ v.T \in Threads(now) /\ v = [L |-> v.L, T |-> v.T]
    <2> HIDE DEF l, u
    <2>1. l \in Links /\ u \in Threads(now)
      BY <1>1 DEF l, u
    <2> QED BY <2>1, WakeOneType
  <1> HIDE DEF v
  <1> QED BY <1>2, <1>3 DEF Pair

LEMMA DueType ==
    ASSUME NEW L \in Links, NEW T, NEW d
    PROVE  /\ Len(DuePrefix(L, T, d)) \in 0..Len(Walk(L, L.sleep))
           /\ \A i \in 1..Len(DuePrefix(L, T, d)) : /\ DuePrefix(L, T, d)[i] = Walk(L, L.sleep)[i]
                                                    /\ DuePrefix(L, T, d)[i] \in Slot
  <1> DEFINE w == Walk(L, L.sleep)
             due == DuePrefix(L, T, d)
  <1>1. L.sleep \in Link
    BY DEF Links
  <1>2. w \in Seq(Slot) /\ Len(w) \in Nat
    BY <1>1, WalkType
  <1>3. PICK n \in 0..Len(w) : due = SubSeq(w, 1, n)
    BY DueIsPrefix
  <1> HIDE DEF w, due
  <1>4. Len(due) = n /\ \A i \in 1..n : due[i] = w[i]
    BY <1>2, <1>3
  <1>5. \A i \in 1..n : w[i] \in Slot
    BY <1>2, <1>3
  <1> QED BY <1>3, <1>4, <1>5 DEF w, due

(* g: how the sleepers that are due are woken one by one. *)
WokenBy(g, now) ==
    LET due == DuePrefix(links, tcb, now)
    IN /\ g \in [0..Len(due) -> Pair(now)]
       /\ g[0] = [L |-> links, T |-> tcb]
       /\ \A i \in 1..Len(due) : g[i] = WakeOne(g[i-1], due[i])
       /\ WakeSleepers(now) = g[Len(due)]

LEMMA WokenSteps ==
    ASSUME NEW now \in Nat, links \in Links, tcb \in Threads(now)
    PROVE  \E g : WokenBy(g, now)
  <1> DEFINE due == DuePrefix(links, tcb, now)
             n == Len(due)
             base == [L |-> links, T |-> tcb]
             D == Pair(now)
             IsWoken(g) == g = [i \in 0..n |-> IF i = 0 THEN base ELSE WakeOne(g[i-1], due[i])]
  <1>0. n \in Nat /\ \A i \in 1..n : due[i] \in Slot
    <2>1. links.sleep \in Link
      BY DEF Links
    <2>2. Len(Walk(links, links.sleep)) \in Nat
      BY <2>1, WalkType
    <2> QED BY <2>2, DueType
  <1>1. base \in D
    BY DEF Pair
  <1> HIDE DEF due, base, D
  <1>2. \A s \in D, i \in 1..n : WakeOne(s, due[i]) \in D
    BY <1>0, WakeStep DEF D
  <1>3. \E g : IsWoken(g)
    <2> DEFINE F == [i \in 1..n |-> [s \in D |-> WakeOne(s, due[i])]]
    <2>1. StaysIn(F, D, n)
      BY <1>2 DEF StaysIn
    <2>2. \A s \in D, i \in 1..n : F[i][s] = WakeOne(s, due[i])
      OBVIOUS
    <2> HIDE DEF F, n
    <2>3. PICK g : Path(g, F, base, D, n)
      BY <1>0, <1>1, <2>1, StepByStep
    <2>4. \A i \in 1..n : g[i-1] \in D
      BY <1>0, <2>3 DEF Path
    <2>5. IsWoken(g)
      BY <1>0, <2>2, <2>3, <2>4 DEF Path
    <2> QED BY <2>5
  <1> DEFINE h == CHOOSE g : IsWoken(g)
  <1>4. WakeSleepers(now) = h[n]
    BY DEF WakeSleepers, due, base
  <1>5. IsWoken(h)
    <2> HIDE DEF IsWoken
    <2> QED BY <1>3
  <1> HIDE DEF h
  <1>6. h[0] = base /\ \A i \in 1..n : h[i] = WakeOne(h[i-1], due[i])
    <2> HIDE DEF n
    <2> QED BY <1>0, <1>5
  <1> DEFINE A == {i \in 0..n : h[i] \in D}
  <1>7. \A i \in 0..n : i \in A
    <2> HIDE DEF n
    <2>1. 0 \in A
      BY <1>0, <1>1, <1>6
    <2>2. ASSUME NEW i \in 1..n, i - 1 \in A PROVE i \in A
      BY <2>2, <1>2, <1>6
    <2> HIDE DEF A
    <2> QED BY <1>0, <2>1, <2>2, Climb
  <1>8. h \in [0..n -> D]
    <2> HIDE DEF n
    <2> QED BY <1>5, <1>7
  <1>9. WokenBy(h, now)
    BY <1>4, <1>6, <1>8 DEF WokenBy, due, base, D
  <1> QED BY <1>9

LEMMA WakeSleepersType ==
    ASSUME NEW now \in Nat, links \in Links, tcb \in Threads(now)
    PROVE  WakeSleepers(now) \in Pair(now)
  <1>1. PICK g : WokenBy(g, now)
    BY WokenSteps
  <1>2. Len(DuePrefix(links, tcb, now)) \in Nat
    <2>1. links.sleep \in Link
      BY DEF Links
    <2>2. Len(Walk(links, links.sleep)) \in Nat
      BY <2>1, WalkType
    <2> QED BY <2>2, DueType
  <1> QED BY <1>1, <1>2 DEF WokenBy

-----------------------------------------------------------------------------
(* The watchdog.                                                           *)

(* In T2 every thread is in the state it is in in T, with the same base and
   wakeup: its place in the lists is the same.                             *)
SameLife(T, T2) == \A t \in Slot : /\ T2[t].st = T[t].st /\ T2[t].base = T[t].base
                                   /\ T2[t].until = T[t].until

(* One thread is given a state, a priority and a slice. *)
LEMMA SetThread ==
    ASSUME NEW now \in Nat, NEW T \in Threads(now), NEW t \in Slot, NEW r \in Thread(now)
    PROVE  /\ [T EXCEPT ![t] = r] \in Threads(now)
           /\ T[t] \in Thread(now)
           /\ r.st = T[t].st /\ r.base = T[t].base /\ r.until = T[t].until
                => SameLife(T, [T EXCEPT ![t] = r])
  BY DEF Threads, SameLife

(* Nobody has a deadline: the watchdog then changes no thread. *)
Calm(T) == \A t \in Slot : T[t].deadline = 0

(* What rtos_watchdog_tick hands on from slot to slot. *)
Watched(now, T) == {s \in [T : Threads(now), streak : 0..MissLimit] :
                        SameLife(T, s.T) /\ (Calm(T) => s.T = T)}

LEMMA WatchStep ==
    ASSUME NEW now \in Nat, NEW T \in Threads(now), NEW s \in Watched(now, T), NEW t \in Slot
    PROVE  WatchOne(now, s, t) \in Watched(now, T)
  <1> DEFINE u == s.T
             r == u[t]
             n == s.streak + 1
  <1>1. u \in Threads(now) /\ s.streak \in 0..MissLimit /\ SameLife(T, u) /\ (Calm(T) => u = T)
    BY DEF Watched
  <1>2. r \in Thread(now)
    BY <1>1 DEF Threads
  <1>3. MissLimit \in Nat /\ MissLimit > 0
    BY SchedAssumption
  <1>4. /\ r \in TCB /\ r.prio \in 0..4 /\ r.base \in 0..4 /\ r.deadline \in Nat
        /\ r.prio >= r.base \/ r.prio >= 3
    BY <1>2, ThreadFields
  <1> DEFINE Put(x) == [u EXCEPT ![t] = x]
  <1>5. ASSUME NEW x \in Thread(now), x.st = r.st, x.base = r.base, x.until = r.until,
               NEW k \in 0..MissLimit, r.deadline # 0
        PROVE  [T |-> Put(x), streak |-> k] \in Watched(now, T)
    <2>1. Put(x) \in Threads(now) /\ SameLife(u, Put(x))
      BY <1>1, <1>5, SetThread
    <2>2. SameLife(T, Put(x))
      BY <1>1, <2>1 DEF SameLife
    <2>3. ~Calm(T)
      BY <1>1, <1>5 DEF Calm
    <2> HIDE DEF Put
    <2> QED BY <2>1, <2>2, <2>3 DEF Watched
  <1>6. CASE r.st = "TERMINATED" \/ r.prio < REALTIME \/ r.deadline = 0
    BY <1>6 DEF WatchOne
  <1>7. CASE ~(r.st = "TERMINATED" \/ r.prio < REALTIME \/ r.deadline = 0)
    <2> DEFINE m == [r EXCEPT !.missed = TRUE]
               k == [r EXCEPT !.missed = TRUE, !.prio = HIGH]
               c == [r EXCEPT !.missed = FALSE]
    <2>1. /\ m \in TCB /\ m.st = r.st /\ m.base = r.base /\ m.until = r.until
          /\ m.prio = r.prio /\ m.deadline = r.deadline
      BY <1>4 DEF TCB
    <2>2. /\ k \in TCB /\ k.st = r.st /\ k.base = r.base /\ k.until = r.until
          /\ k.prio = 3 /\ k.deadline = r.deadline
      <3>1. HIGH \in Runnable /\ HIGH = 3
        BY DEF Runnable, IDLE, REALTIME, HIGH
      <3> HIDE DEF r
      <3> QED BY <3>1, <1>4 DEF TCB
    <2>3. /\ c \in TCB /\ c.st = r.st /\ c.base = r.base /\ c.until = r.until
          /\ c.prio = r.prio /\ c.missed = FALSE
      BY <1>4 DEF TCB
    <2>4. c \in Thread(now)
      <3> HIDE DEF c
      <3> QED BY <2>3, <1>4 DEF Thread, HIGH
    <2>5. ASSUME now > r.deadline PROVE m \in Thread(now) /\ k \in Thread(now)
      <3> HIDE DEF m, k
      <3> QED BY <2>1, <2>2, <1>4, <2>5 DEF Thread, HIGH
    <2>6. /\ Put(m) = [u EXCEPT ![t].missed = TRUE]
          /\ Put(k) = [u EXCEPT ![t].missed = TRUE, ![t].prio = HIGH]
          /\ Put(c) = [u EXCEPT ![t].missed = FALSE]
      BY <1>1 DEF Threads
    <2>7. WatchOne(now, s, t) =
            IF now > r.deadline /\ ~r.missed
            THEN IF n >= MissLimit THEN [T |-> Put(k), streak |-> 0]
                                   ELSE [T |-> Put(m), streak |-> n]
            ELSE IF now <= r.deadline THEN [T |-> Put(c), streak |-> 0] ELSE s
      <3> HIDE DEF Put, m, k, c
      <3> QED BY <1>7, <2>6 DEF WatchOne
    <2> HIDE DEF m, k, c, Put
    <2>8. CASE now > r.deadline /\ ~r.missed /\ n >= MissLimit
      <3>1. [T |-> Put(k), streak |-> 0] \in Watched(now, T)
        BY <2>8, <2>2, <2>5, <1>3, <1>5, <1>7
      <3> QED BY <3>1, <2>7, <2>8
    <2>9. CASE now > r.deadline /\ ~r.missed /\ ~(n >= MissLimit)
      <3>0. n \in 0..MissLimit
        BY <1>1, <1>3, <2>9
      <3> HIDE DEF n
      <3>1. [T |-> Put(m), streak |-> n] \in Watched(now, T)
        BY <2>9, <2>1, <2>5, <3>0, <1>5, <1>7
      <3> QED BY <3>1, <2>7, <2>9
    <2>10. CASE ~(now > r.deadline /\ ~r.missed) /\ now <= r.deadline
      <3>1. [T |-> Put(c), streak |-> 0] \in Watched(now, T)
        BY <2>3, <2>4, <1>3, <1>5, <1>7
      <3> QED BY <3>1, <2>7, <2>10
    <2>11. CASE ~(now > r.deadline /\ ~r.missed) /\ ~(now <= r.deadline)
      BY <2>7, <2>11
    <2> QED BY <2>8, <2>9, <2>10, <2>11
  <1> QED BY <1>6, <1>7

(* The watchdog moves nobody. *)
LEMMA WatchdogKeeps ==
    ASSUME NEW now \in Nat, NEW T \in Threads(now), streak \in 0..MissLimit
    PROVE  rtos_watchdog_tick(T, now) \in Watched(now, T)
  <1> DEFINE n == MaxThreads
             base == [T |-> T, streak |-> streak]
             D == Watched(now, T)
             IsAfter(g) == g = [t \in 0..n |-> IF t = 0 THEN base ELSE WatchOne(now, g[t-1], t)]
  <1>0. n \in Nat /\ \A t \in 1..n : t \in Slot
    BY SchedAssumption DEF Slot
  <1>1. base \in D
    BY DEF Watched, SameLife
  <1>2. \A s \in D, t \in 1..n : WatchOne(now, s, t) \in D
    BY <1>0, WatchStep
  <1> HIDE DEF D
  <1>3. \E g : IsAfter(g)
    <2> DEFINE F == [t \in 1..n |-> [s \in D |-> WatchOne(now, s, t)]]
    <2>1. StaysIn(F, D, n)
      BY <1>2 DEF StaysIn
    <2>2. \A s \in D, t \in 1..n : F[t][s] = WatchOne(now, s, t)
      OBVIOUS
    <2> HIDE DEF F, n, base
    <2>3. PICK g : Path(g, F, base, D, n)
      BY <1>0, <1>1, <2>1, StepByStep
    <2>4. \A t \in 1..n : g[t-1] \in D
      BY <1>0, <2>3 DEF Path
    <2>5. IsAfter(g)
      BY <1>0, <2>2, <2>3, <2>4 DEF Path
    <2> QED BY <2>5
  <1> DEFINE h == CHOOSE g : IsAfter(g)
  <1>4. rtos_watchdog_tick(T, now) = h[n]
    BY DEF rtos_watchdog_tick
  <1>5. IsAfter(h)
    <2> HIDE DEF IsAfter
    <2> QED BY <1>3
  <1> HIDE DEF h, base
  <1>6. h[0] = base /\ \A t \in 1..n : h[t] = WatchOne(now, h[t-1], t)
    <2> HIDE DEF n
    <2> QED BY <1>0, <1>5
  <1> DEFINE A == {t \in 0..n : h[t] \in D}
  <1>7. \A t \in 0..n : t \in A
    <2> HIDE DEF n
    <2>1. 0 \in A
      BY <1>0, <1>1, <1>6
    <2>2. ASSUME NEW t \in 1..n, t - 1 \in A PROVE t \in A
      BY <2>2, <1>2, <1>6
    <2> HIDE DEF A
    <2> QED BY <1>0, <2>1, <2>2, Climb
  <1>8. h[n] \in D
    <2> HIDE DEF n
    <2> QED BY <1>0, <1>7
  <1> QED BY <1>4, <1>8 DEF D

-----------------------------------------------------------------------------
(* The starvation scan, and the thread that runs next.                     *)

(* What the starvation scan can make of threads T. *)
Scanned(now, T) == {s \in Pair(now) : SameLife(T, s.T)}

LEMMA BoostStep ==
    ASSUME NEW now \in Nat, NEW T \in Threads(now), NEW s \in Scanned(now, T),
           NEW q \in Queue, NEW t \in Slot
    PROVE  BoostOne(now, q, s, t) \in Scanned(now, T)
  <1> DEFINE u == s.T
             b == u[t].base
             r == [u[t] EXCEPT !.prio = b, !.slice = Quanta[b]]
             l == queue_push_front(queue_remove(s.L, q, t), b, t)
  <1>1. s.L \in Links /\ u \in Threads(now) /\ SameLife(T, u)
    BY DEF Scanned, Pair
  <1>2. u[t] \in Thread(now)
    BY <1>1 DEF Threads
  <1>3. u[t] \in TCB /\ b \in 0..4 /\ (u[t].missed => now > u[t].deadline)
    BY <1>2, ThreadFields
  <1>4. b \in Runnable /\ b \in Level /\ Quanta[b] \in Nat
    BY <1>3, QuantaType DEF Level, ISR, Runnable, IDLE, REALTIME
  <1>5. r \in Thread(now) /\ r.st = u[t].st /\ r.base = b /\ r.until = u[t].until
    <2>1. r \in TCB /\ r.prio = b /\ r.base = b /\ r.st = u[t].st /\ r.until = u[t].until
          /\ r.missed = u[t].missed /\ r.deadline = u[t].deadline
      BY <1>3, <1>4 DEF TCB
    <2> HIDE DEF r
    <2> QED BY <2>1, <1>3 DEF Thread
  <1>6. [u EXCEPT ![t].prio = b, ![t].slice = Quanta[b]] = [u EXCEPT ![t] = r]
    BY <1>1 DEF Threads
  <1>7. l \in Links
    BY <1>1, <1>4, QueueTypes, QueueLevels
  <1>8. BoostOne(now, q, s, t) = IF now - s.T[t].last > StarveAfter
                                 THEN [L |-> l, T |-> [u EXCEPT ![t] = r]] ELSE s
    BY <1>6 DEF BoostOne
  <1>9. [L |-> l, T |-> [u EXCEPT ![t] = r]] \in Scanned(now, T)
    <2> HIDE DEF l, r
    <2>1. [u EXCEPT ![t] = r] \in Threads(now) /\ SameLife(u, [u EXCEPT ![t] = r])
      BY <1>1, <1>5, SetThread
    <2>2. SameLife(T, [u EXCEPT ![t] = r])
      BY <1>1, <2>1 DEF SameLife
    <2> QED BY <1>7, <2>1, <2>2 DEF Scanned, Pair
  <1> HIDE DEF l, r
  <1> QED BY <1>8, <1>9

(* g: how the threads met in queue q are looked at one by one. *)
ScannedBy(g, now, q, s) ==
    LET met == Walk(s.L, s.L.head[q])
    IN /\ g \in [0..Len(met) -> Scanned(now, s.T)]
       /\ g[0] = s
       /\ \A i \in 1..Len(met) : g[i] = BoostOne(now, q, g[i-1], met[i])
       /\ ScanQueue(now, q, s) = g[Len(met)]

LEMMA ScannedSteps ==
    ASSUME NEW now \in Nat, NEW q \in Queue, NEW s \in Pair(now)
    PROVE  \E g : ScannedBy(g, now, q, s)
  <1> DEFINE met == Walk(s.L, s.L.head[q])
             n == Len(met)
             D == Scanned(now, s.T)
             IsScan(g) == g = [i \in 0..n |-> IF i = 0 THEN s ELSE BoostOne(now, q, g[i-1], met[i])]
  <1>0. n \in Nat /\ \A i \in 1..n : met[i] \in Slot
    <2>1. s.L \in Links /\ s.L.head[q] \in Link
      BY QueueLevels DEF Pair, Links
    <2>2. met \in Seq(Slot)
      BY <2>1, WalkType
    <2> HIDE DEF met
    <2> QED BY <2>2
  <1>1. s \in D /\ s.T \in Threads(now)
    BY DEF Scanned, Pair, SameLife
  <1> HIDE DEF met, D
  <1>2. \A x \in D, i \in 1..n : BoostOne(now, q, x, met[i]) \in D
    BY <1>0, <1>1, BoostStep DEF D
  <1>3. \E g : IsScan(g)
    <2> DEFINE F == [i \in 1..n |-> [x \in D |-> BoostOne(now, q, x, met[i])]]
    <2>1. StaysIn(F, D, n)
      BY <1>2 DEF StaysIn
    <2>2. \A x \in D, i \in 1..n : F[i][x] = BoostOne(now, q, x, met[i])
      OBVIOUS
    <2> HIDE DEF F, n
    <2>3. PICK g : Path(g, F, s, D, n)
      BY <1>0, <1>1, <2>1, StepByStep
    <2>4. \A i \in 1..n : g[i-1] \in D
      BY <1>0, <2>3 DEF Path
    <2>5. IsScan(g)
      BY <1>0, <2>2, <2>3, <2>4 DEF Path
    <2> QED BY <2>5
  <1> DEFINE h == CHOOSE g : IsScan(g)
  <1>4. ScanQueue(now, q, s) = h[n]
    BY DEF ScanQueue, met
  <1>5. IsScan(h)
    <2> HIDE DEF IsScan
    <2> QED BY <1>3
  <1> HIDE DEF h
  <1>6. h[0] = s /\ \A i \in 1..n : h[i] = BoostOne(now, q, h[i-1], met[i])
    <2> HIDE DEF n
    <2> QED BY <1>0, <1>5
  <1> DEFINE A == {i \in 0..n : h[i] \in D}
  <1>7. \A i \in 0..n : i \in A
    <2> HIDE DEF n
    <2>1. 0 \in A
      BY <1>0, <1>1, <1>6
    <2>2. ASSUME NEW i \in 1..n, i - 1 \in A PROVE i \in A
      BY <2>2, <1>2, <1>6
    <2> HIDE DEF A
    <2> QED BY <1>0, <2>1, <2>2, Climb
  <1>8. h \in [0..n -> D]
    <2> HIDE DEF n
    <2> QED BY <1>5, <1>7
  <1>9. ScannedBy(h, now, q, s)
    BY <1>4, <1>6, <1>8 DEF ScannedBy, met, D
  <1> QED BY <1>9

LEMMA ScanKeeps ==
    ASSUME NEW now \in Nat, NEW q \in Queue, NEW s \in Pair(now)
    PROVE  ScanQueue(now, q, s) \in Scanned(now, s.T)
  <1>1. PICK g : ScannedBy(g, now, q, s)
    BY ScannedSteps
  <1>2. Len(Walk(s.L, s.L.head[q])) \in Nat
    <2>1. s.L \in Links /\ s.L.head[q] \in Link
      BY QueueLevels DEF Pair, Links
    <2> QED BY <2>1, WalkType
  <1> QED BY <1>1, <1>2 DEF ScannedBy

LEMMA StarvationKeeps ==
    ASSUME NEW now \in Nat, NEW L \in Links, NEW T \in Threads(now)
    PROVE  StarvationScan(L, T, now) \in Scanned(now, T)
  <1> DEFINE s == [L |-> L, T |-> T]
             a == ScanQueue(now, LOW, s)
             b == ScanQueue(now, NORMAL, a)
  <1>0. LOW \in Queue /\ NORMAL \in Queue
    BY DEF Queue, LOW, NORMAL, REALTIME
  <1>1. s \in Pair(now) /\ s \in Scanned(now, T) /\ s.T = T
    BY DEF Pair, Scanned, SameLife
  <1> HIDE DEF s
  <1>2. a \in Scanned(now, T)
    BY <1>0, <1>1, ScanKeeps
  <1> HIDE DEF a
  <1>3. a \in Pair(now)
    BY <1>2 DEF Scanned
  <1>4. b \in Scanned(now, a.T)
    BY <1>0, <1>3, ScanKeeps
  <1>5. b \in Scanned(now, T)
    BY <1>2, <1>4 DEF Scanned, SameLife
  <1> QED BY <1>1, <1>5 DEF StarvationScan, s, a

(* The thread on its way to the processor. *)
Run(T, t, now) == [T EXCEPT ![t].st = "RUNNING", ![t].last = now]

LEMMA RunKeeps ==
    ASSUME NEW now \in Nat, NEW T \in Threads(now), NEW t \in Slot
    PROVE  /\ Run(T, t, now) \in Threads(now)
           /\ \A u \in Slot : /\ Run(T, t, now)[u].st = IF u = t THEN "RUNNING" ELSE T[u].st
                              /\ Run(T, t, now)[u].base = T[u].base
                              /\ Run(T, t, now)[u].until = T[u].until
                              /\ Run(T, t, now)[u].prio = T[u].prio
                              /\ Run(T, t, now)[u].deadline = T[u].deadline
  <1> DEFINE r == [T[t] EXCEPT !.st = "RUNNING", !.last = now]
  <1>1. T[t] \in Thread(now)
    BY DEF Threads
  <1>2. T[t] \in TCB /\ T[t].prio \in 0..4 /\ T[t].base \in 0..4
        /\ (T[t].prio >= T[t].base \/ T[t].prio >= 3) /\ (T[t].missed => now > T[t].deadline)
    BY <1>1, ThreadFields
  <1>3. /\ r \in TCB /\ r.st = "RUNNING" /\ r.base = T[t].base /\ r.until = T[t].until
        /\ r.prio = T[t].prio /\ r.missed = T[t].missed /\ r.deadline = T[t].deadline
    BY <1>2 DEF TCB, State
  <1>4. Run(T, t, now) = [T EXCEPT ![t] = r]
    BY DEF Run, Threads
  <1> HIDE DEF r
  <1>5. r \in Thread(now)
    BY <1>2, <1>3 DEF Thread, HIGH
  <1> QED BY <1>3, <1>4, <1>5 DEF Threads

(* Who is picked: the head of the highest queue that is not empty. *)
LEMMA YieldedCases ==
    ASSUME NEW now \in Nat, NEW L \in Links, NEW T \in Threads(now), current \in Slot
    PROVE  \/ \E q \in Runnable :
                 /\ L.head[q] \in Slot /\ \A p \in Runnable : L.head[p] # NULL => p <= q
                 /\ Yielded(L, T, now) = [L |-> queue_pop_front(L, q), T |-> Run(T, L.head[q], now),
                                          next |-> L.head[q]]
           \/ /\ \A q \in Runnable : L.head[q] = NULL
              /\ Yielded(L, T, now) = IF T[current].st = "RUNNING"
                                      THEN [L |-> L, T |-> T, next |-> current]
                                      ELSE [L |-> L, T |-> Run(T, Idle, now), next |-> Idle]
  <1> DEFINE busy == {q \in Runnable : L.head[q] # NULL}
  <1>1. \A q \in Runnable : L.head[q] \in Link
    BY DEF Links, Runnable, Level, IDLE, REALTIME, ISR
  <1>2. CASE busy # {}
    <2>1. busy \subseteq 0..4
      BY DEF Runnable, IDLE, REALTIME
    <2> HIDE DEF busy
    <2>2. Max(busy) \in busy /\ \A p \in busy : p <= Max(busy)
      BY <1>2, <2>1, MaxIn
    <2>3. Yielded(L, T, now) = [L |-> queue_pop_front(L, Max(busy)),
                                T |-> Run(T, L.head[Max(busy)], now), next |-> L.head[Max(busy)]]
      BY <1>2 DEF Yielded, Run, busy
    <2>4. Max(busy) \in Runnable /\ L.head[Max(busy)] \in Slot
      BY <2>2, <1>1, NullIsNoSlot DEF busy
    <2>5. \A p \in Runnable : L.head[p] # NULL => p <= Max(busy)
      BY <2>2 DEF busy
    <2> QED BY <2>3, <2>4, <2>5
  <1>3. CASE busy = {}
    BY <1>3 DEF Yielded, Run
  <1> QED BY <1>2, <1>3

LEMMA YieldedType ==
    ASSUME NEW now \in Nat, NEW L \in Links, NEW T \in Threads(now), current \in Slot
    PROVE  /\ Yielded(L, T, now).L \in Links
           /\ Yielded(L, T, now).T \in Threads(now)
           /\ Yielded(L, T, now).next \in Slot
  <1>0. Idle \in Slot /\ \A q \in Runnable : q \in Level
    BY QueueLevels DEF Runnable, Level, IDLE, REALTIME, ISR
  <1> DEFINE y == Yielded(L, T, now)
  <1>1. ASSUME NEW q \in Runnable, L.head[q] \in Slot,
               y = [L |-> queue_pop_front(L, q), T |-> Run(T, L.head[q], now), next |-> L.head[q]]
        PROVE  y.L \in Links /\ y.T \in Threads(now) /\ y.next \in Slot
    <2>1. queue_pop_front(L, q) \in Links
      BY <1>0, <1>1, QueueTypes, NullIsNoSlot
    <2>2. Run(T, L.head[q], now) \in Threads(now)
      BY <1>1, RunKeeps
    <2> HIDE DEF y
    <2> QED BY <1>1, <2>1, <2>2
  <1>2. Run(T, Idle, now) \in Threads(now)
    BY <1>0, RunKeeps
  <1>3. (\A q \in Runnable : L.head[q] = NULL) /\ T[current].st = "RUNNING" /\ y = [L |-> L, T |-> T, next |-> current]
         => y.L \in Links /\ y.T \in Threads(now) /\ y.next \in Slot
    <2> HIDE DEF y
    <2> QED OBVIOUS
  <1>4. y = [L |-> L, T |-> Run(T, Idle, now), next |-> Idle]
         => y.L \in Links /\ y.T \in Threads(now) /\ y.next \in Slot
    <2> HIDE DEF y
    <2> QED BY <1>0, <1>2
  <1>5. \/ \E q \in Runnable : /\ L.head[q] \in Slot
                 /\ y = [L |-> queue_pop_front(L, q), T |-> Run(T, L.head[q], now), next |-> L.head[q]]
        \/ /\ \A q \in Runnable : L.head[q] = NULL
           /\ y = IF T[current].st = "RUNNING" THEN [L |-> L, T |-> T, next |-> current]
                  ELSE [L |-> L, T |-> Run(T, Idle, now), next |-> Idle]
    BY YieldedCases
  <1> HIDE DEF y
  <1>6. y.L \in Links /\ y.T \in Threads(now) /\ y.next \in Slot
    BY <1>1, <1>3, <1>4, <1>5
  <1> QED BY <1>6 DEF y

-----------------------------------------------------------------------------
(* What the other assignments make of the fields of one thread.            *)

Slept(T, t, d)   == [T EXCEPT ![t].st = "SLEEPING", ![t].until = d]
Expired(T, t, p) == [T EXCEPT ![t].slice = Quanta[p], ![t].prio = p, ![t].st = "READY"]

(* A thread is given a state, ... *)
LEMMA StateKeeps ==
    ASSUME NEW now \in Nat, NEW T \in Threads(now), NEW t \in Slot, NEW s \in State
    PROVE  /\ [T EXCEPT ![t].st = s] \in Threads(now)
           /\ \A u \in Slot : /\ [T EXCEPT ![t].st = s][u].st = IF u = t THEN s ELSE T[u].st
                              /\ [T EXCEPT ![t].st = s][u].base = T[u].base
                              /\ [T EXCEPT ![t].st = s][u].until = T[u].until
                              /\ [T EXCEPT ![t].st = s][u].prio = T[u].prio
                              /\ [T EXCEPT ![t].st = s][u].deadline = T[u].deadline
  <1> DEFINE r == [T[t] EXCEPT !.st = s]
  <1>1. T[t] \in Thread(now)
    BY DEF Threads
  <1>2. /\ T[t] \in TCB /\ T[t].prio \in 0..4 /\ T[t].base \in 0..4 /\ T[t].slice \in Nat
        /\ T[t].prio >= T[t].base \/ T[t].prio >= 3
        /\ T[t].missed => now > T[t].deadline
    BY <1>1, ThreadFields
  <1>3. TRUE
    OBVIOUS
  <1>4. /\ r \in TCB
        /\ r.st = s /\ r.prio = T[t].prio /\ r.base = T[t].base /\ r.until = T[t].until
        /\ r.missed = T[t].missed /\ r.deadline = T[t].deadline
    BY <1>2, <1>3 DEF TCB, State
  <1>5. [T EXCEPT ![t].st = s] = [T EXCEPT ![t] = r]
    BY DEF Threads
  <1> HIDE DEF r
  <1>6. r \in Thread(now)
    BY <1>2, <1>3, <1>4 DEF Thread, HIGH
  <1>7. [T EXCEPT ![t] = r] \in Threads(now)
    BY <1>6, SetThread
  <1>8. \A u \in Slot : [T EXCEPT ![t] = r][u] = IF u = t THEN r ELSE T[u]
    BY DEF Threads
  <1> QED BY <1>4, <1>5, <1>7, <1>8 DEF SameLife

(* ... sent to sleep, ... *)
LEMMA SleepKeeps ==
    ASSUME NEW now \in Nat, NEW T \in Threads(now), NEW t \in Slot, NEW d \in Nat
    PROVE  /\ Slept(T, t, d) \in Threads(now)
           /\ \A u \in Slot : /\ Slept(T, t, d)[u].st = IF u = t THEN "SLEEPING" ELSE T[u].st
                              /\ Slept(T, t, d)[u].until = IF u = t THEN d ELSE T[u].until
                              /\ Slept(T, t, d)[u].base = T[u].base
                              /\ Slept(T, t, d)[u].prio = T[u].prio
                              /\ Slept(T, t, d)[u].deadline = T[u].deadline
  <1> DEFINE r == [T[t] EXCEPT !.st = "SLEEPING", !.until = d]
  <1>1. T[t] \in Thread(now)
    BY DEF Threads
  <1>2. /\ T[t] \in TCB /\ T[t].prio \in 0..4 /\ T[t].base \in 0..4 /\ T[t].slice \in Nat
        /\ T[t].prio >= T[t].base \/ T[t].prio >= 3
        /\ T[t].missed => now > T[t].deadline
    BY <1>1, ThreadFields
  <1>3. TRUE
    OBVIOUS
  <1>4. /\ r \in TCB
        /\ r.st = "SLEEPING" /\ r.prio = T[t].prio /\ r.base = T[t].base /\ r.until = d
        /\ r.missed = T[t].missed /\ r.deadline = T[t].deadline
    BY <1>2, <1>3 DEF TCB, State
  <1>5. Slept(T, t, d) = [T EXCEPT ![t] = r]
    BY DEF Threads, Slept
  <1> HIDE DEF r
  <1>6. r \in Thread(now)
    BY <1>2, <1>3, <1>4 DEF Thread, HIGH
  <1>7. [T EXCEPT ![t] = r] \in Threads(now)
    BY <1>6, SetThread
  <1>8. \A u \in Slot : [T EXCEPT ![t] = r][u] = IF u = t THEN r ELSE T[u]
    BY DEF Threads
  <1> QED BY <1>4, <1>5, <1>7, <1>8 DEF SameLife

(* ... a shorter slice, ... *)
LEMMA SliceKeeps ==
    ASSUME NEW now \in Nat, NEW T \in Threads(now), NEW t \in Slot, T[t].slice > 1
    PROVE  /\ [T EXCEPT ![t].slice = @ - 1] \in Threads(now)
           /\ SameLife(T, [T EXCEPT ![t].slice = @ - 1])
           /\ \A u \in Slot : /\ [T EXCEPT ![t].slice = @ - 1][u].prio = T[u].prio
                              /\ [T EXCEPT ![t].slice = @ - 1][u].deadline = T[u].deadline
  <1> DEFINE r == [T[t] EXCEPT !.slice = @ - 1]
  <1>1. T[t] \in Thread(now)
    BY DEF Threads
  <1>2. /\ T[t] \in TCB /\ T[t].prio \in 0..4 /\ T[t].base \in 0..4 /\ T[t].slice \in Nat
        /\ T[t].prio >= T[t].base \/ T[t].prio >= 3
        /\ T[t].missed => now > T[t].deadline
    BY <1>1, ThreadFields
  <1>3. T[t].slice - 1 \in Nat
    BY <1>2
  <1>4. /\ r \in TCB
        /\ r.st = T[t].st /\ r.base = T[t].base /\ r.until = T[t].until /\ r.prio = T[t].prio
        /\ r.missed = T[t].missed /\ r.deadline = T[t].deadline
    BY <1>2, <1>3 DEF TCB, State
  <1>5. [T EXCEPT ![t].slice = @ - 1] = [T EXCEPT ![t] = r]
    BY DEF Threads
  <1> HIDE DEF r
  <1>6. r \in Thread(now)
    BY <1>2, <1>3, <1>4 DEF Thread, HIGH
  <1>7. [T EXCEPT ![t] = r] \in Threads(now)
    BY <1>6, SetThread
  <1>8. \A u \in Slot : [T EXCEPT ![t] = r][u] = IF u = t THEN r ELSE T[u]
    BY DEF Threads
  <1> QED BY <1>4, <1>5, <1>7, <1>8 DEF SameLife

(* ... the next priority and a new slice, ... *)
LEMMA ExpireKeeps ==
    ASSUME NEW now \in Nat, NEW T \in Threads(now), NEW t \in Slot,
           NEW p, p = ExpiredPrio(T[t].prio)
    PROVE  /\ Expired(T, t, p) \in Threads(now)
           /\ p \in Queue
           /\ \A u \in Slot : /\ Expired(T, t, p)[u].st = IF u = t THEN "READY" ELSE T[u].st
                              /\ Expired(T, t, p)[u].base = T[u].base
                              /\ Expired(T, t, p)[u].until = T[u].until
                              /\ Expired(T, t, p)[u].prio = IF u = t THEN p ELSE T[u].prio
                              /\ Expired(T, t, p)[u].deadline = T[u].deadline
  <1> DEFINE r == [T[t] EXCEPT !.slice = Quanta[p], !.prio = p, !.st = "READY"]
  <1>1. T[t] \in Thread(now)
    BY DEF Threads
  <1>2. /\ T[t] \in TCB /\ T[t].prio \in 0..4 /\ T[t].base \in 0..4 /\ T[t].slice \in Nat
        /\ T[t].prio >= T[t].base \/ T[t].prio >= 3
        /\ T[t].missed => now > T[t].deadline
    BY <1>1, ThreadFields
  <1>3. p \in Runnable /\ p \in 1..4 /\ p >= T[t].prio /\ Quanta[p] \in Nat
    BY <1>2, QuantaType DEF ExpiredPrio, HIGH, Runnable, Level, IDLE, REALTIME, ISR
  <1>4. /\ r \in TCB
        /\ r.st = "READY" /\ r.base = T[t].base /\ r.until = T[t].until /\ r.prio = p
        /\ r.missed = T[t].missed /\ r.deadline = T[t].deadline
    BY <1>2, <1>3 DEF TCB, State
  <1>5. Expired(T, t, p) = [T EXCEPT ![t] = r]
    BY DEF Threads, Expired
  <1> HIDE DEF r
  <1>6. r \in Thread(now)
    BY <1>2, <1>3, <1>4 DEF Thread, HIGH
  <1>7. [T EXCEPT ![t] = r] \in Threads(now)
    BY <1>6, SetThread
  <1>8. \A u \in Slot : [T EXCEPT ![t] = r][u] = IF u = t THEN r ELSE T[u]
    BY DEF Threads
  <1>9. p \in Queue
    BY <1>3 DEF Queue, LOW, REALTIME
  <1> QED BY <1>9, <1>4, <1>5, <1>7, <1>8 DEF SameLife

(* ... a priority inherited, ... *)
LEMMA RaiseKeeps ==
    ASSUME NEW now \in Nat, NEW T \in Threads(now), NEW t \in Slot, NEW p \in Runnable
    PROVE  /\ [T EXCEPT ![t].prio = Max({@, p})] \in Threads(now)
           /\ SameLife(T, [T EXCEPT ![t].prio = Max({@, p})])
  <1> DEFINE r == [T[t] EXCEPT !.prio = Max({@, p})]
  <1>1. T[t] \in Thread(now)
    BY DEF Threads
  <1>2. /\ T[t] \in TCB /\ T[t].prio \in 0..4 /\ T[t].base \in 0..4 /\ T[t].slice \in Nat
        /\ T[t].prio >= T[t].base \/ T[t].prio >= 3
        /\ T[t].missed => now > T[t].deadline
    BY <1>1, ThreadFields
  <1>3. /\ Max({T[t].prio, p}) \in Runnable /\ Max({T[t].prio, p}) \in 0..4
        /\ Max({T[t].prio, p}) >= T[t].prio
    BY <1>2, MaxOfTwo DEF Runnable, IDLE, REALTIME
  <1>4. /\ r \in TCB
        /\ r.st = T[t].st /\ r.base = T[t].base /\ r.until = T[t].until
        /\ r.prio = Max({T[t].prio, p}) /\ r.missed = T[t].missed /\ r.deadline = T[t].deadline
    BY <1>2, <1>3 DEF TCB, State
  <1>5. [T EXCEPT ![t].prio = Max({@, p})] = [T EXCEPT ![t] = r]
    BY DEF Threads
  <1> HIDE DEF r
  <1>6. r \in Thread(now)
    BY <1>2, <1>3, <1>4 DEF Thread, HIGH
  <1>7. [T EXCEPT ![t] = r] \in Threads(now)
    BY <1>6, SetThread
  <1>8. \A u \in Slot : [T EXCEPT ![t] = r][u] = IF u = t THEN r ELSE T[u]
    BY DEF Threads
  <1> QED BY <1>4, <1>5, <1>7, <1>8 DEF SameLife

(* ... its base back, ... *)
LEMMA LowerKeeps ==
    ASSUME NEW now \in Nat, NEW T \in Threads(now), NEW t \in Slot
    PROVE  /\ [T EXCEPT ![t].prio = T[t].base] \in Threads(now)
           /\ SameLife(T, [T EXCEPT ![t].prio = T[t].base])
           /\ \A u \in Slot : u # t => [T EXCEPT ![t].prio = T[t].base][u] = T[u]
  <1> DEFINE r == [T[t] EXCEPT !.prio = T[t].base]
  <1>1. T[t] \in Thread(now)
    BY DEF Threads
  <1>2. /\ T[t] \in TCB /\ T[t].prio \in 0..4 /\ T[t].base \in 0..4 /\ T[t].slice \in Nat
        /\ T[t].prio >= T[t].base \/ T[t].prio >= 3
        /\ T[t].missed => now > T[t].deadline
    BY <1>1, ThreadFields
  <1>3. T[t].base \in Runnable
    BY <1>2 DEF Runnable, IDLE, REALTIME
  <1>4. /\ r \in TCB
        /\ r.st = T[t].st /\ r.base = T[t].base /\ r.until = T[t].until
        /\ r.prio = T[t].base /\ r.missed = T[t].missed /\ r.deadline = T[t].deadline
    BY <1>2, <1>3 DEF TCB, State
  <1>5. [T EXCEPT ![t].prio = T[t].base] = [T EXCEPT ![t] = r]
    BY DEF Threads
  <1> HIDE DEF r
  <1>6. r \in Thread(now)
    BY <1>2, <1>3, <1>4 DEF Thread, HIGH
  <1>7. [T EXCEPT ![t] = r] \in Threads(now)
    BY <1>6, SetThread
  <1>8. \A u \in Slot : [T EXCEPT ![t] = r][u] = IF u = t THEN r ELSE T[u]
    BY DEF Threads
  <1> QED BY <1>4, <1>5, <1>7, <1>8 DEF SameLife

(* ... a boost, ... *)
LEMMA BoostKeeps ==
    ASSUME NEW now \in Nat, NEW T \in Threads(now), NEW t \in Slot,
           NEW p \in Runnable, T[t].prio < p
    PROVE  /\ [T EXCEPT ![t].prio = p, ![t].slice = Quanta[p]] \in Threads(now)
           /\ SameLife(T, [T EXCEPT ![t].prio = p, ![t].slice = Quanta[p]])
  <1> DEFINE r == [T[t] EXCEPT !.prio = p, !.slice = Quanta[p]]
  <1>1. T[t] \in Thread(now)
    BY DEF Threads
  <1>2. /\ T[t] \in TCB /\ T[t].prio \in 0..4 /\ T[t].base \in 0..4 /\ T[t].slice \in Nat
        /\ T[t].prio >= T[t].base \/ T[t].prio >= 3
        /\ T[t].missed => now > T[t].deadline
    BY <1>1, ThreadFields
  <1>3. p \in 0..4 /\ p >= T[t].prio /\ Quanta[p] \in Nat
    BY <1>2, QuantaType DEF Runnable, Level, IDLE, REALTIME, ISR
  <1>4. /\ r \in TCB
        /\ r.st = T[t].st /\ r.base = T[t].base /\ r.until = T[t].until /\ r.prio = p
        /\ r.missed = T[t].missed /\ r.deadline = T[t].deadline
    BY <1>2, <1>3 DEF TCB, State
  <1>5. [T EXCEPT ![t].prio = p, ![t].slice = Quanta[p]] = [T EXCEPT ![t] = r]
    BY DEF Threads
  <1> HIDE DEF r
  <1>6. r \in Thread(now)
    BY <1>2, <1>3, <1>4 DEF Thread, HIGH
  <1>7. [T EXCEPT ![t] = r] \in Threads(now)
    BY <1>6, SetThread
  <1>8. \A u \in Slot : [T EXCEPT ![t] = r][u] = IF u = t THEN r ELSE T[u]
    BY DEF Threads
  <1> QED BY <1>4, <1>5, <1>7, <1>8 DEF SameLife

(* ... or a deadline. *)
LEMMA DeadlineKeeps ==
    ASSUME NEW now \in Nat, NEW T \in Threads(now), NEW t \in Slot, NEW d \in Nat
    PROVE  /\ [T EXCEPT ![t].deadline = d, ![t].missed = FALSE,
                        ![t].prio = REALTIME, ![t].slice = Quanta[REALTIME]] \in Threads(now)
           /\ SameLife(T, [T EXCEPT ![t].deadline = d, ![t].missed = FALSE,
                        ![t].prio = REALTIME, ![t].slice = Quanta[REALTIME]])
  <1> DEFINE r == [T[t] EXCEPT !.deadline = d, !.missed = FALSE,
                            !.prio = REALTIME, !.slice = Quanta[REALTIME]]
  <1>1. T[t] \in Thread(now)
    BY DEF Threads
  <1>2. /\ T[t] \in TCB /\ T[t].prio \in 0..4 /\ T[t].base \in 0..4 /\ T[t].slice \in Nat
        /\ T[t].prio >= T[t].base \/ T[t].prio >= 3
        /\ T[t].missed => now > T[t].deadline
    BY <1>1, ThreadFields
  <1>3. REALTIME \in Runnable /\ REALTIME = 4 /\ Quanta[REALTIME] \in Nat
    BY QuantaType DEF Runnable, Level, IDLE, REALTIME, ISR
  <1>4. /\ r \in TCB
        /\ r.st = T[t].st /\ r.base = T[t].base /\ r.until = T[t].until
        /\ r.prio = 4 /\ r.missed = FALSE /\ r.deadline = d
    BY <1>2, <1>3 DEF TCB, State
  <1>5. [T EXCEPT ![t].deadline = d, ![t].missed = FALSE,
                        ![t].prio = REALTIME, ![t].slice = Quanta[REALTIME]] = [T EXCEPT ![t] = r]
    BY DEF Threads
  <1> HIDE DEF r
  <1>6. r \in Thread(now)
    BY <1>2, <1>3, <1>4 DEF Thread, HIGH
  <1>7. [T EXCEPT ![t] = r] \in Threads(now)
    BY <1>6, SetThread
  <1>8. \A u \in Slot : [T EXCEPT ![t] = r][u] = IF u = t THEN r ELSE T[u]
    BY DEF Threads
  <1> QED BY <1>4, <1>5, <1>7, <1>8 DEF SameLife

-----------------------------------------------------------------------------
(* The fields of the threads, whatever priorities threads are created with:
   also for those created at the level of the idle thread, which break the
   lists, the links lead to slots and the fields keep their relations.      *)
FieldsInv == /\ links \in Links /\ tcb \in Threads(ticks)
             /\ current \in Slot /\ ticks \in Nat
             /\ streak \in 0..MissLimit
             /\ owner \in [Mutex -> Link]

LEMMA NewThread ==
    ASSUME NEW now \in Nat, NEW p \in Runnable
    PROVE  /\ NewTCB(p) \in Thread(now) /\ NewTCB(p).st = "READY" /\ NewTCB(p).base = p
           /\ NewTCB(p).prio = p /\ NewTCB(p).deadline = 0
           /\ FreeTCB \in Thread(now) /\ FreeTCB.st = "TERMINATED" /\ FreeTCB.base = IDLE
           /\ FreeTCB.deadline = 0
           /\ [NewTCB(IDLE) EXCEPT !.st = "RUNNING"] \in Thread(now)
           /\ [NewTCB(IDLE) EXCEPT !.st = "RUNNING"].st = "RUNNING"
           /\ [NewTCB(IDLE) EXCEPT !.st = "RUNNING"].base = IDLE
           /\ [NewTCB(IDLE) EXCEPT !.st = "RUNNING"].prio = IDLE
           /\ [NewTCB(IDLE) EXCEPT !.st = "RUNNING"].deadline = 0
           /\ [NewTCB(IDLE) EXCEPT !.st = "RUNNING"].slice = Quanta[IDLE]
  <1>1. Quanta[p] \in Nat /\ Quanta[IDLE] \in Nat /\ p \in 0..4 /\ IDLE \in Runnable
    BY QuantaType DEF Runnable, Level, IDLE, REALTIME, ISR
  <1>2. FreeTCB \in TCB
    BY <1>1 DEF FreeTCB, TCB, State
  <1>3. FreeTCB \in Thread(now) /\ FreeTCB.st = "TERMINATED" /\ FreeTCB.base = IDLE
        /\ FreeTCB.missed = FALSE /\ FreeTCB.deadline = 0
    BY <1>2 DEF FreeTCB, Thread, IDLE, HIGH
  <1>4. ASSUME NEW q \in Runnable, Quanta[q] \in Nat
        PROVE  /\ NewTCB(q) \in TCB /\ NewTCB(q).st = "READY" /\ NewTCB(q).prio = q
               /\ NewTCB(q).base = q /\ NewTCB(q).missed = FALSE
               /\ NewTCB(q).deadline = 0 /\ NewTCB(q).slice = Quanta[q]
    BY <1>2, <1>3, <1>4 DEF NewTCB, TCB, State
  <1>5. NewTCB(p) \in Thread(now) /\ NewTCB(p).st = "READY" /\ NewTCB(p).base = p
        /\ NewTCB(p).prio = p /\ NewTCB(p).deadline = 0
    <2> DEFINE m == NewTCB(p)
    <2>1. /\ m \in TCB /\ m.st = "READY" /\ m.prio = p /\ m.base = p /\ m.missed = FALSE
          /\ m.deadline = 0
      BY <1>1, <1>4
    <2> HIDE DEF m
    <2>2. m \in Thread(now) /\ m.st = "READY" /\ m.base = p /\ m.prio = p /\ m.deadline = 0
      BY <1>1, <2>1 DEF Thread
    <2> QED BY <2>2 DEF m
  <1> DEFINE n == NewTCB(IDLE)
             i == [n EXCEPT !.st = "RUNNING"]
  <1>6. /\ n \in TCB /\ n.prio = IDLE /\ n.base = IDLE /\ n.missed = FALSE
        /\ n.deadline = 0 /\ n.slice = Quanta[IDLE]
    BY <1>1, <1>4
  <1> HIDE DEF n
  <1>7. /\ i \in TCB /\ i.st = "RUNNING" /\ i.prio = IDLE /\ i.base = IDLE /\ i.missed = FALSE
        /\ i.deadline = 0 /\ i.slice = Quanta[IDLE]
    BY <1>6 DEF TCB, State
  <1> HIDE DEF i
  <1>8. i \in Thread(now) /\ i.st = "RUNNING" /\ i.base = IDLE
        /\ i.prio = IDLE /\ i.deadline = 0 /\ i.slice = Quanta[IDLE]
    BY <1>7 DEF Thread, IDLE
  <1> QED BY <1>3, <1>5, <1>8 DEF i, n

LEMMA FreeSlotIsFree ==
    ASSUME \E t \in Slot : tcb[t].st = "TERMINATED"
    PROVE  FreeSlot \in Slot /\ tcb[FreeSlot].st = "TERMINATED"
  <1> DEFINE S == {t \in Slot : tcb[t].st = "TERMINATED"}
  <1>1. S \subseteq Nat /\ S # {}
    BY SchedAssumption DEF Slot
  <1>2. Min(S) \in S
    <2> HIDE DEF S
    <2> QED BY <1>1, MinIn
  <1> QED BY <1>2 DEF FreeSlot

LEMMA YieldFields ==
    ASSUME NEW L \in Links, NEW T \in Threads(ticks), current \in Slot, ticks \in Nat,
           sched_yield(L, T)
    PROVE  links' \in Links /\ tcb' \in Threads(ticks) /\ current' \in Slot
  BY YieldedType DEF sched_yield

LEMMA EndTickFields ==
    ASSUME NEW now \in Nat, NEW L \in Links, NEW T \in Threads(now), EndTick(L, T, now)
    PROVE  links' \in Links /\ tcb' \in Threads(now)
  BY StarvationKeeps DEF EndTick, Scanned, Pair

LEMMA TickFields ==
    ASSUME FieldsInv, sched_tick
    PROVE  FieldsInv'
  <1> DEFINE now == ticks + 1
  <1>1. now \in Nat /\ links \in Links /\ tcb \in Threads(now) /\ current \in Slot /\ streak \in 0..MissLimit
    BY ThreadsGrow DEF FieldsInv
  <1>2. ticks' = now /\ owner' = owner
    BY DEF sched_tick
  <1> DEFINE w == WakeSleepers(now)
             d == rtos_watchdog_tick(w.T, now)
  <1>3. w \in Pair(now)
    BY <1>1, WakeSleepersType
  <1>4. streak' = d.streak /\ (GoesOn(w.L, d.T, now) \/ Expires(w.L, d.T, now))
    BY DEF sched_tick
  <1> HIDE DEF w
  <1>5. w.L \in Links /\ w.T \in Threads(now)
    BY <1>3 DEF Pair
  <1>6. d \in Watched(now, w.T)
    BY <1>1, <1>5, WatchdogKeeps
  <1> HIDE DEF d, now
  <1>7. d.T \in Threads(now) /\ d.streak \in 0..MissLimit
    BY <1>6 DEF Watched
  <1>8. CASE GoesOn(w.L, d.T, now)
    <2> DEFINE T2 == [d.T EXCEPT ![current].slice = @ - 1]
    <2>1. d.T[current].slice > 1 /\ EndTick(w.L, T2, now) /\ current' = current
      BY <1>8 DEF GoesOn
    <2>2. T2 \in Threads(now)
      BY <1>1, <1>7, <2>1, SliceKeeps
    <2> HIDE DEF T2
    <2>3. links' \in Links /\ tcb' \in Threads(now)
      BY <1>1, <1>5, <2>1, <2>2, EndTickFields
    <2> QED BY <1>1, <1>2, <1>4, <1>7, <2>1, <2>3 DEF FieldsInv
  <1>9. CASE Expires(w.L, d.T, now)
    <2> DEFINE p == ExpiredPrio(d.T[current].prio)
               T2 == Expired(d.T, current, p)
               L2 == queue_push_back(w.L, p, current)
               y == Yielded(L2, T2, now)
    <2>1. \/ y.next = current /\ EndTick(y.L, y.T, now) /\ current' = current
          \/ links' = y.L /\ tcb' = y.T /\ current' = y.next
      BY <1>9 DEF Expires, Expired
    <2>2. T2 \in Threads(now) /\ p \in Queue
      BY <1>1, <1>7, ExpireKeeps
    <2> HIDE DEF p, T2
    <2>3. L2 \in Links
      BY <1>1, <1>5, <2>2, QueueTypes, QueueLevels
    <2> HIDE DEF L2
    <2>4. y.L \in Links /\ y.T \in Threads(now) /\ y.next \in Slot
      BY <1>1, <2>2, <2>3, YieldedType
    <2> HIDE DEF y
    <2>5. links' \in Links /\ tcb' \in Threads(now) /\ current' \in Slot
      BY <1>1, <2>1, <2>4, EndTickFields
    <2> QED BY <1>1, <1>2, <1>4, <1>7, <2>5 DEF FieldsInv
  <1> QED BY <1>4, <1>8, <1>9

LEMMA CreateFields ==
    ASSUME FieldsInv, NEW p \in Runnable, sched_create(p)
    PROVE  FieldsInv'
  <1>0. links \in Links /\ tcb \in Threads(ticks) /\ current \in Slot /\ ticks \in Nat
        /\ streak \in 0..MissLimit /\ owner \in [Mutex -> Link]
    BY DEF FieldsInv
  <1>1. FieldsInv'
    <2>1. p \in Runnable /\ p \in Level
      BY DEF Runnable, Level, IDLE, REALTIME, ISR
    <2>2. FreeSlot \in Slot
      BY FreeSlotIsFree DEF sched_create
    <2>3. NewTCB(p) \in Thread(ticks)
      BY <1>0, <2>1, NewThread
    <2>4. tcb' \in Threads(ticks)
      BY <1>0, <2>2, <2>3, SetThread DEF sched_create
    <2>5. links' \in Links
      BY <1>0, <2>1, <2>2, QueueTypes DEF sched_create
    <2> QED BY <1>0, <2>4, <2>5 DEF sched_create, FieldsInv
  <1> QED BY <1>1

LEMMA SleepFields ==
    ASSUME FieldsInv, NEW ms \in Nat \ {0}, sched_sleep(ms)
    PROVE  FieldsInv'
  <1>0. links \in Links /\ tcb \in Threads(ticks) /\ current \in Slot /\ ticks \in Nat
        /\ streak \in 0..MissLimit /\ owner \in [Mutex -> Link]
    BY DEF FieldsInv
  <1>1. FieldsInv'
    <2> DEFINE before == DuePrefix(links, tcb, ticks + ms)
               L == IF before = <<>>
                    THEN [links EXCEPT !.next[current] = links.sleep, !.sleep = current]
                    ELSE [links EXCEPT !.next[current] = links.next[Last(before)],
                                       !.next[Last(before)] = current]
    <2>0. ticks + ms \in Nat
      BY <1>0
    <2>1. L \in Links
      <3>1. CASE before = <<>>
        BY <3>1, <1>0 DEF Links, Link
      <3>2. CASE before # <<>>
        <4>1. before \in Seq(Slot)
          <5>1. links.sleep \in Link
            BY <1>0 DEF Links
          <5>2. Walk(links, links.sleep) \in Seq(Slot)
            BY <1>0, <5>1, WalkType
          <5>3. PICK n \in 0..Len(Walk(links, links.sleep)) :
                       before = SubSeq(Walk(links, links.sleep), 1, n)
            BY <1>0, DueIsPrefix
          <5> QED BY <5>2, <5>3
        <4> HIDE DEF before
        <4>2. Last(before) \in Slot
          BY <4>1, <3>2 DEF Last
        <4> QED BY <3>2, <4>2, <1>0 DEF Links, Link
      <3> QED BY <3>1, <3>2
    <2>2. Slept(tcb, current, ticks + ms) \in Threads(ticks)
      BY <1>0, <2>0, SleepKeeps
    <2>3. sched_yield(L, Slept(tcb, current, ticks + ms))
      BY DEF sched_sleep, Slept
    <2> HIDE DEF L
    <2>4. links' \in Links /\ tcb' \in Threads(ticks) /\ current' \in Slot
      BY <1>0, <2>1, <2>2, <2>3, YieldFields
    <2> QED BY <1>0, <2>4 DEF sched_sleep, FieldsInv
  <1> QED BY <1>1

LEMMA CallFields ==
    ASSUME FieldsInv, CoreNext
    PROVE  FieldsInv'
  <1>0. links \in Links /\ tcb \in Threads(ticks) /\ current \in Slot /\ ticks \in Nat
        /\ streak \in 0..MissLimit /\ owner \in [Mutex -> Link]
    BY DEF FieldsInv
  <1>1. ASSUME NEW p \in CreatePrios, sched_create(p) PROVE FieldsInv'
    BY <1>1, CreateFields, SchedAssumption
  <1>2. ASSUME NEW ms \in Delays, sched_sleep(ms) PROVE FieldsInv'
    BY <1>2, SleepFields, SchedAssumption
  <1>3. ASSUME sched_exit PROVE FieldsInv'
    <2>1. [tcb EXCEPT ![current].st = "TERMINATED"] \in Threads(ticks)
      BY <1>0, StateKeeps DEF State
    <2>2. links' \in Links /\ tcb' \in Threads(ticks) /\ current' \in Slot
      BY <1>0, <1>3, <2>1, YieldFields DEF sched_exit
    <2> QED BY <1>0, <1>3, <2>2 DEF sched_exit, FieldsInv
  <1>4. ASSUME sched_tick PROVE FieldsInv'
    BY <1>4, TickFields
  <1>5. ASSUME sched_tick_resumed PROVE FieldsInv'
    <2>1. EndTick(links, tcb, ticks)
      BY <1>5 DEF sched_tick_resumed
    <2>2. links' \in Links /\ tcb' \in Threads(ticks)
      BY <1>0, <2>1, EndTickFields
    <2> QED BY <1>0, <1>5, <2>2 DEF sched_tick_resumed, FieldsInv
  <1> QED BY <1>1, <1>2, <1>3, <1>4, <1>5 DEF CoreNext

LEMMA LockFields ==
    ASSUME FieldsInv, NEW m \in Mutex, kmutex_lock(m) \/ kmutex_unlock(m)
    PROVE  FieldsInv'
  <1>0. links \in Links /\ tcb \in Threads(ticks) /\ current \in Slot /\ ticks \in Nat
        /\ streak \in 0..MissLimit /\ owner \in [Mutex -> Link]
    BY DEF FieldsInv
  <1>1. CASE kmutex_acquire(m)
    BY <1>0, <1>1 DEF kmutex_acquire, FieldsInv, Link
  <1>2. CASE kmutex_block(m)
    <2> DEFINE o == owner[m]
               T == [tcb EXCEPT ![o].prio = Max({@, tcb[current].prio})]
               L == [links EXCEPT !.next[current] = links.waiters[m], !.waiters[m] = current]
    <2>1. o \in Slot
      BY <1>0, <1>2, NullIsNoSlot DEF kmutex_block
    <2>2. tcb[current].prio \in Runnable
      BY <1>0 DEF Threads, Thread, TCB
    <2>3. T \in Threads(ticks)
      BY <1>0, <2>1, <2>2, RaiseKeeps
    <2>4. L \in Links
      BY <1>0 DEF Links, Link
    <2>5. sched_yield(L, [T EXCEPT ![current].st = "BLOCKED"])
      BY <1>2 DEF kmutex_block
    <2> HIDE DEF L, T
    <2>6. [T EXCEPT ![current].st = "BLOCKED"] \in Threads(ticks)
      BY <1>0, <2>3, StateKeeps DEF State
    <2>7. links' \in Links /\ tcb' \in Threads(ticks) /\ current' \in Slot
      BY <1>0, <2>4, <2>5, <2>6, YieldFields
    <2> QED BY <1>0, <1>2, <2>7 DEF kmutex_block, FieldsInv
  <1>3. CASE kmutex_unlock(m)
    <2> DEFINE w == links.waiters[m]
               T == [tcb EXCEPT ![current].prio = tcb[current].base]
               L == [links EXCEPT !.waiters[m] = links.next[w]]
    <2>1. T \in Threads(ticks)
      BY <1>0, LowerKeeps
    <2>2. w \in Link
      BY <1>0 DEF Links
    <2>3. /\ owner' = [owner EXCEPT ![m] = w]
          /\ \/ w = NULL /\ tcb' = T /\ links' = links
             \/ /\ w # NULL /\ tcb' = [T EXCEPT ![w].st = "READY"]
                /\ links' = queue_push_front(L, T[w].prio, w)
          /\ UNCHANGED <<current, ticks, streak>>
      BY <1>3 DEF kmutex_unlock
    <2>4. w # NULL => w \in Slot /\ L \in Links
      BY <1>0, <2>2, NullIsNoSlot DEF Links
    <2> HIDE DEF T, L, w
    <2>5. w # NULL => T[w].prio \in Level
      BY <2>1, <2>4 DEF Threads, Thread, TCB, Runnable, Level, IDLE, REALTIME, ISR
    <2>6. links' \in Links
      BY <1>0, <2>3, <2>4, <2>5, QueueTypes
    <2>7. w # NULL => [T EXCEPT ![w].st = "READY"] \in Threads(ticks)
      BY <1>0, <2>1, <2>4, StateKeeps DEF State
    <2>8. tcb' \in Threads(ticks)
      BY <2>1, <2>3, <2>7
    <2> QED BY <1>0, <2>2, <2>3, <2>6, <2>8 DEF FieldsInv
  <1> QED BY <1>1, <1>2, <1>3 DEF kmutex_lock

LEMMA DeadlineFields ==
    ASSUME FieldsInv, DeadlineNext
    PROVE  FieldsInv'
  <1>0. links \in Links /\ tcb \in Threads(ticks) /\ current \in Slot /\ ticks \in Nat
        /\ streak \in 0..MissLimit /\ owner \in [Mutex -> Link]
    BY DEF FieldsInv
  <1>1. PICK t \in Slot : rtos_boost(t, REALTIME) \/ \E d \in Delays : rtos_set_deadline(t, d)
    BY DEF DeadlineNext, Live
  <1>2. CASE rtos_boost(t, REALTIME)
    <2>1. REALTIME \in Runnable
      BY DEF Runnable, IDLE, REALTIME
    <2>2. tcb' \in Threads(ticks)
      BY <1>0, <1>2, <2>1, BoostKeeps DEF rtos_boost
    <2> QED BY <1>0, <1>2, <2>2 DEF rtos_boost, FieldsInv
  <1>3. ASSUME NEW ms \in Delays, rtos_set_deadline(t, ms) PROVE FieldsInv'
    <2>1. ticks + ms \in Nat
      BY <1>0, SchedAssumption
    <2>2. tcb' \in Threads(ticks)
      BY <1>0, <1>3, <2>1, DeadlineKeeps DEF rtos_set_deadline
    <2> QED BY <1>0, <1>3, <2>2 DEF rtos_set_deadline, FieldsInv
  <1> QED BY <1>1, <1>2, <1>3

LEMMA FieldsInductive == FieldsInv /\ [Next]_vars => FieldsInv'
  <1> SUFFICES ASSUME FieldsInv, [Next]_vars PROVE FieldsInv'
    OBVIOUS
  <1>1. CASE CoreNext
    BY <1>1, CallFields
  <1>2. CASE MutexNext
    BY <1>2, LockFields DEF MutexNext
  <1>3. CASE DeadlineNext
    BY <1>3, DeadlineFields
  <1>4. CASE UNCHANGED vars
    BY <1>4 DEF vars, FieldsInv
  <1> QED BY <1>1, <1>2, <1>3, <1>4 DEF Next

LEMMA InitLinks == NoLinks \in Links /\ queue_push_back(NoLinks, IDLE, Idle) \in Links
  <1>1. NoLinks \in Links
    BY DEF NoLinks, Links, Link
  <1> QED BY <1>1, QueueTypes, QueueLevels

LEMMA FieldsInit == sched_init => FieldsInv
  <1> SUFFICES ASSUME sched_init PROVE FieldsInv
    OBVIOUS
  <1>1. links \in Links
    BY InitLinks DEF sched_init
  <1>2. ticks = 0 /\ streak = 0 /\ current = Idle /\ owner = [m \in Mutex |-> NULL]
        /\ tcb = [t \in Slot |-> IF t = Idle THEN [NewTCB(IDLE) EXCEPT !.st = "RUNNING"] ELSE FreeTCB]
    BY DEF sched_init
  <1>3. FreeTCB \in Thread(0) /\ [NewTCB(IDLE) EXCEPT !.st = "RUNNING"] \in Thread(0)
    <2>1. IDLE \in Runnable
      BY DEF Runnable, IDLE, REALTIME
    <2> QED BY <2>1, NewThread
  <1>4. tcb \in Threads(ticks)
    BY <1>2, <1>3 DEF Threads
  <1>5. MissLimit \in Nat
    BY SchedAssumption
  <1> QED BY <1>1, <1>2, <1>4, <1>5, QueueLevels DEF FieldsInv, Link

THEOREM FieldsStand == Spec => []FieldsInv
  BY FieldsInit, FieldsInductive, PTL DEF Spec

(* Whatever the interleaving, no thread gets below its base priority but one
   the watchdog has demoted, and that one not below HIGH: no quantum, however
   often it is used up, decays a priority, against what the comments of
   sched_tick say.                                                          *)
THEOREM NothingDecays == Spec => []NeverBelowBase
  <1>1. FieldsInv => NeverBelowBase
    <2> SUFFICES ASSUME FieldsInv, NEW t \in Slot PROVE tcb[t].prio >= Min({tcb[t].base, HIGH})
      BY DEF NeverBelowBase
    <2> DEFINE r == tcb[t]
    <2>1. r.prio \in 0..4 /\ r.base \in 0..4 /\ (r.prio >= r.base \/ r.prio >= 3)
      BY ThreadFields DEF FieldsInv, Threads
    <2> HIDE DEF r
    <2>2. {r.base, HIGH} \subseteq Nat /\ {r.base, HIGH} # {}
      BY <2>1 DEF HIGH
    <2>3. \A x \in {r.base, HIGH} : Min({r.base, HIGH}) <= x
      BY <2>2, MinIn
    <2>4. Min({r.base, HIGH}) \in {r.base, HIGH}
      BY <2>2, MinIn
    <2>5. r.prio >= Min({r.base, HIGH})
      BY <2>1, <2>3, <2>4 DEF HIGH
    <2> QED BY <2>5 DEF r
  <1> QED BY <1>1, FieldsStand, PTL

(* A deadline counted as missed has passed. *)
THEOREM MissesAreSeenLate == Spec => []MissedIsLate
  <1>1. FieldsInv => MissedIsLate
    BY ThreadFields DEF FieldsInv, Threads, MissedIsLate
  <1> QED BY <1>1, FieldsStand, PTL

-----------------------------------------------------------------------------
(* The walk along a list meets the threads of the list, each once.         *)

Listed(L, W, p, w) ==
    /\ w \in Seq(Slot)
    /\ \A i \in 1..Len(w) : W[w[i]] = p
    /\ \A i, j \in 1..Len(w) : w[i] = w[j] => i = j
    /\ \A t \in Slot : W[t] = p => \E i \in 1..Len(w) : w[i] = t
    /\ \A i \in 1..Len(w) : L.next[w[i]] = IF i = Len(w) THEN NULL ELSE w[i+1]
    /\ IF Len(w) = 0 THEN Heads(L)[p] = NULL ELSE w[1] = Heads(L)[p]

(* at: where next leads to, for n steps; R: ranks that grow on the way. *)
Trail(at, n, h, H, N, W, R, p) ==
    /\ n \in Nat /\ at \in [0..MaxThreads -> Link] /\ at[0] = h /\ n <= MaxThreads
    /\ \A k \in 1..MaxThreads : at[k] = IF at[k-1] = NULL THEN NULL ELSE N[at[k-1]]
    /\ \A k \in 0..n-1 : at[k] \in Slot
    /\ n < MaxThreads => at[n] = NULL
    /\ H[p] = h /\ p \in Lists
    /\ Ghost(H, N, W, R) /\ Chain(H, N, W, R)

LEMMA TrailInList ==
    ASSUME NEW at, NEW n, NEW h, NEW H, NEW N, NEW W, NEW R, NEW p, Trail(at, n, h, H, N, W, R, p)
    PROVE  \A k \in 0..n-1 : W[at[k]] = p
  <1>0. n \in Nat /\ n <= MaxThreads /\ MaxThreads \in Nat
    BY SchedAssumption DEF Trail
  <1>1. CASE n = 0
    BY <1>1
  <1>2. CASE n # 0
    <2> DEFINE A == {k \in 0..n-1 : W[at[k]] = p}
    <2>0. n - 1 \in Nat
      BY <1>0, <1>2
    <2>1. 0 \in A
      <3>1. at[0] \in Slot /\ at[0] = H[p]
        BY <1>0, <1>2 DEF Trail
      <3>2. W[H[p]] = p
        BY <3>1, NullIsNoSlot DEF Trail, Chain
      <3> QED BY <3>1, <3>2, <2>0
    <2>2. ASSUME NEW k \in 1..n-1, k - 1 \in A PROVE k \in A
      <3>1. at[k] \in Slot /\ at[k-1] \in Slot /\ W[at[k-1]] = p /\ at[k] = N[at[k-1]]
        <4>1. k \in 0..n-1 /\ k - 1 \in 0..n-1 /\ k \in 1..MaxThreads
          BY <1>0
        <4> QED BY <4>1, <2>2, NullIsNoSlot DEF Trail
      <3>2. W[N[at[k-1]]] = W[at[k-1]]
        BY <3>1, NullIsNoSlot DEF Trail, Chain
      <3> QED BY <3>1, <3>2
    <2> HIDE DEF A
    <2>3. \A k \in 0..n-1 : k \in A
      BY <2>0, <2>1, <2>2, Climb
    <2> QED BY <2>3 DEF A
  <1> QED BY <1>1, <1>2

LEMMA TrailClimbs ==
    ASSUME NEW at, NEW n, NEW h, NEW H, NEW N, NEW W, NEW R, NEW p, Trail(at, n, h, H, N, W, R, p)
    PROVE  /\ \A i, j \in 0..n-1 : i < j => R[at[i]] < R[at[j]]
           /\ \A i, j \in 0..n-1 : at[i] = at[j] => i = j
  <1>0. n \in Nat /\ n <= MaxThreads /\ MaxThreads \in Nat
    BY SchedAssumption DEF Trail
  <1>1. \A k \in 0..n-1 : at[k] \in Slot /\ R[at[k]] \in Nat /\ W[at[k]] = p
    <2>1. \A k \in 0..n-1 : W[at[k]] = p
      BY TrailInList
    <2> QED BY <2>1 DEF Trail, Ghost
  <1>2. ASSUME NEW k \in 1..n-1 PROVE R[at[k-1]] < R[at[k]]
    <2>1. k \in 0..n-1 /\ k - 1 \in 0..n-1 /\ k \in 1..MaxThreads
      BY <1>0
    <2>2. at[k-1] \in Slot /\ W[at[k-1]] \in Lists /\ N[at[k-1]] = at[k] /\ at[k] # NULL
      BY <2>1, <1>1, NullIsNoSlot DEF Trail
    <2> QED BY <2>2 DEF Trail, Chain
  <1>3. ASSUME NEW i \in 0..n-1 PROVE \A j \in 0..n-1 : i < j => R[at[i]] < R[at[j]]
    <2> DEFINE A == {j \in 0..n-1 : i < j => R[at[i]] < R[at[j]]}
    <2>0. n - 1 \in Nat
      BY <1>0
    <2>1. 0 \in A
      BY <2>0
    <2>2. ASSUME NEW j \in 1..n-1, j - 1 \in A PROVE j \in A
      <3>1. R[at[j-1]] < R[at[j]]
        BY <1>2
      <3>2. R[at[i]] \in Nat /\ R[at[j-1]] \in Nat /\ R[at[j]] \in Nat
        BY <1>1, <2>0
      <3>3. CASE i < j - 1
        BY <3>1, <3>2, <3>3, <2>2
      <3>4. CASE i = j - 1
        BY <3>1, <3>4
      <3>5. CASE i > j - 1
        BY <3>5
      <3> QED BY <3>3, <3>4, <3>5
    <2> HIDE DEF A
    <2>3. \A j \in 0..n-1 : j \in A
      BY <2>0, <2>1, <2>2, Climb
    <2> QED BY <2>3 DEF A
  <1>4. \A i, j \in 0..n-1 : at[i] = at[j] => i = j
    <2> SUFFICES ASSUME NEW i \in 0..n-1, NEW j \in 0..n-1, at[i] = at[j], i # j PROVE FALSE
      OBVIOUS
    <2>1. i < j \/ j < i
      OBVIOUS
    <2>2. R[at[i]] < R[at[j]] \/ R[at[j]] < R[at[i]]
      BY <2>1, <1>3
    <2> QED BY <2>2, <1>1
  <1> QED BY <1>3, <1>4

(* The last thread of the walk is the last of the list: after MaxThreads
   different ones there is no other.                                       *)
LEMMA TrailEnds ==
    ASSUME NEW at, NEW n, NEW h, NEW H, NEW N, NEW W, NEW R, NEW p, Trail(at, n, h, H, N, W, R, p),
           n > 0
    PROVE  N[at[n-1]] = NULL
  <1>0. n \in Nat /\ n <= MaxThreads /\ MaxThreads \in Nat /\ n - 1 \in 0..n-1
    BY SchedAssumption DEF Trail
  <1>1. at[n-1] \in Slot /\ at[n-1] # NULL
    BY <1>0, NullIsNoSlot DEF Trail
  <1>2. CASE n < MaxThreads
    <2>1. at[n] = NULL /\ at[n] = N[at[n-1]]
      BY <1>0, <1>1, <1>2 DEF Trail
    <2> QED BY <2>1
  <1>3. CASE n = MaxThreads
    <2> DEFINE f == [k \in 0..n-1 |-> at[k]]
    <2>1. f \in Injection(0..n-1, Slot)
      <3>1. f \in [0..n-1 -> Slot]
        BY DEF Trail
      <3>2. \A i, j \in 0..n-1 : f[i] = f[j] => i = j
        BY TrailClimbs
      <3> HIDE DEF f
      <3> QED BY <3>1, <3>2 DEF Injection, IsInjective
    <2>2. IsFiniteSet(Slot) /\ Cardinality(Slot) = n
      BY <1>0, <1>3, FS_Interval DEF Slot
    <2>3. Cardinality(0..n-1) = n
      BY <1>0, FS_Interval
    <2> HIDE DEF f
    <2>4. f \in Surjection(0..n-1, Slot)
      BY <2>1, <2>2, <2>3, FS_Injection
    <2>5. \A t \in Slot : \E k \in 0..n-1 : at[k] = t
      BY <2>4 DEF f, Surjection
    <2>6. ASSUME N[at[n-1]] # NULL PROVE FALSE
      <3>1. N[at[n-1]] \in Slot /\ R[at[n-1]] < R[N[at[n-1]]]
        <4>1. W[at[n-1]] \in Lists /\ N[at[n-1]] \in Link
          <5>1. W[at[n-1]] = p
            BY <1>0, TrailInList
          <5> QED BY <5>1, <1>1 DEF Trail, Ghost
        <4> QED BY <4>1, <1>1, <2>6, NullIsNoSlot DEF Trail, Chain
      <3>2. PICK k \in 0..n-1 : at[k] = N[at[n-1]]
        BY <2>5, <3>1
      <3>3. R[at[k]] \in Nat /\ R[at[n-1]] \in Nat
        BY <1>1, <3>1, <3>2 DEF Trail, Ghost
      <3>4. k = n - 1 \/ R[at[k]] < R[at[n-1]]
        BY <1>0, <3>2, TrailClimbs
      <3> QED BY <3>1, <3>2, <3>3, <3>4
    <2> QED BY <2>6
  <1> QED BY <1>0, <1>2, <1>3

LEMMA TrailMeetsAll ==
    ASSUME NEW at, NEW n, NEW h, NEW H, NEW N, NEW W, NEW R, NEW p, Trail(at, n, h, H, N, W, R, p)
    PROVE  \A t \in Slot : W[t] = p => \E k \in 0..n-1 : at[k] = t
  <1>0. n \in Nat /\ n <= MaxThreads /\ MaxThreads \in Nat /\ MaxThreads > 0
    BY SchedAssumption DEF Trail
  <1> DEFINE Missed == {t \in Slot : W[t] = p /\ \A k \in 0..n-1 : at[k] # t}
             S == {R[t] : t \in Missed}
  <1> SUFFICES ASSUME Missed # {} PROVE FALSE
    OBVIOUS
  <1>1. S \subseteq Nat /\ S # {}
    <2>1. \A t \in Slot : R[t] \in Nat
      BY DEF Trail, Ghost
    <2> QED BY <2>1
  <1>2. PICK t \in Missed : \A u \in Missed : R[t] <= R[u]
    <2>1. PICK m \in S : \A x \in S : m <= x
      <3> HIDE DEF S
      <3> QED BY <1>1, LeastNat
    <2> QED BY <2>1
  <1>3. n > 0 /\ t # H[p]
    <2>1. H[p] # NULL
      BY <1>2 DEF Trail, Chain
    <2>2. n # 0
      BY <2>1, <1>0 DEF Trail
    <2> QED BY <2>2, <1>0, <1>2 DEF Trail
  <1>4. PICK u \in Slot : W[u] = p /\ N[u] = t
    BY <1>2, <1>3 DEF Trail, Chain
  <1>5. R[u] < R[t] /\ R[u] \in Nat /\ R[t] \in Nat
    BY <1>2, <1>4, NullIsNoSlot DEF Trail, Chain, Ghost
  <1>6. PICK k \in 0..n-1 : at[k] = u
    BY <1>2, <1>4, <1>5
  <1>7. CASE k = n - 1
    BY <1>7, <1>3, <1>4, <1>6, <1>2, TrailEnds, NullIsNoSlot
  <1>8. CASE k # n - 1
    <2>1. k + 1 \in 0..n-1 /\ k + 1 \in 1..MaxThreads /\ (k + 1) - 1 = k
      BY <1>0, <1>8
    <2>2. at[k+1] = t
      BY <2>1, <1>4, <1>6, NullIsNoSlot DEF Trail
    <2> QED BY <2>1, <2>2, <1>2
  <1> QED BY <1>7, <1>8

LEMMA WalkListed ==
    ASSUME NEW L, NEW W, Linked(L, W), NEW p \in Lists
    PROVE  Listed(L, W, p, Walk(L, Heads(L)[p]))
  <1> DEFINE h == Heads(L)[p]
             at == Follow(L, h)
             w == Walk(L, h)
  <1>0. L \in Links /\ h \in Link
    BY LinkedFacts, HeadsType
  <1>1. PICK R \in [Slot -> Nat] : Chain(Heads(L), L.next, W, R) /\ Ghost(Heads(L), L.next, W, R)
    BY LinkedFacts
  <1> HIDE DEF h
  <1>2. PICK n \in 0..MaxThreads :
              /\ w = [i \in 1..n |-> at[i-1]]
              /\ \A k \in 0..n-1 : at[k] \in Slot
              /\ n < MaxThreads => at[n] = NULL
    BY <1>0, WalkSteps
  <1>3. MaxThreads \in Nat /\ n \in Nat /\ n <= MaxThreads
    BY SchedAssumption
  <1>4. /\ at \in [0..MaxThreads -> Link] /\ at[0] = h
        /\ \A k \in 1..MaxThreads : at[k] = IF at[k-1] = NULL THEN NULL ELSE L.next[at[k-1]]
    BY <1>0, FollowSteps
  <1> HIDE DEF at, w
  <1>5. Trail(at, n, h, Heads(L), L.next, W, R, p)
    BY <1>1, <1>2, <1>3, <1>4 DEF Trail, h
  <1>6. w \in Seq(Slot) /\ Len(w) = n /\ \A i \in 1..n : w[i] = at[i-1] /\ i - 1 \in 0..n-1
    BY <1>2, <1>3
  <1>7. \A i \in 1..n : W[w[i]] = p
    <2>1. \A k \in 0..n-1 : W[at[k]] = p
      BY <1>5, TrailInList
    <2> QED BY <2>1, <1>6
  <1>8. \A i, j \in 1..n : w[i] = w[j] => i = j
    <2>1. \A i, j \in 0..n-1 : at[i] = at[j] => i = j
      BY <1>5, TrailClimbs
    <2> TAKE i, j \in 1..n
    <2>2. w[i] = w[j] => i - 1 = j - 1
      BY <1>6, <2>1
    <2> QED BY <2>2
  <1>9. ASSUME NEW t \in Slot, W[t] = p PROVE \E i \in 1..n : w[i] = t
    <2>1. PICK k \in 0..n-1 : at[k] = t
      BY <1>5, <1>9, TrailMeetsAll
    <2>2. k + 1 \in 1..n /\ w[k+1] = at[k]
      BY <1>3, <1>6
    <2> QED BY <2>1, <2>2
  <1>10. ASSUME NEW i \in 1..n PROVE L.next[w[i]] = IF i = n THEN NULL ELSE w[i+1]
    <2>1. CASE i = n
      <3>1. L.next[at[n-1]] = NULL
        BY <1>3, <1>5, TrailEnds
      <3> QED BY <2>1, <3>1, <1>6
    <2>2. CASE i # n
      <3>1. i + 1 \in 1..n /\ i \in 1..MaxThreads /\ (i + 1) - 1 = i
        BY <2>2, <1>3
      <3>2. w[i+1] = at[i] /\ w[i] = at[i-1] /\ at[i-1] \in Slot
        BY <3>1, <1>2, <1>6
      <3> QED BY <2>2, <3>1, <3>2, <1>4, NullIsNoSlot
    <2> QED BY <2>1, <2>2
  <1>11. IF n = 0 THEN h = NULL ELSE w[1] = h
    <2>1. CASE n = 0
      BY <2>1, <1>2, <1>4, SchedAssumption
    <2>2. CASE n # 0
      <3>1. 1 \in 1..n /\ 1 - 1 = 0
        BY <2>2, <1>3
      <3>2. w[1] = at[1-1]
        BY <3>1, <1>6
      <3> QED BY <2>2, <3>1, <3>2, <1>4
    <2> QED BY <2>1, <2>2
  <1>12. Listed(L, W, p, w)
    BY <1>6, <1>7, <1>8, <1>9, <1>10, <1>11 DEF Listed, h
  <1> QED BY <1>12 DEF w, h

-----------------------------------------------------------------------------
(* The threads and the lists: W says where each thread is, c which one has
   the processor (NULL while it is being passed on).                       *)

ASLEEP == <<"SLEEPING", NULL>>

Settled(T, W, t, c) ==
    /\ T[t].st = "RUNNING" <=> t = c
    /\ t = Idle => /\ T[t].st \in {"READY", "RUNNING"} /\ T[t].base = IDLE
                   /\ W[t] # Nowhere => T[t].st = "READY"
    /\ t # Idle => /\ T[t].st \in {"RUNNING", "TERMINATED"} <=> W[t] = Nowhere
                   /\ W[t] # Nowhere => T[t].st = W[t][1]
                   /\ T[t].st # "TERMINATED" => T[t].base >= LOW

(* Sleepers are in the order of their wakeups, and none of these is past. *)
Asleep(L, T, W, now) ==
    \A t \in Slot : W[t] = ASLEEP => /\ T[t].until > now
                                     /\ L.next[t] # NULL => T[t].until <= T[L.next[t]].until

Whole(L, T, W, now, c) == /\ Linked(L, W) /\ T \in Threads(now)
                          /\ \A t \in Slot : Settled(T, W, t, c)
                          /\ Asleep(L, T, W, now)

(* Thread t alone moves, and not to or from its sleep. *)
Moved(T, W, T2, W2, t, c, c2) ==
    /\ t \in Slot
    /\ \A u \in Slot : u # t => /\ W2[u] = W[u] /\ T2[u].st = T[u].st /\ T2[u].base = T[u].base
                                /\ T2[u].until = T[u].until /\ (u = c <=> u = c2)
    /\ Settled(T2, W2, t, c2)
    /\ W[t] # ASLEEP /\ W2[t] # ASLEEP

(* A thread waits in the queue of its priority, and has no deadline. *)
FiledAs(r, p) ==
    /\ r.deadline = 0
    /\ \A q \in Queue : p = <<"READY", q>> => r.prio = q
    /\ p = Nowhere /\ r.st = "READY" => r.prio = IDLE

Filed(W, T) == \A t \in Slot : FiledAs(T[t], W[t])

(* No READY thread has a higher priority than n. *)
Highest(T, n) == \A t \in Slot : T[t].st = "READY" => T[t].prio <= T[n].prio

WaitersStay(W, W2) == \A t \in Slot, m \in Mutex : W[t] = <<"BLOCKED", m>> <=> W2[t] = <<"BLOCKED", m>>

LEMMA MoveWhole ==
    ASSUME NEW L, NEW T, NEW W, NEW now, NEW c, Whole(L, T, W, now, c),
           NEW L2, NEW T2, NEW W2, NEW c2, NEW t,
           Linked(L2, W2), T2 \in Threads(now), SleepersKept(L, L2, W), Moved(T, W, T2, W2, t, c, c2)
    PROVE  Whole(L2, T2, W2, now, c2)
  <1>1. ASSUME NEW u \in Slot PROVE Settled(T2, W2, u, c2)
    BY DEF Whole, Moved, Settled
  <1>2. ASSUME NEW u \in Slot, W2[u] = ASLEEP
        PROVE  T2[u].until > now /\ (L2.next[u] # NULL => T2[u].until <= T2[L2.next[u]].until)
    <2>1. u # t /\ W[u] = ASLEEP /\ T2[u].until = T[u].until /\ L2.next[u] = L.next[u]
      BY <1>2 DEF Moved, SleepersKept, ASLEEP
    <2>2. T[u].until > now /\ (L.next[u] # NULL => T[u].until <= T[L.next[u]].until)
      BY <2>1 DEF Whole, Asleep
    <2>3. L.next[u] # NULL => L.next[u] \in Slot /\ W[L.next[u]] = ASLEEP
      BY <2>1, NextIsBeside, ListNames DEF Whole, ASLEEP
    <2>4. L.next[u] # NULL => T2[L.next[u]].until = T[L.next[u]].until
      BY <2>3 DEF Moved
    <2> QED BY <2>1, <2>2, <2>4
  <1> QED BY <1>1, <1>2 DEF Whole, Asleep

LEMMA SameWhole ==
    ASSUME NEW L, NEW T, NEW W, NEW now, NEW c, Whole(L, T, W, now, c),
           NEW T2 \in Threads(now), SameLife(T, T2)
    PROVE  Whole(L, T2, W, now, c)
  <1>1. \A u \in Slot : Settled(T2, W, u, c)
    BY DEF Whole, SameLife, Settled
  <1>2. ASSUME NEW u \in Slot, W[u] = ASLEEP
        PROVE  T2[u].until > now /\ (L.next[u] # NULL => T2[u].until <= T2[L.next[u]].until)
    <2>1. T[u].until > now /\ (L.next[u] # NULL => T[u].until <= T[L.next[u]].until)
      BY <1>2 DEF Whole, Asleep
    <2>2. L.next[u] # NULL => L.next[u] \in Slot
      BY <1>2, NextIsBeside, ListNames DEF Whole, ASLEEP
    <2> QED BY <2>1, <2>2 DEF SameLife
  <1> QED BY <1>1, <1>2 DEF Whole, Asleep

(* The places of a thread, told apart. *)
LEMMA PlaceFacts ==
    /\ \A q \in Queue : <<"READY", q>> # ASLEEP /\ <<"READY", q>> # Nowhere /\ <<"READY", q>>[1] = "READY"
    /\ \A m \in Mutex : <<"BLOCKED", m>> # ASLEEP /\ <<"BLOCKED", m>> # Nowhere
                        /\ <<"BLOCKED", m>>[1] = "BLOCKED"
    /\ \A m \in Mutex, q \in Queue : <<"BLOCKED", m>> # <<"READY", q>>
    /\ ASLEEP # Nowhere /\ ASLEEP[1] = "SLEEPING"
    /\ \A m \in Mutex : <<"BLOCKED", m>> # ASLEEP
  BY DEF ASLEEP, Nowhere

(* A READY thread waits in a queue that is not empty, or is the idle thread
   in its own.                                                             *)
LEMMA ReadyPlaces ==
    ASSUME NEW L, NEW T, NEW W, NEW now, NEW c, Whole(L, T, W, now, c), NEW u \in Slot,
           T[u].st = "READY"
    PROVE  \/ W[u] = Nowhere /\ u = Idle
           \/ \E q \in Queue : W[u] = <<"READY", q>> /\ L.head[q] # NULL
  <1>1. Linked(L, W) /\ W[u] \in Lists \cup {Nowhere} /\ Settled(T, W, u, c) /\ IdleAside(L, W)
    BY LinkedFacts DEF Whole
  <1>2. CASE W[u] = Nowhere
    BY <1>1, <1>2 DEF Settled
  <1>3. CASE W[u] # Nowhere
    <2>1. W[u] \in Lists /\ (u # Idle => W[u][1] = "READY")
      BY <1>1, <1>3 DEF Settled
    <2>2. (\A m \in Mutex : W[u] # <<"BLOCKED", m>>) /\ W[u] # <<"SLEEPING", NULL>>
      BY <2>1, <1>1, <1>3, PlaceFacts DEF ASLEEP, IdleAside
    <2>3. \E q \in Queue : W[u] = <<"READY", q>>
      BY <2>1, <2>2, ListNames
    <2> QED BY <1>1, <2>3, HeadIsBeside
  <1> QED BY <1>2, <1>3

(* The processor is given to a READY thread. *)
Given(T, W, T2, W2, n) ==
    /\ n \in Slot /\ T[n].st = "READY"
    /\ \A u \in Slot : T2[u].st = IF u = n THEN "RUNNING" ELSE T[u].st
    /\ WaitersStay(W, W2)
    /\ \A u \in Slot : T2[u].prio = T[u].prio /\ T2[u].base = T[u].base
    /\ Filed(W, T) => Filed(W2, T2) /\ Highest(T2, n)

LEMMA PickWhole ==
    ASSUME NEW now \in Nat, NEW L, NEW T, NEW W, Whole(L, T, W, now, NULL),
           NEW q \in Queue, L.head[q] # NULL, \A p \in Queue : L.head[p] # NULL => p <= q
    PROVE  LET W2 == [W EXCEPT ![L.head[q]] = Nowhere]
           IN /\ Whole(queue_pop_front(L, q), Run(T, L.head[q], now), W2, now, L.head[q])
              /\ Given(T, W, Run(T, L.head[q], now), W2, L.head[q])
  <1> DEFINE t == L.head[q]
             L2 == queue_pop_front(L, q)
             W2 == [W EXCEPT ![t] = Nowhere]
             T2 == Run(T, t, now)
  <1>1. Linked(L, W) /\ T \in Threads(now) /\ W \in [Slot -> Lists \cup {Nowhere}]
    BY LinkedFacts DEF Whole
  <1>2. /\ t \in Slot /\ W[t] = <<"READY", q>> /\ Linked(L2, W2) /\ SleepersKept(L, L2, W)
    BY <1>1, PopLinked
  <1> HIDE DEF L2, t
  <1>3. /\ T2 \in Threads(now)
        /\ \A u \in Slot : /\ T2[u].st = IF u = t THEN "RUNNING" ELSE T[u].st
                           /\ T2[u].base = T[u].base
                           /\ T2[u].until = T[u].until
                           /\ T2[u].prio = T[u].prio
                           /\ T2[u].deadline = T[u].deadline
    BY <1>1, <1>2, RunKeeps
  <1> HIDE DEF T2
  <1>4. W2[t] = Nowhere /\ \A u \in Slot : u # t => W2[u] = W[u]
    BY <1>1, <1>2
  <1> HIDE DEF W2
  <1>5. T[t].st = "READY" /\ T[t].base = (IF t = Idle THEN IDLE ELSE T[t].base)
        /\ (t # Idle => T[t].base >= LOW)
    <2>1. Settled(T, W, t, NULL)
      BY <1>2 DEF Whole
    <2> QED BY <1>2, <2>1, PlaceFacts DEF Settled
  <1>6. Settled(T2, W2, t, t)
    BY <1>3, <1>4, <1>5, <1>2 DEF Settled
  <1>7. Moved(T, W, T2, W2, t, NULL, t)
    BY <1>2, <1>3, <1>4, <1>6, PlaceFacts, NullIsNoSlot DEF Moved
  <1>8. Whole(L2, T2, W2, now, t)
    BY <1>2, <1>3, <1>7, MoveWhole
  <1>a. ASSUME Filed(W, T) PROVE Filed(W2, T2)
    <2> SUFFICES ASSUME NEW u \in Slot PROVE FiledAs(T2[u], W2[u])
      BY DEF Filed
    <2>1. FiledAs(T[u], W[u])
      BY <1>a DEF Filed
    <2>2. CASE u = t
      BY <2>1, <2>2, <1>3, <1>4, PlaceFacts DEF FiledAs
    <2>3. CASE u # t
      BY <2>1, <2>3, <1>3, <1>4 DEF FiledAs
    <2> QED BY <2>2, <2>3
  <1>b. ASSUME Filed(W, T) PROVE Highest(T2, t)
    <2> SUFFICES ASSUME NEW u \in Slot, T2[u].st = "READY" PROVE T2[u].prio <= T2[t].prio
      BY DEF Highest
    <2>1. T[u].st = "READY" /\ T2[u].prio = T[u].prio /\ T2[t].prio = T[t].prio
      BY <1>2, <1>3
    <2>2. T[t].prio = q
      BY <1>b, <1>2 DEF Filed, FiledAs
    <2>3. CASE W[u] = Nowhere
      <3>1. T[u].prio = IDLE
        BY <1>b, <2>1, <2>3 DEF Filed, FiledAs
      <3> QED BY <2>1, <2>2, <3>1 DEF Queue, LOW, REALTIME, IDLE
    <2>4. ASSUME NEW p \in Queue, W[u] = <<"READY", p>>, L.head[p] # NULL PROVE T2[u].prio <= T2[t].prio
      <3>1. T[u].prio = p
        BY <1>b, <2>4 DEF Filed, FiledAs
      <3>2. p <= q
        BY <2>4
      <3> QED BY <2>1, <2>2, <3>1, <3>2
    <2> QED BY <2>1, <2>3, <2>4, ReadyPlaces
  <1>c. (\A u \in Slot : T2[u].st = IF u = t THEN "RUNNING" ELSE T[u].st) /\ WaitersStay(W, W2)
    BY <1>2, <1>3, <1>4, PlaceFacts DEF WaitersStay
  <1>d. \A u \in Slot : T2[u].prio = T[u].prio /\ T2[u].base = T[u].base
    BY <1>3
  <1>9. Given(T, W, T2, W2, t)
    BY <1>2, <1>5, <1>a, <1>b, <1>c, <1>d DEF Given
  <1> QED BY <1>8, <1>9 DEF L2, T2, W2, t

(* The idle thread gets it when every other queue is empty. *)
LEMMA PickIdleWhole ==
    ASSUME NEW now \in Nat, NEW L, NEW T, NEW W, Whole(L, T, W, now, NULL),
           \A q \in Queue : L.head[q] = NULL, NEW L2, L2 = L \/ (L.head[IDLE] # NULL /\ L2 = queue_pop_front(L, IDLE))
    PROVE  /\ Whole(L2, Run(T, Idle, now), W, now, Idle)
           /\ Given(T, W, Run(T, Idle, now), W, Idle)
  <1> DEFINE T2 == Run(T, Idle, now)
  <1>1. Linked(L, W) /\ T \in Threads(now) /\ IdleAside(L, W) /\ Idle \in Slot
    BY LinkedFacts, QueueLevels DEF Whole
  <1>2. W[Idle] = Nowhere
    BY <1>1, HeadIsBeside DEF IdleAside
  <1>3. /\ T2 \in Threads(now)
        /\ \A u \in Slot : /\ T2[u].st = IF u = Idle THEN "RUNNING" ELSE T[u].st
                           /\ T2[u].base = T[u].base
                           /\ T2[u].until = T[u].until
                           /\ T2[u].prio = T[u].prio
                           /\ T2[u].deadline = T[u].deadline
    BY <1>1, RunKeeps
  <1> HIDE DEF T2
  <1>4. Linked(L2, W) /\ SleepersKept(L, L2, W)
    <2>1. CASE L2 = L
      BY <2>1, <1>1 DEF SleepersKept
    <2>2. CASE L.head[IDLE] # NULL /\ L2 = queue_pop_front(L, IDLE)
      BY <2>2, <1>1, <1>2, IdlePopLinked
    <2> QED BY <2>1, <2>2
  <1>5. T[Idle].st = "READY" /\ T[Idle].base = IDLE
    BY <1>1, NullIsNoSlot DEF Whole, Settled
  <1>6. Settled(T2, W, Idle, Idle)
    BY <1>1, <1>2, <1>3, <1>5 DEF Settled
  <1>7. Moved(T, W, T2, W, Idle, NULL, Idle)
    BY <1>1, <1>2, <1>3, <1>6, PlaceFacts, NullIsNoSlot DEF Moved
  <1>8. Whole(L2, T2, W, now, Idle)
    BY <1>3, <1>4, <1>7, MoveWhole
  <1>a. ASSUME Filed(W, T) PROVE Filed(W, T2)
    <2> SUFFICES ASSUME NEW u \in Slot PROVE FiledAs(T2[u], W[u])
      BY DEF Filed
    <2>1. FiledAs(T[u], W[u])
      BY <1>a DEF Filed
    <2>2. T2[u].prio = T[u].prio /\ T2[u].deadline = T[u].deadline
          /\ (T2[u].st = "READY" => T[u].st = "READY")
      BY <1>3
    <2> QED BY <2>1, <2>2 DEF FiledAs
  <1>b. Highest(T2, Idle)
    <2> SUFFICES ASSUME NEW u \in Slot, T2[u].st = "READY" PROVE FALSE
      BY DEF Highest
    <2>1. T[u].st = "READY" /\ u # Idle
      BY <1>3
    <2> QED BY <2>1, ReadyPlaces
  <1>c. (\A u \in Slot : T2[u].st = IF u = Idle THEN "RUNNING" ELSE T[u].st) /\ WaitersStay(W, W)
    BY <1>3 DEF WaitersStay
  <1>d. \A u \in Slot : T2[u].prio = T[u].prio /\ T2[u].base = T[u].base
    BY <1>3
  <1>9. Given(T, W, T2, W, Idle)
    BY <1>1, <1>5, <1>a, <1>b, <1>c, <1>d DEF Given
  <1> QED BY <1>8, <1>9 DEF T2

(* sched_yield after the caller has left the processor. *)
LEMMA YieldWhole ==
    ASSUME NEW now \in Nat, NEW L, NEW T, NEW W, Whole(L, T, W, now, NULL), current \in Slot
    PROVE  LET y == Yielded(L, T, now)
           IN \E W2 : Whole(y.L, y.T, W2, now, y.next) /\ Given(T, W, y.T, W2, y.next)
  <1> DEFINE y == Yielded(L, T, now)
  <1>0. L \in Links /\ T \in Threads(now) /\ T[current].st # "RUNNING"
    BY LinkedFacts, NullIsNoSlot DEF Whole, Settled
  <1>1. \/ \E q \in Runnable :
             /\ L.head[q] \in Slot /\ \A p \in Runnable : L.head[p] # NULL => p <= q
             /\ y = [L |-> queue_pop_front(L, q), T |-> Run(T, L.head[q], now), next |-> L.head[q]]
        \/ /\ \A q \in Runnable : L.head[q] = NULL
           /\ y = [L |-> L, T |-> Run(T, Idle, now), next |-> Idle]
    BY <1>0, YieldedCases
  <1> HIDE DEF y
  <1>a. Runnable = Queue \cup {IDLE} /\ \A p \in Queue : ~(p <= IDLE)
    BY DEF Runnable, Queue, IDLE, LOW, REALTIME
  <1>2. ASSUME NEW q \in Queue, L.head[q] \in Slot, \A p \in Queue : L.head[p] # NULL => p <= q,
               y = [L |-> queue_pop_front(L, q), T |-> Run(T, L.head[q], now), next |-> L.head[q]]
        PROVE  \E W2 : Whole(y.L, y.T, W2, now, y.next) /\ Given(T, W, y.T, W2, y.next)
    <2> DEFINE W2 == [W EXCEPT ![L.head[q]] = Nowhere]
    <2>1. Whole(queue_pop_front(L, q), Run(T, L.head[q], now), W2, now, L.head[q])
          /\ Given(T, W, Run(T, L.head[q], now), W2, L.head[q])
      BY <1>2, NullIsNoSlot, PickWhole
    <2> HIDE DEF W2
    <2>2. y.L = queue_pop_front(L, q) /\ y.T = Run(T, L.head[q], now) /\ y.next = L.head[q]
      BY <1>2
    <2> QED BY <2>1, <2>2
  <1>3. ASSUME NEW L2, L2 = L \/ (L.head[IDLE] # NULL /\ L2 = queue_pop_front(L, IDLE)),
               \A q \in Queue : L.head[q] = NULL,
               y = [L |-> L2, T |-> Run(T, Idle, now), next |-> Idle]
        PROVE  \E W2 : Whole(y.L, y.T, W2, now, y.next) /\ Given(T, W, y.T, W2, y.next)
    <2>1. /\ Whole(L2, Run(T, Idle, now), W, now, Idle)
          /\ Given(T, W, Run(T, Idle, now), W, Idle)
      BY <1>3, PickIdleWhole
    <2>2. y.L = L2 /\ y.T = Run(T, Idle, now) /\ y.next = Idle
      BY <1>3
    <2> QED BY <2>1, <2>2
  <1>4. \E W2 : Whole(y.L, y.T, W2, now, y.next) /\ Given(T, W, y.T, W2, y.next)
    <2>1. CASE (\A q \in Runnable : L.head[q] = NULL) /\ y = [L |-> L, T |-> Run(T, Idle, now), next |-> Idle]
      BY <2>1, <1>3, <1>a
    <2>2. ASSUME NEW q \in Runnable, L.head[q] \in Slot,
                 \A p \in Runnable : L.head[p] # NULL => p <= q,
             y = [L |-> queue_pop_front(L, q), T |-> Run(T, L.head[q], now), next |-> L.head[q]]
          PROVE \E W2 : Whole(y.L, y.T, W2, now, y.next) /\ Given(T, W, y.T, W2, y.next)
      <3>1. CASE q \in Queue
        <4>1. \A p \in Queue : L.head[p] # NULL => p <= q
          BY <2>2, <1>a
        <4> QED BY <3>1, <4>1, <2>2, <1>2
      <3>2. CASE q = IDLE
        <4>1. \A p \in Queue : L.head[p] = NULL
          BY <3>2, <2>2, <1>a
        <4>2. L.head[IDLE] = Idle /\ L.head[IDLE] # NULL
          BY <3>2, <2>2, <1>0, LinkedFacts, NullIsNoSlot DEF Whole, IdleAside
        <4> QED BY <4>1, <4>2, <3>2, <2>2, <1>3
      <3> QED BY <3>1, <3>2, <1>a
    <2> QED BY <1>1, <2>1, <2>2
  <1> QED BY <1>4 DEF y

-----------------------------------------------------------------------------
(* The starvation scan.                                                    *)

(* From T to T2 READY threads have got their base priority back. *)
Boosted(T, T2) ==
    \A u \in Slot : \/ T2[u] = T[u]
                    \/ /\ T[u].st = "READY" /\ T2[u].prio = T[u].base
                       /\ T2[u].base = T[u].base /\ T2[u].st = T[u].st

LEMMA BoostWhole ==
    ASSUME NEW now \in Nat, NEW s \in Pair(now), NEW W, NEW c, Whole(s.L, s.T, W, now, c),
           NEW q \in Queue, NEW t \in Slot, W[t] = <<"READY", q>>
    PROVE  \E W2 : /\ Whole(BoostOne(now, q, s, t).L, BoostOne(now, q, s, t).T, W2, now, c)
                   /\ WaitersStay(W, W2) /\ \A u \in Slot : u # t => W2[u] = W[u]
                   /\ Filed(W, s.T) => Filed(W2, BoostOne(now, q, s, t).T)
                   /\ Boosted(s.T, BoostOne(now, q, s, t).T)
  <1> DEFINE L == s.L
             T == s.T
             b == T[t].base
             L1 == queue_remove(L, q, t)
             L2 == queue_push_front(L1, b, t)
             W1 == [W EXCEPT ![t] = Nowhere]
             s2 == BoostOne(now, q, s, t)
  <1> SUFFICES \E W2 : /\ Whole(s2.L, s2.T, W2, now, c)
                       /\ WaitersStay(W, W2) /\ \A u \in Slot : u # t => W2[u] = W[u]
                       /\ Filed(W, T) => Filed(W2, s2.T)
                       /\ Boosted(T, s2.T)
    OBVIOUS
  <1>0. Linked(L, W) /\ T \in Threads(now) /\ W \in [Slot -> Lists \cup {Nowhere}] /\ L \in Links
    BY LinkedFacts DEF Whole
  <1>1. s2 \in Scanned(now, T)
    BY <1>0, BoostStep DEF Scanned, Pair, SameLife
  <1>2. T[t].st = "READY" /\ (t = Idle => b = IDLE /\ c # Idle) /\ (t # Idle => b >= LOW)
        /\ b \in 0..4 /\ t # c
    <2>1. Settled(T, W, t, c)
      BY DEF Whole
    <2>2. T[t] \in Thread(now)
      BY <1>0 DEF Threads
    <2> QED BY <2>1, <2>2, ThreadFields, PlaceFacts DEF Settled
  <1>3. CASE ~(now - T[t].last > StarveAfter)
    <2>1. s2 = s
      BY <1>3 DEF BoostOne
    <2>2. Boosted(T, T)
      BY DEF Boosted
    <2> HIDE DEF s2
    <2> QED BY <2>1, <2>2 DEF WaitersStay
  <1>4. CASE now - T[t].last > StarveAfter
    <2>1. s2.L = L2
      BY <1>4 DEF BoostOne
    <2>2. s2.T \in Threads(now) /\ SameLife(T, s2.T)
      BY <1>1 DEF Scanned, Pair
    <2>a. /\ T[t].deadline = s2.T[t].deadline /\ s2.T[t].prio = b
          /\ \A u \in Slot : u # t => s2.T[u] = T[u]
      <3>1. s2.T = [T EXCEPT ![t].prio = b, ![t].slice = Quanta[b]]
        BY <1>4 DEF BoostOne
      <3>2. T \in [Slot -> TCB]
        BY <1>0 DEF Threads, Thread
      <3> HIDE DEF s2, T, b
      <3> QED BY <3>1, <3>2 DEF TCB
    <2> DEFINE T2 == s2.T
    <2> HIDE DEF L, T, s2
    <2>3. Linked(L1, W1) /\ SleepersKept(L, L1, W)
      BY <1>0, RemoveLinked
    <2>4. W1[t] = Nowhere /\ \A u \in Slot : u # t => W1[u] = W[u]
      BY <1>0
    <2>b. W1 \in [Slot -> Lists \cup {Nowhere}]
      BY <2>3, LinkedFacts
    <2> HIDE DEF L1, W1, b
    <2>5. ASSUME NEW W2, Linked(L2, W2), SleepersKept(L1, L2, W1),
                 \A u \in Slot : u # t => W2[u] = W1[u],
                 \/ t # Idle /\ b \in Queue /\ W2[t] = <<"READY", b>>
                 \/ t = Idle /\ W2[t] = Nowhere
          PROVE  /\ Whole(s2.L, s2.T, W2, now, c)
                 /\ WaitersStay(W, W2) /\ \A u \in Slot : u # t => W2[u] = W[u]
                 /\ Filed(W, T) => Filed(W2, s2.T)
                 /\ Boosted(T, s2.T)
      <3>1. SleepersKept(L, L2, W)
        <4>1. \A u \in Slot : W[u] = ASLEEP => u # t
          BY PlaceFacts
        <4> QED BY <4>1, <2>3, <2>4, <2>5 DEF SleepersKept, ASLEEP
      <3>2. \A u \in Slot : u # t => W2[u] = W[u]
        BY <2>4, <2>5
      <3>3. Settled(T2, W2, t, c)
        BY <2>2, <2>5, <1>2, PlaceFacts DEF Settled, SameLife, b
      <3>4. Moved(T, W, T2, W2, t, c, c)
        BY <2>2, <2>5, <3>2, <3>3, PlaceFacts DEF Moved, SameLife
      <3>5. Whole(L2, T2, W2, now, c)
        <4>1. Whole(L, T, W, now, c)
          BY DEF L, T
        <4> HIDE DEF L2, T2
        <4> QED BY <4>1, <2>2, <2>5, <3>1, <3>4, MoveWhole DEF T2
      <3>6. WaitersStay(W, W2)
        BY <2>5, <3>2, PlaceFacts DEF WaitersStay
      <3>7. ASSUME Filed(W, T) PROVE Filed(W2, T2)
        <4> SUFFICES ASSUME NEW u \in Slot PROVE FiledAs(T2[u], W2[u])
          BY DEF Filed
        <4>1. FiledAs(T[u], W[u])
          BY <3>7 DEF Filed
        <4>2. CASE u # t
          BY <4>1, <4>2, <3>2, <2>a DEF FiledAs
        <4>3. CASE u = t
          <5>1. T2[t].deadline = 0 /\ T2[t].prio = b
            BY <4>1, <4>3, <2>a DEF FiledAs
          <5>2. \A r \in Queue : W2[t] = <<"READY", r>> => b = r
            BY <2>5, PlaceFacts
          <5>3. W2[t] = Nowhere => b = IDLE
            BY <2>5, PlaceFacts, <1>2 DEF b
          <5> QED BY <4>3, <5>1, <5>2, <5>3 DEF FiledAs
        <4> QED BY <4>2, <4>3
      <3>8. Boosted(T, T2)
        BY <2>2, <2>a, <1>2 DEF Boosted, SameLife, b
      <3> QED BY <2>1, <3>2, <3>5, <3>6, <3>7, <3>8
    <2>6. CASE t = Idle
      <3>1. Linked(L2, W1) /\ SleepersKept(L1, L2, W1)
        BY <2>6, <2>3, <2>4, <1>2, IdlePushLinked
      <3> HIDE DEF L2
      <3> QED BY <2>4, <2>5, <2>6, <3>1
    <2>7. CASE t # Idle
      <3> DEFINE W2 == [W1 EXCEPT ![t] = <<"READY", b>>]
      <3>1. b \in Queue
        BY <2>7, <1>2 DEF Queue, LOW, REALTIME
      <3>2. Linked(L2, W2) /\ SleepersKept(L1, L2, W1)
        BY <2>3, <2>4, <3>1, PushFrontLinked
      <3>3. W2[t] = <<"READY", b>> /\ \A u \in Slot : u # t => W2[u] = W1[u]
        BY <2>b
      <3> HIDE DEF L2, W2
      <3> QED BY <2>5, <2>7, <3>1, <3>2, <3>3
    <2> QED BY <2>6, <2>7
  <1> QED BY <1>3, <1>4

LEMMA BoostedTwice ==
    ASSUME NEW T, NEW T1, NEW T2, Boosted(T, T1), Boosted(T1, T2)
    PROVE  Boosted(T, T2)
  <1> SUFFICES ASSUME NEW u \in Slot
               PROVE  \/ T2[u] = T[u]
                      \/ /\ T[u].st = "READY" /\ T2[u].prio = T[u].base
                         /\ T2[u].base = T[u].base /\ T2[u].st = T[u].st
    BY DEF Boosted
  <1>1. \/ T1[u] = T[u]
        \/ /\ T[u].st = "READY" /\ T1[u].prio = T[u].base
           /\ T1[u].base = T[u].base /\ T1[u].st = T[u].st
    BY DEF Boosted
  <1>2. \/ T2[u] = T1[u]
        \/ /\ T1[u].st = "READY" /\ T2[u].prio = T1[u].base
           /\ T2[u].base = T1[u].base /\ T2[u].st = T1[u].st
    BY DEF Boosted
  <1> QED BY <1>1, <1>2

LEMMA ScanWhole ==
    ASSUME NEW now \in Nat, NEW s \in Pair(now), NEW W, NEW c, Whole(s.L, s.T, W, now, c),
           NEW q \in Queue
    PROVE  \E W2 : /\ Whole(ScanQueue(now, q, s).L, ScanQueue(now, q, s).T, W2, now, c)
                   /\ WaitersStay(W, W2)
                   /\ Filed(W, s.T) => Filed(W2, ScanQueue(now, q, s).T)
                   /\ Boosted(s.T, ScanQueue(now, q, s).T)
  <1> DEFINE met == Walk(s.L, s.L.head[q])
             n == Len(met)
             p == <<"READY", q>>
  <1>1. Listed(s.L, W, p, met)
    <2>1. Linked(s.L, W) /\ p \in Lists /\ Heads(s.L)[p] = s.L.head[q]
      BY ListNames, HeadsType, LinkedFacts DEF Whole
    <2>2. Listed(s.L, W, p, Walk(s.L, Heads(s.L)[p]))
      BY <2>1, WalkListed
    <2> QED BY <2>1, <2>2
  <1> HIDE DEF met
  <1>2. /\ n \in Nat /\ \A i \in 1..n : met[i] \in Slot /\ W[met[i]] = p
        /\ \A i, j \in 1..n : met[i] = met[j] => i = j
    <2>1. /\ met \in Seq(Slot) /\ \A i \in 1..n : W[met[i]] = p
          /\ \A i, j \in 1..n : met[i] = met[j] => i = j
      BY <1>1 DEF Listed
    <2>2. n \in Nat /\ \A i \in 1..n : met[i] \in Slot
      BY <2>1
    <2> QED BY <2>1, <2>2
  <1>3. PICK g : ScannedBy(g, now, q, s)
    BY ScannedSteps
  <1>4. /\ g \in [0..n -> Scanned(now, s.T)] /\ g[0] = s
        /\ \A i \in 1..n : g[i] = BoostOne(now, q, g[i-1], met[i])
        /\ ScanQueue(now, q, s) = g[n]
    BY <1>3 DEF ScannedBy, met
  <1> HIDE DEF n, p
  <1> DEFINE Sound(i, V) == /\ Whole(g[i].L, g[i].T, V, now, c) /\ WaitersStay(W, V)
                            /\ \A j \in 1..n : j > i => V[met[j]] = p
                            /\ Filed(W, s.T) => Filed(V, g[i].T)
                            /\ Boosted(s.T, g[i].T)
             A == {i \in 0..n : \E V : Sound(i, V)}
  <1>5. 0 \in A
    <2>1. Sound(0, W)
      BY <1>2, <1>4 DEF WaitersStay, Boosted
    <2> HIDE DEF Sound
    <2> QED BY <2>1, <1>2
  <1>6. ASSUME NEW i \in 1..n, i - 1 \in A PROVE i \in A
    <2>1. PICK V : Sound(i-1, V)
      BY <1>6
    <2>2. g[i-1] \in Pair(now) /\ g[i] = BoostOne(now, q, g[i-1], met[i])
      BY <1>2, <1>4 DEF Scanned
    <2>3. V[met[i]] = p /\ met[i] \in Slot
      BY <1>2, <2>1
    <2>4. Whole(g[i-1].L, g[i-1].T, V, now, c)
      BY <2>1
    <2>5. PICK V2 : /\ Whole(g[i].L, g[i].T, V2, now, c)
                    /\ WaitersStay(V, V2) /\ \A u \in Slot : u # met[i] => V2[u] = V[u]
                    /\ Filed(V, g[i-1].T) => Filed(V2, g[i].T)
                    /\ Boosted(g[i-1].T, g[i].T)
      BY <2>2, <2>3, <2>4, BoostWhole DEF p
    <2>6. \A j \in 1..n : j > i => V2[met[j]] = p
      <3> TAKE j \in 1..n
      <3> HAVE j > i
      <3>1. met[j] # met[i] /\ met[j] \in Slot /\ j > i - 1
        BY <1>2
      <3>2. V[met[j]] = p
        BY <2>1, <3>1
      <3> QED BY <2>5, <3>1, <3>2
    <2>7. WaitersStay(W, V2)
      BY <2>1, <2>5 DEF WaitersStay
    <2>a. Boosted(s.T, g[i].T)
      BY <2>1, <2>5, BoostedTwice
    <2>8. Sound(i, V2)
      BY <2>1, <2>5, <2>6, <2>7, <2>a
    <2> HIDE DEF Sound
    <2> QED BY <2>8, <1>2
  <1> HIDE DEF A
  <1>7. n \in A
    BY <1>2, <1>5, <1>6, Climb
  <1> QED BY <1>4, <1>7 DEF A

LEMMA StarvationWhole ==
    ASSUME NEW now \in Nat, NEW L, NEW T, NEW W, NEW c, Whole(L, T, W, now, c)
    PROVE  LET s == StarvationScan(L, T, now)
           IN \E W2 : /\ Whole(s.L, s.T, W2, now, c) /\ WaitersStay(W, W2)
                      /\ Filed(W, T) => Filed(W2, s.T)
                      /\ Boosted(T, s.T)
  <1> DEFINE s == [L |-> L, T |-> T]
             a == ScanQueue(now, LOW, s)
             b == ScanQueue(now, NORMAL, a)
  <1>0. LOW \in Queue /\ NORMAL \in Queue
    BY DEF Queue, LOW, NORMAL, REALTIME
  <1>1. s \in Pair(now) /\ s.L = L /\ s.T = T
    BY LinkedFacts DEF Pair, Whole
  <1> HIDE DEF s
  <1>2. CASE now % BoostPeriod = 0
    <2>1. PICK W1 : /\ Whole(a.L, a.T, W1, now, c) /\ WaitersStay(W, W1)
                    /\ Filed(W, T) => Filed(W1, a.T)
                    /\ Boosted(T, a.T)
      BY <1>0, <1>1, ScanWhole
    <2>2. a \in Pair(now)
      BY <1>0, <1>1, ScanKeeps DEF Scanned
    <2> HIDE DEF a
    <2>3. PICK W2 : /\ Whole(b.L, b.T, W2, now, c) /\ WaitersStay(W1, W2)
                    /\ Filed(W1, a.T) => Filed(W2, b.T)
                    /\ Boosted(a.T, b.T)
      BY <1>0, <2>1, <2>2, ScanWhole
    <2>4. WaitersStay(W, W2) /\ Boosted(T, b.T)
      BY <2>1, <2>3, BoostedTwice DEF WaitersStay
    <2>5. StarvationScan(L, T, now) = b
      BY <1>2 DEF StarvationScan, a, s
    <2> QED BY <2>1, <2>3, <2>4, <2>5
  <1>3. CASE now % BoostPeriod # 0
    <2>1. StarvationScan(L, T, now) = s
      BY <1>3 DEF StarvationScan, s
    <2> QED BY <1>1, <2>1 DEF WaitersStay, Boosted
  <1> QED BY <1>2, <1>3

LEMMA EndTickWhole ==
    ASSUME NEW now \in Nat, NEW L, NEW T, NEW W, NEW c, Whole(L, T, W, now, c), EndTick(L, T, now)
    PROVE  /\ \E W2 : Whole(links', tcb', W2, now, c) /\ WaitersStay(W, W2)
                      /\ (Filed(W, T) => Filed(W2, tcb'))
           /\ SameLife(T, tcb') /\ Boosted(T, tcb')
  <1> DEFINE s == StarvationScan(L, T, now)
  <1>1. links' = s.L /\ tcb' = s.T
    BY DEF EndTick
  <1>2. s \in Scanned(now, T)
    BY LinkedFacts, StarvationKeeps DEF Whole
  <1>3. PICK W2 : /\ Whole(s.L, s.T, W2, now, c) /\ WaitersStay(W, W2)
                  /\ Filed(W, T) => Filed(W2, s.T)
                  /\ Boosted(T, s.T)
    BY StarvationWhole
  <1> HIDE DEF s
  <1> QED BY <1>1, <1>2, <1>3 DEF Scanned

-----------------------------------------------------------------------------
(* The sleep queue in time.                                                *)

SleepOrder(L, T, W, w) ==
    /\ Listed(L, W, ASLEEP, w)
    /\ \A i \in 1..Len(w) : T[w[i]].until \in Nat
    /\ \A i, j \in 1..Len(w) : i <= j => T[w[i]].until <= T[w[j]].until

LEMMA SleepersInOrder ==
    ASSUME NEW L, NEW T, NEW W, NEW now \in Nat, NEW c, Whole(L, T, W, now, c)
    PROVE  SleepOrder(L, T, W, Walk(L, L.sleep))
  <1> DEFINE w == Walk(L, L.sleep)
             n == Len(w)
  <1>1. Listed(L, W, ASLEEP, w)
    <2>1. Linked(L, W) /\ ASLEEP \in Lists /\ Heads(L)[ASLEEP] = L.sleep
      BY ListNames, HeadsType, LinkedFacts DEF Whole, ASLEEP
    <2>2. Listed(L, W, ASLEEP, Walk(L, Heads(L)[ASLEEP]))
      BY <2>1, WalkListed
    <2> QED BY <2>1, <2>2
  <1> HIDE DEF w
  <1>2. /\ w \in Seq(Slot) /\ \A i \in 1..n : W[w[i]] = ASLEEP
        /\ \A i \in 1..n : L.next[w[i]] = IF i = n THEN NULL ELSE w[i+1]
    BY <1>1 DEF Listed
  <1>3. n \in Nat /\ \A i \in 1..n : w[i] \in Slot
    BY <1>2
  <1>4. \A i \in 1..n : T[w[i]].until \in Nat
    BY <1>3, ThreadFields DEF Whole, Threads
  <1>5. ASSUME NEW k \in 1..n, k # n PROVE T[w[k]].until <= T[w[k+1]].until
    <2>1. L.next[w[k]] = w[k+1] /\ w[k+1] # NULL
      BY <1>2, <1>3, <1>5, NullIsNoSlot
    <2> QED BY <2>1, <1>2, <1>3 DEF Whole, Asleep
  <1>6. ASSUME NEW i \in 1..n PROVE \A j \in 1..n : i <= j => T[w[i]].until <= T[w[j]].until
    <2> DEFINE A == {j \in 0..n : i <= j => T[w[i]].until <= T[w[j]].until}
    <2>1. 0 \in A
      BY <1>3
    <2>2. ASSUME NEW j \in 1..n, j - 1 \in A PROVE j \in A
      <3>1. CASE i < j
        <4>1. j - 1 \in 1..n /\ j - 1 # n /\ (j - 1) + 1 = j
          BY <3>1, <1>3
        <4>2. T[w[j-1]].until <= T[w[j]].until
          BY <4>1, <1>5
        <4>3. T[w[i]].until <= T[w[j-1]].until
          BY <2>2, <3>1
        <4>4. T[w[i]].until \in Nat /\ T[w[j-1]].until \in Nat /\ T[w[j]].until \in Nat
          BY <1>4, <4>1
        <4> QED BY <4>2, <4>3, <4>4
      <3>2. CASE i = j
        BY <3>2, <1>4
      <3>3. CASE i > j
        BY <3>3
      <3> QED BY <3>1, <3>2, <3>3
    <2> HIDE DEF A
    <2>3. \A j \in 0..n : j \in A
      BY <1>3, <2>1, <2>2, Climb
    <2> QED BY <2>3 DEF A
  <1>7. SleepOrder(L, T, W, w)
    BY <1>1, <1>4, <1>6 DEF SleepOrder
  <1> QED BY <1>7 DEF w

(* The first m sleepers in w, and no more, are due at d. *)
DueUpTo(T, d, w, m, due) ==
    /\ m = Len(due) /\ m \in 0..Len(w)
    /\ \A i \in 1..m : due[i] = w[i] /\ T[w[i]].until <= d
    /\ m < Len(w) => T[w[m+1]].until > d

LEMMA DueFacts ==
    ASSUME NEW L, NEW T, NEW W, NEW now \in Nat, NEW c, Whole(L, T, W, now, c), NEW d \in Nat
    PROVE  DueUpTo(T, d, Walk(L, L.sleep), Len(DuePrefix(L, T, d)), DuePrefix(L, T, d))
  <1> DEFINE w == Walk(L, L.sleep)
             due == DuePrefix(L, T, d)
  <1>0. L \in Links
    BY LinkedFacts DEF Whole
  <1>1. SleepOrder(L, T, W, w)
    BY SleepersInOrder
  <1>2. PICK n \in 0..Len(w) :
              /\ due = SubSeq(w, 1, n)
              /\ \A j \in 1..n : T[w[j]].until <= d
              /\ \A m \in 0..Len(w) : (\A j \in 1..m : T[w[j]].until <= d) => m <= n
    BY <1>0, DueIsPrefix
  <1> HIDE DEF w, due
  <1>3. w \in Seq(Slot) /\ Len(w) \in Nat /\ \A i \in 1..Len(w) : T[w[i]].until \in Nat
    BY <1>1 DEF SleepOrder, Listed
  <1>4. Len(due) = n /\ \A i \in 1..n : due[i] = w[i]
    BY <1>2, <1>3
  <1>5. ASSUME n < Len(w) PROVE T[w[n+1]].until > d
    <2>1. n + 1 \in 0..Len(w) /\ n + 1 \in 1..Len(w) /\ ~(n + 1 <= n)
      BY <1>3, <1>5
    <2>2. PICK j \in 1..n+1 : ~(T[w[j]].until <= d)
      BY <2>1, <1>2
    <2>3. j = n + 1
      BY <2>2, <1>2
    <2> QED BY <2>1, <2>2, <2>3, <1>3
  <1>6. DueUpTo(T, d, w, Len(due), due)
    BY <1>2, <1>4, <1>5 DEF DueUpTo
  <1> QED BY <1>6 DEF w, due

(* The current thread is put to sleep in its place. *)
LEMMA SleepWhole ==
    ASSUME NEW now \in Nat, NEW L, NEW T, NEW W, NEW t \in Slot, t # Idle, Whole(L, T, W, now, t),
           NEW d \in Nat, d > now
    PROVE  LET before == DuePrefix(L, T, d)
               L2 == IF before = <<>> THEN SleepFirst(L, t) ELSE SleepBehind(L, Last(before), t)
               W2 == [W EXCEPT ![t] = ASLEEP]
           IN /\ Whole(L2, Slept(T, t, d), W2, now, NULL) /\ WaitersStay(W, W2)
              /\ Filed(W, T) => Filed(W2, Slept(T, t, d))
  <1> DEFINE before == DuePrefix(L, T, d)
             L2 == IF before = <<>> THEN SleepFirst(L, t) ELSE SleepBehind(L, Last(before), t)
             W2 == [W EXCEPT ![t] = ASLEEP]
             T2 == Slept(T, t, d)
             w == Walk(L, L.sleep)
             m == Len(before)
  <1>0. Linked(L, W) /\ L \in Links /\ T \in Threads(now) /\ W \in [Slot -> Lists \cup {Nowhere}]
    BY LinkedFacts DEF Whole
  <1>1. SleepOrder(L, T, W, w) /\ DueUpTo(T, d, w, m, before)
    BY SleepersInOrder, DueFacts
  <1>2. /\ T2 \in Threads(now)
        /\ \A u \in Slot : /\ T2[u].st = IF u = t THEN "SLEEPING" ELSE T[u].st
                           /\ T2[u].until = IF u = t THEN d ELSE T[u].until
                           /\ T2[u].base = T[u].base
                           /\ T2[u].prio = T[u].prio
                           /\ T2[u].deadline = T[u].deadline
    BY <1>0, SleepKeeps
  <1>3. W[t] = Nowhere /\ T[t].st = "RUNNING" /\ T[t].base >= LOW
    BY DEF Whole, Settled
  <1>4. W2[t] = ASLEEP /\ \A u \in Slot : u # t => W2[u] = W[u]
    BY <1>0
  <1> HIDE DEF before, w, T2, m
  <1>5. /\ w \in Seq(Slot) /\ Len(w) \in Nat /\ m \in 0..Len(w) /\ m = Len(before)
        /\ \A i \in 1..m : before[i] = w[i] /\ T[w[i]].until <= d
        /\ m < Len(w) => T[w[m+1]].until > d
        /\ \A i \in 1..Len(w) : W[w[i]] = ASLEEP /\ T[w[i]].until \in Nat
        /\ \A i \in 1..Len(w) : L.next[w[i]] = IF i = Len(w) THEN NULL ELSE w[i+1]
        /\ IF Len(w) = 0 THEN L.sleep = NULL ELSE w[1] = L.sleep
    <2>1. Heads(L)[ASLEEP] = L.sleep
      BY <1>0, HeadsType DEF ASLEEP
    <2>2. w \in Seq(Slot) /\ Len(w) \in Nat
      BY <1>1 DEF SleepOrder, Listed
    <2> QED BY <1>1, <2>1, <2>2 DEF SleepOrder, Listed, DueUpTo
  <1>6. \A i \in 1..Len(w) : w[i] \in Slot
    BY <1>5
  (* The lists, who is in front of t and who behind. *)
  <1>7. /\ Linked(L2, W2)
        /\ L2.next[t] # NULL => L2.next[t] \in Slot /\ L2.next[t] # t /\ T[L2.next[t]].until > d
        /\ \A u \in Slot : u # t => \/ L2.next[u] = L.next[u]
                                    \/ L2.next[u] = t /\ T[u].until <= d
    <2>1. CASE before = <<>>
      <3>1. L2 = SleepFirst(L, t)
        BY <2>1
      <3>2. Linked(L2, W2)
        BY <1>0, <1>3, <3>1, SleepFirstLinked, ZenonT(30) DEF ASLEEP
      <3>3. L2.next[t] = L.sleep /\ \A u \in Slot : u # t => L2.next[u] = L.next[u]
        BY <3>1, <1>0 DEF SleepFirst, Links
      <3> HIDE DEF L2
      <3>4. m = 0
        BY <2>1, <1>5
      <3>5. ASSUME L.sleep # NULL PROVE L.sleep \in Slot /\ L.sleep # t /\ T[L.sleep].until > d
        <4>1. Len(w) # 0 /\ w[1] = L.sleep
          BY <1>5, <3>5
        <4>2. 1 \in 1..Len(w) /\ m < Len(w) /\ m + 1 = 1
          BY <4>1, <1>5, <3>4
        <4> QED BY <4>1, <4>2, <1>3, <1>5, <1>6, PlaceFacts
      <3> QED BY <3>2, <3>3, <3>5
    <2>2. CASE before # <<>>
      <3> DEFINE b == w[m]
      <3>1. m \in 1..Len(w)
        <4>1. before \in Seq(Slot)
          <5>1. PICK n \in 0..Len(w) : before = SubSeq(w, 1, n)
            BY <1>0, DueIsPrefix DEF before, w
          <5> QED BY <5>1, <1>5
        <4>2. m # 0
          BY <4>1, <1>5, <2>2
        <4> QED BY <4>2, <1>5
      <3>2. Last(before) = b
        BY <3>1, <1>5 DEF Last
      <3>3. L2 = SleepBehind(L, b, t)
        BY <2>2, <3>2
      <3>4. b \in Slot /\ W[b] = ASLEEP /\ b # t /\ T[b].until <= d
            /\ L.next[b] = IF m = Len(w) THEN NULL ELSE w[m+1]
        BY <3>1, <1>3, <1>5, <1>6, PlaceFacts
      <3> HIDE DEF b
      <3>5. Linked(L2, W2)
        <4>1. Linked(L, W) /\ W[t] = Nowhere /\ b \in Slot /\ W[b] = <<"SLEEPING", NULL>>
              /\ t \in Slot \ {Idle}
          BY <1>0, <1>3, <3>4 DEF ASLEEP
        <4>2. Linked(SleepBehind(L, b, t), [W EXCEPT ![t] = <<"SLEEPING", NULL>>])
          BY <4>1, SleepBehindLinked
        <4> QED BY <4>2, <3>3 DEF ASLEEP
      <3>6. /\ L2.next[t] = L.next[b] /\ L2.next[b] = t
            /\ \A u \in Slot : u # t /\ u # b => L2.next[u] = L.next[u]
        <4>1. L.next \in [Slot -> Link] /\ L2.next = [[L.next EXCEPT ![t] = L.next[b]] EXCEPT ![b] = t]
          BY <3>3, <1>0 DEF SleepBehind, Links
        <4> HIDE DEF L2
        <4> QED BY <4>1, <3>4
      <3> HIDE DEF L2
      <3>7. ASSUME L.next[b] # NULL
            PROVE  L.next[b] \in Slot /\ L.next[b] # t /\ T[L.next[b]].until > d
        <4>1. L.next[b] = w[m+1] /\ m + 1 \in 1..Len(w) /\ m < Len(w)
          BY <3>1, <3>4, <3>7, <1>5
        <4> QED BY <4>1, <1>3, <1>5, <1>6, PlaceFacts
      <3> QED BY <3>4, <3>5, <3>6, <3>7
    <2> QED BY <2>1, <2>2
  <1> HIDE DEF L2, W2
  <1>8. ASSUME NEW u \in Slot PROVE Settled(T2, W2, u, NULL)
    <2>1. Settled(T, W, u, t)
      BY DEF Whole
    <2>2. CASE u = t
      BY <2>2, <1>2, <1>3, <1>4, PlaceFacts, NullIsNoSlot DEF Settled
    <2>3. CASE u # t
      <3>1. /\ T2[u].st = T[u].st /\ T2[u].base = T[u].base /\ W2[u] = W[u]
            /\ T[u].st # "RUNNING" /\ u # NULL
        BY <2>1, <2>3, <1>2, <1>4, NullIsNoSlot DEF Settled
      <3> QED BY <2>1, <2>3, <3>1 DEF Settled
    <2> QED BY <2>2, <2>3
  <1>9. ASSUME NEW u \in Slot, W2[u] = ASLEEP
        PROVE  T2[u].until > now /\ (L2.next[u] # NULL => T2[u].until <= T2[L2.next[u]].until)
    <2>1. CASE u = t
      <3>1. T2[t].until = d /\ T2[u].until > now
        BY <1>2, <2>1
      <3>2. ASSUME L2.next[t] # NULL PROVE T2[t].until <= T2[L2.next[t]].until
        <4>1. L2.next[t] \in Slot /\ L2.next[t] # t /\ T[L2.next[t]].until > d
          BY <1>7, <3>2
        <4>2. T2[L2.next[t]].until = T[L2.next[t]].until /\ T[L2.next[t]].until \in Nat
          BY <4>1, <1>0, <1>2, ThreadFields DEF Threads
        <4> QED BY <4>1, <4>2, <3>1
      <3> QED BY <3>1, <3>2, <2>1
    <2>2. CASE u # t
      <3>1. W[u] = ASLEEP /\ T2[u].until = T[u].until
        BY <2>2, <1>2, <1>4, <1>9
      <3>2. T[u].until > now /\ (L.next[u] # NULL => T[u].until <= T[L.next[u]].until)
        BY <3>1 DEF Whole, Asleep
      <3>3. L.next[u] # NULL => L.next[u] \in Slot /\ L.next[u] # t
        BY <1>0, <1>3, <3>1, NextIsBeside, ListNames, PlaceFacts DEF ASLEEP
      <3>4. L2.next[u] = L.next[u] \/ (L2.next[u] = t /\ T[u].until <= d)
        BY <1>7, <2>2
      <3> QED BY <3>1, <3>2, <3>3, <3>4, <1>2
    <2> QED BY <2>1, <2>2
  <1>10. Whole(L2, T2, W2, now, NULL)
    BY <1>2, <1>7, <1>8, <1>9 DEF Whole, Asleep
  <1>11. WaitersStay(W, W2)
    BY <1>3, <1>4, PlaceFacts DEF WaitersStay
  <1>12. ASSUME Filed(W, T) PROVE Filed(W2, T2)
    <2> SUFFICES ASSUME NEW u \in Slot PROVE FiledAs(T2[u], W2[u])
      BY DEF Filed
    <2>1. FiledAs(T[u], W[u])
      BY <1>12 DEF Filed
    <2>2. /\ T2[u].st = IF u = t THEN "SLEEPING" ELSE T[u].st
          /\ T2[u].prio = T[u].prio /\ T2[u].deadline = T[u].deadline
          /\ W2[u] = IF u = t THEN ASLEEP ELSE W[u]
      BY <1>2, <1>4
    <2> HIDE DEF W2
    <2>3. CASE u = t
      BY <2>1, <2>2, <2>3, PlaceFacts DEF FiledAs
    <2>4. CASE u # t
      BY <2>1, <2>2, <2>4 DEF FiledAs
    <2> QED BY <2>3, <2>4
  <1> QED BY <1>10, <1>11, <1>12 DEF L2, W2, T2, before

-----------------------------------------------------------------------------
(* The wakeups, one sleeper at a time.                                     *)

LEMMA WakeFields ==
    ASSUME NEW now \in Nat, NEW s \in Pair(now), NEW t \in Slot, t = s.L.sleep
    PROVE  /\ WakeOne(s, t).T \in Threads(now)
           /\ \A u \in Slot : /\ WakeOne(s, t).T[u].st = IF u = t THEN "READY" ELSE s.T[u].st
                              /\ WakeOne(s, t).T[u].base = s.T[u].base
                              /\ WakeOne(s, t).T[u].until = s.T[u].until
                              /\ u # t => WakeOne(s, t).T[u] = s.T[u]
           /\ \E q \in Queue : /\ WakeOne(s, t).L = queue_push_front(WakeFirst(s.L), q, t)
                               /\ WakeOne(s, t).T[t].prio = q
           /\ WakeOne(s, t).T[t].deadline = s.T[t].deadline
  <1> DEFINE T == s.T
             boost == Max({T[t].base, HIGH})
             r == [T[t] EXCEPT !.st = "READY", !.prio = boost, !.slice = Quanta[boost]]
  <1>1. T \in Threads(now) /\ s.L \in Links /\ WakeOne(s, t) \in Pair(now)
    BY WakeStep DEF Pair
  <1>2. T[t] \in Thread(now)
    BY <1>1 DEF Threads
  <1>3. T[t] \in TCB /\ T[t].base \in 0..4
    BY <1>2, ThreadFields
  <1>4. boost \in Queue /\ boost \in Runnable /\ Quanta[boost] \in Nat
    <2>1. boost \in 3..4
      BY <1>3, MaxOfTwo DEF HIGH
    <2> HIDE DEF boost
    <2> QED BY <2>1, QuantaType DEF Queue, LOW, REALTIME, Runnable, IDLE, Level, ISR
  <1>5. /\ WakeOne(s, t).L = queue_push_front([s.L EXCEPT !.sleep = s.L.next[t]], boost, t)
        /\ WakeOne(s, t).T = [T EXCEPT ![t].st = "READY", ![t].prio = boost, ![t].slice = Quanta[boost]]
    BY DEF WakeOne
  <1> HIDE DEF boost
  <1>6. /\ r.st = "READY" /\ r.base = T[t].base /\ r.until = T[t].until
        /\ r.prio = boost /\ r.deadline = T[t].deadline
    BY <1>3, <1>4 DEF TCB, State
  <1>7. WakeOne(s, t).T = [T EXCEPT ![t] = r]
    BY <1>1, <1>5 DEF Threads
  <1> HIDE DEF r
  <1>8. \A u \in Slot : [T EXCEPT ![t] = r][u] = IF u = t THEN r ELSE T[u]
    BY <1>1 DEF Threads
  <1>9. [s.L EXCEPT !.sleep = s.L.next[t]] = WakeFirst(s.L)
    BY DEF WakeFirst
  <1>10. WakeOne(s, t).T \in Threads(now)
    BY <1>1 DEF Pair
  <1>11. WakeOne(s, t).L = queue_push_front(WakeFirst(s.L), boost, t) /\ WakeOne(s, t).T[t].prio = boost
    BY <1>5, <1>6, <1>7, <1>8, <1>9
  <1>12. \A u \in Slot : /\ WakeOne(s, t).T[u].st = IF u = t THEN "READY" ELSE s.T[u].st
                         /\ WakeOne(s, t).T[u].base = s.T[u].base
                         /\ WakeOne(s, t).T[u].until = s.T[u].until
                         /\ u # t => WakeOne(s, t).T[u] = s.T[u]
    BY <1>6, <1>7, <1>8
  <1>13. WakeOne(s, t).T[t].deadline = s.T[t].deadline
    BY <1>6, <1>7, <1>8
  <1>14. \E q \in Queue : /\ WakeOne(s, t).L = queue_push_front(WakeFirst(s.L), q, t)
                          /\ WakeOne(s, t).T[t].prio = q
    BY <1>4, <1>11
  <1> QED BY <1>10, <1>12, <1>13, <1>14

(* From T to T2 sleepers were woken, and nothing else changed. *)
OnlyWoken(T, T2) ==
    \A u \in Slot : /\ \/ T2[u].st = T[u].st
                       \/ T[u].st = "SLEEPING" /\ T2[u].st = "READY"
                    /\ T2[u].base = T[u].base /\ T2[u].until = T[u].until
                    /\ T[u].st # "SLEEPING" => T2[u] = T[u]

(* The lists after the first i sleepers of w have been woken. *)
WokenUpTo(i, L, T, W, w, L2, T2, V, c) ==
    /\ Linked(L2, V) /\ SleepersKept(L, L2, V)
    /\ L2.sleep = IF i = Len(w) THEN NULL ELSE w[i+1]
    /\ \A j \in 1..Len(w) : j > i => V[w[j]] = ASLEEP
    /\ \A u \in Slot : V[u] = ASLEEP => \E j \in 1..Len(w) : j > i /\ w[j] = u
    /\ \A u \in Slot : Settled(T2, V, u, c)
    /\ OnlyWoken(T, T2)
    /\ WaitersStay(W, V)
    /\ Filed(W, T) => Filed(V, T2)

LEMMA WakeNext ==
    ASSUME NEW now \in Nat, NEW L, NEW T, NEW W, NEW w, NEW c, Listed(L, W, ASLEEP, w),
           NEW s \in Pair(now), NEW V, NEW i \in 1..Len(w),
           WokenUpTo(i-1, L, T, W, w, s.L, s.T, V, c)
    PROVE  \E V2 : WokenUpTo(i, L, T, W, w, WakeOne(s, w[i]).L, WakeOne(s, w[i]).T, V2, c)
  <1> DEFINE t == w[i]
             n == Len(w)
             s2 == WakeOne(s, t)
             M == WakeFirst(s.L)
             V1 == [V EXCEPT ![t] = Nowhere]
  <1>0. /\ n \in Nat /\ w \in Seq(Slot) /\ t \in Slot /\ \A j \in 1..n : w[j] \in Slot
        /\ \A j, k \in 1..n : w[j] = w[k] => j = k
        /\ \A j \in 1..n : L.next[w[j]] = IF j = n THEN NULL ELSE w[j+1]
    <2>1. w \in Seq(Slot)
      BY DEF Listed
    <2>2. n \in Nat /\ \A j \in 1..n : w[j] \in Slot
      BY <2>1
    <2> QED BY <2>1, <2>2 DEF Listed
  <1>1. /\ Linked(s.L, V) /\ SleepersKept(L, s.L, V) /\ s.L.sleep = t
        /\ \A j \in 1..n : j > i - 1 => V[w[j]] = ASLEEP
        /\ \A u \in Slot : V[u] = ASLEEP => \E j \in 1..n : j > i - 1 /\ w[j] = u
        /\ \A u \in Slot : Settled(s.T, V, u, c)
        /\ OnlyWoken(T, s.T) /\ WaitersStay(W, V)
        /\ Filed(W, T) => Filed(V, s.T)
    <2>1. i - 1 # n /\ (i - 1) + 1 = i
      BY <1>0
    <2> QED BY <2>1 DEF WokenUpTo
  <1>2. V[t] = ASLEEP /\ t # NULL /\ t # Idle
    <2>1. V[t] = ASLEEP
      BY <1>0, <1>1
    <2>2. s.L.sleep # Idle
      <3>1. Linked(s.L, V) /\ s.L.sleep # NULL
        BY <1>0, <1>1, NullIsNoSlot
      <3> QED BY <3>1, WakeFirstLinked
    <2> QED BY <2>1, <2>2, <1>0, <1>1, NullIsNoSlot
  <1>3. Linked(M, V1)
    BY <1>1, <1>2, WakeFirstLinked
  <1>4. V \in [Slot -> Lists \cup {Nowhere}] /\ s.L \in Links
    BY <1>1, LinkedFacts
  <1>5. V1[t] = Nowhere /\ \A u \in Slot : u # t => V1[u] = V[u]
    BY <1>0, <1>4
  <1>6. M.next = s.L.next /\ M.sleep = s.L.next[t]
    BY <1>1, <1>4 DEF WakeFirst, Links
  <1>7. /\ s2.T \in Threads(now)
        /\ \A u \in Slot : /\ s2.T[u].st = IF u = t THEN "READY" ELSE s.T[u].st
                           /\ s2.T[u].base = s.T[u].base
                           /\ s2.T[u].until = s.T[u].until
                           /\ u # t => s2.T[u] = s.T[u]
        /\ \E q \in Queue : s2.L = queue_push_front(M, q, t) /\ s2.T[t].prio = q
        /\ s2.T[t].deadline = s.T[t].deadline
    <2>1. t \in Slot /\ t = s.L.sleep
      BY <1>0, <1>1
    <2> HIDE DEF t
    <2> QED BY <2>1, WakeFields DEF t
  <1> HIDE DEF s2, M, V1
  <1>8. PICK q \in Queue : s2.L = queue_push_front(M, q, t) /\ s2.T[t].prio = q
    BY <1>7
  <1> DEFINE V2 == [V1 EXCEPT ![t] = <<"READY", q>>]
  <1>9. Linked(s2.L, V2) /\ SleepersKept(M, s2.L, V1)
    <2>1. t \in Slot /\ V1[t] = Nowhere
      BY <1>0, <1>5
    <2>2. Linked(queue_push_front(M, q, t), V2) /\ SleepersKept(M, queue_push_front(M, q, t), V1)
      BY <2>1, <1>3, PushFrontLinked
    <2> QED BY <2>2, <1>8
  <1>10. V2[t] = <<"READY", q>> /\ \A u \in Slot : u # t => V2[u] = V[u]
    <2>1. V1 \in [Slot -> Lists \cup {Nowhere}]
      BY <1>3, LinkedFacts
    <2> QED BY <2>1, <1>0, <1>5
  <1> HIDE DEF V2
  <1>11. s2.L.sleep = s.L.next[t]
    <2>1. M \in Links /\ q \in Level
      BY <1>3, LinkedFacts, QueueLevels
    <2>2. queue_push_front(M, q, t).sleep = M.sleep
      BY <1>0, <2>1, PushFrontFields
    <2> QED BY <2>2, <1>6, <1>8
  <1>12. SleepersKept(L, s2.L, V2)
    <2> SUFFICES ASSUME NEW u \in Slot, V2[u] = ASLEEP PROVE s2.L.next[u] = L.next[u]
      BY DEF SleepersKept, ASLEEP
    <2>1. u # t /\ V[u] = ASLEEP /\ V1[u] = ASLEEP
      BY <1>5, <1>10, PlaceFacts
    <2> QED BY <2>1, <1>1, <1>6, <1>9 DEF SleepersKept, ASLEEP
  <1>13. s2.L.sleep = IF i = n THEN NULL ELSE w[i+1]
    <2>1. s.L.next[t] = L.next[t]
      BY <1>0, <1>1, <1>2 DEF SleepersKept, ASLEEP
    <2> QED BY <2>1, <1>0, <1>11
  <1>14. \A j \in 1..n : j > i => V2[w[j]] = ASLEEP
    <2> TAKE j \in 1..n
    <2> HAVE j > i
    <2>1. w[j] # t /\ w[j] \in Slot /\ j > i - 1
      BY <1>0, SMTT(30)
    <2> QED BY <2>1, <1>1, <1>10
  <1>15. \A u \in Slot : V2[u] = ASLEEP => \E j \in 1..n : j > i /\ w[j] = u
    <2> TAKE u \in Slot
    <2> HAVE V2[u] = ASLEEP
    <2>1. u # t /\ V[u] = ASLEEP
      BY <1>10, PlaceFacts
    <2>2. PICK j \in 1..n : j > i - 1 /\ w[j] = u
      BY <2>1, <1>1
    <2>3. j > i
      BY <2>1, <2>2, <1>0
    <2> QED BY <2>2, <2>3
  <1>16. s.T[t].st = "SLEEPING"
    BY <1>0, <1>1, <1>2, PlaceFacts DEF Settled
  <1>17. \A u \in Slot : Settled(s2.T, V2, u, c)
    <2> TAKE u \in Slot
    <2>1. Settled(s.T, V, u, c)
      BY <1>1
    <2>2. CASE u = t
      BY <2>1, <2>2, <1>2, <1>7, <1>10, <1>16, PlaceFacts DEF Settled
    <2>3. CASE u # t
      <3>1. V2[u] = V[u] /\ s2.T[u].st = s.T[u].st /\ s2.T[u].base = s.T[u].base
        BY <2>3, <1>7, <1>10
      <3> QED BY <2>1, <3>1 DEF Settled
    <2> QED BY <2>2, <2>3
  <1>18. OnlyWoken(T, s2.T)
    <2> SUFFICES ASSUME NEW u \in Slot
                 PROVE  /\ \/ s2.T[u].st = T[u].st
                           \/ T[u].st = "SLEEPING" /\ s2.T[u].st = "READY"
                        /\ s2.T[u].base = T[u].base /\ s2.T[u].until = T[u].until
                        /\ T[u].st # "SLEEPING" => s2.T[u] = T[u]
      BY DEF OnlyWoken
    <2>1. /\ \/ s.T[u].st = T[u].st
             \/ T[u].st = "SLEEPING" /\ s.T[u].st = "READY"
          /\ s.T[u].base = T[u].base /\ s.T[u].until = T[u].until
          /\ T[u].st # "SLEEPING" => s.T[u] = T[u]
      BY <1>1 DEF OnlyWoken
    <2> QED BY <2>1, <1>7, <1>16
  <1>19. WaitersStay(W, V2)
    <2>1. \A u \in Slot, m \in Mutex : W[u] = <<"BLOCKED", m>> <=> V[u] = <<"BLOCKED", m>>
      BY <1>1 DEF WaitersStay
    <2>2. \A m \in Mutex : V[t] # <<"BLOCKED", m>> /\ V2[t] # <<"BLOCKED", m>>
      BY <1>2, <1>10, PlaceFacts
    <2>3. \A u \in Slot : u # t => V2[u] = V[u]
      BY <1>10
    <2> HIDE DEF t
    <2> QED BY <2>1, <2>2, <2>3 DEF WaitersStay
  <1>a. ASSUME Filed(W, T) PROVE Filed(V2, s2.T)
    <2> SUFFICES ASSUME NEW u \in Slot PROVE FiledAs(s2.T[u], V2[u])
      BY DEF Filed
    <2>1. FiledAs(s.T[u], V[u])
      BY <1>a, <1>1 DEF Filed
    <2>2. CASE u = t
      <3>1. s2.T[u].deadline = 0 /\ s2.T[u].prio = q /\ V2[u] = <<"READY", q>>
        BY <2>1, <2>2, <1>7, <1>8, <1>10 DEF FiledAs
      <3> QED BY <3>1, PlaceFacts DEF FiledAs
    <2>3. CASE u # t
      <3>1. s2.T[u] = s.T[u] /\ V2[u] = V[u]
        BY <2>3, <1>7, <1>10
      <3> QED BY <2>1, <3>1
    <2> QED BY <2>2, <2>3
  <1>20. WokenUpTo(i, L, T, W, w, s2.L, s2.T, V2, c)
    BY <1>9, <1>12, <1>13, <1>14, <1>15, <1>17, <1>18, <1>19, <1>a DEF WokenUpTo
  <1> QED BY <1>20 DEF s2

(* Step 1 of a tick: nobody who is due stays asleep. *)
LEMMA WakeWhole ==
    ASSUME NEW W, NEW c, ticks \in Nat, Whole(links, tcb, W, ticks, c)
    PROVE  LET s == WakeSleepers(ticks + 1)
           IN /\ \E W2 : /\ Whole(s.L, s.T, W2, ticks + 1, c) /\ WaitersStay(W, W2)
                         /\ Filed(W, tcb) => Filed(W2, s.T)
              /\ OnlyWoken(tcb, s.T)
  <1> DEFINE now == ticks + 1
             w == Walk(links, links.sleep)
             due == DuePrefix(links, tcb, now)
             m == Len(due)
  <1>0. now \in Nat /\ Linked(links, W) /\ links \in Links /\ tcb \in Threads(now) /\ links.sleep \in Link
    BY LinkedFacts, ThreadsGrow DEF Whole, Links
  <1>1. SleepOrder(links, tcb, W, w) /\ DueUpTo(tcb, now, w, m, due)
    BY <1>0, SleepersInOrder, DueFacts
  <1>2. PICK g : WokenBy(g, now)
    BY <1>0, WokenSteps
  <1>3. /\ g \in [0..m -> Pair(now)] /\ g[0] = [L |-> links, T |-> tcb]
        /\ \A i \in 1..m : g[i] = WakeOne(g[i-1], due[i])
        /\ WakeSleepers(now) = g[m]
    BY <1>2 DEF WokenBy
  <1> HIDE DEF w, due
  <1>4. /\ Listed(links, W, ASLEEP, w) /\ Len(w) \in Nat /\ m \in 0..Len(w)
        /\ \A i \in 1..m : due[i] = w[i]
        /\ m < Len(w) => tcb[w[m+1]].until > now
        /\ \A i \in 1..Len(w) : tcb[w[i]].until \in Nat
        /\ \A i, j \in 1..Len(w) : i <= j => tcb[w[i]].until <= tcb[w[j]].until
    <2>1. Len(w) \in Nat
      BY <1>1 DEF SleepOrder, Listed
    <2> QED BY <2>1, <1>1 DEF SleepOrder, DueUpTo
  <1> HIDE DEF m, now
  <1> DEFINE Sound(i, V) == WokenUpTo(i, links, tcb, W, w, g[i].L, g[i].T, V, c)
             A == {i \in 0..m : \E V : Sound(i, V)}
  <1>5. 0 \in A
    <2>1. Sound(0, W)
      <3>1. g[0].L = links /\ g[0].T = tcb
        BY <1>3
      <3>2. links.sleep = IF 0 = Len(w) THEN NULL ELSE w[0+1]
        <4>1. Heads(links)[ASLEEP] = links.sleep
          BY <1>0, HeadsType DEF ASLEEP
        <4> QED BY <4>1, <1>4 DEF Listed
      <3>3. \A u \in Slot : W[u] = ASLEEP => \E j \in 1..Len(w) : j > 0 /\ w[j] = u
        <4>1. \A u \in Slot : W[u] = ASLEEP => \E j \in 1..Len(w) : w[j] = u
          BY <1>4 DEF Listed
        <4> QED BY <4>1, <1>4
      <3>4. \A j \in 1..Len(w) : j > 0 => W[w[j]] = ASLEEP
        BY <1>4 DEF Listed
      <3>5. \A u \in Slot : Settled(tcb, W, u, c)
        BY DEF Whole
      <3>6. OnlyWoken(tcb, tcb) /\ WaitersStay(W, W) /\ SleepersKept(links, links, W)
        BY DEF OnlyWoken, WaitersStay, SleepersKept
      <3>7. WokenUpTo(0, links, tcb, W, w, links, tcb, W, c)
        BY <1>0, <3>2, <3>3, <3>4, <3>5, <3>6 DEF WokenUpTo
      <3> QED BY <3>1, <3>7
    <2> HIDE DEF Sound
    <2> QED BY <2>1, <1>4
  <1>6. ASSUME NEW i \in 1..m, i - 1 \in A PROVE i \in A
    <2>1. PICK V : Sound(i-1, V)
      BY <1>6
    <2>2. i \in 1..Len(w) /\ g[i] = WakeOne(g[i-1], w[i]) /\ g[i-1] \in Pair(now)
      BY <1>3, <1>4
    <2>3. PICK V2 : WokenUpTo(i, links, tcb, W, w, WakeOne(g[i-1], w[i]).L, WakeOne(g[i-1], w[i]).T, V2, c)
      BY <1>0, <1>4, <2>1, <2>2, WakeNext
    <2>4. Sound(i, V2)
      BY <2>2, <2>3
    <2> HIDE DEF Sound
    <2> QED BY <2>4
  <1>7. m \in A
    <2> HIDE DEF A
    <2>1. m \in Nat /\ m \in 0..m
      BY <1>4
    <2>2. \A i \in 0..m : i \in A
      BY <2>1, <1>5, <1>6, Climb
    <2> QED BY <2>1, <2>2
  <1>8. PICK V : WokenUpTo(m, links, tcb, W, w, g[m].L, g[m].T, V, c)
    BY <1>7
  <1> DEFINE L2 == g[m].L
             T2 == g[m].T
  <1>9. T2 \in Threads(now)
    BY <1>3, <1>4 DEF Pair
  <1>10. /\ Linked(L2, V) /\ SleepersKept(links, L2, V)
         /\ \A u \in Slot : V[u] = ASLEEP => \E j \in 1..Len(w) : j > m /\ w[j] = u
         /\ \A u \in Slot : Settled(T2, V, u, c)
         /\ OnlyWoken(tcb, T2) /\ WaitersStay(W, V)
         /\ Filed(W, tcb) => Filed(V, T2)
    BY <1>8 DEF WokenUpTo
  <1> HIDE DEF L2, T2
  <1>11. ASSUME NEW u \in Slot, V[u] = ASLEEP
         PROVE  T2[u].until > now /\ (L2.next[u] # NULL => T2[u].until <= T2[L2.next[u]].until)
    <2>1. PICK j \in 1..Len(w) : j > m /\ w[j] = u
      BY <1>10, <1>11
    <2>2. m + 1 \in 1..Len(w) /\ m + 1 <= j /\ m < Len(w)
      BY <2>1, <1>4
    <2>3. tcb[u].until > now
      <3>1. tcb[w[m+1]].until > now /\ tcb[w[m+1]].until <= tcb[w[j]].until
        BY <2>2, <1>4
      <3>2. tcb[w[m+1]].until \in Nat /\ tcb[w[j]].until \in Nat
        BY <2>2, <1>4
      <3> QED BY <3>1, <3>2, <2>1, <1>0
    <2>4. L2.next[u] = links.next[u] /\ W[u] = ASLEEP
      BY <1>4, <1>10, <1>11, <2>1 DEF SleepersKept, Listed, ASLEEP
    <2>5. links.next[u] # NULL => links.next[u] \in Slot /\ tcb[u].until <= tcb[links.next[u]].until
      BY <2>4, <1>0, NextIsBeside, ListNames DEF Whole, Asleep, ASLEEP
    <2>6. \A x \in Slot : T2[x].until = tcb[x].until
      BY <1>10 DEF OnlyWoken
    <2> QED BY <2>3, <2>4, <2>5, <2>6
  <1>12. Whole(L2, T2, V, now, c)
    BY <1>9, <1>10, <1>11 DEF Whole, Asleep
  <1> QED BY <1>3, <1>10, <1>12 DEF now, L2, T2

-----------------------------------------------------------------------------
(* The inductive invariant: some assignment of places fits the links and
   the threads, and the counter counts.                                    *)
InPlace == \E W : Whole(links, tcb, W, ticks, current)

SchedInv == /\ FieldsInv
            /\ InPlace
            /\ ticks <= MaxTicks /\ preempted \subseteq Slot
            /\ CountsLive

(* The same, with every thread in the queue of its priority: so it is until
   a deadline, an emergency boost or a mutex changes a priority.           *)
Orderly == \E W : Whole(links, tcb, W, ticks, current) /\ Filed(W, tcb)

LEMMA SomePlaces ==
    ASSUME InPlace
    PROVE  \E W : Whole(links, tcb, W, ticks, current) /\ (Orderly => Filed(W, tcb))
  BY DEF InPlace, Orderly

(* Who waits for what, read from the links and from the places. *)
Waits(L) == [m \in Mutex |-> ToSet(Walk(L, L.waiters[m]))]

LEMMA WaitsAre ==
    ASSUME NEW L, NEW W, Linked(L, W), NEW m \in Mutex
    PROVE  Waits(L)[m] = {t \in Slot : W[t] = <<"BLOCKED", m>>}
  <1> DEFINE p == <<"BLOCKED", m>>
             w == Walk(L, L.waiters[m])
  <1>1. Listed(L, W, p, w)
    <2>1. p \in Lists /\ Heads(L)[p] = L.waiters[m]
      BY ListNames, HeadsType, LinkedFacts
    <2>2. Listed(L, W, p, Walk(L, Heads(L)[p]))
      BY <2>1, WalkListed
    <2> QED BY <2>1, <2>2
  <1>2. Waits(L)[m] = {w[i] : i \in DOMAIN w}
    BY DEF Waits, ToSet
  <1> HIDE DEF w, p
  <1>3. w \in Seq(Slot) /\ DOMAIN w = 1..Len(w)
    BY <1>1 DEF Listed
  <1>4. \A i \in 1..Len(w) : w[i] \in Slot
    BY <1>3
  <1>5. /\ \A i \in 1..Len(w) : W[w[i]] = p
        /\ \A t \in Slot : W[t] = p => \E i \in 1..Len(w) : w[i] = t
    BY <1>1 DEF Listed
  <1>6. {w[i] : i \in 1..Len(w)} = {t \in Slot : W[t] = p}
    BY <1>4, <1>5
  <1> QED BY <1>2, <1>3, <1>6 DEF p

LEMMA WaitsStay ==
    ASSUME NEW L, NEW W, Linked(L, W), NEW L2, NEW W2, Linked(L2, W2), WaitersStay(W, W2)
    PROVE  Waits(L2) = Waits(L)
  <1>1. \A m \in Mutex : Waits(L2)[m] = Waits(L)[m]
    <2> TAKE m \in Mutex
    <2>1. {t \in Slot : W[t] = <<"BLOCKED", m>>} = {t \in Slot : W2[t] = <<"BLOCKED", m>>}
      BY DEF WaitersStay
    <2>2. Waits(L)[m] = {t \in Slot : W[t] = <<"BLOCKED", m>>}
      BY WaitsAre
    <2>3. Waits(L2)[m] = {t \in Slot : W2[t] = <<"BLOCKED", m>>}
      BY WaitsAre
    <2> QED BY <2>1, <2>2, <2>3
  <1> QED BY <1>1 DEF Waits

(* The states when the current thread has left in state s and the sleepers
   in X have been woken, and the step that gives the processor to another. *)
LeftAs(s, X) == [t \in Slot |-> IF t = current THEN s ELSE IF t \in X THEN "READY" ELSE tcb[t].st]

Switched(s, X) == /\ current' \in Slot /\ LeftAs(s, X)[current'] = "READY"
                  /\ \A u \in Slot : tcb'[u].st = IF u = current' THEN "RUNNING" ELSE LeftAs(s, X)[u]

LEMMA YieldPasses ==
    ASSUME current \in Slot, ticks \in Nat, NEW L, NEW T, NEW W, Whole(L, T, W, ticks, NULL),
           sched_yield(L, T), NEW s, NEW X, \A u \in Slot : T[u].st = LeftAs(s, X)[u]
    PROVE  /\ Switched(s, X)
           /\ \E W2 : /\ Whole(links', tcb', W2, ticks, current') /\ WaitersStay(W, W2)
                      /\ Filed(W, T) => Filed(W2, tcb')
           /\ Filed(W, T) => Highest(tcb', current')
           /\ \A u \in Slot : tcb'[u].prio = T[u].prio /\ tcb'[u].base = T[u].base
  <1> DEFINE y == Yielded(L, T, ticks)
  <1>1. links' = y.L /\ tcb' = y.T /\ current' = y.next
    BY DEF sched_yield
  <1>2. PICK W2 : Whole(y.L, y.T, W2, ticks, y.next) /\ Given(T, W, y.T, W2, y.next)
    BY YieldWhole
  <1> HIDE DEF y
  <1>3. Switched(s, X)
    BY <1>1, <1>2 DEF Given, Switched
  <1>4. /\ Whole(links', tcb', W2, ticks, current') /\ WaitersStay(W, W2)
        /\ Filed(W, T) => Filed(W2, tcb')
    BY <1>1, <1>2 DEF Given
  <1>5. /\ Filed(W, T) => Highest(tcb', current')
        /\ \A u \in Slot : tcb'[u].prio = T[u].prio /\ tcb'[u].base = T[u].base
    BY <1>1, <1>2 DEF Given
  <1> QED BY <1>3, <1>4, <1>5

(* The number of threads alive. *)
LEMMA LiveStays ==
    ASSUME CountsLive, count' = count,
           \A u \in Slot : tcb'[u].st = "TERMINATED" <=> tcb[u].st = "TERMINATED"
    PROVE  CountsLive'
  BY DEF CountsLive, Live

LEMMA LiveFinite == IsFiniteSet(Live) /\ Cardinality(Live) \in 0..MaxThreads
  <1>1. IsFiniteSet(Slot) /\ Cardinality(Slot) = MaxThreads /\ MaxThreads \in Nat
    <2>1. MaxThreads \in Nat /\ MaxThreads > 0 /\ 1 \in Int /\ MaxThreads \in Int
      BY SchedAssumption
    <2>2. IsFiniteSet(1..MaxThreads) /\ Cardinality(1..MaxThreads) = MaxThreads
      BY <2>1, FS_Interval
    <2> QED BY <2>1, <2>2 DEF Slot
  <1>2. Live \in SUBSET Slot
    BY DEF Live
  <1>3. IsFiniteSet(Live) /\ Cardinality(Live) <= MaxThreads
    BY <1>1, <1>2, FS_Subset
  <1>4. Cardinality(Live) \in Nat
    BY <1>3, FS_CardinalityType
  <1> QED BY <1>1, <1>3, <1>4

LEMMA CreateStep ==
    ASSUME SchedInv, NEW p \in Queue, sched_create(p)
    PROVE  /\ InPlace' /\ CountsLive' /\ Waits(links') = Waits(links)
           /\ \E t \in Slot : /\ tcb[t].st = "TERMINATED"
                              /\ \A u \in Slot : tcb'[u].st = IF u = t THEN "READY" ELSE tcb[u].st
           /\ Orderly => Orderly'
  <1> DEFINE t == FreeSlot
  <1>0. PICK W : Whole(links, tcb, W, ticks, current) /\ (Orderly => Filed(W, tcb))
    BY SomePlaces DEF SchedInv
  <1>1. t \in Slot /\ tcb[t].st = "TERMINATED"
    BY FreeSlotIsFree DEF sched_create
  <1> HIDE DEF t
  <1>2. p \in Queue /\ p \in Runnable
    BY DEF Queue, Runnable, IDLE, LOW, REALTIME
  <1>3. /\ links' = queue_push_back(links, p, t) /\ tcb' = [tcb EXCEPT ![t] = NewTCB(p)]
        /\ count' = count + 1 /\ current' = current /\ ticks' = ticks
    BY DEF sched_create, t
  <1>4. ticks \in Nat /\ tcb \in Threads(ticks) /\ Linked(links, W) /\ W \in [Slot -> Lists \cup {Nowhere}]
    BY <1>0, LinkedFacts DEF SchedInv, FieldsInv, Whole
  <1>5. NewTCB(p) \in Thread(ticks) /\ NewTCB(p).st = "READY" /\ NewTCB(p).base = p
        /\ NewTCB(p).prio = p /\ NewTCB(p).deadline = 0
    BY <1>2, <1>4, NewThread
  <1>6. tcb' \in Threads(ticks) /\ tcb'[t] = NewTCB(p) /\ \A u \in Slot : u # t => tcb'[u] = tcb[u]
    BY <1>1, <1>3, <1>4, <1>5, SetThread DEF Threads
  <1>7. W[t] = Nowhere /\ t # Idle /\ t # current
    BY <1>0, <1>1 DEF Whole, Settled
  <1> DEFINE W2 == [W EXCEPT ![t] = <<"READY", p>>]
  <1>8. Linked(links', W2) /\ SleepersKept(links, links', W)
    BY <1>1, <1>2, <1>3, <1>4, <1>7, PushBackLinked
  <1>9. W2[t] = <<"READY", p>> /\ \A u \in Slot : u # t => W2[u] = W[u]
    BY <1>1, <1>4
  <1> HIDE DEF W2
  <1>10. Settled(tcb', W2, t, current)
    BY <1>2, <1>5, <1>6, <1>7, <1>9, PlaceFacts DEF Settled, Queue, LOW, REALTIME
  <1>11. Moved(tcb, W, tcb', W2, t, current, current)
    BY <1>1, <1>2, <1>6, <1>7, <1>9, <1>10, PlaceFacts DEF Moved
  <1>12. Whole(links', tcb', W2, ticks, current)
    BY <1>0, <1>6, <1>8, <1>11, MoveWhole
  <1>13. InPlace'
    BY <1>3, <1>12 DEF InPlace
  <1>14. WaitersStay(W, W2)
    BY <1>2, <1>7, <1>9, PlaceFacts DEF WaitersStay
  <1>15. Waits(links') = Waits(links)
    BY <1>4, <1>8, <1>14, WaitsStay
  <1>16. CountsLive'
    <2>1. Live' = Live \cup {t} /\ t \notin Live
      BY <1>1, <1>5, <1>6 DEF Live
    <2>2. Cardinality(Live \cup {t}) = Cardinality(Live) + 1
      BY <2>1, LiveFinite, FS_AddElement
    <2> QED BY <1>3, <2>1, <2>2 DEF SchedInv, CountsLive
  <1>17. ASSUME Orderly PROVE Orderly'
    <2>1. Filed(W2, tcb')
      <3> SUFFICES ASSUME NEW u \in Slot PROVE FiledAs(tcb'[u], W2[u])
        BY DEF Filed
      <3>1. FiledAs(tcb[u], W[u])
        BY <1>17, <1>0 DEF Filed
      <3>2. CASE u = t
        <4>1. tcb'[u].deadline = 0 /\ tcb'[u].prio = p /\ W2[u] = <<"READY", p>>
          BY <3>2, <1>5, <1>6, <1>9
        <4> QED BY <4>1, <1>2, PlaceFacts DEF FiledAs
      <3>3. CASE u # t
        BY <3>1, <3>3, <1>6, <1>9
      <3> QED BY <3>2, <3>3
    <2> QED BY <2>1, <1>3, <1>12 DEF Orderly
  <1> QED BY <1>1, <1>5, <1>6, <1>13, <1>15, <1>16, <1>17

LEMMA SleepStep ==
    ASSUME SchedInv, NEW ms \in Nat \ {0}, sched_sleep(ms)
    PROVE  /\ InPlace' /\ CountsLive' /\ Waits(links') = Waits(links)
           /\ current # Idle /\ Switched("SLEEPING", {})
           /\ Orderly => Orderly' /\ Highest(tcb', current')
           /\ \A u \in Slot : tcb'[u].prio = tcb[u].prio /\ tcb'[u].base = tcb[u].base
  <1> DEFINE t == current
             d == ticks + ms
             before == DuePrefix(links, tcb, d)
             L2 == IF before = <<>> THEN SleepFirst(links, t) ELSE SleepBehind(links, Last(before), t)
             T2 == Slept(tcb, t, d)
  <1>0. PICK W : Whole(links, tcb, W, ticks, t) /\ (Orderly => Filed(W, tcb))
    BY SomePlaces DEF SchedInv
  <1>1. t \in Slot /\ t # Idle /\ ticks \in Nat /\ d \in Nat /\ d > ticks
    BY DEF SchedInv, FieldsInv, sched_sleep, CallerMaySuspend
  <1>2. sched_yield(L2, T2) /\ ticks' = ticks /\ count' = count
    BY DEF sched_sleep, Slept, SleepFirst, SleepBehind
  <1> DEFINE W2 == [W EXCEPT ![t] = ASLEEP]
  <1>3. /\ Whole(L2, T2, W2, ticks, NULL) /\ WaitersStay(W, W2)
        /\ Filed(W, tcb) => Filed(W2, T2)
    <2> HIDE DEF d
    <2> QED BY <1>0, <1>1, SleepWhole
  <1>4. \A u \in Slot : T2[u].st = LeftAs("SLEEPING", {})[u]
    <2> HIDE DEF d
    <2>1. tcb \in Threads(ticks)
      BY DEF SchedInv, FieldsInv
    <2>2. \A u \in Slot : T2[u].st = IF u = t THEN "SLEEPING" ELSE tcb[u].st
      BY <1>1, <2>1, SleepKeeps
    <2> QED BY <2>2 DEF LeftAs
  <1>a. \A u \in Slot : T2[u].prio = tcb[u].prio /\ T2[u].base = tcb[u].base
    <2> HIDE DEF d
    <2>1. tcb \in Threads(ticks)
      BY DEF SchedInv, FieldsInv
    <2> QED BY <1>1, <2>1, SleepKeeps
  <1> HIDE DEF L2, T2, W2
  <1>5. /\ Switched("SLEEPING", {})
        /\ \E W3 : /\ Whole(links', tcb', W3, ticks, current') /\ WaitersStay(W2, W3)
                   /\ Filed(W2, T2) => Filed(W3, tcb')
        /\ Filed(W2, T2) => Highest(tcb', current')
        /\ \A u \in Slot : tcb'[u].prio = T2[u].prio /\ tcb'[u].base = T2[u].base
    BY <1>1, <1>2, <1>3, <1>4, YieldPasses
  <1>6. PICK W3 : /\ Whole(links', tcb', W3, ticks, current') /\ WaitersStay(W2, W3)
                  /\ Filed(W2, T2) => Filed(W3, tcb')
    BY <1>5
  <1>7. Waits(links') = Waits(links)
    <2>1. WaitersStay(W, W3) /\ Linked(links, W) /\ Linked(links', W3)
      BY <1>0, <1>3, <1>6 DEF WaitersStay, Whole
    <2> QED BY <2>1, WaitsStay
  <1>8. CountsLive'
    <2>1. tcb[t].st = "RUNNING"
      BY <1>0, <1>1 DEF Whole, Settled
    <2>2. \A u \in Slot : tcb'[u].st = "TERMINATED" <=> tcb[u].st = "TERMINATED"
      BY <1>5, <2>1 DEF Switched, LeftAs
    <2> QED BY <1>2, <2>2, LiveStays DEF SchedInv
  <1>9. Orderly => Orderly' /\ Highest(tcb', current')
    BY <1>0, <1>2, <1>3, <1>5, <1>6 DEF Orderly
  <1>10. InPlace'
    BY <1>2, <1>6 DEF InPlace
  <1> QED BY <1>1, <1>5, <1>7, <1>8, <1>9, <1>10, <1>a

LEMMA ExitStep ==
    ASSUME SchedInv, sched_exit
    PROVE  /\ InPlace' /\ CountsLive' /\ Waits(links') = Waits(links)
           /\ current # Idle /\ Switched("TERMINATED", {})
           /\ Orderly => Orderly' /\ Highest(tcb', current')
  <1> DEFINE t == current
             T2 == [tcb EXCEPT ![t].st = "TERMINATED"]
  <1>0. PICK W : Whole(links, tcb, W, ticks, t) /\ (Orderly => Filed(W, tcb))
    BY SomePlaces DEF SchedInv
  <1>1. t \in Slot /\ t # Idle /\ ticks \in Nat /\ tcb \in Threads(ticks)
    BY DEF SchedInv, FieldsInv, sched_exit, CallerMaySuspend
  <1>2. sched_yield(links, T2) /\ ticks' = ticks /\ count' = count - 1
    BY DEF sched_exit
  <1>3. /\ T2 \in Threads(ticks)
        /\ \A u \in Slot : /\ T2[u].st = IF u = t THEN "TERMINATED" ELSE tcb[u].st
                           /\ T2[u].base = tcb[u].base
                           /\ T2[u].until = tcb[u].until
                           /\ T2[u].prio = tcb[u].prio
                           /\ T2[u].deadline = tcb[u].deadline
    <2>1. "TERMINATED" \in State
      BY DEF State
    <2> QED BY <1>1, <2>1, StateKeeps
  <1> HIDE DEF T2
  <1>a. W[t] = Nowhere /\ tcb[t].st = "RUNNING" /\ Linked(links, W)
    BY <1>0, <1>1 DEF Whole, Settled
  <1>4. Moved(tcb, W, T2, W, t, t, NULL)
    <2>1. Settled(T2, W, t, NULL)
      BY <1>1, <1>3, <1>a, NullIsNoSlot DEF Settled
    <2> QED BY <2>1, <1>1, <1>3, <1>a, PlaceFacts, NullIsNoSlot DEF Moved
  <1>5. Whole(links, T2, W, ticks, NULL)
    BY <1>0, <1>3, <1>4, <1>a, MoveWhole DEF SleepersKept
  <1>6. \A u \in Slot : T2[u].st = LeftAs("TERMINATED", {})[u]
    BY <1>3 DEF LeftAs
  <1>b. ASSUME Filed(W, tcb) PROVE Filed(W, T2)
    <2> SUFFICES ASSUME NEW u \in Slot PROVE FiledAs(T2[u], W[u])
      BY DEF Filed
    <2>1. FiledAs(tcb[u], W[u])
      BY <1>b DEF Filed
    <2>2. T2[u].prio = tcb[u].prio /\ T2[u].deadline = tcb[u].deadline
          /\ (T2[u].st = "READY" => tcb[u].st = "READY")
      BY <1>3
    <2> QED BY <2>1, <2>2 DEF FiledAs
  <1>7. /\ Switched("TERMINATED", {})
        /\ \E W3 : /\ Whole(links', tcb', W3, ticks, current') /\ WaitersStay(W, W3)
                   /\ Filed(W, T2) => Filed(W3, tcb')
        /\ Filed(W, T2) => Highest(tcb', current')
    BY <1>1, <1>2, <1>5, <1>6, YieldPasses
  <1>8. PICK W3 : /\ Whole(links', tcb', W3, ticks, current') /\ WaitersStay(W, W3)
                  /\ Filed(W, T2) => Filed(W3, tcb')
    BY <1>7
  <1>9. Waits(links') = Waits(links)
    <2>1. Linked(links', W3)
      BY <1>8 DEF Whole
    <2> QED BY <2>1, <1>8, <1>a, WaitsStay
  <1>10. CountsLive'
    <2>1. Live' = Live \ {t} /\ t \in Live
      BY <1>1, <1>7, <1>a DEF Switched, LeftAs, Live
    <2>2. Cardinality(Live \ {t}) = Cardinality(Live) - 1
      BY <2>1, LiveFinite, FS_RemoveElement
    <2> QED BY <1>2, <2>1, <2>2 DEF SchedInv, CountsLive
  <1>11. Orderly => Orderly' /\ Highest(tcb', current')
    BY <1>0, <1>2, <1>7, <1>8, <1>b DEF Orderly
  <1>12. InPlace'
    BY <1>2, <1>8 DEF InPlace
  <1> QED BY <1>1, <1>7, <1>9, <1>10, <1>11, <1>12

-----------------------------------------------------------------------------
(* The tick.                                                               *)

(* The quantum is over: the running thread queues itself. *)
LEMMA ExpireWhole ==
    ASSUME NEW now \in Nat, current \in Slot, NEW L, NEW T, NEW W, Whole(L, T, W, now, current),
           NEW p, p = ExpiredPrio(T[current].prio)
    PROVE  \E W2 : /\ Whole(queue_push_back(L, p, current), Expired(T, current, p), W2, now, NULL)
                   /\ WaitersStay(W, W2)
                   /\ Filed(W, T) => Filed(W2, Expired(T, current, p))
  <1> DEFINE t == current
             L2 == queue_push_back(L, p, t)
             T2 == Expired(T, t, p)
             W2 == [W EXCEPT ![t] = <<"READY", p>>]
  <1>1. T \in Threads(now) /\ Linked(L, W) /\ W \in [Slot -> Lists \cup {Nowhere}] /\ Settled(T, W, t, t)
    BY LinkedFacts DEF Whole
  <1>2. /\ T2 \in Threads(now) /\ p \in Queue
        /\ \A u \in Slot : /\ T2[u].st = IF u = t THEN "READY" ELSE T[u].st
                           /\ T2[u].base = T[u].base
                           /\ T2[u].until = T[u].until
                           /\ T2[u].prio = IF u = t THEN p ELSE T[u].prio
                           /\ T2[u].deadline = T[u].deadline
    BY <1>1, ExpireKeeps
  <1> HIDE DEF T2
  <1>3. W[t] = Nowhere /\ T[t].st = "RUNNING"
    BY <1>1 DEF Settled
  <1>4. Linked(L2, W2) /\ SleepersKept(L, L2, W)
    BY <1>1, <1>2, <1>3, PushBackLinked
  <1>5. W2[t] = <<"READY", p>> /\ \A u \in Slot : u # t => W2[u] = W[u]
    BY <1>1
  <1> HIDE DEF W2, L2
  <1>6. Settled(T2, W2, t, NULL)
    BY <1>1, <1>2, <1>3, <1>5, PlaceFacts, NullIsNoSlot DEF Settled
  <1>7. Moved(T, W, T2, W2, t, t, NULL)
    BY <1>2, <1>3, <1>5, <1>6, PlaceFacts, NullIsNoSlot DEF Moved
  <1>8. Whole(L2, T2, W2, now, NULL)
    BY <1>2, <1>4, <1>7, MoveWhole
  <1>9. WaitersStay(W, W2)
    BY <1>2, <1>3, <1>5, PlaceFacts DEF WaitersStay
  <1>10. ASSUME Filed(W, T) PROVE Filed(W2, T2)
    <2> SUFFICES ASSUME NEW u \in Slot PROVE FiledAs(T2[u], W2[u])
      BY DEF Filed
    <2>1. FiledAs(T[u], W[u])
      BY <1>10 DEF Filed
    <2>2. CASE u = t
      <3>1. T2[u].deadline = 0 /\ T2[u].prio = p /\ W2[u] = <<"READY", p>>
        BY <2>1, <2>2, <1>2, <1>5 DEF FiledAs
      <3> QED BY <3>1, <1>2, PlaceFacts DEF FiledAs
    <2>3. CASE u # t
      <3>1. T2[u].deadline = T[u].deadline /\ T2[u].prio = T[u].prio /\ T2[u].st = T[u].st /\ W2[u] = W[u]
        BY <2>3, <1>2, <1>5
      <3> QED BY <2>1, <3>1 DEF FiledAs
    <2> QED BY <2>2, <2>3
  <1> QED BY <1>8, <1>9, <1>10 DEF L2, T2

(* Who runs after the quantum, and who is READY. *)
Passed(T) ==
    /\ current' \in Slot /\ (current' = current \/ T[current'].st = "READY")
    /\ \A u \in Slot : tcb'[u].st = IF u = current' THEN "RUNNING"
                                    ELSE IF u = current THEN "READY" ELSE T[u].st

(* The priorities once the running thread's quantum is over: the thread that
   runs next has the highest of those that could.                          *)
AfterQuantum(T, u) == IF u = current THEN ExpiredPrio(T[current].prio) ELSE T[u].prio

Outranks(T) ==
    /\ \A u \in Slot : u # current' /\ (u = current \/ T[u].st = "READY")
                        => AfterQuantum(T, u) <= AfterQuantum(T, current')
    /\ current' # current => \A u \in Slot : tcb'[u].prio = AfterQuantum(T, u) /\ tcb'[u].base = T[u].base

LEMMA ExpiresWhole ==
    ASSUME NEW now \in Nat, current \in Slot, NEW L, NEW T, NEW W, Whole(L, T, W, now, current),
           Expires(L, T, now)
    PROVE  /\ \E W2 : /\ Whole(links', tcb', W2, now, current') /\ WaitersStay(W, W2)
                      /\ Filed(W, T) => Filed(W2, tcb')
           /\ Passed(T) /\ (Filed(W, T) => Outranks(T))
  <1> DEFINE p == ExpiredPrio(T[current].prio)
             T2 == Expired(T, current, p)
             L2 == queue_push_back(L, p, current)
             y == Yielded(L2, T2, now)
  <1>1. \/ y.next = current /\ EndTick(y.L, y.T, now) /\ current' = current
        \/ links' = y.L /\ tcb' = y.T /\ current' = y.next
    BY DEF Expires, Expired
  <1>2. T \in Threads(now)
    BY DEF Whole
  <1>3. \A u \in Slot : T2[u].st = IF u = current THEN "READY" ELSE T[u].st
    BY <1>2, ExpireKeeps
  <1>a. \A u \in Slot : T2[u].prio = AfterQuantum(T, u) /\ T2[u].base = T[u].base
    BY <1>2, ExpireKeeps DEF AfterQuantum
  <1>4. PICK W1 : Whole(L2, T2, W1, now, NULL) /\ WaitersStay(W, W1) /\ (Filed(W, T) => Filed(W1, T2))
    BY ExpireWhole
  <1> HIDE DEF L2, T2, p
  <1>5. PICK W2 : Whole(y.L, y.T, W2, now, y.next) /\ Given(T2, W1, y.T, W2, y.next)
    BY <1>4, YieldWhole
  <1> HIDE DEF y
  <1>6. WaitersStay(W, W2)
    BY <1>4, <1>5 DEF Given, WaitersStay
  <1>7. \A u \in Slot : y.T[u].st = IF u = y.next THEN "RUNNING" ELSE IF u = current THEN "READY" ELSE T[u].st
    BY <1>3, <1>5 DEF Given
  <1>8. y.next \in Slot /\ (y.next = current \/ T[y.next].st = "READY")
    BY <1>3, <1>5 DEF Given
  <1>b. ASSUME Filed(W, T), NEW u \in Slot, u # y.next, u = current \/ T[u].st = "READY"
        PROVE  AfterQuantum(T, u) <= AfterQuantum(T, y.next)
    <2>1. Highest(y.T, y.next)
      BY <1>b, <1>4, <1>5 DEF Given
    <2>2. y.T[u].st = "READY"
      BY <1>b, <1>7
    <2>3. y.T[u].prio <= y.T[y.next].prio
      BY <2>1, <2>2 DEF Highest
    <2>4. \A v \in Slot : y.T[v].prio = AfterQuantum(T, v)
      BY <1>5, <1>a DEF Given
    <2> QED BY <2>3, <2>4, <1>8
  <1>c. \A u \in Slot : y.T[u].prio = AfterQuantum(T, u) /\ y.T[u].base = T[u].base
    BY <1>5, <1>a DEF Given
  <1>d. Filed(W, T) => Filed(W2, y.T)
    BY <1>4, <1>5 DEF Given
  <1>9. CASE links' = y.L /\ tcb' = y.T /\ current' = y.next
    <2>1. Filed(W, T) => Outranks(T)
      BY <1>9, <1>b, <1>c DEF Outranks
    <2>2. Passed(T)
      BY <1>7, <1>8, <1>9 DEF Passed
    <2> QED BY <2>1, <2>2, <1>5, <1>6, <1>9, <1>d
  <1>10. CASE y.next = current /\ EndTick(y.L, y.T, now) /\ current' = current
    <2>1. PICK W3 : /\ Whole(links', tcb', W3, now, y.next) /\ WaitersStay(W2, W3)
                    /\ Filed(W2, y.T) => Filed(W3, tcb')
      BY <1>5, <1>10, EndTickWhole
    <2>2. SameLife(y.T, tcb')
      BY <1>5, <1>10, EndTickWhole
    <2>3. WaitersStay(W, W3)
      BY <1>6, <2>1 DEF WaitersStay
    <2>4. Passed(T)
      BY <1>7, <1>8, <1>10, <2>2 DEF Passed, SameLife
    <2>5. Filed(W, T) => Outranks(T)
      BY <1>10, <1>b DEF Outranks
    <2>6. Filed(W, T) => Filed(W3, tcb')
      BY <2>1, <1>d
    <2> QED BY <1>10, <2>1, <2>3, <2>4, <2>5, <2>6
  <1> QED BY <1>1, <1>9, <1>10

LEMMA GoesOnWhole ==
    ASSUME NEW now \in Nat, current \in Slot, NEW L, NEW T, NEW W, Whole(L, T, W, now, current),
           GoesOn(L, T, now)
    PROVE  /\ \E W2 : /\ Whole(links', tcb', W2, now, current) /\ WaitersStay(W, W2)
                      /\ Filed(W, T) => Filed(W2, tcb')
           /\ current' = current /\ SameLife(T, tcb')
           /\ \A u \in Slot : \/ tcb'[u].prio = T[u].prio
                              \/ T[u].st = "READY" /\ tcb'[u].prio = T[u].base
  <1> DEFINE T2 == [T EXCEPT ![current].slice = @ - 1]
  <1>1. T[current].slice > 1 /\ EndTick(L, T2, now) /\ current' = current
    BY DEF GoesOn
  <1>2. T \in Threads(now)
    BY DEF Whole
  <1>3. /\ T2 \in Threads(now) /\ SameLife(T, T2)
        /\ \A u \in Slot : T2[u].prio = T[u].prio /\ T2[u].deadline = T[u].deadline
    BY <1>1, <1>2, SliceKeeps
  <1> HIDE DEF T2
  <1>4. Whole(L, T2, W, now, current)
    BY <1>3, SameWhole
  <1>a. Filed(W, T) => Filed(W, T2)
    BY <1>3 DEF Filed, FiledAs, SameLife
  <1>5. PICK W2 : /\ Whole(links', tcb', W2, now, current) /\ WaitersStay(W, W2)
                  /\ Filed(W, T2) => Filed(W2, tcb')
    BY <1>1, <1>4, EndTickWhole
  <1>6. SameLife(T2, tcb') /\ Boosted(T2, tcb')
    BY <1>1, <1>4, EndTickWhole
  <1>7. \A u \in Slot : \/ tcb'[u].prio = T[u].prio
                        \/ T[u].st = "READY" /\ tcb'[u].prio = T[u].base
    <2> TAKE u \in Slot
    <2>1. \/ tcb'[u].prio = T2[u].prio
          \/ T2[u].st = "READY" /\ tcb'[u].prio = T2[u].base
      BY <1>6 DEF Boosted
    <2> QED BY <2>1, <1>3 DEF SameLife
  <1>8. SameLife(T, tcb')
    BY <1>3, <1>6 DEF SameLife
  <1> QED BY <1>1, <1>5, <1>7, <1>8, <1>a

LEMMA TickStep ==
    ASSUME SchedInv, sched_tick
    PROVE  /\ InPlace' /\ CountsLive' /\ Waits(links') = Waits(links)
           /\ \E X \in SUBSET Slot :
                 /\ \A t \in X : tcb[t].st = "SLEEPING"
                 /\ \/ Switched("READY", X)
                    \/ current' = current /\ \A u \in Slot : tcb'[u].st = LeftAs("RUNNING", X)[u]
           /\ Orderly => /\ Orderly'
                         /\ current' # current => Highest(tcb', current')
  <1> DEFINE now == ticks + 1
             w == WakeSleepers(now)
             d == rtos_watchdog_tick(w.T, now)
  <1>0. PICK W : Whole(links, tcb, W, ticks, current) /\ (Orderly => Filed(W, tcb))
    BY SomePlaces DEF SchedInv
  <1>1. current \in Slot /\ ticks \in Nat /\ now \in Nat /\ streak \in 0..MissLimit
    BY DEF SchedInv, FieldsInv
  <1>2. ticks' = now /\ count' = count /\ (GoesOn(w.L, d.T, now) \/ Expires(w.L, d.T, now))
    BY DEF sched_tick
  <1>3. PICK W1 : /\ Whole(w.L, w.T, W1, now, current) /\ WaitersStay(W, W1)
                  /\ Filed(W, tcb) => Filed(W1, w.T)
    BY <1>0, <1>1, WakeWhole
  <1>4. OnlyWoken(tcb, w.T)
    BY <1>0, <1>1, WakeWhole
  <1> HIDE DEF w, now
  <1>5. w.T \in Threads(now)
    BY <1>3 DEF Whole
  <1>6. d \in Watched(now, w.T)
    BY <1>1, <1>5, WatchdogKeeps
  <1> HIDE DEF d
  <1>7. d.T \in Threads(now) /\ SameLife(w.T, d.T)
    BY <1>6 DEF Watched
  <1>a. Orderly => Filed(W1, d.T)
    <2>1. Filed(W1, w.T) => Calm(w.T)
      BY DEF Filed, FiledAs, Calm
    <2> QED BY <2>1, <1>0, <1>3, <1>6 DEF Watched
  <1>8. Whole(w.L, d.T, W1, now, current)
    BY <1>3, <1>7, SameWhole
  <1>9. tcb[current].st = "RUNNING" /\ Linked(links, W)
    BY <1>0, <1>1 DEF Whole, Settled
  <1> DEFINE X == {u \in Slot : tcb[u].st = "SLEEPING" /\ d.T[u].st = "READY"}
  <1>10. \A u \in Slot : d.T[u].st = IF u \in X THEN "READY" ELSE tcb[u].st
    BY <1>4, <1>7 DEF OnlyWoken, SameLife
  <1>11. current \notin X /\ X \in SUBSET Slot /\ \A t \in X : tcb[t].st = "SLEEPING"
    BY <1>9
  <1> HIDE DEF X
  <1>c. ASSUME \E W2 : /\ Whole(links', tcb', W2, now, current') /\ WaitersStay(W1, W2)
                       /\ Filed(W1, d.T) => Filed(W2, tcb'),
               \/ Switched("READY", X)
               \/ current' = current /\ \A u \in Slot : tcb'[u].st = LeftAs("RUNNING", X)[u],
               Orderly /\ current' # current => Highest(tcb', current')
        PROVE  /\ InPlace' /\ CountsLive' /\ Waits(links') = Waits(links)
               /\ \E Y \in SUBSET Slot :
                     /\ \A t \in Y : tcb[t].st = "SLEEPING"
                     /\ \/ Switched("READY", Y)
                        \/ current' = current /\ \A u \in Slot : tcb'[u].st = LeftAs("RUNNING", Y)[u]
               /\ Orderly => /\ Orderly'
                             /\ current' # current => Highest(tcb', current')
    <2>1. PICK W2 : /\ Whole(links', tcb', W2, now, current') /\ WaitersStay(W1, W2)
                    /\ Filed(W1, d.T) => Filed(W2, tcb')
      BY <1>c
    <2>a. Orderly => Orderly'
      BY <1>2, <1>a, <2>1 DEF Orderly
    <2>2. InPlace'
      BY <1>2, <2>1 DEF InPlace
    <2>3. WaitersStay(W, W2) /\ Linked(links', W2)
      BY <1>3, <2>1 DEF WaitersStay, Whole
    <2>4. Waits(links') = Waits(links)
      BY <1>9, <2>3, WaitsStay
    <2>5. \A u \in Slot : tcb'[u].st = "TERMINATED" <=> tcb[u].st = "TERMINATED"
      BY <1>9, <1>11, <1>c DEF Switched, LeftAs
    <2>6. CountsLive'
      BY <1>2, <2>5, LiveStays DEF SchedInv
    <2> QED BY <2>2, <2>4, <2>6, <2>a, <1>11, <1>c
  <1>12. CASE GoesOn(w.L, d.T, now)
    <2>1. \E W2 : /\ Whole(links', tcb', W2, now, current) /\ WaitersStay(W1, W2)
                  /\ Filed(W1, d.T) => Filed(W2, tcb')
      BY <1>1, <1>8, <1>12, GoesOnWhole
    <2>2. current' = current /\ SameLife(d.T, tcb')
      BY <1>1, <1>8, <1>12, GoesOnWhole
    <2>3. \A u \in Slot : tcb'[u].st = LeftAs("RUNNING", X)[u]
      BY <1>9, <1>10, <1>11, <2>2 DEF SameLife, LeftAs
    <2> QED BY <2>1, <2>2, <2>3, <1>c
  <1>13. CASE Expires(w.L, d.T, now)
    <2>1. \E W2 : /\ Whole(links', tcb', W2, now, current') /\ WaitersStay(W1, W2)
                  /\ Filed(W1, d.T) => Filed(W2, tcb')
      BY <1>1, <1>8, <1>13, ExpiresWhole
    <2>2. Passed(d.T) /\ (Filed(W1, d.T) => Outranks(d.T))
      BY <1>1, <1>8, <1>13, ExpiresWhole
    <2>3. Switched("READY", X)
      BY <1>10, <1>11, <2>2 DEF Passed, Switched, LeftAs
    <2>4. ASSUME Filed(W1, d.T), current' # current PROVE Highest(tcb', current')
      <3> SUFFICES ASSUME NEW u \in Slot, tcb'[u].st = "READY" PROVE tcb'[u].prio <= tcb'[current'].prio
        BY DEF Highest
      <3>1. u # current' /\ (u = current \/ d.T[u].st = "READY") /\ current' \in Slot
        BY <2>2 DEF Passed
      <3>2. AfterQuantum(d.T, u) <= AfterQuantum(d.T, current')
        BY <2>2, <2>4, <3>1 DEF Outranks
      <3>3. tcb'[u].prio = AfterQuantum(d.T, u) /\ tcb'[current'].prio = AfterQuantum(d.T, current')
        BY <2>2, <2>4, <3>1 DEF Outranks
      <3> QED BY <3>2, <3>3
    <2> QED BY <2>1, <2>3, <2>4, <1>a, <1>c
  <1> QED BY <1>2, <1>12, <1>13

LEMMA ResumedStep ==
    ASSUME SchedInv, sched_tick_resumed
    PROVE  /\ InPlace' /\ CountsLive' /\ Waits(links') = Waits(links)
           /\ current' = current /\ \A u \in Slot : tcb'[u].st = tcb[u].st
           /\ Orderly => Orderly'
  <1>0. PICK W : Whole(links, tcb, W, ticks, current) /\ (Orderly => Filed(W, tcb))
    BY SomePlaces DEF SchedInv
  <1>1. ticks \in Nat /\ EndTick(links, tcb, ticks) /\ ticks' = ticks /\ current' = current /\ count' = count
    BY DEF SchedInv, FieldsInv, sched_tick_resumed
  <1>2. PICK W2 : /\ Whole(links', tcb', W2, ticks, current) /\ WaitersStay(W, W2)
                  /\ Filed(W, tcb) => Filed(W2, tcb')
    BY <1>0, <1>1, EndTickWhole
  <1>3. SameLife(tcb, tcb')
    BY <1>0, <1>1, EndTickWhole
  <1>4. Linked(links, W) /\ Linked(links', W2)
    BY <1>0, <1>2 DEF Whole
  <1>5. Waits(links') = Waits(links)
    BY <1>2, <1>4, WaitsStay
  <1>6. \A u \in Slot : tcb'[u].st = tcb[u].st
    BY <1>3 DEF SameLife
  <1>7. CountsLive'
    BY <1>1, <1>6, LiveStays DEF SchedInv
  <1>8. Orderly => Orderly'
    BY <1>0, <1>1, <1>2 DEF Orderly
  <1>9. InPlace'
    BY <1>1, <1>2 DEF InPlace
  <1> QED BY <1>1, <1>5, <1>6, <1>7, <1>8, <1>9

-----------------------------------------------------------------------------
(* The calls that leave the running thread where it is.                    *)

(* Only fields that are no part of a thread's life change. *)
LEMMA SameStep ==
    ASSUME SchedInv, links' = links, current' = current, ticks' = ticks, count' = count,
           tcb' \in Threads(ticks), SameLife(tcb, tcb')
    PROVE  /\ InPlace' /\ CountsLive' /\ Waits(links') = Waits(links)
           /\ \A u \in Slot : tcb'[u].st = tcb[u].st
  <1>0. PICK W : Whole(links, tcb, W, ticks, current)
    BY DEF SchedInv, InPlace
  <1>1. Whole(links, tcb', W, ticks, current)
    BY <1>0, SameWhole
  <1>2. \A u \in Slot : tcb'[u].st = tcb[u].st
    BY DEF SameLife
  <1>3. CountsLive'
    BY <1>2, LiveStays DEF SchedInv
  <1>4. InPlace'
    BY <1>1 DEF InPlace
  <1> QED BY <1>2, <1>3, <1>4

LEMMA AcquireStep ==
    ASSUME SchedInv, NEW m \in Mutex, kmutex_acquire(m)
    PROVE  /\ InPlace' /\ CountsLive' /\ Waits(links') = Waits(links)
           /\ \A u \in Slot : tcb'[u].st = tcb[u].st
           /\ current # Idle /\ current' = current
           /\ owner[m] = NULL /\ owner' = [owner EXCEPT ![m] = current]
  <1>1. /\ links' = links /\ current' = current /\ ticks' = ticks /\ count' = count /\ tcb' = tcb
        /\ current # Idle /\ owner[m] = NULL /\ owner' = [owner EXCEPT ![m] = current]
    BY DEF kmutex_acquire, CallerMaySuspend
  <1>2. tcb' \in Threads(ticks) /\ SameLife(tcb, tcb')
    BY <1>1 DEF SchedInv, FieldsInv, SameLife
  <1> QED BY <1>1, <1>2, SameStep

LEMMA DeadlineStep ==
    ASSUME SchedInv, DeadlineNext
    PROVE  /\ InPlace' /\ CountsLive' /\ Waits(links') = Waits(links)
           /\ \A u \in Slot : tcb'[u].st = tcb[u].st
           /\ current' = current /\ owner' = owner
  <1>0. tcb \in Threads(ticks) /\ ticks \in Nat
    BY DEF SchedInv, FieldsInv
  <1>1. PICK t \in Live \ {Idle} : rtos_boost(t, REALTIME) \/ \E d \in Delays : rtos_set_deadline(t, d)
    BY DEF DeadlineNext
  <1>2. t \in Slot
    BY <1>1 DEF Live
  <1>3. CASE rtos_boost(t, REALTIME)
    <2>1. /\ tcb[t].prio < REALTIME
          /\ tcb' = [tcb EXCEPT ![t].prio = REALTIME, ![t].slice = Quanta[REALTIME]]
          /\ links' = links /\ current' = current /\ ticks' = ticks /\ count' = count /\ owner' = owner
      BY <1>3 DEF rtos_boost
    <2>2. REALTIME \in Runnable
      BY DEF REALTIME, Runnable, IDLE
    <2>3. tcb' \in Threads(ticks) /\ SameLife(tcb, tcb')
      BY <1>0, <1>2, <2>1, <2>2, BoostKeeps
    <2> QED BY <2>1, <2>3, SameStep
  <1>4. ASSUME NEW d \in Delays, rtos_set_deadline(t, d)
        PROVE  /\ InPlace' /\ CountsLive' /\ Waits(links') = Waits(links)
               /\ \A u \in Slot : tcb'[u].st = tcb[u].st
               /\ current' = current /\ owner' = owner
    <2>1. /\ tcb' = [tcb EXCEPT ![t].deadline = ticks + d, ![t].missed = FALSE,
                                ![t].prio = REALTIME, ![t].slice = Quanta[REALTIME]]
          /\ links' = links /\ current' = current /\ ticks' = ticks /\ count' = count /\ owner' = owner
      BY <1>4 DEF rtos_set_deadline
    <2>2. ticks + d \in Nat
      BY <1>0, SchedAssumption
    <2>3. tcb' \in Threads(ticks) /\ SameLife(tcb, tcb')
      BY <1>0, <1>2, <2>1, <2>2, DeadlineKeeps
    <2> QED BY <2>1, <2>3, SameStep
  <1> QED BY <1>1, <1>3, <1>4

-----------------------------------------------------------------------------
(* The mutex.                                                              *)

LEMMA BlockStep ==
    ASSUME SchedInv, NEW m \in Mutex, kmutex_block(m)
    PROVE  /\ InPlace' /\ CountsLive'
           /\ Waits(links') = [Waits(links) EXCEPT ![m] = @ \cup {current}]
           /\ current # Idle /\ owner[m] # NULL /\ Switched("BLOCKED", {})
  <1> DEFINE t == current
             o == owner[m]
             p == tcb[t].prio
             T == [tcb EXCEPT ![o].prio = Max({@, p})]
             T2 == [T EXCEPT ![t].st = "BLOCKED"]
             L2 == WaitFirst(links, m, t)
  <1>0. PICK W : Whole(links, tcb, W, ticks, t)
    BY DEF SchedInv, InPlace
  <1>1. t \in Slot /\ t # Idle /\ ticks \in Nat /\ tcb \in Threads(ticks) /\ o \in Slot
    BY NullIsNoSlot DEF SchedInv, FieldsInv, kmutex_block, CallerMaySuspend
  <1>2. sched_yield(L2, T2) /\ ticks' = ticks /\ count' = count /\ owner[m] # NULL
    BY DEF kmutex_block, WaitFirst
  <1>3. p \in Runnable
    BY <1>1 DEF Threads, Thread, TCB
  <1> HIDE DEF p, o
  <1>4. T \in Threads(ticks) /\ SameLife(tcb, T)
    BY <1>1, <1>3, RaiseKeeps
  <1> HIDE DEF T
  <1>5. Whole(links, T, W, ticks, t)
    BY <1>0, <1>4, SameWhole
  <1>6. /\ T2 \in Threads(ticks)
        /\ \A u \in Slot : /\ T2[u].st = IF u = t THEN "BLOCKED" ELSE T[u].st
                           /\ T2[u].base = T[u].base
                           /\ T2[u].until = T[u].until
    <2>1. "BLOCKED" \in State
      BY DEF State
    <2> QED BY <1>1, <1>4, <2>1, StateKeeps
  <1> HIDE DEF T2
  <1>7. Linked(links, W) /\ Settled(T, W, t, t) /\ W \in [Slot -> Lists \cup {Nowhere}]
    BY <1>1, <1>5, LinkedFacts DEF Whole
  <1>8. W[t] = Nowhere /\ T[t].st = "RUNNING" /\ T[t].base >= LOW
    BY <1>1, <1>7 DEF Settled
  <1> DEFINE W2 == [W EXCEPT ![t] = <<"BLOCKED", m>>]
  <1>9. Linked(L2, W2) /\ SleepersKept(links, L2, W)
    BY <1>1, <1>7, <1>8, WaitFirstLinked
  <1>10. W2[t] = <<"BLOCKED", m>> /\ \A u \in Slot : u # t => W2[u] = W[u]
    BY <1>1, <1>7
  <1> HIDE DEF L2, W2
  <1>11. Settled(T2, W2, t, NULL)
    BY <1>1, <1>6, <1>8, <1>10, PlaceFacts, NullIsNoSlot DEF Settled
  <1>12. Moved(T, W, T2, W2, t, t, NULL)
    BY <1>1, <1>6, <1>8, <1>10, <1>11, PlaceFacts, NullIsNoSlot DEF Moved
  <1>13. Whole(L2, T2, W2, ticks, NULL)
    BY <1>5, <1>6, <1>9, <1>12, MoveWhole
  <1>14. \A u \in Slot : T2[u].st = LeftAs("BLOCKED", {})[u]
    BY <1>4, <1>6 DEF LeftAs, SameLife
  <1>15. /\ Switched("BLOCKED", {})
         /\ \E W3 : Whole(links', tcb', W3, ticks, current') /\ WaitersStay(W2, W3)
    BY <1>1, <1>2, <1>13, <1>14, YieldPasses
  <1>16. PICK W3 : Whole(links', tcb', W3, ticks, current') /\ WaitersStay(W2, W3)
    BY <1>15
  <1>17. Linked(links', W3)
    BY <1>16 DEF Whole
  <1>18. \A n \in Mutex : Waits(links')[n] = IF n = m THEN Waits(links)[n] \cup {t} ELSE Waits(links)[n]
    <2> TAKE n \in Mutex
    <2>1. Waits(links)[n] = {u \in Slot : W[u] = <<"BLOCKED", n>>}
      BY <1>7, WaitsAre
    <2>2. Waits(links')[n] = {u \in Slot : W3[u] = <<"BLOCKED", n>>}
      BY <1>17, WaitsAre
    <2>3. {u \in Slot : W3[u] = <<"BLOCKED", n>>} = {u \in Slot : W2[u] = <<"BLOCKED", n>>}
      BY <1>16 DEF WaitersStay
    <2>4. \A u \in Slot : u # t => (W2[u] = <<"BLOCKED", n>> <=> W[u] = <<"BLOCKED", n>>)
      BY <1>10
    <2>5. (W2[t] = <<"BLOCKED", n>> <=> n = m) /\ W[t] # <<"BLOCKED", n>>
      BY <1>8, <1>10, PlaceFacts
    <2> QED BY <1>1, <2>1, <2>2, <2>3, <2>4, <2>5
  <1>19. Waits(links') = [Waits(links) EXCEPT ![m] = @ \cup {t}]
    BY <1>18 DEF Waits
  <1>20. CountsLive'
    <2>1. tcb[t].st = "RUNNING"
      BY <1>1, <1>4, <1>8 DEF SameLife
    <2>2. \A u \in Slot : tcb'[u].st = "TERMINATED" <=> tcb[u].st = "TERMINATED"
      BY <1>15, <2>1 DEF Switched, LeftAs
    <2> QED BY <1>2, <2>2, LiveStays DEF SchedInv
  <1> QED BY <1>1, <1>2, <1>15, <1>16, <1>19, <1>20 DEF InPlace

-----------------------------------------------------------------------------
(* The hand-off of a mutex.                                                *)

LEMMA NobodyWaits ==
    ASSUME NEW L, NEW W, Linked(L, W), NEW m \in Mutex, L.waiters[m] = NULL
    PROVE  Waits(L)[m] = {}
  <1> DEFINE p == <<"BLOCKED", m>>
  <1>1. L \in Links /\ \E R \in [Slot -> Nat] : Chain(Heads(L), L.next, W, R)
    BY LinkedFacts
  <1>2. p \in Lists /\ Heads(L)[p] = NULL
    BY <1>1, ListNames, HeadsType
  <1> HIDE DEF p
  <1>3. \A t \in Slot : W[t] # p
    BY <1>1, <1>2 DEF Chain
  <1>4. Waits(L)[m] = {t \in Slot : W[t] = p}
    BY WaitsAre DEF p
  <1> QED BY <1>3, <1>4

(* The first waiter is taken off and put at the front of its ready queue. *)
LEMMA HandOffWhole ==
    ASSUME NEW now \in Nat, NEW L, NEW T, NEW W, NEW c \in Slot, Whole(L, T, W, now, c),
           NEW m \in Mutex, NEW w, w = L.waiters[m], w # NULL
    PROVE  LET L2 == queue_push_front(WaiterGone(L, m), T[w].prio, w)
               T2 == [T EXCEPT ![w].st = "READY"]
           IN \E W2 : /\ Whole(L2, T2, W2, now, c)
                      /\ w \in Slot /\ T[w].st = "BLOCKED"
                      /\ \A u \in Slot : T2[u].st = IF u = w THEN "READY" ELSE T[u].st
                      /\ w \in Waits(L)[m] /\ Waits(L2) = [Waits(L) EXCEPT ![m] = @ \ {w}]
  <1> DEFINE q == T[w].prio
             L1 == WaiterGone(L, m)
             W1 == [W EXCEPT ![w] = Nowhere]
             L2 == queue_push_front(L1, q, w)
             W2 == [W1 EXCEPT ![w] = <<"READY", q>>]
             T2 == [T EXCEPT ![w].st = "READY"]
  <1>1. Linked(L, W) /\ T \in Threads(now) /\ W \in [Slot -> Lists \cup {Nowhere}]
    BY LinkedFacts DEF Whole
  <1>2. /\ w \in Slot /\ w # Idle /\ W[w] = <<"BLOCKED", m>>
        /\ Linked(L1, W1) /\ L1.next = L.next
    BY <1>1, WaiterGoneLinked
  <1>3. Settled(T, W, w, c)
    BY <1>2 DEF Whole
  <1>4. T[w].st = "BLOCKED" /\ w # c /\ T[w].base >= LOW
    BY <1>2, <1>3, PlaceFacts DEF Settled
  <1>5. q \in Queue
    <2>1. T[w] \in Thread(now)
      BY <1>1, <1>2 DEF Threads
    <2>2. q \in 0..4 /\ T[w].base \in 0..4 /\ (q >= T[w].base \/ q >= 3)
      BY <2>1, ThreadFields
    <2> QED BY <1>4, <2>2 DEF Queue, LOW, REALTIME
  <1>6. /\ T2 \in Threads(now)
        /\ \A u \in Slot : /\ T2[u].st = IF u = w THEN "READY" ELSE T[u].st
                           /\ T2[u].base = T[u].base
                           /\ T2[u].until = T[u].until
    <2>1. "READY" \in State
      BY DEF State
    <2> QED BY <1>1, <1>2, <2>1, StateKeeps
  <1> HIDE DEF T2, q
  <1>7. W1[w] = Nowhere /\ (\A u \in Slot : u # w => W1[u] = W[u]) /\ W1 \in [Slot -> Lists \cup {Nowhere}]
    BY <1>1, <1>2
  <1> HIDE DEF L1, W1
  <1>8. Linked(L2, W2) /\ SleepersKept(L1, L2, W1)
    BY <1>2, <1>5, <1>7, PushFrontLinked
  <1>9. W2[w] = <<"READY", q>> /\ \A u \in Slot : u # w => W2[u] = W[u]
    BY <1>2, <1>7
  <1> HIDE DEF L2, W2
  <1>10. SleepersKept(L, L2, W)
    <2>1. \A u \in Slot : W[u] = ASLEEP => u # w
      BY <1>2, PlaceFacts
    <2> QED BY <1>2, <1>7, <1>8, <2>1 DEF SleepersKept, ASLEEP
  <1>11. Settled(T2, W2, w, c)
    BY <1>2, <1>4, <1>5, <1>6, <1>9, PlaceFacts DEF Settled
  <1>12. Moved(T, W, T2, W2, w, c, c)
    BY <1>2, <1>5, <1>6, <1>9, <1>11, PlaceFacts DEF Moved
  <1>13. Whole(L2, T2, W2, now, c)
    BY <1>6, <1>8, <1>10, <1>12, MoveWhole
  <1>14. w \in Waits(L)[m]
    BY <1>1, <1>2, WaitsAre
  <1>15. \A n \in Mutex : Waits(L2)[n] = IF n = m THEN Waits(L)[n] \ {w} ELSE Waits(L)[n]
    <2> TAKE n \in Mutex
    <2>1. Waits(L)[n] = {u \in Slot : W[u] = <<"BLOCKED", n>>}
      BY <1>1, WaitsAre
    <2>2. Waits(L2)[n] = {u \in Slot : W2[u] = <<"BLOCKED", n>>}
      BY <1>8, WaitsAre
    <2>3. \A u \in Slot : u # w => (W2[u] = <<"BLOCKED", n>> <=> W[u] = <<"BLOCKED", n>>)
      BY <1>9
    <2>4. W2[w] # <<"BLOCKED", n>> /\ (W[w] = <<"BLOCKED", n>> <=> n = m)
      BY <1>2, <1>5, <1>9, PlaceFacts
    <2> QED BY <1>2, <2>1, <2>2, <2>3, <2>4
  <1>16. Waits(L2) = [Waits(L) EXCEPT ![m] = @ \ {w}]
    BY <1>15 DEF Waits
  <1>17. /\ Whole(L2, T2, W2, now, c)
         /\ w \in Slot /\ T[w].st = "BLOCKED"
         /\ \A u \in Slot : T2[u].st = IF u = w THEN "READY" ELSE T[u].st
         /\ w \in Waits(L)[m] /\ Waits(L2) = [Waits(L) EXCEPT ![m] = @ \ {w}]
    BY <1>2, <1>4, <1>6, <1>13, <1>14, <1>16
  <1> QED BY <1>17 DEF L1, L2, T2, q

LEMMA UnlockStep ==
    ASSUME SchedInv, NEW m \in Mutex, kmutex_unlock(m)
    PROVE  /\ InPlace' /\ CountsLive' /\ current' = current /\ owner[m] = current
           /\ \/ /\ Waits(links)[m] = {} /\ owner' = [owner EXCEPT ![m] = NULL]
                 /\ Waits(links') = Waits(links) /\ \A u \in Slot : tcb'[u].st = tcb[u].st
              \/ \E w \in Slot :
                    /\ w \in Waits(links)[m] /\ owner' = [owner EXCEPT ![m] = w]
                    /\ Waits(links') = [Waits(links) EXCEPT ![m] = @ \ {w}]
                    /\ \A u \in Slot : tcb'[u].st = IF u = w THEN "READY" ELSE tcb[u].st
  <1> DEFINE w == links.waiters[m]
             T == [tcb EXCEPT ![current].prio = tcb[current].base]
             T2 == [T EXCEPT ![w].st = "READY"]
             L2 == queue_push_front(WaiterGone(links, m), T[w].prio, w)
  <1>0. PICK W : Whole(links, tcb, W, ticks, current)
    BY DEF SchedInv, InPlace
  <1>1. current \in Slot /\ ticks \in Nat /\ tcb \in Threads(ticks) /\ Linked(links, W)
    BY <1>0 DEF SchedInv, FieldsInv, Whole
  <1>2. /\ current' = current /\ ticks' = ticks /\ count' = count
        /\ owner[m] = current /\ owner' = [owner EXCEPT ![m] = w]
        /\ \/ w = NULL /\ tcb' = T /\ links' = links
           \/ w # NULL /\ tcb' = T2 /\ links' = L2
    BY DEF kmutex_unlock, WaiterGone
  <1>3. T \in Threads(ticks) /\ SameLife(tcb, T)
    BY <1>1, LowerKeeps
  <1> HIDE DEF T
  <1>4. CASE w = NULL /\ tcb' = T /\ links' = links
    <2>1. /\ InPlace' /\ CountsLive' /\ Waits(links') = Waits(links)
          /\ \A u \in Slot : tcb'[u].st = tcb[u].st
      BY <1>2, <1>3, <1>4, SameStep
    <2>2. Waits(links)[m] = {}
      BY <1>1, <1>4, NobodyWaits
    <2> QED BY <1>2, <1>4, <2>1, <2>2
  <1>w. w = links.waiters[m]
    OBVIOUS
  <1> HIDE DEF w
  <1>5. CASE w # NULL /\ tcb' = T2 /\ links' = L2
    <2>1. Whole(links, T, W, ticks, current)
      BY <1>0, <1>3, SameWhole
    <2>a. ticks \in Nat /\ current \in Slot /\ w # NULL
      BY <1>1, <1>5
    <2>2. PICK W2 : /\ Whole(L2, T2, W2, ticks, current)
                    /\ w \in Slot /\ T[w].st = "BLOCKED"
                    /\ \A u \in Slot : T2[u].st = IF u = w THEN "READY" ELSE T[u].st
                    /\ w \in Waits(links)[m] /\ Waits(L2) = [Waits(links) EXCEPT ![m] = @ \ {w}]
      BY <1>w, <2>a, <2>1, HandOffWhole
    <2> HIDE DEF L2, T2
    <2>3. \A u \in Slot : tcb'[u].st = IF u = w THEN "READY" ELSE tcb[u].st
      BY <1>3, <1>5, <2>2 DEF SameLife
    <2>4. tcb[w].st = "BLOCKED"
      BY <1>3, <2>2 DEF SameLife
    <2>5. CountsLive'
      <3>1. \A u \in Slot : tcb'[u].st = "TERMINATED" <=> tcb[u].st = "TERMINATED"
        BY <2>3, <2>4
      <3> QED BY <1>2, <3>1, LiveStays DEF SchedInv
    <2>6. InPlace'
      BY <1>2, <1>5, <2>2 DEF InPlace
    <2>7. w \in Slot /\ w \in Waits(links)[m] /\ Waits(links') = [Waits(links) EXCEPT ![m] = @ \ {w}]
      BY <1>5, <2>2
    <2> QED BY <1>2, <2>3, <2>5, <2>6, <2>7
  <1> QED BY <1>2, <1>4, <1>5

-----------------------------------------------------------------------------
(* The beginning: only the idle thread, which no list holds.               *)
LEMMA InitStep ==
    ASSUME sched_init
    PROVE  SchedInv /\ Orderly
  <1> DEFINE W == [t \in Slot |-> Nowhere]
             L0 == NoLinks
  <1>0. FieldsInv
    BY FieldsInit
  <1>1. /\ links = queue_push_back(L0, IDLE, Idle)
        /\ tcb = [t \in Slot |-> IF t = Idle THEN [NewTCB(IDLE) EXCEPT !.st = "RUNNING"] ELSE FreeTCB]
        /\ current = Idle /\ count = 1 /\ ticks = 0 /\ preempted = {}
    BY DEF sched_init
  <1>2. /\ links \in Links /\ links.sleep = NULL
        /\ \A q \in Queue : links.head[q] = NULL /\ links.tail[q] = NULL
        /\ \A m \in Mutex : links.waiters[m] = NULL
        /\ links.head[IDLE] = Idle /\ links.tail[IDLE] = Idle /\ links.next[Idle] = NULL
    <2>1. L0 \in Links /\ L0.sleep = NULL /\ L0.waiters = [m \in Mutex |-> NULL]
          /\ \A q \in Level : L0.head[q] = NULL /\ L0.tail[q] = NULL
      BY InitLinks DEF NoLinks
    <2> HIDE DEF L0
    <2>2. LET L2 == queue_push_back(L0, IDLE, Idle) last == L0.tail[IDLE]
          IN /\ L2 \in Links /\ L2.sleep = L0.sleep /\ L2.waiters = L0.waiters
             /\ \A r \in Level : r # IDLE => L2.head[r] = L0.head[r] /\ L2.tail[r] = L0.tail[r]
             /\ L2.tail[IDLE] = Idle
             /\ L2.head[IDLE] = IF last = NULL THEN Idle ELSE L0.head[IDLE]
             /\ last # Idle => L2.next[Idle] = NULL
      BY <2>1, QueueLevels, PushBackFields
    <2>3. L0.tail[IDLE] = NULL /\ NULL # Idle
      BY <2>1, QueueLevels, NullIsNoSlot
    <2> QED BY <1>1, <2>1, <2>2, <2>3, QueueLevels
  <1>3. \A t \in Slot : W[t] = Nowhere /\ W[t] \notin Lists
    BY NowhereIsNoList
  <1>4. Linked(links, W)
    <2>1. \A p \in Lists : Heads(links)[p] = NULL
      BY <1>2, ListNames, HeadsType
    <2>2. Chained(Heads(links), links.next, W)
      <3> DEFINE R == [t \in Slot |-> 0]
      <3>1. Chain(Heads(links), links.next, W, R)
        BY <1>3, <2>1 DEF Chain
      <3>2. R \in [Slot -> Nat]
        OBVIOUS
      <3> HIDE DEF R
      <3> QED BY <3>1, <3>2 DEF Chained
    <2>3. Mirror(links, W)
      BY <1>2, <1>3, PlaceFacts DEF Mirror
    <2>4. IdleAside(links, W)
      BY <1>2, <1>3, QueueLevels DEF IdleAside
    <2>5. W \in [Slot -> Lists \cup {Nowhere}]
      OBVIOUS
    <2> HIDE DEF W
    <2> QED BY <1>2, <2>2, <2>3, <2>4, <2>5 DEF Linked
  <1>5. Idle \in Slot /\ tcb[Idle].st = "RUNNING" /\ tcb[Idle].base = IDLE
        /\ \A t \in Slot : t # Idle => tcb[t].st = "TERMINATED"
    <2>1. [NewTCB(IDLE) EXCEPT !.st = "RUNNING"].st = "RUNNING"
          /\ [NewTCB(IDLE) EXCEPT !.st = "RUNNING"].base = IDLE /\ FreeTCB.st = "TERMINATED"
      <3>1. 0 \in Nat /\ IDLE \in Runnable
        BY DEF IDLE, Runnable, REALTIME
      <3> QED BY <3>1, NewThread
    <2> QED BY <1>1, <2>1, QueueLevels
  <1> HIDE DEF W
  <1>6. \A t \in Slot : Settled(tcb, W, t, Idle)
    BY <1>3, <1>5 DEF Settled
  <1>7. Asleep(links, tcb, W, ticks)
    BY <1>3, PlaceFacts DEF Asleep
  <1>8. Whole(links, tcb, W, ticks, Idle)
    BY <1>0, <1>4, <1>6, <1>7 DEF Whole, FieldsInv
  <1>f. Filed(W, tcb)
    <2> SUFFICES ASSUME NEW t \in Slot PROVE FiledAs(tcb[t], W[t])
      BY DEF Filed
    <2>1. 0 \in Nat /\ IDLE \in Runnable
      BY DEF IDLE, Runnable, REALTIME
    <2>2. tcb[t].deadline = 0
      BY <1>1, <2>1, NewThread
    <2>3. tcb[t].st # "READY"
      BY <1>5
    <2> QED BY <1>3, <2>2, <2>3, PlaceFacts DEF FiledAs
  <1>9. CountsLive
    <2>1. Live = {Idle}
      BY <1>5 DEF Live
    <2> QED BY <1>1, <2>1, FS_Singleton DEF CountsLive
  <1>10. ticks <= MaxTicks /\ preempted \subseteq Slot
    BY <1>1, SchedAssumption
  <1> QED BY <1>0, <1>1, <1>8, <1>9, <1>10, <1>f DEF SchedInv, InPlace, Orderly

-----------------------------------------------------------------------------
(* Every step keeps the invariant.                                         *)

LEMMA CreateQueues ==
    ASSUME IDLE \notin CreatePrios, NEW p \in CreatePrios
    PROVE  p \in Queue
  BY SchedAssumption DEF Queue, Runnable, IDLE, LOW, REALTIME

LEMMA SchedInductive ==
    ASSUME IDLE \notin CreatePrios, SchedInv, [Next]_vars
    PROVE  SchedInv'
  <1>0. /\ FieldsInv /\ ticks \in Nat /\ current \in Slot /\ ticks <= MaxTicks /\ preempted \subseteq Slot
        /\ MaxTicks \in Nat
    BY SchedAssumption DEF SchedInv, FieldsInv
  <1>1. FieldsInv'
    BY <1>0, FieldsInductive
  <1>2. (InPlace /\ CountsLive)'
    <2>1. CASE UNCHANGED vars
      BY <2>1 DEF SchedInv, InPlace, CountsLive, Live, vars
    <2>2. CASE CoreNext
      <3>1. ASSUME NEW p \in CreatePrios, sched_create(p) PROVE (InPlace /\ CountsLive)'
        <4>1. p \in Queue
          BY CreateQueues
        <4> QED BY <4>1, <3>1, CreateStep
      <3>2. ASSUME NEW d \in Delays, sched_sleep(d) PROVE (InPlace /\ CountsLive)'
        <4>1. d \in Nat \ {0}
          BY SchedAssumption
        <4> QED BY <4>1, <3>2, SleepStep
      <3> QED BY <2>2, <3>1, <3>2, ExitStep, TickStep, ResumedStep DEF CoreNext
    <2>3. CASE MutexNext
      BY <2>3, AcquireStep, BlockStep, UnlockStep DEF MutexNext, kmutex_lock
    <2>4. CASE DeadlineNext
      BY <2>4, DeadlineStep
    <2> QED BY <2>1, <2>2, <2>3, <2>4 DEF Next
  <1>3. (ticks <= MaxTicks /\ preempted \subseteq Slot)'
    <2>1. CASE UNCHANGED vars
      BY <1>0, <2>1 DEF vars
    <2>2. CASE sched_tick
      <3>1. ticks < MaxTicks /\ ticks' = ticks + 1
        BY <2>2 DEF sched_tick
      <3>2. preempted' \subseteq preempted \cup {current}
        BY <2>2, ZenonT(30) DEF sched_tick, GoesOn, Expires
      <3> QED BY <1>0, <3>1, <3>2
    <2>3. CASE sched_tick_resumed
      BY <1>0, <2>3 DEF sched_tick_resumed
    <2>4. CASE \/ \E p \in CreatePrios : sched_create(p)
               \/ \E d \in Delays : sched_sleep(d)
               \/ sched_exit
      BY <1>0, <2>4 DEF sched_create, sched_sleep, sched_exit
    <2>5. CASE MutexNext
      BY <1>0, <2>5 DEF MutexNext, kmutex_lock, kmutex_acquire, kmutex_block, kmutex_unlock
    <2>6. CASE DeadlineNext
      BY <1>0, <2>6 DEF DeadlineNext, rtos_boost, rtos_set_deadline
    <2> QED BY <2>1, <2>2, <2>3, <2>4, <2>5, <2>6 DEF Next, CoreNext
  <1> QED BY <1>1, <1>2, <1>3 DEF SchedInv

(* SchedInv stands: the places can be assigned in every reachable state. *)
THEOREM PlacesStand ==
    ASSUME IDLE \notin CreatePrios
    PROVE  Spec => []SchedInv
  <1>1. sched_init => SchedInv
    BY InitStep
  <1>2. SchedInv /\ [Next]_vars => SchedInv'
    BY SchedInductive
  <1> QED BY <1>1, <1>2, PTL DEF Spec

-----------------------------------------------------------------------------
(* What the invariant says of the lists.                                   *)

LEMMA EveryWalk ==
    ASSUME NEW W, Linked(links, W), NEW p \in Lists
    PROVE  Listed(links, W, p, Walk(links, Heads(links)[p]))
  BY WalkListed

(* v meets the threads in place q, each once. *)
Meets(W, q, v) == /\ DOMAIN v = 1..Len(v)
                  /\ \A i \in DOMAIN v : v[i] \in Slot /\ W[v[i]] = q
                  /\ \A i, j \in DOMAIN v : v[i] = v[j] => i = j
                  /\ \A t \in Slot : W[t] = q => \E i \in DOMAIN v : v[i] = t

LEMMA ListedAll ==
    ASSUME NEW W, Linked(links, W), NEW q \in Lists
    PROVE  Meets(W, q, Walk(links, Heads(links)[q]))
  <1> DEFINE v == Walk(links, Heads(links)[q])
  <1>1. Listed(links, W, q, v)
    BY EveryWalk
  <1> HIDE DEF v
  <1>2. v \in Seq(Slot)
    BY <1>1 DEF Listed
  <1>3. DOMAIN v = 1..Len(v) /\ \A i \in 1..Len(v) : v[i] \in Slot
    BY <1>2
  <1>4. Meets(W, q, v)
    BY <1>1, <1>3 DEF Listed, Meets
  <1> QED BY <1>4 DEF v

LEMMA PlacesAre ==
    ASSUME links \in Links, NEW x
    PROVE  x \in Places <=> \E p \in Lists : LET w == Walk(links, Heads(links)[p])
                                             IN \E i \in DOMAIN w : x = <<p, i, w[i]>>
  <1> DEFINE w(p) == Walk(links, Heads(links)[p])
             At(p) == {<<p, i, w(p)[i]>> : i \in DOMAIN w(p)}
  <1>1. \A q \in Queue : Positions(<<"READY", q>>, Ready(q)) = At(<<"READY", q>>)
    BY HeadsType DEF Positions, Ready
  <1>2. \A m \in Mutex : Positions(<<"BLOCKED", m>>, Waiters(m)) = At(<<"BLOCKED", m>>)
    BY HeadsType DEF Positions, Waiters
  <1>3. Positions(<<"SLEEPING", NULL>>, Sleepers) = At(<<"SLEEPING", NULL>>)
    BY HeadsType DEF Positions, Sleepers
  <1> HIDE DEF At
  <1>4. x \in Places <=> \/ \E q \in Queue : x \in At(<<"READY", q>>)
                         \/ \E m \in Mutex : x \in At(<<"BLOCKED", m>>)
                         \/ x \in At(<<"SLEEPING", NULL>>)
    BY <1>1, <1>2, <1>3 DEF Places, Queue
  <1>5. x \in Places <=> \E p \in Lists : x \in At(p)
    BY <1>4, ListNames
  <1> QED BY <1>5 DEF At

LEMMA InOneList ==
    ASSUME NEW W, Whole(links, tcb, W, ticks, current)
    PROVE  OneList
  <1>1. Linked(links, W) /\ links \in Links /\ W \in [Slot -> Lists \cup {Nowhere}]
    BY LinkedFacts DEF Whole
  <1> DEFINE w(p) == Walk(links, Heads(links)[p])
  <1>2. \A p \in Lists : Meets(W, p, w(p))
    BY <1>1, ListedAll
  <1>3. \A x : x \in Places <=> \E p \in Lists : \E i \in DOMAIN w(p) : x = <<p, i, w(p)[i]>>
    BY <1>1, PlacesAre
  <1> HIDE DEF w
  <1>4. ASSUME NEW t \in Slot \ {Idle}
        PROVE  LET mine == {p \in Places : p[3] = t}
               IN IF tcb[t].st \in {"READY", "SLEEPING", "BLOCKED"}
                  THEN \E p \in mine : mine = {p} /\ p[1][1] = tcb[t].st
                  ELSE mine = {}
    <2> DEFINE mine == {p \in Places : p[3] = t}
    <2>1. Settled(tcb, W, t, current)
      BY DEF Whole
    <2>2. tcb[t].st \in State
      <3>1. tcb[t] \in Thread(ticks)
        BY DEF Whole, Threads
      <3> QED BY <3>1 DEF Thread, TCB
    <2>3. W[t] = Nowhere <=> tcb[t].st \in {"RUNNING", "TERMINATED"}
      BY <2>1 DEF Settled
    <2>4. W[t] # Nowhere => tcb[t].st = W[t][1]
      BY <2>1 DEF Settled
    <2>5. \A x \in mine : \E i \in DOMAIN w(W[t]) : /\ W[t] \in Lists
                                                    /\ x = <<W[t], i, t>> /\ w(W[t])[i] = t
      <3> TAKE x \in mine
      <3>1. PICK p \in Lists : \E i \in DOMAIN w(p) : x = <<p, i, w(p)[i]>>
        BY <1>3
      <3>2. PICK i \in DOMAIN w(p) : x = <<p, i, w(p)[i]>>
        BY <3>1
      <3>3. w(p)[i] = t
        BY <3>2
      <3>4. W[t] = p
        BY <1>2, <3>3 DEF Meets
      <3> QED BY <3>2, <3>3, <3>4
    <2>6. CASE W[t] = Nowhere
      <3>1. mine = {}
        BY <2>5, <2>6, NowhereIsNoList
      <3>2. ~(tcb[t].st \in {"READY", "SLEEPING", "BLOCKED"})
        BY <2>3, <2>6
      <3> QED BY <3>1, <3>2
    <2>7. CASE W[t] # Nowhere
      <3>1. W[t] \in Lists
        BY <1>1, <2>7
      <3>2. PICK i \in DOMAIN w(W[t]) : w(W[t])[i] = t
        BY <1>2, <3>1 DEF Meets
      <3> DEFINE x == <<W[t], i, t>>
      <3>3. x \in Places /\ x[3] = t /\ x[1] = W[t]
        BY <1>3, <3>1, <3>2
      <3>4. \A z \in mine : z = x
        BY <1>2, <2>5, <3>1, <3>2 DEF Meets
      <3> HIDE DEF x
      <3>5. mine = {x}
        BY <3>3, <3>4
      <3>6. x[1][1] = tcb[t].st
        BY <2>4, <2>7, <3>3
      <3>7. tcb[t].st \in {"READY", "SLEEPING", "BLOCKED"}
        BY <2>2, <2>3, <2>7 DEF State
      <3> QED BY <3>5, <3>6, <3>7
    <2> QED BY <2>6, <2>7
  <1> QED BY <1>4 DEF OneList

LEMMA InBothDirections ==
    ASSUME NEW W, Linked(links, W)
    PROVE  DoublyLinked
  <1>1. ASSUME NEW q \in LOW..REALTIME
        PROVE  LET s == Ready(q)
               IN /\ links.tail[q] = IF s = <<>> THEN NULL ELSE Last(s)
                  /\ \A i \in DOMAIN s :
                        /\ links.prev[s[i]] = IF i = 1 THEN NULL ELSE s[i-1]
                        /\ links.next[s[i]] = IF i = Len(s) THEN NULL ELSE s[i+1]
    <2> DEFINE s == Ready(q)
               p == <<"READY", q>>
               n == Len(s)
    <2>0. q \in Queue /\ links \in Links
      BY LinkedFacts DEF Queue
    <2>1. p \in Lists /\ Heads(links)[p] = links.head[q]
      BY <2>0, ListNames, HeadsType
    <2>2. Listed(links, W, p, s)
      BY <2>1, EveryWalk DEF Ready
    <2> HIDE DEF s, p
    <2>3. s \in Seq(Slot)
      BY <2>2 DEF Listed
    <2>4. n \in Nat /\ DOMAIN s = 1..n /\ (s = <<>> <=> n = 0) /\ \A i \in 1..n : s[i] \in Slot
      BY <2>3
    <2>5. /\ \A i \in 1..n : W[s[i]] = p
          /\ \A i \in 1..n : links.next[s[i]] = IF i = n THEN NULL ELSE s[i+1]
          /\ IF n = 0 THEN links.head[q] = NULL ELSE s[1] = links.head[q]
      BY <2>1, <2>2 DEF Listed
    <2>6. /\ links.head[q] = NULL <=> links.tail[q] = NULL
          /\ \A t \in Slot : W[t] = p =>
                /\ links.next[t] = NULL => t = links.tail[q]
                /\ t = links.head[q] => links.prev[t] = NULL
                /\ links.next[t] # NULL => links.prev[links.next[t]] = t
      BY <2>0 DEF Linked, Mirror, p
    <2>7. links.tail[q] = IF s = <<>> THEN NULL ELSE Last(s)
      <3>1. CASE n = 0
        BY <2>4, <2>5, <2>6, <3>1
      <3>2. CASE n # 0
        <4>1. n \in 1..n
          BY <2>4, <3>2
        <4>2. links.tail[q] = s[n]
          BY <2>4, <2>5, <2>6, <4>1
        <4>3. Last(s) = s[n]
          BY DEF Last
        <4> QED BY <2>4, <3>2, <4>2, <4>3
      <3> QED BY <3>1, <3>2
    <2>8. ASSUME NEW i \in 1..n PROVE links.prev[s[i]] = IF i = 1 THEN NULL ELSE s[i-1]
      <3>1. CASE i = 1
        <4>1. n # 0
          BY <2>4, <2>8
        <4> QED BY <2>4, <2>5, <2>6, <3>1, <4>1
      <3>2. CASE i # 1
        <4>1. i - 1 \in 1..n /\ i - 1 # n /\ (i - 1) + 1 = i
          BY <2>4, <2>8, <3>2
        <4>2. links.next[s[i-1]] = s[i]
          BY <2>5, <4>1
        <4>3. s[i] \in Slot /\ s[i-1] \in Slot /\ W[s[i-1]] = p /\ s[i] # NULL
          BY <2>4, <2>5, <4>1, NullIsNoSlot
        <4> QED BY <2>6, <3>2, <4>2, <4>3
      <3> QED BY <3>1, <3>2
    <2>9. /\ links.tail[q] = IF s = <<>> THEN NULL ELSE Last(s)
          /\ \A i \in DOMAIN s :
                /\ links.prev[s[i]] = IF i = 1 THEN NULL ELSE s[i-1]
                /\ links.next[s[i]] = IF i = Len(s) THEN NULL ELSE s[i+1]
      BY <2>4, <2>5, <2>7, <2>8
    <2> QED BY <2>9 DEF s
  <1> QED BY <1>1 DEF DoublyLinked

LEMMA SchedTypes ==
    ASSUME SchedInv
    PROVE  TypeOK
  <1>1. links \in [head : [Level -> Link], tail : [Level -> Link],
                   next : [Slot -> Link],  prev : [Slot -> Link],
                   sleep : Link, waiters : [Mutex -> Link]]
    BY DEF SchedInv, FieldsInv, Links
  <1>2. tcb \in [Slot -> [st : State, prio : Runnable, base : Runnable, slice : Nat,
                          until : Nat, last : Nat, deadline : Nat, missed : BOOLEAN]]
    BY DEF SchedInv, FieldsInv, Threads, Thread, TCB
  <1>3. count \in 0..MaxThreads
    BY LiveFinite DEF SchedInv, CountsLive
  <1>4. ticks \in 0..MaxTicks
    BY SchedAssumption DEF SchedInv, FieldsInv
  <1> QED BY <1>1, <1>2, <1>3, <1>4 DEF SchedInv, FieldsInv, TypeOK

(* Every thread but the idle one is once in the one list its state calls
   for, the queues read the same from both ends, the counter counts the
   threads alive: whatever the number of slots and mutexes, the quanta, the
   delays and the interleaving.                                            *)
THEOREM ListsStayIntact ==
    ASSUME IDLE \notin CreatePrios
    PROVE  Spec => []ListsIntact
  <1>1. SchedInv => ListsIntact
    <2> SUFFICES ASSUME SchedInv PROVE ListsIntact
      OBVIOUS
    <2>1. PICK W : Whole(links, tcb, W, ticks, current)
      BY DEF SchedInv, InPlace
    <2>2. OneList
      BY <2>1, InOneList
    <2>3. DoublyLinked
      BY <2>1, InBothDirections DEF Whole
    <2> QED BY <2>2, <2>3, SchedTypes DEF ListsIntact, SchedInv
  <1>2. Spec => []SchedInv
    BY PlacesStand
  <1> QED BY <1>1, <1>2, PTL

(* The sleep queue is sorted and no sleeper in it is overdue. *)
THEOREM SleepersAreWoken ==
    ASSUME IDLE \notin CreatePrios
    PROVE  Spec => []NobodyOversleeps
  <1>1. SchedInv => NobodyOversleeps
    <2> SUFFICES ASSUME SchedInv PROVE NobodyOversleeps
      OBVIOUS
    <2>0. ticks \in Nat
      BY DEF SchedInv, FieldsInv
    <2>1. PICK W : Whole(links, tcb, W, ticks, current)
      BY DEF SchedInv, InPlace
    <2>2. SleepOrder(links, tcb, W, Sleepers)
      BY <2>0, <2>1, SleepersInOrder DEF Sleepers
    <2> DEFINE w == Sleepers
    <2> HIDE DEF w
    <2>3. SleepOrder(links, tcb, W, w)
      BY <2>2 DEF w
    <2>4. w \in Seq(Slot)
      BY <2>3 DEF SleepOrder, Listed
    <2>5. DOMAIN w = 1..Len(w) /\ Len(w) \in Nat
      BY <2>4
    <2>6. \A i, j \in DOMAIN w : i < j => tcb[w[i]].until <= tcb[w[j]].until
      BY <2>3, <2>5 DEF SleepOrder
    <2>7. ASSUME NEW t \in Slot, tcb[t].st = "SLEEPING" PROVE tcb[t].until > ticks
      <3>1. Settled(tcb, W, t, current) /\ W \in [Slot -> Lists \cup {Nowhere}]
        BY <2>1, LinkedFacts DEF Whole
      <3>2. W[t] \in Lists /\ W[t][1] = "SLEEPING"
        BY <2>7, <3>1 DEF Settled
      <3>3. W[t] = ASLEEP
        BY <3>2, ListNames, PlaceFacts DEF ASLEEP
      <3> QED BY <2>1, <3>3 DEF Whole, Asleep
    <2> QED BY <2>6, <2>7 DEF NobodyOversleeps, w
  <1>2. Spec => []SchedInv
    BY PlacesStand
  <1> QED BY <1>1, <1>2, PTL

-----------------------------------------------------------------------------
(* What the threads do chosen at the start, and without the bounds on their
   number and on the time.                                                 *)

(* Threads that only sleep and exit stay in the queues of their priorities,
   and whoever takes the processor is the highest.                         *)
LEMMA PlainStep ==
    ASSUME IDLE \notin CreatePrios, SchedInv, Orderly, CoreNext
    PROVE  Orderly' /\ (current' # current => Highest(tcb', current'))
  <1>1. ASSUME NEW p \in CreatePrios, sched_create(p)
        PROVE  Orderly' /\ (current' # current => Highest(tcb', current'))
    <2>1. p \in Queue
      BY CreateQueues
    <2>2. Orderly'
      BY <1>1, <2>1, CreateStep
    <2> QED BY <1>1, <2>2 DEF sched_create
  <1>2. ASSUME NEW d \in Delays, sched_sleep(d)
        PROVE  Orderly' /\ (current' # current => Highest(tcb', current'))
    <2>1. d \in Nat \ {0}
      BY SchedAssumption
    <2> QED BY <1>2, <2>1, SleepStep
  <1>3. CASE sched_exit
    BY <1>3, ExitStep
  <1>4. CASE sched_tick
    BY <1>4, TickStep
  <1>5. CASE sched_tick_resumed
    BY <1>5, ResumedStep
  <1> QED BY <1>1, <1>2, <1>3, <1>4, <1>5 DEF CoreNext

(* A thread that takes the processor has no READY thread above it, as long
   as nobody's priority is changed in a queue, whatever the quanta, the
   delays and the number of threads.                                       *)
THEOREM HighestIsDispatched ==
    ASSUME IDLE \notin CreatePrios
    PROVE  WorkSpec => DispatchesHighest
  <1> DEFINE I == SchedInv /\ (workload = "plain" => Orderly)
  <1>1. MCInit => I
    BY InitStep DEF MCInit
  <1>2. ASSUME I, [WorkNext]_<<vars, workload>>
        PROVE  I' /\ [current' # current /\ workload = "plain" => Highest(tcb', current')]_vars
    <2>1. CASE UNCHANGED <<vars, workload>>
      <3>1. [Next]_vars /\ UNCHANGED vars
        BY <2>1
      <3>2. SchedInv'
        BY <1>2, <3>1, SchedInductive
      <3>3. Orderly => Orderly'
        BY <3>1 DEF Orderly, vars
      <3> QED BY <1>2, <2>1, <3>2, <3>3
    <2>2. CASE WorkNext
      <3>1. Next /\ workload' = workload
        BY <2>2 DEF WorkNext, WorkStep, Next
      <3>2. SchedInv'
        BY <1>2, <3>1, SchedInductive
      <3>3. CASE workload = "plain"
        <4>1. CoreNext
          BY <2>2, <3>3 DEF WorkNext, WorkStep
        <4>2. Orderly' /\ (current' # current => Highest(tcb', current'))
          BY <1>2, <3>3, <4>1, PlainStep
        <4> QED BY <3>2, <4>2
      <3>4. CASE workload # "plain"
        BY <3>1, <3>2, <3>4
      <3> QED BY <3>3, <3>4
    <2> QED BY <1>2, <2>1, <2>2
  <1>3. [current' # current /\ workload = "plain" => Highest(tcb', current')]_vars
        => [current' # current /\ workload = "plain" =>
              \A t \in Slot : tcb'[t].st = "READY" => tcb'[t].prio <= tcb'[current'].prio]_vars
    BY DEF Highest
  <1> HIDE DEF I
  <1> QED BY <1>1, <1>2, <1>3, PTL DEF WorkSpec, DispatchesHighest

-----------------------------------------------------------------------------
(* The boot over the scheduler.                                            *)

(* A tick on which nobody sleeps, without deadlines: the running thread goes
   on, or its quantum is over.                                             *)
LEMMA QuietTick ==
    ASSUME SchedInv, Orderly, sched_tick, \A u \in Slot : tcb[u].st # "SLEEPING"
    PROVE  \/ /\ tcb[current].slice > 1 /\ current' = current /\ preempted' = preempted
              /\ SameLife(tcb, tcb')
              /\ \A u \in Slot : \/ tcb'[u].prio = tcb[u].prio
                                 \/ tcb[u].st = "READY" /\ tcb'[u].prio = tcb[u].base
           \/ /\ tcb[current].slice <= 1 /\ Passed(tcb) /\ Outranks(tcb)
              /\ preempted' = IF current' = current THEN preempted ELSE preempted \cup {current}
  <1> DEFINE now == ticks + 1
             w == WakeSleepers(now)
             d == rtos_watchdog_tick(w.T, now)
  <1>0. PICK W : Whole(links, tcb, W, ticks, current) /\ Filed(W, tcb)
    BY DEF Orderly
  <1>1. current \in Slot /\ ticks \in Nat /\ now \in Nat /\ streak \in 0..MissLimit
    BY DEF SchedInv, FieldsInv
  <1>2. GoesOn(w.L, d.T, now) \/ Expires(w.L, d.T, now)
    BY DEF sched_tick
  <1>3. PICK W1 : Whole(w.L, w.T, W1, now, current) /\ Filed(W1, w.T)
    BY <1>0, <1>1, WakeWhole
  <1>4. OnlyWoken(tcb, w.T)
    BY <1>0, <1>1, WakeWhole
  <1> HIDE DEF w, now
  <1>5. w.T \in Threads(now)
    BY <1>3 DEF Whole
  <1>6. w.T = tcb
    <2>1. \A u \in Slot : w.T[u] = tcb[u]
      BY <1>4 DEF OnlyWoken
    <2>2. tcb \in Threads(ticks)
      BY DEF SchedInv, FieldsInv
    <2> QED BY <1>5, <2>1, <2>2 DEF Threads
  <1>7. d \in Watched(now, w.T)
    BY <1>1, <1>5, WatchdogKeeps
  <1> HIDE DEF d
  <1>8. d.T = tcb
    <2>1. Calm(w.T)
      BY <1>3 DEF Filed, FiledAs, Calm
    <2> QED BY <1>6, <1>7, <2>1 DEF Watched
  <1>9. Whole(w.L, tcb, W1, now, current) /\ Filed(W1, tcb)
    BY <1>3, <1>6
  <1>10. CASE GoesOn(w.L, tcb, now)
    <2>1. tcb[current].slice > 1 /\ preempted' = preempted
      BY <1>10 DEF GoesOn
    <2>2. current' = current /\ SameLife(tcb, tcb')
          /\ \A u \in Slot : \/ tcb'[u].prio = tcb[u].prio
                             \/ tcb[u].st = "READY" /\ tcb'[u].prio = tcb[u].base
      BY <1>1, <1>9, <1>10, GoesOnWhole
    <2> QED BY <2>1, <2>2
  <1>11. CASE Expires(w.L, tcb, now)
    <2>1. /\ tcb[current].slice <= 1
          /\ preempted' = IF current' = current THEN preempted ELSE preempted \cup {current}
      BY <1>11, ZenonT(30) DEF Expires
    <2>2. Passed(tcb) /\ (Filed(W1, tcb) => Outranks(tcb))
      BY <1>1, <1>9, <1>11, ExpiresWhole
    <2> QED BY <1>9, <2>1, <2>2
  <1> QED BY <1>2, <1>8, <1>10, <1>11

(* Interrupts are off when a thread runs for the first time. *)
LEMMA FirstSwitch ==
    ASSUME NEW t, t \notin started
    PROVE  FlagOf(t) = FALSE
  <1>1. (CHOOSE i \in DOMAIN Pops : Pops[i] = "rflags") = 1
    BY DEF Pops
  <1>2. Reverse(NewFrame)[1] = "rbp"
    BY DEF NewFrame, Reverse
  <1>3. LoadedFrom(NewFrame, "rflags") = "rbp"
    BY <1>1, <1>2 DEF LoadedFrom
  <1>4. FlagOf(t) = (LoadedFrom(NewFrame, "rflags") = "rflags")
    BY DEF FlagOf
  <1> QED BY <1>3, <1>4

(* A thread that has slept or been preempted waits for good: whoever is READY
   has not run, but for kmain; and netmgr_thread, which never leaves, stays
   above kmain once kmain has used its quantum up.                         *)
Unborn == \A t \in Slot \ {Idle} : tcb[t].st \in {"READY", "TERMINATED"} => t \notin started

Steady == \E t \in Slot \ {Idle} : /\ func[t] = "netmgr_thread"
                                   /\ tcb[t].base = NORMAL /\ tcb[t].prio = NORMAL
                                   /\ tcb[t].st = "READY" \/ t = current

BootCore == /\ func \in [Slot -> Function] /\ func[Idle] = "kmain"
            /\ phase \in {"kshell", "pump"} => ipc
            /\ phase \in {"drvmgr", "ipc", "kshell", "pump"} => Steady
            /\ Unborn

(* kmain still has the processor ... *)
Before == /\ current = Idle /\ preempted = {} /\ started = {Idle}
          /\ tcb[Idle].prio = IDLE
          /\ \A t \in Slot : tcb[t].st # "SLEEPING"
          /\ \A t \in Slot : tcb[t].st = "READY" => tcb[t].prio = tcb[t].base
          /\ phase # "pump" /\ armed => tcb[Idle].slice > 1

(* ... or has lost it, and no interrupt comes any more. *)
After == /\ phase = "pump" /\ preempted = {Idle} /\ intr = FALSE
         /\ current # Idle
         /\ current \in started => func[current] \in Spinner
         /\ tcb[Idle].st = "READY" /\ tcb[Idle].prio = LOW

BootInv == SchedInv /\ Orderly /\ BootCore /\ (Before \/ After)

LEMMA Runs ==
    ASSUME SchedInv
    PROVE  current \in Slot /\ tcb[current].st = "RUNNING" /\ Idle \in Slot
           /\ \A t \in Slot : tcb[t].st = "RUNNING" => t = current
  <1>1. PICK W : Whole(links, tcb, W, ticks, current)
    BY DEF SchedInv, InPlace
  <1>2. current \in Slot
    BY DEF SchedInv, FieldsInv
  <1> QED BY <1>1, <1>2, QueueLevels DEF Whole, Settled

LEMMA BootStarts == BootInit => BootInv
  <1> SUFFICES ASSUME BootInit PROVE BootInv
    OBVIOUS
  <1>1. SchedInv /\ Orderly
    BY InitStep DEF BootInit
  <1>2. /\ phase = "smss" /\ func = [t \in Slot |-> "kmain"] /\ started = {Idle}
        /\ current = Idle /\ preempted = {}
        /\ tcb = [t \in Slot |-> IF t = Idle THEN [NewTCB(IDLE) EXCEPT !.st = "RUNNING"] ELSE FreeTCB]
    BY DEF BootInit, sched_init
  <1>3. tcb[Idle].prio = IDLE /\ tcb[Idle].slice > 1 /\ tcb[Idle].st = "RUNNING"
        /\ \A t \in Slot : t # Idle => tcb[t].st = "TERMINATED"
    <2>1. 0 \in Nat /\ IDLE \in Runnable
      BY DEF IDLE, Runnable, REALTIME
    <2>2. Quanta[IDLE] > 1
      BY BootAssumption
    <2> QED BY <1>2, <2>1, <2>2, NewThread, QueueLevels
  <1>4. BootCore
    BY <1>2, QueueLevels DEF BootCore, Unborn, Function
  <1>5. Before
    BY <1>2, <1>3 DEF Before
  <1> QED BY <1>1, <1>4, <1>5 DEF BootInv

(* kmain creates a thread. *)
LEMMA BootCreates ==
    ASSUME BootInv, NEW f \in Function, NEW p \in Queue, NEW at, NEW next,
           kmain_create(f, p, at, next), at # "pump",
           next \in {"kshell", "pump"} => at = "kshell",
           \/ next \notin {"drvmgr", "ipc", "kshell", "pump"}
           \/ at \in {"drvmgr", "ipc", "kshell"}
           \/ f = "netmgr_thread" /\ p = NORMAL
    PROVE  BootInv'
  <1> DEFINE t == FreeSlot
  <1>1. /\ current = Idle /\ phase = at /\ sched_create(p) /\ phase' = next
        /\ func' = [func EXCEPT ![t] = f]
        /\ started' = started /\ ipc' = ipc /\ armed' = armed
    BY DEF kmain_create, kmain
  <1>2. /\ tcb' = [tcb EXCEPT ![t] = NewTCB(p)] /\ current' = current
        /\ ticks' = ticks /\ preempted' = preempted
    BY <1>1 DEF sched_create
  <1>3. t \in Slot /\ tcb[t].st = "TERMINATED"
    BY <1>1, FreeSlotIsFree DEF sched_create
  <1> HIDE DEF t
  <1>4. SchedInv /\ Orderly /\ BootCore /\ Before
    BY <1>1 DEF BootInv, After
  <1>5. p \in Runnable /\ ticks \in Nat /\ tcb \in Threads(ticks)
    BY <1>4 DEF Queue, Runnable, IDLE, LOW, REALTIME, SchedInv, FieldsInv
  <1>6. NewTCB(p).st = "READY" /\ NewTCB(p).base = p /\ NewTCB(p).prio = p
    BY <1>5, NewThread
  <1>7. tcb'[t] = NewTCB(p) /\ \A u \in Slot : u # t => tcb'[u] = tcb[u]
    BY <1>2, <1>3, <1>5 DEF Threads
  <1>8. t # Idle /\ Idle \in Slot
    BY <1>1, <1>3, <1>4, Runs
  <1>9. SchedInv' /\ Orderly'
    <2>1. FieldsInv'
      BY <1>1, <1>4, <1>5, CreateFields DEF SchedInv
    <2> QED BY <1>1, <1>2, <1>4, <2>1, CreateStep DEF SchedInv
  <1>10. func' \in [Slot -> Function] /\ func'[t] = f /\ \A u \in Slot : u # t => func'[u] = func[u]
    BY <1>1, <1>3, <1>4 DEF BootCore
  <1>11. Before'
    <2>1. tcb'[Idle] = tcb[Idle]
      BY <1>7, <1>8
    <2>2. \A u \in Slot : tcb'[u].st # "SLEEPING"
      BY <1>4, <1>6, <1>7 DEF Before
    <2>3. \A u \in Slot : tcb'[u].st = "READY" => tcb'[u].prio = tcb'[u].base
      BY <1>4, <1>6, <1>7 DEF Before
    <2>4. phase' # "pump" /\ armed' => tcb'[Idle].slice > 1
      BY <1>1, <1>4, <2>1 DEF Before
    <2> QED BY <1>1, <1>2, <1>4, <2>1, <2>2, <2>3, <2>4 DEF Before
  <1>12. Unborn'
    BY <1>1, <1>4 DEF Before, Unborn
  <1>13. phase' \in {"drvmgr", "ipc", "kshell", "pump"} => Steady'
    <2>1. CASE next \notin {"drvmgr", "ipc", "kshell", "pump"}
      BY <1>1, <2>1
    <2>2. CASE at \in {"drvmgr", "ipc", "kshell"}
      <3>1. PICK u \in Slot \ {Idle} : /\ func[u] = "netmgr_thread"
                                       /\ tcb[u].base = NORMAL /\ tcb[u].prio = NORMAL
                                       /\ tcb[u].st = "READY" \/ u = current
        BY <1>1, <1>4, <2>2 DEF BootCore, Steady
      <3>2. u # t /\ tcb[u].st = "READY"
        BY <1>1, <1>3, <3>1
      <3>3. tcb'[u] = tcb[u] /\ func'[u] = func[u]
        BY <1>7, <1>10, <3>2
      <3> QED BY <3>1, <3>2, <3>3 DEF Steady
    <2>3. CASE f = "netmgr_thread" /\ p = NORMAL
      BY <1>3, <1>6, <1>7, <1>8, <1>10, <2>3 DEF Steady
    <2> QED BY <2>1, <2>2, <2>3
  <1>14. BootCore'
    <2>1. phase' \in {"kshell", "pump"} => ipc'
      BY <1>1, <1>4 DEF BootCore
    <2>2. func'[Idle] = "kmain"
      BY <1>4, <1>8, <1>10 DEF BootCore
    <2> QED BY <1>10, <1>12, <1>13, <2>1, <2>2 DEF BootCore
  <1> QED BY <1>9, <1>11, <1>14 DEF BootInv

(* A tick while kmain has the processor: by the timer, which goes off once,
   or by the event pump.                                                   *)
LEMMA BootTicks ==
    ASSUME SchedInv, Orderly, BootCore, Before, sched_tick, SwitchFlag,
           phase = "pump" \/ (armed /\ ~armed'),
           phase' = phase, func' = func, started' = started, ipc' = ipc
    PROVE  BootInv'
  <1>1. current = Idle /\ preempted = {} /\ started = {Idle} /\ Idle \in Slot /\ tcb[Idle].st = "RUNNING"
        /\ tcb[Idle].prio = IDLE
    BY Runs DEF Before
  <1>2. SchedInv' /\ Orderly'
    <2>1. FieldsInv'
      BY TickFields DEF SchedInv
    <2>2. ticks' <= MaxTicks
      <3>1. ticks < MaxTicks /\ ticks' = ticks + 1
        BY DEF sched_tick
      <3>2. ticks \in Nat /\ MaxTicks \in Nat
        BY SchedAssumption DEF SchedInv, FieldsInv
      <3> QED BY <3>1, <3>2
    <2>3. preempted' \subseteq Slot
      <3>1. preempted' \subseteq preempted \cup {current}
        BY ZenonT(30) DEF sched_tick, GoesOn, Expires
      <3> QED BY <1>1, <3>1
    <2> QED BY <2>1, <2>2, <2>3, TickStep DEF SchedInv
  <1>3. \A u \in Slot : tcb[u].st # "SLEEPING"
    BY DEF Before
  <1>4. CASE /\ tcb[current].slice > 1 /\ current' = current /\ preempted' = preempted
             /\ SameLife(tcb, tcb')
             /\ \A u \in Slot : \/ tcb'[u].prio = tcb[u].prio
                                \/ tcb[u].st = "READY" /\ tcb'[u].prio = tcb[u].base
    <2>1. \A u \in Slot : tcb'[u].st = tcb[u].st /\ tcb'[u].base = tcb[u].base
      BY <1>4 DEF SameLife
    <2>2. \A u \in Slot : tcb[u].st = "READY" => tcb'[u].prio = tcb[u].base
      BY <1>4 DEF Before
    <2>3. tcb'[Idle].prio = IDLE
      BY <1>1, <1>4
    <2>4. Before'
      BY <1>1, <1>3, <1>4, <2>1, <2>2, <2>3 DEF Before
    <2>5. Steady => Steady'
      <3>1. ASSUME NEW t \in Slot \ {Idle}, func[t] = "netmgr_thread",
                   tcb[t].base = NORMAL, tcb[t].st = "READY" \/ t = current
            PROVE  Steady'
        <4>1. tcb'[t].base = NORMAL /\ tcb'[t].prio = NORMAL /\ tcb'[t].st = "READY"
          BY <1>1, <2>1, <2>2, <3>1
        <4> QED BY <3>1, <4>1 DEF Steady
      <3> QED BY <3>1 DEF Steady
    <2>6. Unborn'
      BY <1>1 DEF Unborn
    <2>7. BootCore'
      BY <2>5, <2>6 DEF BootCore
    <2> QED BY <1>2, <2>4, <2>7 DEF BootInv
  <1>5. CASE /\ tcb[current].slice <= 1 /\ Passed(tcb) /\ Outranks(tcb)
             /\ preempted' = IF current' = current THEN preempted ELSE preempted \cup {current}
    <2>1. phase = "pump"
      <3>1. tcb[Idle].slice \in Nat
        BY <1>1, ThreadFields DEF SchedInv, FieldsInv, Threads
      <3>2. ~(tcb[Idle].slice > 1)
        BY <1>1, <1>5, <3>1
      <3> QED BY <3>2 DEF Before
    <2>2. PICK t \in Slot \ {Idle} : /\ func[t] = "netmgr_thread"
                                     /\ tcb[t].base = NORMAL /\ tcb[t].prio = NORMAL
                                     /\ tcb[t].st = "READY"
      BY <1>1, <2>1 DEF BootCore, Steady
    <2>3. AfterQuantum(tcb, Idle) = LOW
      BY <1>1 DEF AfterQuantum, ExpiredPrio, IDLE, LOW, HIGH
    <2>4. current' # Idle
      <3> SUFFICES ASSUME current' = Idle PROVE FALSE
        OBVIOUS
      <3>1. AfterQuantum(tcb, t) <= AfterQuantum(tcb, Idle)
        BY <1>5, <2>2 DEF Outranks
      <3>2. AfterQuantum(tcb, t) = NORMAL
        BY <1>1, <2>2 DEF AfterQuantum
      <3> QED BY <2>3, <3>1, <3>2 DEF NORMAL, LOW
    <2>5. /\ current' \in Slot /\ tcb[current'].st = "READY"
          /\ \A u \in Slot : tcb'[u].st = IF u = current' THEN "RUNNING"
                                          ELSE IF u = Idle THEN "READY" ELSE tcb[u].st
      BY <1>1, <1>5, <2>4 DEF Passed
    <2>6. \A u \in Slot : tcb'[u].prio = AfterQuantum(tcb, u) /\ tcb'[u].base = tcb[u].base
      BY <1>1, <1>5, <2>4 DEF Outranks
    <2>7. intr' = FALSE
      <3>1. intr' = FlagOf(current')
        BY <1>1, <2>4 DEF SwitchFlag
      <3>2. current' \notin started
        BY <1>1, <2>4
      <3> QED BY <3>1, <3>2, FirstSwitch
    <2>8. After'
      BY <1>1, <1>5, <2>1, <2>3, <2>4, <2>5, <2>6, <2>7 DEF After
    <2>9. Steady'
      <3>1. tcb'[t].base = NORMAL /\ tcb'[t].prio = NORMAL /\ (tcb'[t].st = "READY" \/ t = current')
        BY <1>1, <2>2, <2>5, <2>6 DEF AfterQuantum
      <3> QED BY <2>2, <3>1 DEF Steady
    <2>10. Unborn'
      BY <1>1 DEF Unborn
    <2>11. BootCore'
      BY <2>9, <2>10 DEF BootCore
    <2> QED BY <1>2, <2>8, <2>11 DEF BootInv
  <1> QED BY <1>3, <1>4, <1>5, QuietTick

(* smss and kshell sleep: the next thread has not run yet, and is not kmain. *)
LEMMA BootSleeps ==
    ASSUME BootInv, NEW f, f \notin Spinner, NEW ms \in Nat \ {0},
           Begins(f), sched_sleep(ms), SwitchFlag
    PROVE  BootInv'
  <1>1. /\ func[current] = f /\ started' = started \cup {current}
        /\ phase' = phase /\ func' = func /\ ipc' = ipc /\ armed' = armed
        /\ ticks' = ticks /\ preempted' = preempted /\ current # Idle
    BY DEF Begins, sched_sleep, CallerMaySuspend
  <1>2. SchedInv /\ Orderly /\ BootCore /\ After
    BY <1>1 DEF BootInv, Before
  <1>3. current \in Slot /\ tcb[current].st = "RUNNING" /\ Idle \in Slot
    BY <1>2, Runs
  <1>4. /\ Switched("SLEEPING", {}) /\ Orderly' /\ Highest(tcb', current')
        /\ \A u \in Slot : tcb'[u].prio = tcb[u].prio /\ tcb'[u].base = tcb[u].base
    BY <1>2, SleepStep
  <1>5. SchedInv'
    <2>1. FieldsInv'
      BY <1>2, SleepFields DEF SchedInv
    <2> QED BY <1>1, <1>2, <2>1, SleepStep DEF SchedInv
  <1>6. /\ current' \in Slot /\ current' # current /\ tcb[current'].st = "READY"
        /\ tcb'[current].st = "SLEEPING"
        /\ \A u \in Slot : u # current /\ u # current' => tcb'[u].st = tcb[u].st
        /\ tcb'[current'].st = "RUNNING"
    <2>1. LeftAs("SLEEPING", {})[current] = "SLEEPING"
      BY <1>3 DEF LeftAs
    <2>2. \A u \in Slot : u # current => LeftAs("SLEEPING", {})[u] = tcb[u].st
      BY DEF LeftAs
    <2> QED BY <1>3, <1>4, <2>1, <2>2 DEF Switched
  <1>7. PICK t \in Slot \ {Idle} : /\ func[t] = "netmgr_thread"
                                   /\ tcb[t].base = NORMAL /\ tcb[t].prio = NORMAL
                                   /\ tcb[t].st = "READY"
    <2>1. f # "netmgr_thread"
      BY DEF Spinner
    <2> QED BY <1>1, <1>2, <2>1 DEF BootCore, Steady, After
  <1>8. t # current /\ (tcb'[t].st = "READY" \/ t = current')
    BY <1>3, <1>6, <1>7
  <1>9. current' # Idle
    <2> SUFFICES ASSUME current' = Idle PROVE FALSE
      OBVIOUS
    <2>1. tcb'[t].prio <= tcb'[Idle].prio
      BY <1>4, <1>7, <1>8 DEF Highest
    <2>2. tcb'[t].prio = NORMAL /\ tcb'[Idle].prio = LOW
      BY <1>2, <1>3, <1>4, <1>7 DEF After
    <2> QED BY <2>1, <2>2 DEF NORMAL, LOW
  <1>10. current' \notin started /\ current' \notin started'
    BY <1>1, <1>2, <1>6, <1>9 DEF BootCore, Unborn
  <1>11. intr' = FALSE
    <2>1. intr' = FlagOf(current')
      BY <1>6 DEF SwitchFlag
    <2> QED BY <1>10, <2>1, FirstSwitch
  <1>12. After'
    <2>1. tcb'[Idle].st = "READY" /\ tcb'[Idle].prio = LOW
      BY <1>1, <1>2, <1>3, <1>4, <1>6, <1>9 DEF After
    <2> QED BY <1>1, <1>2, <1>9, <1>10, <1>11, <2>1 DEF After
  <1>13. Steady'
    BY <1>1, <1>4, <1>7, <1>8 DEF Steady
  <1>14. Unborn'
    <2> SUFFICES ASSUME NEW u \in Slot \ {Idle}, tcb'[u].st \in {"READY", "TERMINATED"}
                 PROVE  u \notin started'
      BY DEF Unborn
    <2>1. u # current /\ u # current'
      BY <1>6
    <2>2. tcb[u].st \in {"READY", "TERMINATED"}
      BY <1>6, <2>1
    <2> QED BY <1>1, <1>2, <2>1, <2>2 DEF BootCore, Unborn
  <1>15. BootCore'
    BY <1>1, <1>2, <1>13, <1>14 DEF BootCore
  <1> QED BY <1>4, <1>5, <1>12, <1>15 DEF BootInv

(* netmgr and drvmgr spin. *)
LEMMA BootSpins ==
    ASSUME BootInv, Spin
    PROVE  BootInv'
  <1>1. PICK f \in Spinner : Begins(f) /\ UNCHANGED <<vars, intr>>
    BY DEF Spin
  <1>2. /\ func[current] = f /\ current \notin started /\ started' = started \cup {current}
        /\ phase' = phase /\ func' = func /\ ipc' = ipc
        /\ current' = current /\ tcb' = tcb /\ preempted' = preempted /\ intr' = intr
    BY <1>1 DEF Begins, vars
  <1>3. SchedInv /\ Orderly /\ BootCore /\ After
    BY <1>2 DEF BootInv, Before
  <1>4. SchedInv' /\ Orderly'
    BY <1>1, <1>3 DEF vars, SchedInv, FieldsInv, InPlace, CountsLive, Live, Orderly
  <1>5. tcb[current].st = "RUNNING"
    BY <1>3, Runs
  <1>6. Unborn'
    BY <1>2, <1>3, <1>5 DEF BootCore, Unborn
  <1>7. BootCore'
    BY <1>2, <1>3, <1>6 DEF BootCore, Steady
  <1>8. After'
    BY <1>2, <1>3 DEF After
  <1> QED BY <1>4, <1>7, <1>8 DEF BootInv

(* Nothing of the scheduler changes. *)
LEMMA BootRests ==
    ASSUME BootInv, UNCHANGED vars, func' = func, started' = started, armed' = armed, intr' = intr,
           \/ phase' = phase /\ ipc' = ipc
           \/ phase = "ipc" /\ phase' = "kshell" /\ ipc' = TRUE
    PROVE  BootInv'
  <1>1. current' = current /\ tcb' = tcb /\ preempted' = preempted
    BY DEF vars
  <1>2. SchedInv' /\ Orderly'
    BY DEF BootInv, vars, SchedInv, FieldsInv, InPlace, CountsLive, Live, Orderly
  <1>3. Unborn' /\ (Steady => Steady')
    BY <1>1 DEF BootInv, BootCore, Unborn, Steady
  <1>4. BootCore'
    BY <1>3 DEF BootInv, BootCore
  <1>5. Before' \/ After'
    BY <1>1 DEF BootInv, Before, After
  <1> QED BY <1>2, <1>4, <1>5 DEF BootInv

LEMMA BootStep == BootInv /\ [BootNext]_<<vars, bootVars>> => BootInv'
  <1> SUFFICES ASSUME BootInv, [BootNext]_<<vars, bootVars>> PROVE BootInv'
    OBVIOUS
  <1>0. {LOW, NORMAL, HIGH, REALTIME} \subseteq Queue
        /\ {"smss_master_init", "netmgr_thread", "drvmgr_thread", "kshell_init"} \subseteq Function
    BY DEF Queue, LOW, NORMAL, HIGH, REALTIME, Function, Spinner
  <1>1. CASE kmain_create("smss_master_init", HIGH, "smss", "netmgr")
    BY <1>0, <1>1, BootCreates
  <1>2. CASE kmain_create("netmgr_thread", NORMAL, "netmgr", "drvmgr")
    BY <1>0, <1>2, BootCreates
  <1>3. CASE kmain_create("drvmgr_thread", NORMAL, "drvmgr", "ipc")
    BY <1>0, <1>3, BootCreates
  <1>4. CASE kmain_ipc
    BY <1>4, BootRests DEF kmain_ipc, kmain
  <1>5. CASE kmain_create("kshell_init", REALTIME, "kshell", "pump")
    BY <1>0, <1>5, BootCreates
  <1>6. CASE kmain_pump
    <2>1. current = Idle /\ phase = "pump" /\ sched_tick /\ SwitchFlag
          /\ phase' = phase /\ func' = func /\ started' = started /\ ipc' = ipc
      BY <1>6 DEF kmain_pump, kmain
    <2>2. SchedInv /\ Orderly /\ BootCore /\ Before
      BY <2>1 DEF BootInv, After
    <2> QED BY <2>1, <2>2, BootTicks
  <1>7. CASE apic_timer
    <2>1. armed /\ intr /\ ~armed' /\ sched_tick /\ SwitchFlag
          /\ phase' = phase /\ func' = func /\ started' = started /\ ipc' = ipc
      BY <1>7 DEF apic_timer
    <2>2. SchedInv /\ Orderly /\ BootCore /\ Before
      BY <2>1 DEF BootInv, After
    <2> QED BY <2>1, <2>2, BootTicks
  <1>8. CASE smss_master_init
    BY <1>8, BootSleeps, BootAssumption DEF smss_master_init, Spinner
  <1>9. CASE kshell_init
    BY <1>9, BootSleeps, BootAssumption DEF kshell_init, Spinner
  <1>10. CASE Spin
    BY <1>10, BootSpins
  <1>11. CASE UNCHANGED <<vars, bootVars>>
    BY <1>11, BootRests DEF bootVars
  <1> QED BY <1>1, <1>2, <1>3, <1>4, <1>5, <1>6, <1>7, <1>8, <1>9, <1>10, <1>11 DEF BootNext

(* Until the event pump kmain has the processor, so no thread meets a kernel
   half set up; and no thread that has slept or been preempted runs again,
   so what follows the sleep in smss and kshell is never executed: whatever
   the quanta, the delays and the moment of the timer's one interrupt.     *)
THEOREM BootIsInOrder == BootSpec => []BootInOrder
  <1>1. BootInv => BootInOrder
    <2> SUFFICES ASSUME BootInv PROVE BootInOrder
      OBVIOUS
    <2>1. func[Idle] = "kmain"
      BY DEF BootInv, BootCore
    <2>2. CASE Before
      BY <2>1, <2>2 DEF Before, BootInOrder, SetUpFirst, NobodyReturns, Has
    <2>3. CASE After
      <3>1. ipc
        BY <2>3 DEF BootInv, BootCore, After
      <3> QED BY <2>3, <3>1 DEF After, BootInOrder, SetUpFirst, NobodyReturns, Has
    <2> QED BY <2>2, <2>3 DEF BootInv
  <1> QED BY <1>1, BootStarts, BootStep, PTL DEF BootSpec

-----------------------------------------------------------------------------
(* The refinement.                                                         *)

LEMMA SwitchedSwitches ==
    ASSUME NEW s, NEW X, Switched(s, X)
    PROVE  Lifecycle!Switch(s, X)
  <1> DEFINE from == LeftAs(s, X)
  <1>1. Lifecycle!Left(s, X) = from
    BY DEF Lifecycle!Left, LeftAs
  <1>2. from = [t \in Slot |-> from[t]]
    BY DEF LeftAs
  <1>3. current' \in Slot /\ from[current'] = "READY"
        /\ \A u \in Slot : tcb'[u].st = IF u = current' THEN "RUNNING" ELSE from[u]
    BY DEF Switched
  <1> HIDE DEF from
  <1>4. [t \in Slot |-> tcb'[t].st] = [from EXCEPT ![current'] = "RUNNING"]
    BY <1>2, <1>3
  <1> QED BY <1>1, <1>3, <1>4 DEF Lifecycle!Switch

LEMMA WaitingIsWaits ==
    /\ [m \in Mutex |-> ToSet(Waiters(m))] = Waits(links)
    /\ [m \in Mutex |-> ToSet(Waiters(m))]' = Waits(links')
  BY DEF Waiters, Waits

LEMMA StatesStay ==
    ASSUME \A u \in Slot : tcb'[u].st = tcb[u].st
    PROVE  [t \in Slot |-> tcb[t].st]' = [t \in Slot |-> tcb[t].st]
  OBVIOUS

LEMMA LifecycleStep ==
    ASSUME IDLE \notin CreatePrios, SchedInv, [Next]_vars
    PROVE  [Lifecycle!Next]_(Lifecycle!vars)
  <1>0. current \in Slot /\ owner \in [Mutex -> Link]
    BY DEF SchedInv, FieldsInv
  <1>1. CASE UNCHANGED vars
    <2>1. links' = links /\ tcb' = tcb /\ current' = current /\ owner' = owner
      BY <1>1 DEF vars
    <2> QED BY <2>1, WaitingIsWaits DEF Lifecycle!vars
  <1>2. ASSUME NEW p \in CreatePrios, sched_create(p) PROVE Lifecycle!Next
    <2>a. p \in Queue
      BY CreateQueues
    <2>1. PICK t \in Slot : /\ tcb[t].st = "TERMINATED"
                            /\ \A u \in Slot : tcb'[u].st = IF u = t THEN "READY" ELSE tcb[u].st
      BY <1>2, <2>a, CreateStep
    <2>2. Waits(links') = Waits(links) /\ current' = current /\ owner' = owner
      BY <1>2, <2>a, CreateStep DEF sched_create
    <2>3. Lifecycle!Spawn(t)
      BY <2>1, <2>2, WaitingIsWaits DEF Lifecycle!Spawn
    <2> QED BY <2>3 DEF Lifecycle!Next
  <1>3. ASSUME NEW d \in Delays, sched_sleep(d) PROVE Lifecycle!Next
    <2>a. d \in Nat \ {0}
      BY SchedAssumption
    <2>1. Waits(links') = Waits(links) /\ current # Idle /\ Lifecycle!Switch("SLEEPING", {})
      BY <1>3, <2>a, SleepStep, SwitchedSwitches
    <2>2. owner' = owner
      BY <1>3 DEF sched_sleep
    <2>3. Lifecycle!Sleep
      BY <2>1, <2>2, WaitingIsWaits DEF Lifecycle!Sleep
    <2> QED BY <2>3 DEF Lifecycle!Next
  <1>4. CASE sched_exit
    <2>1. Waits(links') = Waits(links) /\ current # Idle /\ Lifecycle!Switch("TERMINATED", {})
      BY <1>4, ExitStep, SwitchedSwitches
    <2>2. owner' = owner
      BY <1>4 DEF sched_exit
    <2>3. Lifecycle!Exit
      BY <2>1, <2>2, WaitingIsWaits DEF Lifecycle!Exit
    <2> QED BY <2>3 DEF Lifecycle!Next
  <1>5. CASE sched_tick
    <2>1. Waits(links') = Waits(links) /\ owner' = owner
      BY <1>5, TickStep DEF sched_tick
    <2>2. PICK X \in SUBSET Slot :
             /\ \A t \in X : tcb[t].st = "SLEEPING"
             /\ \/ Switched("READY", X)
                \/ current' = current /\ \A u \in Slot : tcb'[u].st = LeftAs("RUNNING", X)[u]
      BY <1>5, TickStep
    <2>3. \/ Lifecycle!Switch("READY", X)
          \/ [t \in Slot |-> tcb'[t].st] = Lifecycle!Left("RUNNING", X) /\ current' = current
      <3>1. CASE Switched("READY", X)
        BY <3>1, SwitchedSwitches
      <3>2. CASE current' = current /\ \A u \in Slot : tcb'[u].st = LeftAs("RUNNING", X)[u]
        BY <3>2 DEF Lifecycle!Left, LeftAs
      <3> QED BY <2>2, <3>1, <3>2
    <2>4. \A t \in X : [u \in Slot |-> tcb[u].st][t] = "SLEEPING"
      BY <2>2
    <2>5. Lifecycle!Tick(X)
      BY <2>1, <2>3, <2>4, WaitingIsWaits DEF Lifecycle!Tick
    <2> QED BY <2>5 DEF Lifecycle!Next
  <1>6. CASE sched_tick_resumed
    <2>1. Waits(links') = Waits(links) /\ current' = current /\ owner' = owner
          /\ \A u \in Slot : tcb'[u].st = tcb[u].st
      BY <1>6, ResumedStep DEF sched_tick_resumed
    <2> QED BY <2>1, StatesStay, WaitingIsWaits DEF Lifecycle!vars
  <1>7. ASSUME NEW m \in Mutex, kmutex_acquire(m) PROVE Lifecycle!Next
    <2>1. /\ Waits(links') = Waits(links) /\ \A u \in Slot : tcb'[u].st = tcb[u].st
          /\ current # Idle /\ current' = current
          /\ owner[m] = NULL /\ owner' = [owner EXCEPT ![m] = current]
      BY <1>7, AcquireStep
    <2>2. Lifecycle!Acquire(m)
      BY <2>1, StatesStay, WaitingIsWaits DEF Lifecycle!Acquire
    <2> QED BY <2>2 DEF Lifecycle!Next
  <1>8. ASSUME NEW m \in Mutex, kmutex_block(m) PROVE Lifecycle!Next
    <2>1. /\ Waits(links') = [Waits(links) EXCEPT ![m] = @ \cup {current}]
          /\ current # Idle /\ owner[m] # NULL /\ Lifecycle!Switch("BLOCKED", {})
      BY <1>8, BlockStep, SwitchedSwitches
    <2>2. owner' = owner
      BY <1>8 DEF kmutex_block
    <2>3. Lifecycle!Block(m)
      BY <2>1, <2>2, WaitingIsWaits DEF Lifecycle!Block
    <2> QED BY <2>3 DEF Lifecycle!Next
  <1>9. ASSUME NEW m \in Mutex, kmutex_unlock(m) PROVE Lifecycle!Next
    <2>0. current' = current /\ owner[m] = current
      BY <1>9, UnlockStep
    <2>1. \/ /\ Waits(links)[m] = {} /\ owner' = [owner EXCEPT ![m] = NULL]
             /\ Waits(links') = Waits(links) /\ \A u \in Slot : tcb'[u].st = tcb[u].st
          \/ \E w \in Slot :
                /\ w \in Waits(links)[m] /\ owner' = [owner EXCEPT ![m] = w]
                /\ Waits(links') = [Waits(links) EXCEPT ![m] = @ \ {w}]
                /\ \A u \in Slot : tcb'[u].st = IF u = w THEN "READY" ELSE tcb[u].st
      BY <1>9, UnlockStep
    <2>2. CASE /\ Waits(links)[m] = {} /\ owner' = [owner EXCEPT ![m] = NULL]
               /\ Waits(links') = Waits(links) /\ \A u \in Slot : tcb'[u].st = tcb[u].st
      <3>1. Lifecycle!Release(m)
        BY <2>0, <2>2, StatesStay, WaitingIsWaits DEF Lifecycle!Release
      <3> QED BY <3>1 DEF Lifecycle!Next
    <2>3. ASSUME NEW w \in Slot, w \in Waits(links)[m], owner' = [owner EXCEPT ![m] = w],
                 Waits(links') = [Waits(links) EXCEPT ![m] = @ \ {w}],
                 \A u \in Slot : tcb'[u].st = IF u = w THEN "READY" ELSE tcb[u].st
          PROVE  Lifecycle!Next
      <3>1. [t \in Slot |-> tcb'[t].st] = [[t \in Slot |-> tcb[t].st] EXCEPT ![w] = "READY"]
        BY <2>3
      <3>2. Lifecycle!HandOff(m, w)
        BY <2>0, <2>3, <3>1, WaitingIsWaits DEF Lifecycle!HandOff
      <3> QED BY <3>2 DEF Lifecycle!Next
    <2> QED BY <2>1, <2>2, <2>3
  <1>10. CASE DeadlineNext
    <2>1. Waits(links') = Waits(links) /\ current' = current /\ owner' = owner
          /\ \A u \in Slot : tcb'[u].st = tcb[u].st
      BY <1>10, DeadlineStep
    <2> QED BY <2>1, StatesStay, WaitingIsWaits DEF Lifecycle!vars
  <1> QED BY <1>1, <1>2, <1>3, <1>4, <1>5, <1>6, <1>7, <1>8, <1>9, <1>10
          DEF Next, CoreNext, MutexNext, kmutex_lock

(* The scheduler, its lists kept in link fields that threads share, is the
   life cycle of threads that ThreadLifecycle promises.                    *)
THEOREM SchedulerIsLifecycle ==
    ASSUME IDLE \notin CreatePrios
    PROVE  Spec => ImplementsLifecycle
  <1>1. sched_init => Lifecycle!Init
    <2> SUFFICES ASSUME sched_init PROVE Lifecycle!Init
      OBVIOUS
    <2>1. SchedInv
      BY InitStep
    <2>2. PICK W : Whole(links, tcb, W, ticks, current)
      BY <2>1 DEF SchedInv, InPlace
    <2>3. current = Idle /\ owner = [m \in Mutex |-> NULL]
      BY DEF sched_init
    <2>4. \A t \in Slot : tcb[t].st = IF t = Idle THEN "RUNNING" ELSE "TERMINATED"
      BY DEF sched_init, NewTCB, FreeTCB
    <2>5. Waits(links) = [m \in Mutex |-> {}]
      <3>1. \A m \in Mutex : links.waiters[m] = NULL
        BY DEF sched_init, NoLinks, queue_push_back
      <3>2. \A m \in Mutex : Waits(links)[m] = {}
        BY <2>2, <3>1, NobodyWaits DEF Whole
      <3> QED BY <3>2 DEF Waits
    <2> QED BY <2>3, <2>4, <2>5, WaitingIsWaits DEF Lifecycle!Init
  <1>2. SchedInv /\ [Next]_vars => [Lifecycle!Next]_(Lifecycle!vars)
    BY LifecycleStep
  <1>3. Spec => []SchedInv
    BY PlacesStand
  <1> QED BY <1>1, <1>2, <1>3, PTL DEF Spec, ImplementsLifecycle, Lifecycle!Spec

=============================================================================
