---------------------------- MODULE LinesProofs ----------------------------
(* Proofs about what comes over a line byte by byte: the mouse's packets,  *)
(* the debugger's, and the kernel's lines to the bridge.  First what these *)
(* proofs, and those of module PartsProofs, need of numbers and steps.     *)
EXTENDS MCParts, FiniteSetTheorems, SequenceTheorems, WellFoundedInduction, TLAPS

(* A set of numbers that is not empty has a least one. *)
LEMMA LeastNat ==
    ASSUME NEW S, S \subseteq Nat, S # {}
    PROVE  \E n \in S : \A m \in S : n <= m
  <1> DEFINE R == OpToRel(<, Nat)
  <1>1. IsWellFoundedOn(R, Nat)
    BY NatLessThanWellFounded
  <1>2. \A x, y \in Nat : x < y => <<x, y>> \in R
    BY DEF OpToRel
  <1> HIDE DEF R
  <1>3. PICK x \in S : \A y \in S : ~ (<<y, x>> \in R)
    BY <1>1, WFMin
  <1>4. \A m \in S : x <= m
    <2> TAKE m \in S
    <2>1. ~(m < x)
      BY <1>2, <1>3
    <2> QED BY <2>1
  <1> QED BY <1>4

-----------------------------------------------------------------------------
(* A walk of as many steps as one likes. *)

(* What holds of 0 and of every number up to n whose predecessor has it
   holds of every number up to n.                                          *)
LEMMA Climb ==
    ASSUME NEW n \in Nat, NEW A, 0 \in A, \A i \in 1..n : i - 1 \in A => i \in A
    PROVE  \A i \in 0..n : i \in A
  <1> SUFFICES ASSUME \E i \in 0..n : i \notin A PROVE FALSE
    OBVIOUS
  <1> DEFINE B == {i \in 0..n : i \notin A}
  <1>1. B \subseteq Nat /\ B # {}
    OBVIOUS
  <1>2. PICK m \in B : \A j \in B : m <= j
    <2> HIDE DEF B
    <2> QED BY <1>1, LeastNat
  <1>3. m # 0 /\ m \in 1..n
    BY <1>2
  <1>4. m - 1 \in A
    BY <1>2, <1>3
  <1> QED BY <1>2, <1>3, <1>4

(* F[i][d] is what step i makes of d. *)
StaysIn(F, D, n) == \A i \in 1..n, d \in D : F[i][d] \in D

(* g holds what n steps have made of base. *)
Walked(g, F, base, D, n) == /\ g \in [0..n -> D]
                          /\ g[0] = base
                          /\ \A i \in 1..n : g[i] = F[i][g[i-1]]

(* A function that takes a value on from step to step, n times. *)
LEMMA StepByStep ==
    ASSUME NEW D, NEW n \in Nat, NEW base \in D, NEW F, StaysIn(F, D, n)
    PROVE  \E g : Walked(g, F, base, D, n)
  <1> DEFINE Good(g, k) == /\ g \in [0..k -> D]
                           /\ g[0] = base
                           /\ \A i \in 1..k : g[i] = F[i][g[i-1]]
             A == {k \in 0..n : \E g : Good(g, k)}
  <1>1. 0 \in A
    <2> DEFINE h == [i \in 0..0 |-> base]
    <2>1. Good(h, 0)
      OBVIOUS
    <2> HIDE DEF Good
    <2> QED BY <2>1
  <1>2. ASSUME NEW i \in 1..n, i - 1 \in A PROVE i \in A
    <2>1. PICK g : Good(g, i-1)
      BY <1>2
    <2> DEFINE x == F[i][g[i-1]]
               h == [j \in 0..i |-> IF j = i THEN x ELSE g[j]]
    <2>2. g[i-1] \in D /\ x \in D
      <3>1. g[i-1] \in D
        BY <2>1
      <3> HIDE DEF Good
      <3> QED BY <3>1 DEF StaysIn
    <2>3. h \in [0..i -> D]
      <3> HIDE DEF x
      <3> QED BY <2>1, <2>2
    <2>4. h[0] = base
      BY <2>1
    <2>5. ASSUME NEW j \in 1..i PROVE h[j] = F[j][h[j-1]]
      <3>0. h[j-1] = g[j-1]
        <4> HIDE DEF x
        <4> QED OBVIOUS
      <3>1. CASE j = i
        <4>1. h[i] = x
          <5> HIDE DEF x
          <5> QED OBVIOUS
        <4> HIDE DEF h
        <4> QED BY <3>1, <3>0, <4>1
      <3>2. CASE j # i
        <4>1. h[j] = g[j] /\ j \in 1..i-1
          <5> HIDE DEF x
          <5> QED BY <3>2
        <4> QED BY <4>1, <3>0, <2>1
      <3> QED BY <3>1, <3>2
    <2>6. Good(h, i)
      <3> HIDE DEF h
      <3> QED BY <2>3, <2>4, <2>5
    <2> HIDE DEF Good, h
    <2> QED BY <2>6
  <1> HIDE DEF A
  <1>3. n \in A
    BY <1>1, <1>2, Climb
  <1> QED BY <1>3 DEF A, Walked

-----------------------------------------------------------------------------
(* Order in a finite set. *)

(* The numbers of a finite set in increasing order: each once, none missing. *)
LEMMA AscendingFacts ==
    ASSUME NEW S, S \subseteq Nat, IsFiniteSet(S)
    PROVE  /\ Cardinality(S) \in Nat
           /\ Ascending(S) \in [1 .. Cardinality(S) -> S]
           /\ \A m, n \in 1 .. Cardinality(S) : m < n => Ascending(S)[m] < Ascending(S)[n]
           /\ \A i \in S : \E n \in 1 .. Cardinality(S) : Ascending(S)[n] = i
  <1> DEFINE K == Cardinality(S)
             Below == [i \in S |-> {j \in S : j < i}]
             rank == [i \in S |-> Cardinality(Below[i])]
             R == {rank[i] : i \in S}
  <1>1. K \in Nat
    BY FS_CardinalityType
  <1>2. \A i \in S : /\ IsFiniteSet(Below[i]) /\ Cardinality(Below[i]) \in Nat
               /\ IsFiniteSet(Below[i] \cup {i})
    <2> TAKE i \in S
    <2>1. IsFiniteSet(Below[i])
      BY FS_Subset
    <2> QED BY <2>1, FS_CardinalityType, FS_AddElement
  <1>3. ASSUME NEW i \in S, NEW k \in S, i < k PROVE rank[i] < rank[k]
    <2>1. i \notin Below[i] /\ Below[i] \cup {i} \subseteq Below[k]
      <3>1. \A j \in S : j < i => j < k
        BY <1>3
      <3>2. ~(i < i)
        OBVIOUS
      <3> QED BY <1>3, <3>1, <3>2
    <2> HIDE DEF Below
    <2>2. Cardinality(Below[i] \cup {i}) = Cardinality(Below[i]) + 1
      BY <1>2, <2>1, FS_AddElement
    <2>3. Cardinality(Below[i] \cup {i}) <= Cardinality(Below[k])
      BY <1>2, <2>1, FS_Subset
    <2>4. rank[i] = Cardinality(Below[i]) /\ rank[k] = Cardinality(Below[k])
      OBVIOUS
    <2>5. Cardinality(Below[i]) \in Nat /\ Cardinality(Below[k]) \in Nat
      BY <1>2, <1>3
    <2> HIDE DEF rank, Below
    <2>6. Cardinality(Below[i]) < Cardinality(Below[k])
      BY <2>2, <2>3, <2>5
    <2> QED BY <2>4, <2>6
  <1>4. ASSUME NEW i \in S PROVE rank[i] \in 0 .. K - 1
    <2>1. i \notin Below[i] /\ Below[i] \cup {i} \subseteq S
      BY <1>4
    <2> HIDE DEF Below
    <2>2. Cardinality(Below[i] \cup {i}) = Cardinality(Below[i]) + 1
      BY <1>2, <2>1, FS_AddElement
    <2>3. Cardinality(Below[i] \cup {i}) <= K
      BY <2>1, FS_Subset
    <2> QED BY <1>1, <1>2, <2>2, <2>3
  <1> HIDE DEF K, Below
  <1>5. R = 0 .. K - 1
    <2>1. \A i, k \in S : rank[i] = rank[k] => i = k
      <3> TAKE i, k \in S
      <3>1. i < k \/ k < i \/ i = k
        OBVIOUS
      <3>2. rank[i] \in Nat /\ rank[k] \in Nat
        BY <1>4
      <3> HIDE DEF rank
      <3> QED BY <1>3, <3>1, <3>2
    <2>2. rank \in Injection(S, 0 .. K - 1)
      <3>1. rank \in [S -> 0 .. K - 1]
        BY <1>4
      <3> HIDE DEF rank
      <3> QED BY <2>1, <3>1 DEF Injection, IsInjective
    <2>3. IsFiniteSet(0 .. K - 1) /\ Cardinality(0 .. K - 1) = K
      <3>1. 0 \in Int /\ K - 1 \in Int
        BY <1>1
      <3> QED BY <1>1, <3>1, FS_Interval
    <2>4. rank \in Surjection(S, 0 .. K - 1)
      <3> HIDE DEF rank
      <3> QED BY <2>2, <2>3, FS_Injection DEF K
    <2> QED BY <1>4, <2>4 DEF Surjection
  <1>6. ASSUME NEW n \in 1 .. K
        PROVE  Ascending(S)[n] \in S /\ rank[Ascending(S)[n]] = n - 1
    <2>1. n - 1 \in R
      <3>1. n - 1 \in 0 .. K - 1
        BY <1>1
      <3> HIDE DEF R
      <3> QED BY <1>5, <3>1
    <2>2. \E i \in S : Cardinality(Below[i]) = n - 1
      BY <2>1
    <2>3. Ascending(S)[n] = CHOOSE i \in S : Cardinality(Below[i]) = n - 1
      BY DEF Ascending, Below, K
    <2> QED BY <2>2, <2>3
  <1>7. \A m, n \in 1 .. K : m < n => Ascending(S)[m] < Ascending(S)[n]
    <2> TAKE m, n \in 1 .. K
    <2> HAVE m < n
    <2> DEFINE i == Ascending(S)[m]
               k == Ascending(S)[n]
    <2>1. i \in S /\ k \in S /\ rank[i] = m - 1 /\ rank[k] = n - 1
      BY <1>6
    <2> HIDE DEF i, k, rank
    <2>2. rank[i] < rank[k]
      BY <2>1
    <2>3. i < k \/ k < i \/ i = k
      BY <2>1
    <2>4. i < k
      BY <1>3, <2>1, <2>2, <2>3
    <2> QED BY <2>4 DEF i, k
  <1>8. ASSUME NEW i \in S PROVE \E n \in 1 .. K : Ascending(S)[n] = i
    <2> DEFINE n == rank[i] + 1
               k == Ascending(S)[n]
    <2>1. n \in 1 .. K /\ n - 1 = rank[i]
      BY <1>1, <1>4
    <2>2. k \in S /\ rank[k] = rank[i]
      BY <1>6, <2>1
    <2> HIDE DEF n, k
    <2>3. i < k \/ k < i \/ i = k
      BY <2>2
    <2>4. rank[i] \in Nat /\ rank[k] \in Nat
      BY <1>4, <2>2
    <2>5. k = i
      BY <1>3, <2>2, <2>3, <2>4
    <2> QED BY <2>1, <2>5 DEF k
  <1>9. Ascending(S) \in [1 .. K -> S]
    BY <1>6 DEF Ascending, K
  <1> QED BY <1>1, <1>7, <1>8, <1>9 DEF K

-----------------------------------------------------------------------------
(* The debugger's packets.  The characters that have come and those still to
   be sent are one line of them, on which there is the rest of the last packet,
   or what was cut from it.                                                 *)

Char == Letter \cup {"$", "#", "sum"}

Chars == com2 \o debugger

(* What follows the start of a packet. *)
Rest(d) == d \o <<"#", "sum", "sum">>

(* No packet is on its way. *)
Quiet == /\ kshell_at # "in packet"
         /\ \A i \in DOMAIN Chars : Chars[i] # "$"

(* The packet of d is to be found, j characters on. *)
Ahead(d) ==
    /\ kshell_at # "in packet"
    /\ \E j \in 0 .. Len(Chars) :
          /\ \A i \in 1 .. j : Chars[i] # "$"
          /\ Len(Chars) = j + Len(d) + 4
          /\ Chars[j + 1] = "$"
          /\ \A i \in 1 .. Len(d) + 3 : Chars[j + 1 + i] = Rest(d)[i]

(* It is being read. *)
Within(d) ==
    /\ kshell_at = "in packet"
    /\ Len(pkt_buf) <= MaxLen - 1 /\ Len(pkt_buf) <= Len(d)
    /\ \A i \in 1 .. Len(pkt_buf) : pkt_buf[i] = d[i]
    /\ Len(Chars) + Len(pkt_buf) = Len(d) + 3
    /\ \A i \in 1 .. Len(Chars) : Chars[i] = Rest(d)[Len(pkt_buf) + i]

(* The packets among the first m sent that are not empty. *)
Full(m) == {j \in 1 .. m : gdb_sent[j] # << >>}

(* The k-th packet handled was the k-th of them. *)
HandledOf(k) == \E i \in 1 .. acks :
    gdb_sent[i] # << >> /\ handled[k] = Cut(gdb_sent[i]) /\ Cardinality(Full(i)) = k

KshellTypeOK ==
    /\ gdb_sent \in Seq(Data) /\ handled \in Seq(Seq(Char)) /\ acks \in Nat
    /\ com2 \in Seq(Char) /\ debugger \in Seq(Char) /\ pkt_buf \in Seq(Char)

KshellInv ==
    /\ KshellTypeOK
    /\ \/ acks = Len(gdb_sent) /\ Quiet
       \/ acks + 1 = Len(gdb_sent) /\ (Ahead(gdb_sent[acks + 1]) \/ Within(gdb_sent[acks + 1]))
    /\ Len(handled) = Cardinality(Full(acks))
    /\ \A k \in DOMAIN handled : HandledOf(k)

LEMMA RestFacts ==
    ASSUME NEW d \in Data
    PROVE  /\ d \in Seq(Char) /\ Len(d) \in Nat
           /\ Rest(d) \in Seq(Char) /\ Len(Rest(d)) = Len(d) + 3
           /\ \A i \in 1 .. Len(d) + 3 :
                 /\ Rest(d)[i] # "$"
                 /\ i <= Len(d) => Rest(d)[i] = d[i] /\ d[i] # "#"
                 /\ i = Len(d) + 1 => Rest(d)[i] = "#"
  <1>1. /\ d \in Seq(Char) /\ Len(d) \in Nat
        /\ \A i \in 1 .. Len(d) : d[i] # "$" /\ d[i] # "#"
    <2>1. d \in Seq(Letter) /\ "$" \notin Letter /\ "#" \notin Letter
      BY DebugShellAssumption
    <2>2. \A i \in 1 .. Len(d) : d[i] \in Letter
      BY <2>1
    <2>3. d \in Seq(Char)
      BY <2>1, SeqMonotonic DEF Char
    <2> QED BY <2>1, <2>2, <2>3
  <1> DEFINE z == <<"#", "sum", "sum">>
  <1>2. z \in Seq(Char) /\ Len(z) = 3 /\ z[1] = "#" /\ z[2] = "sum" /\ z[3] = "sum"
    <2>1. "#" \in Char /\ "sum" \in Char
      BY DEF Char
    <2>2. \A a, b \in Char : /\ <<a, b, b>> \in Seq(Char) /\ Len(<<a, b, b>>) = 3
                             /\ <<a, b, b>>[1] = a /\ <<a, b, b>>[2] = b /\ <<a, b, b>>[3] = b
      OBVIOUS
    <2> QED BY <2>1, <2>2
  <1>3. Rest(d) = d \o z
    BY DEF Rest
  <1> HIDE DEF z
  <1>4. /\ Rest(d) \in Seq(Char) /\ Len(Rest(d)) = Len(d) + 3
        /\ \A i \in 1 .. Len(d) + 3 : Rest(d)[i] = IF i <= Len(d) THEN d[i] ELSE z[i - Len(d)]
    <2>1. /\ d \o z \in Seq(Char) /\ Len(d \o z) = Len(d) + Len(z)
          /\ \A i \in 1 .. Len(d) + Len(z) : (d \o z)[i] = IF i <= Len(d) THEN d[i]
                                                           ELSE z[i - Len(d)]
      BY <1>1, <1>2, ConcatProperties
    <2> QED BY <1>2, <1>3, <2>1
  <1>5. ASSUME NEW i \in 1 .. Len(d) + 3
        PROVE  /\ Rest(d)[i] # "$"
               /\ i <= Len(d) => Rest(d)[i] = d[i] /\ d[i] # "#"
               /\ i = Len(d) + 1 => Rest(d)[i] = "#"
    <2>1. CASE i <= Len(d)
      BY <1>1, <1>4, <2>1
    <2>2. CASE i > Len(d)
      <3> DEFINE k == i - Len(d)
      <3>1. k \in 1 .. 3 /\ (i = Len(d) + 1 => k = 1) /\ ~(i <= Len(d))
        BY <1>1, <2>2
      <3>2. Rest(d)[i] = z[k]
        BY <1>4, <3>1
      <3> HIDE DEF k
      <3>3. z[k] # "$"
        BY <1>2, <3>1
      <3> QED BY <1>2, <3>1, <3>2, <3>3
    <2> QED BY <1>1, <2>1, <2>2
  <1> QED BY <1>1, <1>4, <1>5

(* Counting the packets that are not empty. *)
LEMMA FullCount ==
    /\ Full(0) = {}
    /\ \A m \in Nat : /\ IsFiniteSet(Full(m)) /\ Cardinality(Full(m)) \in Nat
                      /\ Full(m + 1) = IF gdb_sent[m + 1] # << >> THEN Full(m) \cup {m + 1}
                                       ELSE Full(m)
                      /\ Cardinality(Full(m + 1)) = IF gdb_sent[m + 1] # << >>
                                                    THEN Cardinality(Full(m)) + 1
                                                    ELSE Cardinality(Full(m))
  <1>1. Full(0) = {}
    BY DEF Full
  <1>2. ASSUME NEW m \in Nat
        PROVE  /\ IsFiniteSet(Full(m)) /\ Cardinality(Full(m)) \in Nat
               /\ Full(m + 1) = IF gdb_sent[m + 1] # << >> THEN Full(m) \cup {m + 1}
                                ELSE Full(m)
               /\ Cardinality(Full(m + 1)) = IF gdb_sent[m + 1] # << >>
                                             THEN Cardinality(Full(m)) + 1
                                             ELSE Cardinality(Full(m))
    <2>1. IsFiniteSet(1 .. m)
      BY FS_Interval
    <2>2. IsFiniteSet(Full(m)) /\ Cardinality(Full(m)) \in Nat
      <3>1. Full(m) \subseteq 1 .. m
        BY DEF Full
      <3>2. IsFiniteSet(Full(m))
        BY <2>1, <3>1, FS_Subset
      <3> QED BY <3>2, FS_CardinalityType
    <2>3. Full(m + 1) = IF gdb_sent[m + 1] # << >> THEN Full(m) \cup {m + 1} ELSE Full(m)
      BY DEF Full
    <2>4. m + 1 \notin Full(m)
      BY DEF Full
    <2>5. Cardinality(Full(m) \cup {m + 1}) = Cardinality(Full(m)) + 1
      BY <2>2, <2>4, FS_AddElement
    <2> QED BY <2>2, <2>3, <2>5
  <1> QED BY <1>1, <1>2

(* A character taken from the front of the line. *)
LEMMA CharTaken ==
    ASSUME KshellTypeOK, com2 # << >>, com2' = Tail(com2), debugger' = debugger
    PROVE  /\ com2' \in Seq(Char) /\ Len(Chars) > 0 /\ Chars[1] = Head(com2)
           /\ Head(com2) \in Char
           /\ Len(Chars') = Len(Chars) - 1
           /\ \A i \in 1 .. Len(Chars) - 1 : Chars'[i] = Chars[i + 1]
  <1>1. com2 \in Seq(Char) /\ debugger \in Seq(Char)
    BY DEF KshellTypeOK
  <1>2. Chars \in Seq(Char) /\ Chars # << >> /\ Head(Chars) = Head(com2) /\ Chars[1] = Head(com2)
    BY <1>1 DEF Chars
  <1>3. Tail(com2) \o debugger = Tail(Chars)
    BY <1>1 DEF Chars
  <1>4. Chars' = Tail(Chars)
    BY <1>3 DEF Chars
  <1>5. /\ Len(Tail(Chars)) = Len(Chars) - 1 /\ Len(Chars) > 0
        /\ \A i \in 1 .. Len(Chars) - 1 : Tail(Chars)[i] = Chars[i + 1]
    BY <1>2
  <1>6. Tail(com2) \in Seq(Char) /\ Head(com2) \in Char
    BY <1>1
  <1> QED BY <1>2, <1>4, <1>5, <1>6

(* The end of a packet takes from the line what is there of its sum; nothing
   new comes on it.                                                         *)
LEMMA SumTaken ==
    ASSUME KshellTypeOK, NEW s \in Seq(Char), com2' = AfterSum(s), debugger' = debugger,
           \A i \in 1 .. Len(s) : s[i] # "$", \A i \in 1 .. Len(debugger) : debugger[i] # "$"
    PROVE  com2' \in Seq(Char) /\ \A i \in DOMAIN Chars' : Chars'[i] # "$"
  <1> DEFINE t == SubSeq(s, 3, Len(s))
  <1>1. t \in Seq(Char) /\ \A i \in 1 .. Len(t) : t[i] # "$"
    <2>1. CASE Len(s) < 3
      <3>1. t = << >>
        BY <2>1, SubSeqEmpty
      <3>2. t \in Seq(Char) /\ Len(t) = 0
        BY <3>1, EmptySeq
      <3> QED BY <3>2
    <2>2. CASE Len(s) >= 3
      <3>1. /\ t \in Seq(Char) /\ Len(t) = (Len(s) - 3) + 1
            /\ \A i \in 1 .. (Len(s) - 3) + 1 : t[i] = s[(3 + i) - 1]
        BY <2>2
      <3> QED BY <2>2, <3>1
    <2> QED BY <2>1, <2>2
  <1>2. com2' = t
    BY DEF AfterSum
  <1> HIDE DEF t
  <1>3. debugger \in Seq(Char)
    BY DEF KshellTypeOK
  <1>4. Chars' = t \o debugger
    BY <1>2 DEF Chars
  <1>5. /\ DOMAIN (t \o debugger) = 1 .. Len(t) + Len(debugger)
        /\ \A i \in 1 .. Len(t) + Len(debugger) :
              (t \o debugger)[i] = IF i <= Len(t) THEN t[i] ELSE debugger[i - Len(t)]
    BY <1>1, <1>3
  <1>6. \A i \in 1 .. Len(t) + Len(debugger) : (t \o debugger)[i] # "$"
    <2> TAKE i \in 1 .. Len(t) + Len(debugger)
    <2>1. CASE i <= Len(t)
      BY <1>1, <1>5, <2>1
    <2>2. CASE i > Len(t)
      <3>1. i - Len(t) \in 1 .. Len(debugger) /\ ~(i <= Len(t))
        BY <1>1, <1>3, <2>2
      <3> QED BY <1>5, <3>1
    <2> QED BY <1>1, <2>1, <2>2
  <1> QED BY <1>1, <1>2, <1>4, <1>5, <1>6

(* Where nothing of the packets' history changes. *)
LEMMA HistoryKept ==
    ASSUME KshellInv, UNCHANGED <<gdb_sent, handled, acks>>
    PROVE  /\ Len(handled') = Cardinality(Full(acks)')
           /\ \A k \in DOMAIN handled' : HandledOf(k)'
  <1>1. \A m : Full(m)' = Full(m)
    BY DEF Full
  <1>2. \A k : HandledOf(k)' <=> HandledOf(k)
    BY <1>1 DEF HandledOf
  <1> QED BY <1>1, <1>2 DEF KshellInv

LEMMA SendsInv ==
    ASSUME KshellInv, NEW d \in Data, Sends(d)
    PROVE  KshellInv'
  <1> DEFINE n == Len(gdb_sent)
             z == <<"#", "sum", "sum">>
             h == <<"$">>
  <1>1. /\ debugger = << >> /\ acks = n /\ n \in Nat /\ Quiet
        /\ gdb_sent \in Seq(Data) /\ com2 \in Seq(Char) /\ handled \in Seq(Seq(Char))
        /\ debugger' = (h \o d) \o z /\ gdb_sent' = Append(gdb_sent, d)
        /\ UNCHANGED <<kshell_at, com2, pkt_buf, handled, acks>>
    BY DEF Sends, KshellInv, KshellTypeOK
  <1>2. h \in Seq(Char) /\ Len(h) = 1 /\ h[1] = "$"
    <2>1. "$" \in Char
      BY DEF Char
    <2> QED BY <2>1
  <1>3. z \in Seq(Char)
    <2>1. "#" \in Char /\ "sum" \in Char
      BY DEF Char
    <2> QED BY <2>1
  <1>4. /\ d \in Seq(Char) /\ Len(d) \in Nat /\ Rest(d) \in Seq(Char) /\ Len(Rest(d)) = Len(d) + 3
        /\ Rest(d) = d \o z
    BY RestFacts DEF Rest
  <1> HIDE DEF h, z
  <1>5. debugger' = h \o Rest(d)
    <2>1. (h \o d) \o z = h \o (d \o z)
      <3>1. h \in Seq(Char) /\ d \in Seq(Char) /\ z \in Seq(Char)
        BY <1>2, <1>3, <1>4
      <3> QED BY <3>1, ConcatAssociative
    <2> QED BY <1>1, <1>4, <2>1
  <1>6. /\ debugger' \in Seq(Char) /\ Len(debugger') = 1 + (Len(d) + 3)
        /\ \A i \in 1 .. 1 + (Len(d) + 3) : debugger'[i] = IF i <= 1 THEN h[i] ELSE Rest(d)[i - 1]
    <2>1. /\ h \o Rest(d) \in Seq(Char) /\ Len(h \o Rest(d)) = Len(h) + Len(Rest(d))
          /\ \A i \in 1 .. Len(h) + Len(Rest(d)) :
                (h \o Rest(d))[i] = IF i <= Len(h) THEN h[i] ELSE Rest(d)[i - Len(h)]
      BY <1>2, <1>4, ConcatProperties
    <2> QED BY <1>2, <1>4, <1>5, <2>1
  <1>7. Chars = com2
    BY <1>1 DEF Chars
  <1> DEFINE j == Len(com2)
  <1>8. /\ Len(Chars') = j + (1 + (Len(d) + 3)) /\ j \in Nat
        /\ \A i \in 1 .. j + (1 + (Len(d) + 3)) : Chars'[i] = IF i <= j THEN com2[i]
                                                                ELSE debugger'[i - j]
    <2>1. Chars' = com2 \o debugger'
      BY <1>1 DEF Chars
    <2>2. /\ Len(com2 \o debugger') = Len(com2) + Len(debugger')
          /\ \A i \in 1 .. Len(com2) + Len(debugger') :
                (com2 \o debugger')[i] = IF i <= Len(com2) THEN com2[i] ELSE debugger'[i - Len(com2)]
      BY <1>1, <1>6, ConcatProperties, ZenonT(40)
    <2> QED BY <1>1, <1>6, <2>1, <2>2, SMTT(40)
  <1>9. Ahead(d)'
    <2>1. \A i \in 1 .. j : Chars'[i] # "$"
      <3>1. \A i \in 1 .. j : com2[i] # "$"
        <4>1. DOMAIN com2 = 1 .. j
          BY <1>1
        <4>2. \A i \in DOMAIN com2 : com2[i] # "$"
          BY <1>1, <1>7 DEF Quiet
        <4> QED BY <4>1, <4>2
      <3>2. \A i \in 1 .. j : Chars'[i] = com2[i]
        BY <1>4, <1>8
      <3> QED BY <3>1, <3>2
    <2>2. Chars'[j + 1] = "$"
      <3>1. j + 1 \in 1 .. j + (1 + (Len(d) + 3)) /\ ~(j + 1 <= j) /\ (j + 1) - j = 1
        BY <1>4, <1>8
      <3>2. Chars'[j + 1] = debugger'[1]
        BY <1>8, <3>1
      <3> QED BY <1>2, <1>4, <1>6, <3>2
    <2>3. ASSUME NEW i \in 1 .. Len(d) + 3 PROVE Chars'[j + 1 + i] = Rest(d)[i]
      <3>1. /\ j + 1 + i \in 1 .. j + (1 + (Len(d) + 3)) /\ ~(j + 1 + i <= j)
            /\ (j + 1 + i) - j = 1 + i
        BY <1>4, <1>8
      <3>2. Chars'[j + 1 + i] = debugger'[1 + i]
        BY <1>8, <3>1
      <3>3. 1 + i \in 1 .. 1 + (Len(d) + 3) /\ ~(1 + i <= 1) /\ (1 + i) - 1 = i
        BY <1>4
      <3> QED BY <1>6, <3>2, <3>3
    <2>4. kshell_at' # "in packet"
      BY <1>1 DEF Quiet
    <2>5. j \in 0 .. Len(Chars') /\ Len(Chars') = j + Len(d) + 4
      BY <1>4, <1>8
    <2> QED BY <2>1, <2>2, <2>3, <2>4, <2>5 DEF Ahead
  <1>10. /\ gdb_sent' \in Seq(Data) /\ Len(gdb_sent') = n + 1 /\ gdb_sent'[n + 1] = d
         /\ \A i \in 1 .. n : gdb_sent'[i] = gdb_sent[i]
    BY <1>1
  <1> HIDE DEF n
  <1>11. \A m \in 0 .. n : Full(m)' = Full(m)
    <2> TAKE m \in 0 .. n
    <2>1. \A i \in 1 .. m : gdb_sent'[i] = gdb_sent[i]
      BY <1>1, <1>10
    <2> QED BY <2>1 DEF Full
  <1>12. \A k \in DOMAIN handled : HandledOf(k)'
    <2> TAKE k \in DOMAIN handled
    <2>1. PICK i \in 1 .. acks : /\ gdb_sent[i] # << >> /\ handled[k] = Cut(gdb_sent[i])
                                 /\ Cardinality(Full(i)) = k
      BY DEF KshellInv, HandledOf
    <2>2. i \in 1 .. n /\ i \in 0 .. n
      BY <1>1, <2>1
    <2>3. gdb_sent'[i] = gdb_sent[i] /\ Full(i)' = Full(i)
      BY <1>10, <1>11, <2>2
    <2> QED BY <1>1, <2>1, <2>3 DEF HandledOf
  <1>13. KshellTypeOK'
    BY <1>1, <1>6, <1>10 DEF KshellTypeOK, KshellInv
  <1>14. Len(handled') = Cardinality(Full(acks)')
    <2>1. Full(acks)' = Full(n) /\ Len(handled) = Cardinality(Full(acks))
      BY <1>1, <1>11 DEF KshellInv
    <2> QED BY <1>1, <2>1
  <1>15. acks' + 1 = Len(gdb_sent') /\ gdb_sent'[acks' + 1] = d
    BY <1>1, <1>10
  <1> QED BY <1>1, <1>9, <1>12, <1>13, <1>14, <1>15 DEF KshellInv

LEMMA ArrivesInv == ASSUME KshellInv, CharArrives PROVE KshellInv'
  <1>1. /\ com2 \in Seq(Char) /\ debugger \in Seq(Char) /\ debugger # << >>
        /\ com2' = Append(com2, Head(debugger)) /\ debugger' = Tail(debugger)
        /\ UNCHANGED <<kshell_at, pkt_buf, gdb_sent, handled, acks>>
    BY DEF CharArrives, KshellInv, KshellTypeOK
  <1>2. com2' \in Seq(Char) /\ debugger' \in Seq(Char) /\ Chars' = Chars
    <2>1. Append(com2, Head(debugger)) \o Tail(debugger) = com2 \o debugger
      BY <1>1
    <2>2. Append(com2, Head(debugger)) \in Seq(Char) /\ Tail(debugger) \in Seq(Char)
      BY <1>1
    <2>3. Chars' = com2' \o debugger' /\ Chars = com2 \o debugger
      BY DEF Chars
    <2> QED BY <1>1, <2>1, <2>2, <2>3
  <1>3. KshellTypeOK'
    BY <1>1, <1>2 DEF KshellInv, KshellTypeOK
  <1>4. /\ Quiet' <=> Quiet
        /\ \A d : Ahead(d)' <=> Ahead(d)
        /\ \A d : Within(d)' <=> Within(d)
    BY <1>1, <1>2 DEF Quiet, Ahead, Within
  <1> QED BY <1>1, <1>3, <1>4, HistoryKept DEF KshellInv

LEMMA FindStartInv == ASSUME KshellInv, FindStart PROVE KshellInv'
  <1> DEFINE n == Len(gdb_sent)
             d == gdb_sent[acks + 1]
  <1>1. /\ KshellTypeOK /\ kshell_at = "idle" /\ com2 # << >> /\ com2' = Tail(com2)
        /\ kshell_at' = IF Head(com2) = "$" THEN "in packet" ELSE "idle"
        /\ pkt_buf' = << >>
        /\ UNCHANGED <<debugger, gdb_sent, handled, acks>>
        /\ acks \in Nat /\ gdb_sent \in Seq(Data)
    BY DEF FindStart, KshellInv, KshellTypeOK
  <1>2. /\ com2' \in Seq(Char) /\ Len(Chars) > 0 /\ Chars[1] = Head(com2)
        /\ Len(Chars') = Len(Chars) - 1 /\ Chars \in Seq(Char) /\ Chars' \in Seq(Char)
        /\ \A i \in 1 .. Len(Chars) - 1 : Chars'[i] = Chars[i + 1]
    <2>1. com2 \in Seq(Char) /\ debugger \in Seq(Char) /\ debugger' \in Seq(Char)
      BY <1>1 DEF KshellTypeOK
    <2>2. com2' \in Seq(Char)
      BY <1>1, CharTaken
    <2>3. Chars \in Seq(Char) /\ Chars' \in Seq(Char)
      BY <2>1, <2>2 DEF Chars
    <2> QED BY <1>1, <2>3, CharTaken
  <1>3. KshellTypeOK'
    <2>0. pkt_buf' = << >>
      BY <1>1
    <2>1. pkt_buf' \in Seq(Char)
      BY <2>0, EmptySeq
    <2> QED BY <1>1, <1>2, <2>1 DEF KshellTypeOK
  <1>4. CASE acks = n /\ Quiet
    <2>0. DOMAIN Chars = 1 .. Len(Chars) /\ DOMAIN Chars' = 1 .. Len(Chars) - 1 /\ Len(Chars) \in Nat
      BY <1>2
    <2>1. Head(com2) # "$"
      <3>1. 1 \in DOMAIN Chars
        BY <1>2, <2>0
      <3>2. Chars[1] # "$"
        BY <1>4, <3>1 DEF Quiet
      <3> QED BY <1>2, <3>2
    <2>2. \A i \in DOMAIN Chars' : Chars'[i] # "$"
      <3> TAKE i \in DOMAIN Chars'
      <3>1. i + 1 \in DOMAIN Chars /\ Chars'[i] = Chars[i + 1]
        BY <1>2, <2>0
      <3>2. Chars[i + 1] # "$"
        BY <1>4, <3>1 DEF Quiet
      <3> QED BY <3>1, <3>2
    <2>3. Quiet'
      BY <1>1, <2>1, <2>2 DEF Quiet
    <2> QED BY <1>1, <1>3, <1>4, <2>3, HistoryKept DEF KshellInv
  <1>5. CASE acks + 1 = n /\ Ahead(d)
    <2>0. d \in Data /\ Len(d) \in Nat
      <3>0. acks \in Nat /\ gdb_sent \in Seq(Data)
        BY <1>1
      <3>1. acks + 1 \in 1 .. n
        BY <3>0, <1>5
      <3>2. d \in Data
        BY <3>0, <3>1
      <3> QED BY <3>2, RestFacts
    <2> HIDE DEF d
    <2>1. PICK j \in 0 .. Len(Chars) :
          /\ \A i \in 1 .. j : Chars[i] # "$"
          /\ Len(Chars) = j + Len(d) + 4
          /\ Chars[j + 1] = "$"
          /\ \A i \in 1 .. Len(d) + 3 : Chars[j + 1 + i] = Rest(d)[i]
      BY <1>5 DEF Ahead
    <2>2. CASE j = 0
      <3>0. Head(com2) = "$"
        <4>1. Chars[0 + 1] = "$"
          BY <2>1, <2>2
        <4> QED BY <1>2, <4>1
      <3>1. kshell_at' = "in packet"
        BY <1>1, <3>0
      <3>7. Len(pkt_buf') = 0
        <4>1. pkt_buf' = << >>
          BY <1>1
        <4> QED BY <4>1
      <3>2. Len(Chars') = Len(d) + 3
        BY <1>2, <2>0, <2>1, <2>2
      <3>3. \A i \in 1 .. Len(Chars') : Chars'[i] = Rest(d)[Len(pkt_buf') + i]
        <4> TAKE i \in 1 .. Len(Chars')
        <4>1. i \in 1 .. Len(d) + 3 /\ i \in 1 .. Len(Chars) - 1
          BY <1>2, <2>0, <3>2
        <4>2. Chars'[i] = Chars[i + 1] /\ Chars[j + 1 + i] = Rest(d)[i]
          BY <1>2, <2>1, <4>1
        <4>3. j + 1 + i = i + 1 /\ Len(pkt_buf') + i = i
          <5>1. i \in Nat
            BY <4>1
          <5> QED BY <2>2, <3>7, <5>1
        <4> QED BY <4>2, <4>3
      <3>4. 0 <= MaxLen - 1
        BY DebugShellAssumption
      <3>5. Within(d)'
        <4>1. d' = d
          BY <1>1 DEF d
        <4>2. 1 .. Len(pkt_buf') = {}
          BY <3>7
        <4>3. /\ Len(pkt_buf') <= MaxLen - 1 /\ Len(pkt_buf') <= Len(d)
              /\ Len(Chars') + Len(pkt_buf') = Len(d) + 3
          BY <2>0, <3>7, <3>2, <3>4
        <4> QED BY <3>1, <3>3, <4>1, <4>2, <4>3 DEF Within
      <3> QED BY <1>1, <1>3, <1>5, <3>5, HistoryKept DEF KshellInv, d
    <2>3. CASE j > 0
      <3>0. Head(com2) # "$"
        <4>1. 1 \in 1 .. j
          BY <2>1, <2>3
        <4> QED BY <1>2, <2>1, <4>1
      <3>1. kshell_at' = "idle"
        BY <1>1, <3>0
      <3> DEFINE k == j - 1
      <3>2. /\ k \in 0 .. Len(Chars') /\ Len(Chars') = k + Len(d) + 4
            /\ k + 1 = j /\ k \in Nat
        BY <1>2, <2>0, <2>1, <2>3
      <3> HIDE DEF k
      <3>3. \A i \in 1 .. k : Chars'[i] # "$"
        <4> TAKE i \in 1 .. k
        <4>1. i \in 1 .. Len(Chars) - 1 /\ i + 1 \in 1 .. j
          BY <1>2, <2>0, <2>1, <3>2
        <4> QED BY <1>2, <2>1, <4>1
      <3>4. Chars'[k + 1] = "$"
        <4>1. k + 1 \in 1 .. Len(Chars) - 1
          BY <1>2, <2>0, <2>1, <3>2
        <4> QED BY <1>2, <2>1, <3>2, <4>1
      <3>5. \A i \in 1 .. Len(d) + 3 : Chars'[k + 1 + i] = Rest(d)[i]
        <4> TAKE i \in 1 .. Len(d) + 3
        <4>1. k + 1 + i \in 1 .. Len(Chars) - 1 /\ (k + 1 + i) + 1 = j + 1 + i
          BY <1>2, <2>0, <2>1, <3>2
        <4>2. Chars'[k + 1 + i] = Chars[(k + 1 + i) + 1]
          BY <1>2, <4>1
        <4> QED BY <2>1, <4>1, <4>2
      <3>6. Ahead(d)'
        <4>1. d' = d
          BY <1>1 DEF d
        <4> QED BY <3>1, <3>2, <3>3, <3>4, <3>5, <4>1 DEF Ahead
      <3> QED BY <1>1, <1>3, <1>5, <3>6, HistoryKept DEF KshellInv, d
    <2> QED BY <2>1, <2>2, <2>3
  <1>6. ~ Within(d)
    BY <1>1 DEF Within
  <1> QED BY <1>4, <1>5, <1>6 DEF KshellInv

(* What is on the line while a packet is read holds no start of another. *)
LEMMA WithinFacts ==
    ASSUME KshellTypeOK, NEW d \in Data, Within(d)
    PROVE  /\ Len(pkt_buf) \in 0 .. Len(d) /\ Len(pkt_buf) <= MaxLen - 1 /\ Len(d) \in Nat
           /\ \A i \in 1 .. Len(com2) : com2[i] # "$"
           /\ \A i \in 1 .. Len(debugger) : debugger[i] # "$"
           /\ com2 # << >> => /\ Len(pkt_buf) < Len(d) => Head(com2) = d[Len(pkt_buf) + 1]
                              /\ Len(pkt_buf) < Len(d) => Head(com2) # "#"
                              /\ Len(pkt_buf) = Len(d) => Head(com2) = "#"
  <1> DEFINE b == Len(pkt_buf)
  <1>1. /\ com2 \in Seq(Char) /\ debugger \in Seq(Char) /\ pkt_buf \in Seq(Char)
        /\ b <= MaxLen - 1 /\ b <= Len(d)
        /\ Len(Chars) + b = Len(d) + 3
        /\ \A i \in 1 .. Len(Chars) : Chars[i] = Rest(d)[b + i]
    BY DEF KshellTypeOK, Within
  <1>2. b \in Nat /\ Len(d) \in Nat /\ b \in 0 .. Len(d)
    BY <1>1, RestFacts
  <1> HIDE DEF b
  <1>3. /\ Len(Chars) = Len(com2) + Len(debugger) /\ Len(com2) \in Nat /\ Len(debugger) \in Nat
        /\ \A i \in 1 .. Len(com2) + Len(debugger) :
              Chars[i] = IF i <= Len(com2) THEN com2[i] ELSE debugger[i - Len(com2)]
    BY <1>1, ConcatProperties DEF Chars
  <1>4. \A i \in 1 .. Len(Chars) : Chars[i] # "$"
    <2> TAKE i \in 1 .. Len(Chars)
    <2>1. b + i \in 1 .. Len(d) + 3
      BY <1>1, <1>2, <1>3
    <2> QED BY <1>1, <2>1, RestFacts
  <1>5. \A i \in 1 .. Len(com2) : com2[i] # "$"
    <2> TAKE i \in 1 .. Len(com2)
    <2>1. i \in 1 .. Len(com2) + Len(debugger) /\ i <= Len(com2) /\ i \in 1 .. Len(Chars)
      BY <1>3
    <2> QED BY <1>3, <1>4, <2>1
  <1>6. \A i \in 1 .. Len(debugger) : debugger[i] # "$"
    <2> TAKE i \in 1 .. Len(debugger)
    <2> DEFINE m == Len(com2) + i
    <2>1. m \in 1 .. Len(com2) + Len(debugger) /\ ~(m <= Len(com2)) /\ m - Len(com2) = i
          /\ m \in 1 .. Len(Chars)
      BY <1>3
    <2> HIDE DEF m
    <2> QED BY <1>3, <1>4, <2>1
  <1>7. ASSUME com2 # << >>
        PROVE  /\ b < Len(d) => Head(com2) = d[b + 1]
               /\ b < Len(d) => Head(com2) # "#"
               /\ b = Len(d) => Head(com2) = "#"
    <2>1. Len(com2) > 0 /\ Head(com2) = com2[1]
      BY <1>1, <1>7
    <2>2. 1 \in 1 .. Len(com2) + Len(debugger) /\ 1 <= Len(com2) /\ 1 \in 1 .. Len(Chars)
      BY <1>3, <2>1
    <2>3. Head(com2) = Rest(d)[b + 1]
      BY <1>1, <1>3, <2>1, <2>2
    <2>4. b + 1 \in 1 .. Len(d) + 3 /\ (b < Len(d) => b + 1 <= Len(d))
          /\ (b = Len(d) => b + 1 = Len(d) + 1)
      BY <1>2
    <2> QED BY <2>3, <2>4, RestFacts
  <1> QED BY <1>1, <1>2, <1>5, <1>6, <1>7 DEF b

(* The end of a packet. *)
LEMMA PacketEnds ==
    ASSUME KshellInv, NEW d \in Data, acks + 1 = Len(gdb_sent), d = gdb_sent[acks + 1],
           NEW s \in Seq(Char), gdb_handle_packet(s), pkt_buf = Cut(d),
           d = << >> <=> pkt_buf = << >>,
           \A i \in 1 .. Len(s) : s[i] # "$", \A i \in 1 .. Len(debugger) : debugger[i] # "$"
    PROVE  KshellInv'
  <1>1. /\ KshellTypeOK /\ acks \in Nat /\ pkt_buf \in Seq(Char) /\ handled \in Seq(Seq(Char))
        /\ com2' = AfterSum(s) /\ acks' = acks + 1
        /\ handled' = IF pkt_buf = << >> THEN handled ELSE Append(handled, pkt_buf)
        /\ UNCHANGED <<debugger, pkt_buf, gdb_sent>>
    BY DEF gdb_handle_packet, KshellInv, KshellTypeOK
  <1>2. kshell_at' = "idle"
    BY DEF gdb_handle_packet
  <1>3. com2' \in Seq(Char) /\ \A i \in DOMAIN Chars' : Chars'[i] # "$"
    BY <1>1, SumTaken
  <1>4. acks' = Len(gdb_sent') /\ Quiet'
    BY <1>1, <1>2, <1>3 DEF Quiet
  <1>5. \A m : Full(m)' = Full(m)
    BY <1>1 DEF Full
  <1>6. Len(handled) = Cardinality(Full(acks)) /\ \A k \in DOMAIN handled : HandledOf(k)
    BY DEF KshellInv
  <1>7. Cardinality(Full(acks + 1)) = IF d # << >> THEN Len(handled) + 1 ELSE Len(handled)
    BY <1>1, <1>6, FullCount
  <1>8. /\ handled' \in Seq(Seq(Char)) /\ Len(handled') = Cardinality(Full(acks + 1))
        /\ \A k \in DOMAIN handled' :
              \/ k \in DOMAIN handled /\ handled'[k] = handled[k]
              \/ d # << >> /\ handled'[k] = pkt_buf /\ k = Len(handled) + 1
    <2>1. CASE pkt_buf = << >>
      BY <1>1, <1>7, <2>1
    <2>2. CASE pkt_buf # << >>
      <3>1. handled' = Append(handled, pkt_buf)
        BY <1>1, <2>2
      <3>2. /\ handled' \in Seq(Seq(Char)) /\ Len(handled') = Len(handled) + 1
            /\ DOMAIN handled' = 1 .. Len(handled) + 1 /\ handled'[Len(handled) + 1] = pkt_buf
            /\ DOMAIN handled = 1 .. Len(handled) /\ Len(handled) \in Nat
            /\ \A k \in 1 .. Len(handled) : handled'[k] = handled[k]
        BY <1>1, <3>1
      <3> QED BY <1>7, <2>2, <3>2
    <2> QED BY <2>1, <2>2
  <1>9. \A k \in DOMAIN handled' : HandledOf(k)'
    <2> TAKE k \in DOMAIN handled'
    <2>1. CASE k \in DOMAIN handled /\ handled'[k] = handled[k]
      <3>1. PICK i \in 1 .. acks : /\ gdb_sent[i] # << >> /\ handled[k] = Cut(gdb_sent[i])
                                   /\ Cardinality(Full(i)) = k
        BY <1>6, <2>1 DEF HandledOf
      <3>2. i \in 1 .. acks'
        BY <1>1
      <3> QED BY <1>1, <1>5, <2>1, <3>1, <3>2 DEF HandledOf
    <2>2. CASE d # << >> /\ handled'[k] = pkt_buf /\ k = Len(handled) + 1
      <3>1. PICK i : i = acks + 1
        OBVIOUS
      <3>2. i \in 1 .. acks' /\ gdb_sent'[i] = d
        BY <1>1, <3>1
      <3>3. Cardinality(Full(i)') = k
        BY <1>5, <1>7, <2>2, <3>1
      <3>4. handled'[k] = Cut(gdb_sent'[i]) /\ gdb_sent'[i] # << >>
        BY <2>2, <3>2
      <3> QED BY <3>2, <3>3, <3>4 DEF HandledOf
    <2> QED BY <1>8, <2>1, <2>2
  <1>10. KshellTypeOK'
    BY <1>1, <1>3, <1>8 DEF KshellTypeOK
  <1>11. Len(handled') = Cardinality(Full(acks)')
    BY <1>1, <1>5, <1>8 DEF Full
  <1> QED BY <1>4, <1>9, <1>10, <1>11 DEF KshellInv

LEMMA ReceiveInv == ASSUME KshellInv, gdb_recv_packet PROVE KshellInv'
  <1> DEFINE d == gdb_sent[acks + 1]
             b == Len(pkt_buf)
  <1>1. KshellTypeOK /\ kshell_at = "in packet"
    BY DEF gdb_recv_packet, KshellInv
  <1>2. acks + 1 = Len(gdb_sent) /\ Within(d)
    BY <1>1 DEF KshellInv, Quiet, Ahead
  <1>3. /\ acks \in Nat /\ gdb_sent \in Seq(Data) /\ com2 \in Seq(Char) /\ pkt_buf \in Seq(Char)
        /\ MaxLen \in Nat /\ MaxLen > 1 /\ b \in Nat
    <2>1. /\ acks \in Nat /\ gdb_sent \in Seq(Data) /\ com2 \in Seq(Char)
          /\ pkt_buf \in Seq(Char)
      BY <1>1 DEF KshellTypeOK
    <2>2. MaxLen \in Nat \ {0, 1}
      BY DebugShellAssumption
    <2>3. MaxLen \in Nat /\ MaxLen > 1
      BY <2>2
    <2> QED BY <2>1, <2>3
  <1>4. d \in Data
    <2>1. acks + 1 \in 1 .. Len(gdb_sent)
      BY <1>2, <1>3
    <2> QED BY <1>3, <2>1
  <1> HIDE DEF d
  <1>5. /\ b \in 0 .. Len(d) /\ b <= MaxLen - 1 /\ Len(d) \in Nat
        /\ \A i \in 1 .. Len(com2) : com2[i] # "$"
        /\ \A i \in 1 .. Len(debugger) : debugger[i] # "$"
        /\ com2 # << >> => /\ b < Len(d) => Head(com2) = d[b + 1]
                           /\ b < Len(d) => Head(com2) # "#"
                           /\ b = Len(d) => Head(com2) = "#"
    BY <1>1, <1>2, <1>4, WithinFacts
  <1>6. \A i \in 1 .. b : pkt_buf[i] = d[i]
    BY <1>2 DEF Within
  <1>7. d \in Seq(Char)
    BY <1>4, RestFacts
  <1>8. CASE b = MaxLen - 1 /\ gdb_handle_packet(com2)
    <2>1. pkt_buf = Cut(d)
      <3>1. CASE Len(d) < MaxLen
        <4>1. b = Len(d)
          BY <1>3, <1>5, <1>8, <3>1
        <4>2. pkt_buf = d
          BY <1>3, <1>6, <1>7, <4>1, SeqEqual
        <4> QED BY <3>1, <4>2 DEF Cut
      <3>2. CASE ~(Len(d) < MaxLen)
        <4> DEFINE c == SubSeq(d, 1, MaxLen - 1)
        <4>1. MaxLen - 1 \in 0 .. Len(d) /\ 1 \in 1 .. Len(d) + 1 /\ 1 <= (MaxLen - 1) + 1
          BY <1>3, <1>5, <3>2
        <4>2. /\ c \in Seq(Char) /\ Len(c) = MaxLen - 1
              /\ \A i \in 1 .. MaxLen - 1 : c[i] = d[i]
          BY <1>3, <1>7, <4>1
        <4> HIDE DEF c
        <4>3. pkt_buf = c
          BY <1>3, <1>6, <1>8, <4>2, SeqEqual
        <4> QED BY <3>2, <4>3 DEF Cut, c
      <3> QED BY <3>1, <3>2
    <2>2. pkt_buf # << >> /\ d # << >>
      <3>1. b > 0 /\ Len(d) > 0
        BY <1>3, <1>5, <1>8
      <3> QED BY <3>1
    <2> QED BY <1>2, <1>3, <1>4, <1>5, <1>8, <2>1, <2>2, PacketEnds DEF d
  <1>9. CASE b < MaxLen - 1 /\ com2 # << >> /\ Head(com2) = "#" /\ gdb_handle_packet(Tail(com2))
    <2>1. b = Len(d)
      BY <1>5, <1>9
    <2>2. pkt_buf = d
      BY <1>3, <1>6, <1>7, <2>1, SeqEqual
    <2>3. pkt_buf = Cut(d)
      <3>1. Len(d) < MaxLen
        BY <1>3, <1>9, <2>1
      <3> QED BY <2>2, <3>1 DEF Cut
    <2>4. Tail(com2) \in Seq(Char) /\ \A i \in 1 .. Len(Tail(com2)) : Tail(com2)[i] # "$"
      <3>1. /\ Tail(com2) \in Seq(Char) /\ Len(Tail(com2)) = Len(com2) - 1 /\ Len(com2) \in Nat
            /\ \A i \in 1 .. Len(com2) - 1 : Tail(com2)[i] = com2[i + 1]
        BY <1>3, <1>9
      <3>2. \A i \in 1 .. Len(com2) - 1 : i + 1 \in 1 .. Len(com2)
        BY <3>1
      <3> QED BY <1>5, <3>1, <3>2
    <2>5. gdb_handle_packet(Tail(com2))
      BY <1>9
    <2> QED BY <1>2, <1>4, <1>5, <2>2, <2>3, <2>4, <2>5, PacketEnds DEF d
  <1>10. CASE /\ b < MaxLen - 1 /\ com2 # << >> /\ Head(com2) # "#"
              /\ pkt_buf' = Append(pkt_buf, Head(com2)) /\ com2' = Tail(com2)
              /\ UNCHANGED <<kshell_at, guiVars, debugger, gdb_sent, handled, acks>>
    <2>0. /\ UNCHANGED <<kshell_at, debugger, gdb_sent, handled, acks>>
          /\ com2' = Tail(com2) /\ com2 # << >> /\ Head(com2) # "#" /\ b < MaxLen - 1
          /\ pkt_buf' = Append(pkt_buf, Head(com2))
      BY <1>10
    <2>1. b < Len(d) /\ Head(com2) = d[b + 1]
      BY <1>3, <1>5, <2>0
    <2>2. /\ com2' \in Seq(Char) /\ Len(Chars) > 0
          /\ Head(com2) \in Char
          /\ Len(Chars') = Len(Chars) - 1
          /\ \A i \in 1 .. Len(Chars) - 1 : Chars'[i] = Chars[i + 1]
      BY <1>1, <2>0, CharTaken
    <2>3. /\ pkt_buf' \in Seq(Char) /\ Len(pkt_buf') = b + 1 /\ pkt_buf'[b + 1] = Head(com2)
          /\ \A i \in 1 .. b : pkt_buf'[i] = pkt_buf[i]
      BY <1>3, <2>0, <2>2
    <2>4. KshellTypeOK'
      BY <1>1, <2>0, <2>2, <2>3 DEF KshellTypeOK
    <2>5. /\ Len(Chars) + b = Len(d) + 3
          /\ \A i \in 1 .. Len(Chars) : Chars[i] = Rest(d)[b + i]
      BY <1>2 DEF Within
    <2>6. Len(Chars) \in Nat
      <3>1. debugger \in Seq(Char)
        BY <1>1 DEF KshellTypeOK
      <3> QED BY <1>3, <3>1 DEF Chars
    <2>7. Len(Chars') + Len(pkt_buf') = Len(d) + 3 /\ Len(pkt_buf') <= MaxLen - 1
          /\ Len(pkt_buf') <= Len(d)
      <3>1. MaxLen \in Nat /\ b \in Nat /\ Len(d) \in Nat /\ b < MaxLen - 1 /\ b < Len(d)
        BY <1>3, <1>5, <2>0, <2>1
      <3>2. Len(pkt_buf') = b + 1 /\ Len(Chars') = Len(Chars) - 1 /\ Len(Chars) + b = Len(d) + 3
        BY <2>2, <2>3, <2>5
      <3> HIDE DEF b
      <3> QED BY <2>6, <3>1, <3>2
    <2>8. \A i \in 1 .. Len(pkt_buf') : pkt_buf'[i] = d[i]
      <3> TAKE i \in 1 .. Len(pkt_buf')
      <3>1. CASE i = b + 1
        BY <2>1, <2>3, <3>1
      <3>2. CASE i \in 1 .. b
        BY <1>6, <2>3, <3>2
      <3> QED BY <1>3, <2>3, <3>1, <3>2
    <2>9. \A i \in 1 .. Len(Chars') : Chars'[i] = Rest(d)[Len(pkt_buf') + i]
      <3> TAKE i \in 1 .. Len(Chars')
      <3>1. i \in 1 .. Len(Chars) - 1 /\ i + 1 \in 1 .. Len(Chars)
            /\ b + (i + 1) = Len(pkt_buf') + i
        BY <1>3, <2>2, <2>3, <2>6
      <3>2. Chars'[i] = Chars[i + 1]
        BY <2>2, <3>1
      <3>3. Chars[i + 1] = Rest(d)[b + (i + 1)]
        BY <2>5, <3>1
      <3> QED BY <3>1, <3>2, <3>3
    <2>10. d' = d /\ kshell_at' = "in packet"
      BY <1>1, <2>0 DEF d
    <2>11. Within(d)'
      BY <2>7, <2>8, <2>9, <2>10 DEF Within
    <2> QED BY <1>2, <2>0, <2>4, <2>11, HistoryKept DEF KshellInv, d
  <1> QED BY <1>8, <1>9, <1>10 DEF gdb_recv_packet

LEMMA KshellInvHolds == KshellSpec => []KshellInv
  <1>1. ASSUME KshellInit PROVE KshellInv
    <2>1. /\ kshell_at = "settling" /\ com2 = << >> /\ debugger = << >> /\ pkt_buf = << >>
          /\ gdb_sent = << >> /\ handled = << >> /\ acks = 0
      BY <1>1 DEF KshellInit
    <2>2. KshellTypeOK
      BY <2>1, EmptySeq DEF KshellTypeOK
    <2>3. Chars = << >>
      <3>1. << >> \o << >> = << >>
        BY EmptySeq, ConcatEmptySeq
      <3> QED BY <2>1, <3>1 DEF Chars
    <2>4. DOMAIN Chars = {} /\ DOMAIN handled = {} /\ Len(handled) = 0 /\ Len(gdb_sent) = 0
      BY <2>1, <2>3
    <2>5. Quiet
      BY <2>1, <2>4 DEF Quiet
    <2>6. Cardinality(Full(acks)) = 0
      BY <2>1, FullCount, FS_EmptySet
    <2>7. acks = Len(gdb_sent)
      BY <2>1, <2>4
    <2> QED BY <2>2, <2>4, <2>5, <2>6, <2>7 DEF KshellInv
  <1>2. ASSUME KshellInv, [KshellNext]_kshellVars PROVE KshellInv'
    <2>1. ASSUME UNCHANGED packetVars, kshell_at # "in packet", kshell_at' # "in packet"
          PROVE  KshellInv'
      <3>1. UNCHANGED <<com2, debugger, pkt_buf, gdb_sent, handled, acks>>
        BY <2>1 DEF packetVars
      <3>2. Chars' = Chars
        BY <3>1 DEF Chars
      <3>3. /\ Quiet' <=> Quiet
            /\ Ahead(gdb_sent[acks + 1])' <=> Ahead(gdb_sent[acks + 1])
            /\ ~ Within(gdb_sent[acks + 1])
        BY <2>1, <3>1, <3>2 DEF Quiet, Ahead, Within
      <3>4. KshellTypeOK'
        BY <1>2, <3>1 DEF KshellInv, KshellTypeOK
      <3>5. /\ Len(handled') = Cardinality(Full(acks)')
            /\ \A k \in DOMAIN handled' : HandledOf(k)'
        BY <1>2, <3>1, HistoryKept
      <3>6. \/ acks = Len(gdb_sent) /\ Quiet
            \/ /\ acks + 1 = Len(gdb_sent)
               /\ Ahead(gdb_sent[acks + 1]) \/ Within(gdb_sent[acks + 1])
        BY <1>2 DEF KshellInv
      <3>7. \/ acks' = Len(gdb_sent)' /\ Quiet'
            \/ /\ acks' + 1 = Len(gdb_sent)'
               /\ Ahead(gdb_sent[acks + 1])' \/ Within(gdb_sent[acks + 1])'
        BY <3>1, <3>3, <3>6
      <3> QED BY <3>4, <3>5, <3>7 DEF KshellInv
    <2>2. ASSUME UNCHANGED packetVars, kshell_at' = kshell_at PROVE KshellInv'
      <3>1. UNCHANGED <<com2, debugger, pkt_buf, gdb_sent, handled, acks>>
        BY <2>2 DEF packetVars
      <3>2. Chars' = Chars
        BY <3>1 DEF Chars
      <3>3. /\ Quiet' <=> Quiet
            /\ Ahead(gdb_sent[acks + 1])' <=> Ahead(gdb_sent[acks + 1])
            /\ Within(gdb_sent[acks + 1])' <=> Within(gdb_sent[acks + 1])
        BY <2>2, <3>1, <3>2 DEF Quiet, Ahead, Within
      <3>4. KshellTypeOK'
        BY <1>2, <3>1 DEF KshellInv, KshellTypeOK
      <3>5. /\ Len(handled') = Cardinality(Full(acks)')
            /\ \A k \in DOMAIN handled' : HandledOf(k)'
        BY <1>2, <3>1, HistoryKept
      <3>6. \/ acks = Len(gdb_sent) /\ Quiet
            \/ /\ acks + 1 = Len(gdb_sent)
               /\ Ahead(gdb_sent[acks + 1]) \/ Within(gdb_sent[acks + 1])
        BY <1>2 DEF KshellInv
      <3>7. \/ acks' = Len(gdb_sent)' /\ Quiet'
            \/ /\ acks' + 1 = Len(gdb_sent)'
               /\ Ahead(gdb_sent[acks + 1])' \/ Within(gdb_sent[acks + 1])'
        BY <3>1, <3>3, <3>6
      <3> QED BY <3>4, <3>5, <3>7 DEF KshellInv
    <2>3. CASE kshell_init
      <3>1. UNCHANGED packetVars /\ kshell_at # "in packet" /\ kshell_at' # "in packet"
        BY <2>3 DEF kshell_init
      <3> QED BY <2>1, <3>1
    <2>4. CASE Connects
      BY <2>2, <2>4 DEF Connects
    <2>5. CASE kshell_boot_electron
      <3>1. /\ UNCHANGED packetVars
            /\ kshell_at # "in packet" /\ kshell_at' # "in packet"
        BY <2>5 DEF kshell_boot_electron
      <3> QED BY <2>1, <3>1
    <2>6. ASSUME NEW d \in Data, Sends(d) PROVE KshellInv'
      BY <1>2, <2>6, SendsInv
    <2>7. CASE CharArrives
      BY <1>2, <2>7, ArrivesInv
    <2>8. CASE FindStart
      BY <1>2, <2>8, FindStartInv
    <2>9. CASE gdb_recv_packet
      BY <1>2, <2>9, ReceiveInv
    <2>10. CASE UNCHANGED kshellVars
      BY <2>2, <2>10 DEF kshellVars, packetVars
    <2> QED BY <1>2, <2>3, <2>4, <2>5, <2>6, <2>7, <2>8, <2>9, <2>10 DEF KshellNext
  <1> QED BY <1>1, <1>2, PTL DEF KshellSpec

LEMMA KshellInvImplies == ASSUME KshellInv PROVE PacketsHandled
  <1>1. acks \in Nat /\ gdb_sent \in Seq(Data) /\ Len(gdb_sent) \in Nat
        /\ DOMAIN gdb_sent = 1 .. Len(gdb_sent)
    BY DEF KshellInv, KshellTypeOK
  <1>2. acks <= Len(gdb_sent)
    <2>1. acks = Len(gdb_sent) \/ acks + 1 = Len(gdb_sent)
      BY DEF KshellInv
    <2>2. \A a, n \in Nat : a = n \/ a + 1 = n => a <= n
      OBVIOUS
    <2>3. acks \in Nat /\ Len(gdb_sent) \in Nat
      BY <1>1
    <2> QED BY <2>1, <2>2, <2>3
  <1>3. ASSUME NEW k \in DOMAIN handled
        PROVE  \E i \in DOMAIN gdb_sent :
                 /\ gdb_sent[i] # << >> /\ handled[k] = Cut(gdb_sent[i])
                 /\ Cardinality({j \in 1 .. i : gdb_sent[j] # << >>}) = k
    <2>1. PICK i \in 1 .. acks : /\ gdb_sent[i] # << >> /\ handled[k] = Cut(gdb_sent[i])
                                 /\ Cardinality(Full(i)) = k
      BY DEF KshellInv, HandledOf
    <2>2. i \in DOMAIN gdb_sent
      BY <1>1, <1>2
    <2> QED BY <2>1, <2>2 DEF Full
  <1> QED BY <1>2, <1>3 DEF PacketsHandled

-----------------------------------------------------------------------------
(* The pointer.  The bytes on the wire are the mouse's and the keyboard's,
   each in its own order.  P are the packets sent and K the keys.           *)

Sent == [aux : BOOLEAN, b : Byte]

(* A byte b that is the n-th the mouse has sent: two answers, then packets of
   three.                                                                   *)
FromMouse(P, b, n) ==
    /\ n <= 2 => b = Ack
    /\ \A p \in 1 .. Len(P), j \in 1 .. 3 : n = 3 * p - 1 + j => b = P[p][j]

(* One byte more, of the mouse or of the keyboard: m0 and k0 of each were
   before it, m1 and k1 with it.                                            *)
Counted(P, K, e, m0, k0, m1, k1) ==
    IF e.aux THEN m1 = m0 + 1 /\ k1 = k0 /\ FromMouse(P, e.b, m1)
    ELSE m1 = m0 /\ k1 = k0 + 1 /\ k1 <= Len(K) /\ e.b = K[k1]

(* The bytes of w are those after the first r of the mouse's up to the s-th,
   and those after the first t of the keyboard's up to the u-th.            *)
Mixed(P, K, w, r, t, s, u) ==
    \E m, k \in [0 .. Len(w) -> Nat] :
       /\ m[0] = r /\ k[0] = t /\ m[Len(w)] = s /\ k[Len(w)] = u
       /\ \A i \in 0 .. Len(w) : m[i] <= s /\ k[i] <= u
       /\ \A i \in 1 .. Len(w) : Counted(P, K, w[i], m[i - 1], k[i - 1], m[i], k[i])

MouseRead == IF ps2_stage = "defaults" THEN 0 ELSE IF ps2_stage = "stream" THEN 1
             ELSE 2 + 3 * Len(moved) + Len(g_mouse_packet)
MouseSent == IF ps2_stage = "defaults" THEN 1 - unanswered
             ELSE 2 - unanswered + 3 * Len(packets)

Ps2TypeOK ==
    /\ wire \in Seq(Sent) /\ g_mouse_packet \in Seq(Byte) /\ Len(g_mouse_packet) <= 2
    /\ packets \in Seq(MousePacket) /\ moved \in Seq(Seq(Byte))
    /\ keys \in Seq(Byte) /\ typed \in Seq(Byte)
    /\ unanswered \in Nat /\ ps2_stage \in {"defaults", "stream", "polling"}
    /\ clean \in BOOLEAN

OnScreen == g_mouse.x \in 0 .. ScreenW - 1 /\ g_mouse.y \in 0 .. ScreenH - 1

(* What was read is what was sent, as far as it goes. *)
MadeOut ==
    /\ Len(moved) <= Len(packets) /\ \A i \in 1 .. Len(moved) : moved[i] = packets[i]
    /\ g_mouse_packet # << >> => Len(moved) < Len(packets)
    /\ \A j \in 1 .. Len(g_mouse_packet) : g_mouse_packet[j] = packets[Len(moved) + 1][j]

Typed == Len(typed) <= Len(keys) /\ \A i \in 1 .. Len(typed) : typed[i] = keys[i]

SetUp ==
    /\ ps2_stage = "defaults" => packets = << >>
    /\ unanswered > 0 => packets = << >>
    /\ unanswered <= 1
    /\ ps2_stage # "polling" => moved = << >> /\ g_mouse_packet = << >>

InStep == /\ SetUp /\ MadeOut /\ Typed
          /\ Mixed(packets, keys, wire, MouseRead, Len(typed), MouseSent, Len(keys))

Ps2Inv == /\ Ps2TypeOK /\ OnScreen
          /\ g_shift_state => Down # {}
          /\ clean => InStep

(* The first byte of the wire. *)
LEMMA HeadCounted ==
    ASSUME NEW P, NEW K, NEW w \in Seq(Sent), w # << >>,
           NEW r, NEW t, NEW s \in Nat, NEW u \in Nat, Mixed(P, K, w, r, t, s, u)
    PROVE  \E m1, k1 \in Nat :
              /\ Mixed(P, K, Tail(w), m1, k1, s, u)
              /\ Counted(P, K, Head(w), r, t, m1, k1)
              /\ m1 <= s /\ k1 <= u
  <1> DEFINE n == Len(w)
             C(e, m0, k0, m1, k1) == Counted(P, K, e, m0, k0, m1, k1)
  <1>1. PICK m \in [0 .. n -> Nat], k \in [0 .. n -> Nat] :
              /\ m[0] = r /\ k[0] = t /\ m[n] = s /\ k[n] = u
              /\ \A i \in 0 .. n : m[i] <= s /\ k[i] <= u
              /\ \A i \in 1 .. n : C(w[i], m[i - 1], k[i - 1], m[i], k[i])
    BY DEF Mixed
  <1>2. /\ n \in Nat /\ n > 0 /\ Head(w) = w[1] /\ Tail(w) \in Seq(Sent) /\ Len(Tail(w)) = n - 1
        /\ \A i \in 1 .. n - 1 : Tail(w)[i] = w[i + 1]
    OBVIOUS
  <1> DEFINE mm == [i \in 0 .. n - 1 |-> m[i + 1]]
             kk == [i \in 0 .. n - 1 |-> k[i + 1]]
  <1> HIDE DEF n, C
  <1>3. /\ mm \in [0 .. n - 1 -> Nat] /\ kk \in [0 .. n - 1 -> Nat]
        /\ mm[0] = m[1] /\ kk[0] = k[1] /\ mm[n - 1] = s /\ kk[n - 1] = u
        /\ \A i \in 0 .. n - 1 : mm[i] = m[i + 1] /\ kk[i] = k[i + 1] /\ mm[i] <= s /\ kk[i] <= u
    <2>1. \A i \in 0 .. n - 1 : i + 1 \in 0 .. n
      BY <1>2
    <2>2. 0 \in 0 .. n - 1 /\ n - 1 \in 0 .. n - 1 /\ (n - 1) + 1 = n
      BY <1>2
    <2>3. \A i \in 0 .. n - 1 : mm[i] = m[i + 1] /\ kk[i] = k[i + 1]
      OBVIOUS
    <2>4. mm \in [0 .. n - 1 -> Nat] /\ kk \in [0 .. n - 1 -> Nat]
      BY <2>1
    <2> HIDE DEF mm, kk
    <2>5. mm[0] = m[1] /\ kk[0] = k[1] /\ mm[n - 1] = s /\ kk[n - 1] = u
      BY <1>1, <2>2, <2>3
    <2>6. \A i \in 0 .. n - 1 : mm[i] <= s /\ kk[i] <= u
      BY <1>1, <2>1, <2>3
    <2> QED BY <2>3, <2>4, <2>5, <2>6
  <1> HIDE DEF mm, kk
  <1>4. ASSUME NEW i \in 1 .. n - 1
        PROVE  C(Tail(w)[i], mm[i - 1], kk[i - 1], mm[i], kk[i])
    <2>1. i + 1 \in 1 .. n /\ (i + 1) - 1 = i /\ i \in 0 .. n - 1 /\ i - 1 \in 0 .. n - 1
          /\ (i - 1) + 1 = i
      BY <1>2
    <2>2. C(w[i + 1], m[i], k[i], m[i + 1], k[i + 1])
      BY <1>1, <2>1
    <2>3. mm[i - 1] = m[i] /\ kk[i - 1] = k[i] /\ mm[i] = m[i + 1] /\ kk[i] = k[i + 1]
      BY <1>3, <2>1
    <2> QED BY <1>2, <2>2, <2>3
  <1>5. Mixed(P, K, Tail(w), m[1], k[1], s, u)
    <2>1. \A i \in 1 .. n - 1 : Counted(P, K, Tail(w)[i], mm[i - 1], kk[i - 1], mm[i], kk[i])
      BY <1>4 DEF C
    <2> QED BY <1>2, <1>3, <2>1, ZenonT(30) DEF Mixed
  <1>6. m[1] \in Nat /\ k[1] \in Nat /\ m[1] <= s /\ k[1] <= u
    <2>1. 1 \in 0 .. n
      BY <1>2
    <2> QED BY <1>1, <2>1
  <1>7. Counted(P, K, Head(w), r, t, m[1], k[1])
    <2>1. 1 \in 1 .. n /\ 1 - 1 = 0
      BY <1>2
    <2>2. C(w[1], m[0], k[0], m[1], k[1])
      BY <1>1, <2>1
    <2> QED BY <1>1, <1>2, <2>2 DEF C
  <1> QED BY <1>5, <1>6, <1>7

(* One byte more of the mouse's. *)
LEMMA MouseCounted ==
    ASSUME NEW P, NEW K, NEW w \in Seq(Sent), NEW e \in Sent, e.aux,
           NEW r, NEW t, NEW s \in Nat, NEW u \in Nat, Mixed(P, K, w, r, t, s, u),
           FromMouse(P, e.b, s + 1)
    PROVE  Mixed(P, K, Append(w, e), r, t, s + 1, u)
  <1> DEFINE n == Len(w)
             C(x, m0, k0, m1, k1) == Counted(P, K, x, m0, k0, m1, k1)
             z == Append(w, e)
  <1>1. PICK m \in [0 .. n -> Nat], k \in [0 .. n -> Nat] :
              /\ m[0] = r /\ k[0] = t /\ m[n] = s /\ k[n] = u
              /\ \A i \in 0 .. n : m[i] <= s /\ k[i] <= u
              /\ \A i \in 1 .. n : C(w[i], m[i - 1], k[i - 1], m[i], k[i])
    BY DEF Mixed
  <1>2. /\ n \in Nat /\ z \in Seq(Sent) /\ Len(z) = n + 1 /\ z[n + 1] = e
        /\ \A i \in 1 .. n : z[i] = w[i]
    OBVIOUS
  <1> DEFINE mm == [i \in 0 .. n + 1 |-> IF i = n + 1 THEN s + 1 ELSE m[i]]
             kk == [i \in 0 .. n + 1 |-> IF i = n + 1 THEN u ELSE k[i]]
  <1> HIDE DEF n, C, z
  <1>3. /\ mm \in [0 .. n + 1 -> Nat] /\ kk \in [0 .. n + 1 -> Nat]
        /\ \A i \in 0 .. n : mm[i] = m[i] /\ kk[i] = k[i]
        /\ mm[n + 1] = s + 1 /\ kk[n + 1] = u
    BY <1>2
  <1> HIDE DEF mm, kk
  <1>4. mm[0] = r /\ kk[0] = t /\ \A i \in 0 .. n + 1 : mm[i] <= s + 1 /\ kk[i] <= u
    <2>1. 0 \in 0 .. n
      BY <1>2
    <2>2. ASSUME NEW i \in 0 .. n + 1 PROVE mm[i] <= s + 1 /\ kk[i] <= u
      <3>1. i \in 0 .. n \/ i = n + 1
        BY <1>2
      <3>2. i \in 0 .. n => m[i] \in Nat /\ m[i] <= s /\ k[i] <= u
        BY <1>1
      <3> QED BY <1>3, <3>1, <3>2
    <2> QED BY <1>1, <1>3, <2>1, <2>2
  <1>5. ASSUME NEW i \in 1 .. n + 1
        PROVE  C(z[i], mm[i - 1], kk[i - 1], mm[i], kk[i])
    <2>1. CASE i \in 1 .. n
      <3>1. i \in 0 .. n /\ i - 1 \in 0 .. n
        BY <1>2, <2>1, SMTT(40)
      <3>2. mm[i - 1] = m[i - 1] /\ kk[i - 1] = k[i - 1] /\ mm[i] = m[i] /\ kk[i] = k[i]
        BY <1>3, <3>1
      <3> QED BY <1>1, <1>2, <2>1, <3>2
    <2>2. CASE i = n + 1
      <3>1. i - 1 = n /\ n \in 0 .. n
        BY <1>2, <2>2
      <3>2. mm[i - 1] = s /\ kk[i - 1] = u /\ mm[i] = s + 1 /\ kk[i] = u /\ z[i] = e
        BY <1>1, <1>2, <1>3, <2>2, <3>1
      <3> QED BY <3>2 DEF C, Counted
    <2> QED BY <1>2, <2>1, <2>2
  <1>6. \A i \in 1 .. n + 1 : Counted(P, K, z[i], mm[i - 1], kk[i - 1], mm[i], kk[i])
    BY <1>5 DEF C
  <1>7. Mixed(P, K, z, r, t, s + 1, u)
    <2>1. n + 1 = Len(z)
      BY <1>2
    <2>2. mm \in [0 .. Len(z) -> Nat] /\ kk \in [0 .. Len(z) -> Nat]
          /\ mm[Len(z)] = s + 1 /\ kk[Len(z)] = u
      BY <1>3, <2>1
    <2>3. /\ \A i \in 0 .. Len(z) : mm[i] <= s + 1 /\ kk[i] <= u
          /\ \A i \in 1 .. Len(z) : Counted(P, K, z[i], mm[i - 1], kk[i - 1], mm[i], kk[i])
      BY <1>4, <1>6, <2>1
    <2> QED BY <1>4, <2>2, <2>3, ZenonT(30) DEF Mixed
  <1> QED BY <1>7 DEF z

(* Another packet, which is not on the wire yet. *)
LEMMA PacketCounted ==
    ASSUME NEW P \in Seq(MousePacket), NEW p \in MousePacket, NEW K, NEW w \in Seq(Sent),
           NEW r, NEW t, NEW s \in Nat, NEW u \in Nat, Mixed(P, K, w, r, t, s, u),
           s <= 2 + 3 * Len(P)
    PROVE  /\ Mixed(Append(P, p), K, w, r, t, s, u)
           /\ \A j \in 1 .. 3 : FromMouse(Append(P, p), p[j], 2 + 3 * Len(P) + j)
  <1> DEFINE n == Len(w)
             Q == Append(P, p)
             l == Len(P)
             C(e, m0, k0, m1, k1) == Counted(P, K, e, m0, k0, m1, k1)
  <1>0. /\ l \in Nat /\ Len(Q) = l + 1 /\ Q[l + 1] = p
        /\ \A i \in 1 .. l : Q[i] = P[i]
    OBVIOUS
  <1>1. PICK m \in [0 .. n -> Nat], k \in [0 .. n -> Nat] :
              /\ m[0] = r /\ k[0] = t /\ m[n] = s /\ k[n] = u
              /\ \A i \in 0 .. n : m[i] <= s /\ k[i] <= u
              /\ \A i \in 1 .. n : C(w[i], m[i - 1], k[i - 1], m[i], k[i])
    BY DEF Mixed
  <1>2. n \in Nat
    OBVIOUS
  <1> HIDE DEF n, Q, l
  <1>3. ASSUME NEW b, NEW h \in Nat, h <= 2 + 3 * l, FromMouse(P, b, h) PROVE FromMouse(Q, b, h)
    <2>1. ASSUME NEW v \in 1 .. Len(Q), NEW j \in 1 .. 3, h = 3 * v - 1 + j PROVE b = Q[v][j]
      <3>1. v \in 1 .. l
        BY <1>0, <1>3, <2>1
      <3> QED BY <1>0, <1>3, <2>1, <3>1 DEF FromMouse, l
    <2> QED BY <1>3, <2>1 DEF FromMouse
  <1>4. ASSUME NEW i \in 1 .. n
        PROVE  Counted(Q, K, w[i], m[i - 1], k[i - 1], m[i], k[i])
    <2>1. C(w[i], m[i - 1], k[i - 1], m[i], k[i])
      BY <1>1
    <2>2. m[i] \in Nat /\ m[i] <= 2 + 3 * l
      <3>1. i \in 0 .. n
        BY <1>2
      <3>2. m[i] \in Nat /\ m[i] <= s
        BY <1>1, <3>1
      <3>3. s <= 2 + 3 * l
        BY DEF l
      <3> QED BY <1>0, <3>2, <3>3
    <2>3. w[i].aux => FromMouse(Q, w[i].b, m[i])
      BY <1>3, <2>1, <2>2 DEF Counted
    <2> QED BY <2>1, <2>3 DEF Counted
  <1>5. Mixed(Q, K, w, r, t, s, u)
    <2>1. \A i \in 1 .. Len(w) : Counted(Q, K, w[i], m[i - 1], k[i - 1], m[i], k[i])
      BY <1>4 DEF n
    <2> QED BY <1>1, <2>1, ZenonT(30) DEF Mixed, n
  <1>6. ASSUME NEW j \in 1 .. 3 PROVE FromMouse(Q, p[j], 2 + 3 * l + j)
    <2>1. ASSUME NEW v \in 1 .. Len(Q), NEW i \in 1 .. 3, 2 + 3 * l + j = 3 * v - 1 + i
          PROVE  p[j] = Q[v][i]
      <3>1. v = l + 1 /\ i = j
        BY <1>0, <2>1
      <3> QED BY <1>0, <3>1
    <2>2. ~(2 + 3 * l + j <= 2)
      BY <1>0
    <2> QED BY <2>1, <2>2 DEF FromMouse
  <1> QED BY <1>5, <1>6 DEF Q, l

(* What a sequence is with an element inserted. *)
WithAt(z, S, w, h, e) ==
    /\ z \in Seq(S) /\ Len(z) = Len(w) + 1
    /\ z[h] = e
    /\ \A i \in 1 .. h - 1 : z[i] = w[i]
    /\ \A i \in h + 1 .. Len(w) + 1 : z[i] = w[i - 1]

LEMMA Inserted ==
    ASSUME NEW S, NEW w \in Seq(S), NEW e \in S, NEW h \in 1 .. Len(w) + 1
    PROVE  WithAt(InsertAt(w, h, e), S, w, h, e)
  <1> DEFINE n == Len(w)
             a == SubSeq(w, 1, h - 1)
             x == <<e>>
             c == SubSeq(w, h, n)
             z == InsertAt(w, h, e)
  <1>1. n \in Nat /\ h \in Nat /\ h >= 1 /\ h <= n + 1
    OBVIOUS
  <1>2. a \in Seq(S) /\ Len(a) = h - 1 /\ \A i \in 1 .. h - 1 : a[i] = w[i]
    <2>1. h - 1 \in 0 .. n
      BY <1>1
    <2> HIDE DEF n
    <2>2. \A i \in 1 .. h - 1 : i \in 1 .. n
      BY <2>1, <1>1
    <2>3. \A i \in 1 .. h - 1 : w[i] \in S
      BY <2>2 DEF n
    <2>4. 1 \in Int /\ h - 1 \in Int
      BY <1>1
    <2>5. /\ a \in Seq(S) /\ Len(a) = IF 1 <= h - 1 THEN (h - 1) - 1 + 1 ELSE 0
          /\ \A i \in 1 .. (h - 1) - 1 + 1 : a[i] = w[1 + i - 1]
      BY <2>3, <2>4, SubSeqProperties
    <2> HIDE DEF a
    <2>6. Len(a) = h - 1
      BY <1>1, <2>5
    <2>7. ASSUME NEW i \in 1 .. h - 1 PROVE a[i] = w[i]
      <3>1. i \in 1 .. (h - 1) - 1 + 1 /\ 1 + i - 1 = i
        BY <1>1
      <3> QED BY <2>5, <3>1
    <2> QED BY <2>5, <2>6, <2>7
  <1>3. c \in Seq(S) /\ Len(c) = (n - h) + 1 /\ \A i \in 1 .. (n - h) + 1 : c[i] = w[(h + i) - 1]
    <2> HIDE DEF n
    <2>2. \A i \in h .. n : i \in 1 .. n
      BY <1>1
    <2>3. \A i \in h .. n : w[i] \in S
      BY <2>2 DEF n
    <2>4. h \in Int /\ n \in Int
      BY <1>1
    <2>5. /\ c \in Seq(S) /\ Len(c) = IF h <= n THEN n - h + 1 ELSE 0
          /\ \A i \in 1 .. n - h + 1 : c[i] = w[h + i - 1]
      BY <2>3, <2>4, SubSeqProperties
    <2> HIDE DEF c
    <2>6. Len(c) = (n - h) + 1
      BY <1>1, <2>5
    <2>7. ASSUME NEW i \in 1 .. (n - h) + 1 PROVE c[i] = w[(h + i) - 1]
      <3>1. i \in 1 .. n - h + 1 /\ h + i - 1 = (h + i) - 1
        BY <1>1
      <3> QED BY <2>5, <3>1
    <2> QED BY <2>5, <2>6, <2>7
  <1>4. x \in Seq(S) /\ Len(x) = 1 /\ x[1] = e
    OBVIOUS
  <1>5. z = (a \o x) \o c
    BY DEF InsertAt
  <1> HIDE DEF n, a, x, c, z
  <1>6. /\ a \o x \in Seq(S) /\ Len(a \o x) = h
        /\ \A i \in 1 .. h : (a \o x)[i] = IF i <= h - 1 THEN a[i] ELSE x[i - (h - 1)]
    <2>1. /\ a \o x \in Seq(S) /\ Len(a \o x) = Len(a) + Len(x)
          /\ \A i \in 1 .. Len(a) + Len(x) : (a \o x)[i] = IF i <= Len(a) THEN a[i]
                                                           ELSE x[i - Len(a)]
      BY <1>2, <1>4, ConcatProperties
    <2>2. Len(a) + Len(x) = h
      BY <1>1, <1>2, <1>4
    <2> QED BY <1>2, <2>1, <2>2
  <1>7. /\ z \in Seq(S) /\ Len(z) = n + 1
        /\ \A i \in 1 .. n + 1 : z[i] = IF i <= h THEN (a \o x)[i] ELSE c[i - h]
    <2> DEFINE y == a \o x
    <2>0. y \in Seq(S) /\ c \in Seq(S)
      BY <1>3, <1>6
    <2> HIDE DEF y
    <2>1. /\ y \o c \in Seq(S) /\ Len(y \o c) = Len(y) + Len(c)
          /\ \A i \in 1 .. Len(y) + Len(c) :
                (y \o c)[i] = IF i <= Len(y) THEN y[i] ELSE c[i - Len(y)]
      BY <2>0, ConcatProperties
    <2> USE DEF y
    <2>2. Len(a \o x) + Len(c) = n + 1
      BY <1>1, <1>3, <1>6
    <2> QED BY <1>5, <1>6, <2>1, <2>2
  <1>8. z[h] = e
    <2>1. h \in 1 .. n + 1 /\ h <= h /\ h \in 1 .. h /\ ~(h <= h - 1) /\ h - (h - 1) = 1
      BY <1>1
    <2> QED BY <1>4, <1>6, <1>7, <2>1
  <1>9. ASSUME NEW i \in 1 .. h - 1 PROVE z[i] = w[i]
    <2>1. i \in 1 .. n + 1 /\ i <= h /\ i \in 1 .. h /\ i <= h - 1
      BY <1>1
    <2> QED BY <1>2, <1>6, <1>7, <2>1
  <1>10. ASSUME NEW i \in h + 1 .. n + 1 PROVE z[i] = w[i - 1]
    <2>1. i \in 1 .. n + 1 /\ ~(i <= h) /\ i - h \in 1 .. (n - h) + 1 /\ (h + (i - h)) - 1 = i - 1
      BY <1>1
    <2>2. z[i] = c[i - h]
      BY <1>7, <2>1
    <2>3. c[i - h] = w[(h + (i - h)) - 1]
      BY <1>3, <2>1
    <2> QED BY <2>1, <2>2, <2>3
  <1>11. WithAt(z, S, w, h, e)
    <2>1. \A i \in h + 1 .. Len(w) + 1 : z[i] = w[i - 1]
      BY <1>10 DEF n
    <2>2. z \in Seq(S) /\ Len(z) = Len(w) + 1
      BY <1>7 DEF n
    <2> QED BY <1>8, <1>9, <2>1, <2>2 DEF WithAt
  <1> QED BY <1>11 DEF z

(* A key's byte, before the last of the mouse's. *)
LEMMA KeyCounted ==
    ASSUME NEW P, NEW K \in Seq(Byte), NEW c \in Byte, NEW w \in Seq(Sent),
           NEW r, NEW t, NEW s \in Nat, Mixed(P, K, w, r, t, s, Len(K)),
           NEW later \in 0 .. 2, later <= Len(w),
           \A i \in Len(w) - later + 1 .. Len(w) : w[i].aux
    PROVE  LET e == [aux |-> FALSE, b |-> c]
               z == InsertAt(w, Len(w) - later + 1, e)
           IN  z \in Seq(Sent) /\ Mixed(P, Append(K, c), z, r, t, s, Len(K) + 1)
  <1> DEFINE n == Len(w)
             u == Len(K)
             e == [aux |-> FALSE, b |-> c]
             h == (n - later) + 1
             z == InsertAt(w, n - later + 1, e)
             L == Append(K, c)
             C(x, m0, k0, m1, k1) == Counted(P, K, x, m0, k0, m1, k1)
  <1>1. PICK m \in [0 .. n -> Nat], k \in [0 .. n -> Nat] :
              /\ m[0] = r /\ k[0] = t /\ m[n] = s /\ k[n] = u
              /\ \A i \in 0 .. n : m[i] <= s /\ k[i] <= u
              /\ \A i \in 1 .. n : C(w[i], m[i - 1], k[i - 1], m[i], k[i])
    BY DEF Mixed
  <1>2. n \in Nat /\ u \in Nat /\ e \in Sent /\ e.aux = FALSE /\ e.b = c
    BY DEF Sent
  <1>3. /\ Len(L) = u + 1 /\ L[u + 1] = c /\ \A i \in 1 .. u : L[i] = K[i]
    OBVIOUS
  <1>4. \A i \in h .. n : w[i].aux
    <2>1. Len(w) - later + 1 = h
      BY <1>2
    <2> QED BY <2>1
  <1> HIDE DEF n, u, L, e, C
  <1>5. h \in 1 .. n + 1 /\ n - later + 1 = h /\ later <= n
    <2>1. later <= n
      BY DEF n
    <2> QED BY <1>2, <2>1
  <1>6. /\ z \in Seq(Sent) /\ Len(z) = n + 1 /\ z[h] = e
        /\ \A i \in 1 .. h - 1 : z[i] = w[i]
        /\ \A i \in h + 1 .. n + 1 : z[i] = w[i - 1]
    <2>1. z = InsertAt(w, h, e) /\ h \in 1 .. Len(w) + 1
      BY <1>5 DEF n
    <2> HIDE DEF z, h
    <2>2. e \in Sent /\ w \in Seq(Sent) /\ h \in 1 .. Len(w) + 1
      BY <1>2, <2>1
    <2>3. WithAt(InsertAt(w, h, e), Sent, w, h, e)
      BY <2>2, Inserted
    <2>4. WithAt(z, Sent, w, h, e)
      BY <2>1, <2>3
    <2> QED BY <2>4 DEF n, WithAt
  <1> HIDE DEF z
  <1>7. k[h - 1] = u
    <2>1. \A i \in h .. n : k[i] = k[i - 1]
      <3> TAKE i \in h .. n
      <3>1. i \in 1 .. n
        BY <1>2, <1>5
      <3> QED BY <1>1, <1>4, <3>1 DEF C, Counted
    <2>2. k[n] = u
      BY <1>1
    <2>3. CASE later = 0
      <3>1. h - 1 = n
        BY <1>2, <2>3
      <3> QED BY <2>2, <3>1
    <2>4. CASE later = 1
      <3>1. h = n /\ n \in h .. n /\ n - 1 = h - 1
        BY <1>2, <2>4
      <3> QED BY <2>1, <2>2, <3>1
    <2>5. CASE later = 2
      <3>1. n \in h .. n /\ n - 1 \in h .. n /\ (n - 1) - 1 = h - 1
        BY <1>2, <2>5
      <3> QED BY <2>1, <2>2, <3>1
    <2> QED BY <2>3, <2>4, <2>5
  <1> DEFINE mm == [i \in 0 .. n + 1 |-> IF i < h THEN m[i] ELSE m[i - 1]]
             kk == [i \in 0 .. n + 1 |-> IF i < h THEN k[i] ELSE k[i - 1] + 1]
  <1>8. \A i \in 0 .. n + 1 : /\ i < h => i \in 0 .. n
                              /\ ~(i < h) => i - 1 \in 0 .. n
    BY <1>2, <1>5
  <1> HIDE DEF h
  <1>9. /\ mm \in [0 .. n + 1 -> Nat] /\ kk \in [0 .. n + 1 -> Nat]
        /\ \A i \in 0 .. n + 1 : /\ mm[i] = IF i < h THEN m[i] ELSE m[i - 1]
                                 /\ kk[i] = IF i < h THEN k[i] ELSE k[i - 1] + 1
    <2>1. \A i \in 0 .. n : m[i] \in Nat /\ k[i] \in Nat /\ k[i] + 1 \in Nat
      BY <1>1
    <2> QED BY <1>8, <2>1
  <1> HIDE DEF mm, kk
  <1>10. mm[0] = r /\ kk[0] = t /\ mm[n + 1] = s /\ kk[n + 1] = u + 1
    <2>1. 0 \in 0 .. n + 1 /\ 0 < h /\ n + 1 \in 0 .. n + 1 /\ ~(n + 1 < h) /\ (n + 1) - 1 = n
      BY <1>2, <1>5
    <2> QED BY <1>1, <1>9, <2>1
  <1>11. \A i \in 0 .. n + 1 : mm[i] <= s /\ kk[i] <= u + 1
    <2> TAKE i \in 0 .. n + 1
    <2>1. \A j \in 0 .. n : k[j] \in Nat /\ m[j] <= s /\ k[j] <= u + 1 /\ k[j] + 1 <= u + 1
      BY <1>1, <1>2
    <2> QED BY <1>8, <1>9, <2>1
  <1>12. ASSUME NEW x, NEW m0, NEW k0, NEW m1, NEW k1 \in Nat, C(x, m0, k0, m1, k1),
                k0 \in Nat
         PROVE  /\ Counted(P, L, x, m0, k0, m1, k1)
                /\ x.aux => Counted(P, L, x, m0, k0 + 1, m1, k1 + 1)
    <2>1. ~x.aux => k1 = k0 + 1 /\ k1 <= u /\ x.b = K[k1] /\ m1 = m0
      BY <1>12 DEF C, Counted, u
    <2>2. ~x.aux => k1 <= u + 1 /\ K[k1] = L[k1]
      <3>1. ~x.aux => k1 \in 1 .. u
        BY <1>2, <1>12, <2>1
      <3> QED BY <1>2, <1>3, <1>12, <3>1
    <2>3. x.aux => m1 = m0 + 1 /\ k1 = k0 /\ FromMouse(P, x.b, m1)
      BY <1>12 DEF C, Counted
    <2> QED BY <1>3, <2>1, <2>2, <2>3 DEF Counted
  <1>13. ASSUME NEW i \in 1 .. n + 1
         PROVE  Counted(P, L, z[i], mm[i - 1], kk[i - 1], mm[i], kk[i])
    <2>0. i \in 0 .. n + 1 /\ i - 1 \in 0 .. n + 1
      BY <1>2
    <2>1. CASE i < h
      <3>1. i \in 1 .. h - 1 /\ i \in 1 .. n /\ i - 1 < h /\ i \in 0 .. n /\ i - 1 \in 0 .. n
        BY <1>2, <1>5, <2>1
      <3>2. mm[i - 1] = m[i - 1] /\ kk[i - 1] = k[i - 1] /\ mm[i] = m[i] /\ kk[i] = k[i]
        BY <1>9, <2>0, <2>1, <3>1
      <3>3. C(w[i], m[i - 1], k[i - 1], m[i], k[i]) /\ k[i] \in Nat /\ k[i - 1] \in Nat
        BY <1>1, <3>1
      <3>4. Counted(P, L, w[i], m[i - 1], k[i - 1], m[i], k[i])
        BY <1>12, <3>3
      <3>5. z[i] = w[i]
        BY <1>6, <3>1
      <3> QED BY <3>2, <3>4, <3>5
    <2>2. CASE i = h
      <3>1. ~(i < h) /\ i - 1 < h
        BY <1>5, <2>2
      <3>2. mm[i - 1] = m[i - 1] /\ kk[i - 1] = k[i - 1] /\ mm[i] = m[i - 1] /\ kk[i] = k[i - 1] + 1
        BY <1>9, <2>0, <3>1
      <3>3. kk[i - 1] = u /\ kk[i] = u + 1 /\ z[i] = e
        BY <1>6, <1>7, <2>2, <3>2
      <3>4. u + 1 <= u + 1
        BY <1>2
      <3> QED BY <1>2, <1>3, <3>2, <3>3, <3>4 DEF Counted
    <2>3. CASE i > h
      <3>1. /\ i \in h + 1 .. n + 1 /\ ~(i < h) /\ ~(i - 1 < h) /\ i - 1 \in 1 .. n
            /\ i - 1 \in h .. n /\ i - 1 \in 0 .. n /\ (i - 1) - 1 \in 0 .. n
        BY <1>2, <1>5, <2>3
      <3>2. mm[i - 1] = m[(i - 1) - 1] /\ kk[i - 1] = k[(i - 1) - 1] + 1
            /\ mm[i] = m[i - 1] /\ kk[i] = k[i - 1] + 1
        BY <1>9, <2>0, <3>1
      <3>3. C(w[i - 1], m[(i - 1) - 1], k[(i - 1) - 1], m[i - 1], k[i - 1])
            /\ k[i - 1] \in Nat /\ k[(i - 1) - 1] \in Nat /\ w[i - 1].aux
        BY <1>1, <1>4, <3>1
      <3>4. Counted(P, L, w[i - 1], m[(i - 1) - 1], k[(i - 1) - 1] + 1, m[i - 1], k[i - 1] + 1)
        BY <1>12, <3>3
      <3>5. z[i] = w[i - 1]
        BY <1>6, <3>1
      <3> QED BY <3>2, <3>4, <3>5
    <2> QED BY <1>2, <1>5, <2>1, <2>2, <2>3
  <1>14. Mixed(P, L, z, r, t, s, u + 1)
    <2>1. n + 1 = Len(z)
      BY <1>6
    <2>2. mm \in [0 .. Len(z) -> Nat] /\ kk \in [0 .. Len(z) -> Nat]
          /\ mm[Len(z)] = s /\ kk[Len(z)] = u + 1
      BY <1>9, <1>10, <2>1
    <2>3. /\ \A i \in 0 .. Len(z) : mm[i] <= s /\ kk[i] <= u + 1
          /\ \A i \in 1 .. Len(z) : Counted(P, L, z[i], mm[i - 1], kk[i - 1], mm[i], kk[i])
      BY <1>11, <1>13, <2>1
    <2> QED BY <1>10, <2>2, <2>3, ZenonT(30) DEF Mixed
  <1> QED BY <1>6, <1>14 DEF L, u, z, e, n

LEMMA MouseCounts ==
    ASSUME Ps2TypeOK
    PROVE  /\ ps2_stage = "defaults" => MouseRead = 0 /\ MouseSent = 1 - unanswered
           /\ ps2_stage = "stream" => MouseRead = 1
           /\ ps2_stage = "polling" => MouseRead = 2 + 3 * Len(moved) + Len(g_mouse_packet)
           /\ ps2_stage # "defaults" => MouseSent = 2 - unanswered + 3 * Len(packets)
           /\ Len(moved) \in Nat /\ Len(g_mouse_packet) \in Nat /\ Len(packets) \in Nat
           /\ Len(typed) \in Nat /\ Len(keys) \in Nat /\ unanswered \in Nat
           /\ SetUp => MouseSent \in Nat
  <1>1. /\ Len(moved) \in Nat /\ Len(g_mouse_packet) \in Nat /\ Len(packets) \in Nat
        /\ Len(typed) \in Nat /\ Len(keys) \in Nat /\ unanswered \in Nat
    BY DEF Ps2TypeOK
  <1>2. ASSUME SetUp PROVE MouseSent \in Nat
    <2>1. unanswered <= 1
      BY <1>2 DEF SetUp
    <2>2. 1 - unanswered \in Nat /\ 2 - unanswered + 3 * Len(packets) \in Nat
      BY <1>1, <2>1
    <2> QED BY <2>2 DEF MouseSent
  <1> QED BY <1>1, <1>2 DEF MouseRead, MouseSent

(* The packets and the keys are of bytes. *)
LEMMA PacketBytes ==
    ASSUME NEW p \in MousePacket
    PROVE  p \in Seq(Byte) /\ Len(p) = 3 /\ Bit(p[1], 3)
           /\ p \in [1 .. 3 -> Byte]
  <1>1. p \in [1 .. 3 -> Byte] /\ Bit(p[1], 3)
    BY Ps2Assumption
  <1>2. p \in Seq(Byte)
    <2>1. 3 \in Nat
      OBVIOUS
    <2>2. \E n \in Nat : p \in [1 .. n -> Byte]
      BY <1>1, <2>1
    <2> QED BY <2>2 DEF Seq
  <1>3. Len(p) = 3
    <2>1. DOMAIN p = 1 .. 3
      BY <1>1
    <2>2. DOMAIN p = 1 .. Len(p) /\ Len(p) \in Nat
      BY <1>2, LenProperties
    <2>3. \A n \in Nat : 1 .. n = 1 .. 3 => n = 3
      <3> TAKE n \in Nat
      <3> HAVE 1 .. n = 1 .. 3
      <3>1. 3 \in 1 .. n /\ (n \in 1 .. 3 \/ n = 0)
        OBVIOUS
      <3> QED BY <3>1
    <2>4. 1 .. Len(p) = 1 .. 3
      BY <2>1, <2>2
    <2> QED BY <2>2, <2>3, <2>4
  <1> QED BY <1>1, <1>2, <1>3

LEMMA AnswersInv == ASSUME Ps2Inv, MouseAnswers PROVE Ps2Inv'
  <1> DEFINE e == [aux |-> TRUE, b |-> Ack]
  <1>1. /\ Ps2TypeOK /\ unanswered > 0 /\ unanswered' = unanswered - 1
        /\ wire' = Append(wire, e)
        /\ UNCHANGED <<ps2_stage, g_mouse_packet, g_mouse, g_shift_state, packets, moved,
                       keys, typed, clean>>
    BY DEF MouseAnswers, Ps2Inv
  <1>2. e \in Sent /\ e.aux /\ e.b = Ack
    BY DEF Sent, Byte, Ack
  <1> HIDE DEF e
  <1>3. wire \in Seq(Sent) /\ wire' \in Seq(Sent) /\ unanswered \in Nat /\ unanswered' \in Nat
    <2>1. wire \in Seq(Sent) /\ unanswered \in Nat
      BY <1>1 DEF Ps2TypeOK
    <2> QED BY <1>1, <1>2, <2>1
  <1>4. Ps2TypeOK'
    BY <1>1, <1>3 DEF Ps2TypeOK
  <1>5. OnScreen' /\ (g_shift_state' => Down' # {})
    BY <1>1 DEF Ps2Inv, OnScreen, Down
  <1>6. ASSUME clean' PROVE InStep'
    <2>1. InStep
      BY <1>1, <1>6 DEF Ps2Inv
    <2>2. SetUp' /\ MadeOut' /\ Typed'
      <3>1. unanswered' <= 1
        BY <1>1, <1>3, <2>1 DEF InStep, SetUp
      <3>2. packets' = << >>
        BY <1>1, <2>1 DEF InStep, SetUp
      <3> QED BY <1>1, <2>1, <3>1, <3>2 DEF InStep, SetUp, MadeOut, Typed
    <2>3. MouseRead' = MouseRead /\ MouseSent' = MouseSent + 1 /\ MouseSent + 1 <= 2
          /\ MouseSent \in Nat
      <3>1. packets = << >> /\ Len(packets) = 0
        BY <1>1, <2>1 DEF InStep, SetUp
      <3>2. MouseRead' = MouseRead
        BY <1>1 DEF MouseRead
      <3>3. /\ ps2_stage = "defaults" => MouseSent = 1 - unanswered
            /\ ps2_stage # "defaults" => MouseSent = 2 - unanswered + 3 * Len(packets)
            /\ MouseSent \in Nat
        BY <1>1, <2>1, MouseCounts DEF InStep
      <3>4. /\ ps2_stage = "defaults" => MouseSent' = 1 - unanswered'
            /\ ps2_stage # "defaults" => MouseSent' = 2 - unanswered' + 3 * Len(packets)
        BY <1>1 DEF MouseSent
      <3>5. CASE ps2_stage = "defaults"
        <4>1. MouseSent = 1 - unanswered /\ MouseSent' = 1 - unanswered'
          BY <3>3, <3>4, <3>5
        <4> QED BY <1>1, <1>3, <3>2, <3>3, <4>1
      <3>6. CASE ps2_stage # "defaults"
        <4>1. MouseSent = 2 - unanswered /\ MouseSent' = 2 - unanswered'
          BY <1>3, <3>1, <3>3, <3>4, <3>6
        <4> QED BY <1>1, <1>3, <3>2, <3>3, <4>1
      <3> QED BY <3>5, <3>6
    <2>4. FromMouse(packets, e.b, MouseSent + 1)
      <3>1. packets = << >> /\ Len(packets) = 0
        BY <1>1, <2>1 DEF InStep, SetUp
      <3> QED BY <1>2, <3>1 DEF FromMouse
    <2>5. Len(keys) \in Nat
      BY <1>1, MouseCounts
    <2>6. Mixed(packets, keys, wire, MouseRead, Len(typed), MouseSent, Len(keys))
      BY <2>1 DEF InStep
    <2>7. Mixed(packets, keys, Append(wire, e), MouseRead, Len(typed), MouseSent + 1, Len(keys))
      BY <1>2, <1>3, <2>3, <2>4, <2>5, <2>6, MouseCounted
    <2>8. Mixed(packets', keys', wire', MouseRead', Len(typed'), MouseSent', Len(keys'))
      BY <1>1, <2>3, <2>7
    <2> QED BY <2>2, <2>8 DEF InStep
  <1> QED BY <1>4, <1>5, <1>6 DEF Ps2Inv

LEMMA ReadInv == ASSUME Ps2Inv, ps2_mouse_read PROVE Ps2Inv'
  <1>1. /\ Ps2TypeOK /\ ps2_stage # "polling"
        /\ ps2_stage' = IF ps2_stage = "defaults" THEN "stream" ELSE "polling"
        /\ UNCHANGED <<g_mouse_packet, g_mouse, g_shift_state, packets, moved, keys, typed>>
    BY DEF ps2_mouse_read, Ps2Inv
  <1>2. /\ wire = << >> => clean' = FALSE /\ wire' = wire
        /\ wire # << >> => /\ clean' = (clean /\ Head(wire) = [aux |-> TRUE, b |-> Ack])
                           /\ wire' = Tail(wire)
    BY DEF ps2_mouse_read
  <1>2a. unanswered' = IF ps2_stage = "defaults" THEN unanswered + 1 ELSE unanswered
    BY DEF ps2_mouse_read
  <1>3. wire \in Seq(Sent) /\ wire' \in Seq(Sent)
    <2>1. wire \in Seq(Sent)
      BY <1>1 DEF Ps2TypeOK
    <2> QED BY <1>2, <2>1
  <1>4. Ps2TypeOK'
    <2>1. clean' \in BOOLEAN
      BY <1>1, <1>2
    <2>2. unanswered \in Nat
      BY <1>1 DEF Ps2TypeOK
    <2>3. unanswered' \in Nat
      BY <1>2a, <2>2
    <2> QED BY <1>1, <1>3, <2>1, <2>3 DEF Ps2TypeOK
  <1>5. OnScreen' /\ (g_shift_state' => Down' # {})
    BY <1>1 DEF Ps2Inv, OnScreen, Down
  <1>6. ASSUME clean' PROVE InStep'
    <2>1. wire # << >> /\ clean /\ Head(wire) = [aux |-> TRUE, b |-> Ack] /\ wire' = Tail(wire)
      BY <1>2, <1>6
    <2>2. InStep
      BY <2>1 DEF Ps2Inv
    <2>3. MouseSent \in Nat /\ Len(keys) \in Nat /\ unanswered \in Nat
      BY <1>1, <2>2, MouseCounts DEF InStep
    <2>4. PICK m1, k1 \in Nat :
             /\ Mixed(packets, keys, Tail(wire), m1, k1, MouseSent, Len(keys))
             /\ Counted(packets, keys, Head(wire), MouseRead, Len(typed), m1, k1)
             /\ m1 <= MouseSent /\ k1 <= Len(keys)
      BY <1>3, <2>1, <2>2, <2>3, HeadCounted DEF InStep
    <2>5. m1 = MouseRead + 1 /\ k1 = Len(typed)
      BY <2>1, <2>4 DEF Counted
    <2>6. moved = << >> /\ g_mouse_packet = << >> /\ Len(moved) = 0 /\ Len(g_mouse_packet) = 0
      BY <1>1, <2>2 DEF InStep, SetUp
    <2>7. MouseRead' = MouseRead + 1 /\ MouseSent' = MouseSent /\ unanswered' <= 1
          /\ (unanswered' > 0 => packets' = << >>)
      <3>1. CASE ps2_stage = "defaults"
        <4>1. ps2_stage' = "stream" /\ unanswered' = unanswered + 1 /\ packets = << >>
              /\ MouseRead = 0 /\ MouseSent = 1 - unanswered
          BY <1>1, <1>2a, <2>2, <3>1, MouseCounts DEF InStep, SetUp
        <4>2. MouseRead' = 1 /\ MouseSent' = 2 - unanswered' + 3 * Len(packets')
          BY <4>1 DEF MouseRead, MouseSent
        <4>3. Len(packets') = 0 /\ packets' = << >>
          BY <1>1, <4>1
        <4>4. unanswered' = unanswered + 1 /\ MouseRead = 0 /\ MouseSent = 1 - unanswered
          BY <4>1
        <4>5. unanswered = 0
          BY <2>3, <2>4, <2>5, <4>4
        <4> QED BY <2>3, <4>2, <4>3, <4>4, <4>5
      <3>2. CASE ps2_stage # "defaults"
        <4>1. ps2_stage = "stream" /\ ps2_stage' = "polling" /\ unanswered' = unanswered
          BY <1>1, <1>2a, <3>2 DEF Ps2TypeOK
        <4>2. MouseRead = 1 /\ MouseRead' = 2 + 3 * Len(moved') + Len(g_mouse_packet')
              /\ MouseSent' = MouseSent
          BY <1>1, <4>1 DEF MouseRead, MouseSent
        <4>3. MouseRead' = MouseRead + 1
          <5>1. MouseRead = 1 /\ MouseRead' = 2 + 3 * 0 + 0
            BY <1>1, <2>6, <4>2
          <5> QED BY <5>1
        <4>4. unanswered <= 1 /\ (unanswered > 0 => packets = << >>)
          BY <2>2 DEF InStep, SetUp
        <4> QED BY <1>1, <4>1, <4>2, <4>3, <4>4
      <3> QED BY <3>1, <3>2
    <2>8. SetUp' /\ MadeOut' /\ Typed'
      <3>1. ps2_stage' # "defaults" /\ (ps2_stage' # "polling" => moved' = << >>
                                                     /\ g_mouse_packet' = << >>)
        BY <1>1, <2>6
      <3>2. SetUp'
        BY <2>7, <3>1 DEF SetUp
      <3> QED BY <1>1, <2>2, <3>2 DEF InStep, MadeOut, Typed
    <2>9. Mixed(packets', keys', wire', MouseRead', Len(typed'), MouseSent', Len(keys'))
      BY <1>1, <2>1, <2>4, <2>5, <2>7
    <2> QED BY <2>8, <2>9 DEF InStep
  <1> QED BY <1>4, <1>5, <1>6 DEF Ps2Inv

LEMMA MovesInv == ASSUME Ps2Inv, NEW p \in MousePacket, MouseMoves(p) PROVE Ps2Inv'
  <1> DEFINE e(j) == [aux |-> TRUE, b |-> p[j]]
             w1 == Append(wire, e(1))
             w2 == Append(w1, e(2))
             w3 == Append(w2, e(3))
             x == [i \in 1 .. 3 |-> e(i)]
             Q == Append(packets, p)
  <1>1. /\ Ps2TypeOK /\ ps2_stage # "defaults" /\ unanswered = 0
        /\ wire' = wire \o x /\ packets' = Q
        /\ UNCHANGED <<ps2_stage, g_mouse_packet, g_mouse, g_shift_state, unanswered, moved,
                       keys, typed, clean>>
    BY DEF MouseMoves, Ps2Inv
  <1>2. wire \in Seq(Sent) /\ packets \in Seq(MousePacket)
    BY <1>1 DEF Ps2TypeOK
  <1>3. \A j \in 1 .. 3 : e(j) \in Sent /\ e(j).aux /\ e(j).b = p[j]
    <2>1. \A j \in 1 .. 3 : p[j] \in Byte
      BY PacketBytes
    <2> QED BY <2>1 DEF Sent
  <1>4. x \in Seq(Sent) /\ Len(x) = 3 /\ \A i \in 1 .. 3 : x[i] = e(i)
    <2> HIDE DEF e
    <2>1. x \in [1 .. 3 -> Sent]
      BY <1>3
    <2> QED BY <2>1
  <1>5. w1 \in Seq(Sent) /\ w2 \in Seq(Sent) /\ w3 \in Seq(Sent) /\ wire' = w3
    <2> HIDE DEF e, x
    <2>0. e(1) \in Sent /\ e(2) \in Sent /\ e(3) \in Sent
      BY <1>3
    <2>1. /\ w1 \in Seq(Sent) /\ w2 \in Seq(Sent) /\ w3 \in Seq(Sent)
          /\ Len(w1) = Len(wire) + 1 /\ Len(w2) = Len(wire) + 2 /\ Len(w3) = Len(wire) + 3
      BY <1>2, <2>0
    <2>2. /\ \A i \in 1 .. Len(wire) : w3[i] = wire[i]
          /\ w3[Len(wire) + 1] = e(1) /\ w3[Len(wire) + 2] = e(2) /\ w3[Len(wire) + 3] = e(3)
      BY <1>2, <2>0
    <2>3. /\ wire \o x \in Seq(Sent) /\ Len(wire \o x) = Len(wire) + Len(x)
          /\ \A i \in 1 .. Len(wire) + Len(x) : (wire \o x)[i] = IF i <= Len(wire) THEN wire[i]
                                                                ELSE x[i - Len(wire)]
      BY <1>2, <1>4, ConcatProperties
    <2> HIDE DEF w1, w2, w3
    <2>4. ASSUME NEW i \in 1 .. Len(wire) + 3 PROVE (wire \o x)[i] = w3[i]
      <3>0. Len(wire) \in Nat
        BY <1>2
      <3>1. CASE i <= Len(wire)
        BY <1>4, <2>2, <2>3, <3>0, <3>1
      <3>2. CASE i > Len(wire)
        <4>1. i - Len(wire) \in 1 .. 3 /\ i = Len(wire) + (i - Len(wire))
              /\ i \in 1 .. Len(wire) + Len(x) /\ ~(i <= Len(wire))
          BY <1>4, <3>0, <3>2
        <4>2. (wire \o x)[i] = e(i - Len(wire))
          BY <1>4, <2>3, <4>1
        <4>3. i = Len(wire) + 1 \/ i = Len(wire) + 2 \/ i = Len(wire) + 3
          BY <3>0, <4>1
        <4>4. /\ i = Len(wire) + 1 => i - Len(wire) = 1
              /\ i = Len(wire) + 2 => i - Len(wire) = 2
              /\ i = Len(wire) + 3 => i - Len(wire) = 3
          BY <3>0
        <4> QED BY <2>2, <4>2, <4>3, <4>4
      <3>3. i <= Len(wire) \/ i > Len(wire)
        BY <3>0
      <3> QED BY <3>1, <3>2, <3>3
    <2>5. Len(wire \o x) = Len(w3)
      BY <1>4, <2>1, <2>3
    <2>6. Len(w3) = Len(wire) + 3
      BY <2>1
    <2>7. wire \o x = w3
      BY <2>1, <2>3, <2>4, <2>5, <2>6, SeqEqual
    <2> QED BY <1>1, <2>1, <2>7
  <1> HIDE DEF x
  <1>6. Q \in Seq(MousePacket) /\ Len(Q) = Len(packets) + 1 /\ Len(packets) \in Nat
        /\ \A i \in 1 .. Len(packets) : Q[i] = packets[i]
    BY <1>2
  <1>7. Ps2TypeOK'
    BY <1>1, <1>5, <1>6 DEF Ps2TypeOK
  <1>8. OnScreen' /\ (g_shift_state' => Down' # {})
    BY <1>1, SMTT(40) DEF Ps2Inv, OnScreen, Down
  <1>9. ASSUME clean' PROVE InStep'
    <2>1. InStep
      BY <1>1, <1>9 DEF Ps2Inv
    <2>2. MouseSent \in Nat /\ Len(keys) \in Nat /\ MouseSent = 2 - unanswered + 3 * Len(packets)
      BY <1>1, <2>1, MouseCounts DEF InStep
    <2>3. MouseSent = 2 + 3 * Len(packets) /\ MouseSent' = MouseSent + 3 /\ MouseRead' = MouseRead
      <3>1. MouseSent = 2 + 3 * Len(packets)
        BY <1>1, <1>6, <2>2
      <3>2. MouseSent' = 2 - unanswered + 3 * Len(packets')
        BY <1>1 DEF MouseSent
      <3>3. MouseSent' = 2 + 3 * (Len(packets) + 1)
        BY <1>1, <1>6, <3>2
      <3>4. MouseRead' = MouseRead
        BY <1>1 DEF MouseRead
      <3> QED BY <1>6, <3>1, <3>3, <3>4
    <2>4. SetUp' /\ Typed'
      <3>1. ~(unanswered > 0) /\ unanswered <= 1
        BY <1>1
      <3> QED BY <1>1, <2>1, <3>1 DEF InStep, SetUp, Typed
    <2>5. MadeOut'
      <3>0. Len(moved) \in Nat /\ Len(g_mouse_packet) \in Nat
        BY <1>1, MouseCounts
      <3>1. MadeOut
        BY <2>1 DEF InStep
      <3>2. Len(moved) <= Len(Q) /\ (g_mouse_packet # << >> => Len(moved) < Len(Q))
        BY <1>6, <3>0, <3>1 DEF MadeOut
      <3>3. \A i \in 1 .. Len(moved) : moved[i] = Q[i]
        <4>1. \A i \in 1 .. Len(moved) : i \in 1 .. Len(packets)
          BY <1>6, <3>0, <3>1 DEF MadeOut
        <4> QED BY <1>6, <3>1, <4>1 DEF MadeOut
      <3>4. \A j \in 1 .. Len(g_mouse_packet) : g_mouse_packet[j] = Q[Len(moved) + 1][j]
        <4>1. CASE g_mouse_packet = << >>
          BY <4>1
        <4>2. CASE g_mouse_packet # << >>
          <5>1. Len(moved) + 1 \in 1 .. Len(packets)
            BY <1>6, <3>0, <3>1, <4>2 DEF MadeOut
          <5>2. Q[Len(moved) + 1] = packets[Len(moved) + 1]
            BY <1>6, <5>1
          <5> QED BY <3>1, <5>2 DEF MadeOut
        <4> QED BY <4>1, <4>2
      <3> QED BY <1>1, <3>2, <3>3, <3>4 DEF MadeOut
    <2>6. Mixed(packets, keys, wire, MouseRead, Len(typed), MouseSent, Len(keys))
      BY <2>1 DEF InStep
    <2>7. /\ Mixed(Q, keys, wire, MouseRead, Len(typed), MouseSent, Len(keys))
          /\ \A j \in 1 .. 3 : FromMouse(Q, p[j], 2 + 3 * Len(packets) + j)
      <3>1. MouseSent <= 2 + 3 * Len(packets)
        BY <2>2, <2>3
      <3> QED BY <1>2, <2>2, <2>6, <3>1, PacketCounted
    <2> HIDE DEF Q
    <2>8. /\ FromMouse(Q, e(1).b, MouseSent + 1)
          /\ FromMouse(Q, e(2).b, (MouseSent + 1) + 1)
          /\ FromMouse(Q, e(3).b, ((MouseSent + 1) + 1) + 1)
      <3>1. /\ MouseSent + 1 = 2 + 3 * Len(packets) + 1
            /\ (MouseSent + 1) + 1 = 2 + 3 * Len(packets) + 2
            /\ ((MouseSent + 1) + 1) + 1 = 2 + 3 * Len(packets) + 3
        BY <1>6, <2>2, <2>3
      <3>2. e(1).b = p[1] /\ e(2).b = p[2] /\ e(3).b = p[3]
        BY <1>3
      <3> HIDE DEF e
      <3> QED BY <2>7, <3>1, <3>2
    <2>9. /\ e(1) \in Sent /\ e(1).aux /\ e(2) \in Sent /\ e(2).aux /\ e(3) \in Sent /\ e(3).aux
      BY <1>3
    <2>10. MouseSent + 1 \in Nat /\ (MouseSent + 1) + 1 \in Nat
      BY <2>2
    <2> HIDE DEF e
    <2>11. Mixed(Q, keys, w1, MouseRead, Len(typed), MouseSent + 1, Len(keys))
      BY <1>2, <2>2, <2>7, <2>8, <2>9, MouseCounted
    <2> HIDE DEF w1
    <2>12. Mixed(Q, keys, w2, MouseRead, Len(typed), (MouseSent + 1) + 1, Len(keys))
      BY <1>5, <2>2, <2>8, <2>9, <2>10, <2>11, MouseCounted
    <2> HIDE DEF w2
    <2>13. Mixed(Q, keys, w3, MouseRead, Len(typed), ((MouseSent + 1) + 1) + 1, Len(keys))
      BY <1>5, <2>2, <2>8, <2>9, <2>10, <2>12, MouseCounted
    <2> HIDE DEF w3
    <2>14. ((MouseSent + 1) + 1) + 1 = MouseSent'
      BY <2>2, <2>3
    <2>15. Mixed(packets', keys', wire', MouseRead', Len(typed'), MouseSent', Len(keys'))
      BY <1>1, <1>5, <2>3, <2>13, <2>14
    <2> QED BY <2>4, <2>5, <2>15 DEF InStep
  <1> QED BY <1>7, <1>8, <1>9 DEF Ps2Inv

LEMMA StruckInv == ASSUME Ps2Inv, NEW c \in ScanCode, KeyStruck(c) PROVE Ps2Inv'
  <1> DEFINE e == [aux |-> FALSE, b |-> c]
             z(later) == InsertAt(wire, Len(wire) - later + 1, e)
  <1>1. /\ Ps2TypeOK /\ keys' = Append(keys, c)
        /\ UNCHANGED <<ps2_stage, g_mouse_packet, g_mouse, g_shift_state, unanswered, packets,
                       moved, typed, clean>>
    BY DEF KeyStruck, Ps2Inv
  <1>2. PICK later \in 0 .. 2 : /\ later <= Len(wire)
                                /\ \A i \in Len(wire) - later + 1 .. Len(wire) : wire[i].aux
                                /\ wire' = z(later)
    BY DEF KeyStruck
  <1>3. /\ wire \in Seq(Sent) /\ keys \in Seq(Byte) /\ c \in Byte /\ e \in Sent
        /\ Len(wire) \in Nat /\ Len(keys) \in Nat
    <2>1. c \in Byte
      BY Ps2Assumption
    <2>2. e \in Sent
      BY <2>1 DEF Sent
    <2> QED BY <1>1, <2>1, <2>2 DEF Ps2TypeOK
  <1>4. wire' \in Seq(Sent)
    <2>1. Len(wire) - later + 1 \in 1 .. Len(wire) + 1
      BY <1>2, <1>3
    <2> HIDE DEF e
    <2> DEFINE g == Len(wire) - later + 1
    <2>2. wire' = InsertAt(wire, g, e) /\ g \in 1 .. Len(wire) + 1
      BY <1>2, <2>1
    <2> HIDE DEF g
    <2>3. WithAt(InsertAt(wire, g, e), Sent, wire, g, e)
      BY <1>3, <2>2, Inserted
    <2> QED BY <2>2, <2>3 DEF WithAt
  <1>5. /\ keys' \in Seq(Byte) /\ Len(keys') = Len(keys) + 1
        /\ \A i \in 1 .. Len(keys) : keys'[i] = keys[i]
    BY <1>1, <1>3
  <1>6. Ps2TypeOK'
    BY <1>1, <1>4, <1>5 DEF Ps2TypeOK
  <1>7. OnScreen' /\ (g_shift_state' => Down' # {})
    BY <1>1 DEF Ps2Inv, OnScreen, Down
  <1>8. ASSUME clean' PROVE InStep'
    <2>1. InStep
      BY <1>1, <1>8 DEF Ps2Inv
    <2>2. MouseSent \in Nat /\ Len(typed) \in Nat
      BY <1>1, <2>1, MouseCounts DEF InStep
    <2>3. MouseRead' = MouseRead /\ MouseSent' = MouseSent
      BY <1>1 DEF MouseRead, MouseSent
    <2>4. SetUp' /\ MadeOut'
      BY <1>1, <2>1 DEF InStep, SetUp, MadeOut
    <2>5. Typed'
      <3>1. Typed
        BY <2>1 DEF InStep
      <3>2. Len(typed) <= Len(keys') /\ \A i \in 1 .. Len(typed) : i \in 1 .. Len(keys)
        BY <1>3, <1>5, <2>2, <3>1 DEF Typed
      <3> QED BY <1>1, <1>5, <3>1, <3>2 DEF Typed
    <2>6. Mixed(packets, keys, wire, MouseRead, Len(typed), MouseSent, Len(keys))
      BY <2>1 DEF InStep
    <2>7. Mixed(packets, Append(keys, c), z(later), MouseRead, Len(typed), MouseSent, Len(keys) + 1)
      <3>1. \A i \in Len(wire) - later + 1 .. Len(wire) : wire[i].aux
        BY <1>2
      <3> QED BY <1>2, <1>3, <2>2, <2>6, <3>1, KeyCounted
    <2>8. Mixed(packets', keys', wire', MouseRead', Len(typed'), MouseSent', Len(keys'))
      BY <1>1, <1>2, <1>5, <2>3, <2>7
    <2> QED BY <2>4, <2>5, <2>8 DEF InStep
  <1> QED BY <1>6, <1>7, <1>8 DEF Ps2Inv

LEMMA ClampedFacts ==
    ASSUME NEW v \in Int, NEW size \in Nat \ {0}
    PROVE  Clamp(v, size) \in 0 .. size - 1
  BY DEF Clamp

(* A packet leaves the pointer on the screen. *)
LEMMA MovedFacts ==
    ASSUME OnScreen, NEW p \in Seq(Byte), Len(p) = 3
    PROVE  Moved(p).x \in 0 .. ScreenW - 1 /\ Moved(p).y \in 0 .. ScreenH - 1
  <1>1. p[2] \in Int /\ p[3] \in Int
    <2>1. 2 \in 1 .. Len(p) /\ 3 \in 1 .. Len(p)
      OBVIOUS
    <2>2. p[2] \in Byte /\ p[3] \in Byte
      BY <2>1, ElementOfSeq
    <2>3. Byte \subseteq Int
      BY DEF Byte
    <2> QED BY <2>2, <2>3
  <1>2. ScreenW \in Nat \ {0} /\ ScreenH \in Nat \ {0}
    BY Ps2Assumption
  <1>3. g_mouse.x \in Int /\ g_mouse.y \in Int
    BY <1>2 DEF OnScreen
  <1> DEFINE dx == Signed(p[2], Bit(p[1], 4))
             dy == Signed(p[3], Bit(p[1], 5))
  <1>4. dx \in Int /\ dy \in Int
    <2>1. \A b \in Int : b - 256 \in Int
      OBVIOUS
    <2> QED BY <1>1, <2>1, Zenon DEF Signed
  <1>5. Moved(p).x = Clamp(g_mouse.x + dx, ScreenW) /\ Moved(p).y = Clamp(g_mouse.y - dy, ScreenH)
    BY DEF Moved
  <1> HIDE DEF dx, dy
  <1>6. g_mouse.x + dx \in Int /\ g_mouse.y - dy \in Int
    BY <1>3, <1>4
  <1>7. /\ Clamp(g_mouse.x + dx, ScreenW) \in 0 .. ScreenW - 1
        /\ Clamp(g_mouse.y - dy, ScreenH) \in 0 .. ScreenH - 1
    BY <1>2, <1>6, ClampedFacts
  <1> QED BY <1>5, <1>7

LEMMA PollMouseInv == ASSUME Ps2Inv, ps2_poll_mouse PROVE Ps2Inv'
  <1> DEFINE b == Head(wire).b
             packet == Append(g_mouse_packet, b)
             M == Len(moved)
             G == Len(g_mouse_packet)
             L == Len(packets)
  <1>1. /\ Ps2TypeOK /\ OnScreen /\ ps2_stage = "polling" /\ wire # << >> /\ Head(wire).aux
        /\ wire' = Tail(wire)
        /\ UNCHANGED <<ps2_stage, g_shift_state, unanswered, packets, keys, typed, clean>>
    BY DEF ps2_poll_mouse, Ps2Inv
  <1>2. /\ Len(packet) = 3 => /\ g_mouse_packet' = << >> /\ g_mouse' = Moved(packet)
                              /\ moved' = Append(moved, packet)
        /\ Len(packet) # 3 =>
              /\ g_mouse_packet' = IF packet = <<b>> /\ ~Bit(b, 3) THEN << >> ELSE packet
              /\ UNCHANGED <<g_mouse, moved>>
    BY DEF ps2_poll_mouse
  <1>3. /\ wire \in Seq(Sent) /\ wire' \in Seq(Sent) /\ b \in Byte
        /\ g_mouse_packet \in Seq(Byte) /\ moved \in Seq(Seq(Byte)) /\ packets \in Seq(MousePacket)
        /\ G <= 2 /\ M \in Nat /\ G \in Nat /\ L \in Nat
    <2>1. /\ wire \in Seq(Sent) /\ g_mouse_packet \in Seq(Byte) /\ moved \in Seq(Seq(Byte))
          /\ packets \in Seq(MousePacket) /\ G <= 2
      BY <1>1 DEF Ps2TypeOK
    <2>2. Head(wire) \in Sent /\ Tail(wire) \in Seq(Sent)
      BY <1>1, <2>1
    <2>3. b \in Byte
      BY <2>2 DEF Sent
    <2> QED BY <1>1, <2>1, <2>2, <2>3
  <1> HIDE DEF b
  <1>4. /\ packet \in Seq(Byte) /\ Len(packet) = G + 1 /\ packet[G + 1] = b
        /\ \A j \in 1 .. G : packet[j] = g_mouse_packet[j]
        /\ <<b>> \in Seq(Byte) /\ Len(<<b>>) = 1
    BY <1>3
  <1> HIDE DEF packet
  <1>5. g_mouse_packet' \in Seq(Byte) /\ Len(g_mouse_packet') <= 2 /\ moved' \in Seq(Seq(Byte))
    <2>1. << >> \in Seq(Byte) /\ Len(<< >>) = 0
      BY EmptySeq
    <2>2. CASE Len(packet) = 3
      <3>1. g_mouse_packet' = << >> /\ moved' = Append(moved, packet)
        BY <1>2, <2>2
      <3> QED BY <1>3, <1>4, <2>1, <3>1
    <2>3. CASE Len(packet) # 3
      <3>1. (g_mouse_packet' = << >> \/ g_mouse_packet' = packet) /\ moved' = moved
        BY <1>2, <2>3
      <3>2. Len(packet) <= 2
        <4> HIDE DEF G
        <4> QED BY <1>3, <1>4, <2>3
      <3>3. moved' \in Seq(Seq(Byte)) /\ packet \in Seq(Byte)
        BY <1>3, <1>4, <3>1
      <3>4. CASE g_mouse_packet' = << >>
        BY <2>1, <3>3, <3>4
      <3>5. CASE g_mouse_packet' = packet
        BY <3>2, <3>3, <3>5
      <3> QED BY <3>1, <3>4, <3>5
    <2> QED BY <2>2, <2>3
  <1>6. Ps2TypeOK'
    BY <1>1, <1>3, <1>5 DEF Ps2TypeOK
  <1>7. OnScreen'
    <2>1. CASE Len(packet) = 3
      BY <1>1, <1>2, <1>4, <2>1, MovedFacts DEF OnScreen
    <2>2. CASE Len(packet) # 3
      BY <1>1, <1>2, <2>2 DEF OnScreen
    <2> QED BY <2>1, <2>2
  <1>8. g_shift_state' => Down' # {}
    BY <1>1 DEF Ps2Inv, Down
  <1>9. ASSUME clean' PROVE InStep'
    <2>1. InStep
      BY <1>1, <1>9 DEF Ps2Inv
    <2>2. /\ MouseSent \in Nat /\ Len(keys) \in Nat /\ Len(typed) \in Nat /\ unanswered \in Nat
          /\ MouseSent = 2 - unanswered + 3 * L /\ MouseRead = 2 + 3 * M + G
      BY <1>1, <2>1, MouseCounts DEF InStep
    <2>3. PICK m1, k1 \in Nat :
             /\ Mixed(packets, keys, Tail(wire), m1, k1, MouseSent, Len(keys))
             /\ Counted(packets, keys, Head(wire), MouseRead, Len(typed), m1, k1)
             /\ m1 <= MouseSent /\ k1 <= Len(keys)
      BY <1>1, <1>3, <2>1, <2>2, HeadCounted DEF InStep
    <2>4. m1 = MouseRead + 1 /\ k1 = Len(typed) /\ FromMouse(packets, b, m1)
      BY <1>1, <2>3 DEF Counted, b
    <2>5. M < L /\ M + 1 \in 1 .. L
      <3>1. (3 + 3 * M) + G <= (2 - unanswered) + 3 * L
        BY <1>3, <2>2, <2>3, <2>4
      <3> HIDE DEF M, G, L
      <3> QED BY <1>3, <2>2, <3>1
    <2>6. b = packets[M + 1][G + 1]
      <3>1. G + 1 \in 1 .. 3 /\ m1 = 3 * (M + 1) - 1 + (G + 1)
        <4> HIDE DEF M, G, L
        <4> QED BY <1>3, <2>2, <2>4
      <3> HIDE DEF M, G
      <3> QED BY <2>4, <2>5, <3>1 DEF FromMouse, L
    <2>7. packets[M + 1] \in MousePacket /\ packets[M + 1] \in Seq(Byte)
          /\ Len(packets[M + 1]) = 3 /\ Bit(packets[M + 1][1], 3)
      <3>1. packets[M + 1] \in MousePacket
        BY <1>3, <2>5
      <3> QED BY <3>1, PacketBytes
    <2>8. MadeOut
      BY <2>1 DEF InStep
    <2>9. \A j \in 1 .. G + 1 : packet[j] = packets[M + 1][j]
      <3> TAKE j \in 1 .. G + 1
      <3>1. CASE j = G + 1
        BY <1>4, <2>6, <3>1
      <3>2. CASE j \in 1 .. G
        BY <1>4, <2>8, <3>2 DEF MadeOut
      <3> QED BY <1>3, <3>1, <3>2
    <2>10. CASE Len(packet) = 3
      <3>1. packet = packets[M + 1]
        <4>1. \A j \in 1 .. Len(packet) : packet[j] = packets[M + 1][j]
          BY <1>4, <2>9
        <4> QED BY <1>4, <2>7, <2>10, <4>1, SeqEqual
      <3>2. /\ g_mouse_packet' = << >> /\ moved' = Append(moved, packet)
            /\ Len(g_mouse_packet') = 0 /\ Len(moved') = M + 1 /\ moved'[M + 1] = packet
            /\ \A i \in 1 .. M : moved'[i] = moved[i]
        <4>1. g_mouse_packet' = << >> /\ moved' = Append(moved, packet)
          BY <1>2, <2>10
        <4>2. moved \in Seq(Seq(Byte)) /\ packet \in Seq(Byte)
          BY <1>3, <1>4
        <4>3. /\ Len(moved') = M + 1 /\ moved'[M + 1] = packet
              /\ \A i \in 1 .. M : moved'[i] = moved[i]
          BY <4>1, <4>2
        <4>4. Len(g_mouse_packet') = 0
          BY <4>1
        <4> QED BY <4>1, <4>3, <4>4
      <3>3. MadeOut'
        <4>1. ASSUME NEW i \in 1 .. M + 1 PROVE moved'[i] = packets[i]
          <5>1. CASE i = M + 1
            BY <3>1, <3>2, <5>1
          <5>2. CASE i \in 1 .. M
            BY <2>8, <3>2, <5>2 DEF MadeOut
          <5> QED BY <1>3, <5>1, <5>2
        <4>2. Len(moved') <= Len(packets)
          BY <1>3, <2>5, <3>2
        <4>3. \A i \in 1 .. Len(moved') : moved'[i] = packets[i]
          BY <3>2, <4>1
        <4>4. \A j \in 1 .. Len(g_mouse_packet') :
                 g_mouse_packet'[j] = packets[Len(moved') + 1][j]
          BY <3>2
        <4> QED BY <1>1, <3>2, <4>2, <4>3, <4>4 DEF MadeOut
      <3>4. MouseRead' = 2 + 3 * (M + 1) + 0
        BY <1>1, <3>2 DEF MouseRead
      <3>5. G = 2
        <4>1. G \in Nat /\ G + 1 = 3
          BY <1>3, <1>4, <2>10
        <4> HIDE DEF G
        <4> QED BY <4>1
      <3>6. MouseRead' = m1
        <4> HIDE DEF M, G, L
        <4> QED BY <1>3, <2>2, <2>4, <3>4, <3>5
      <3>7. SetUp' /\ Typed' /\ MouseSent' = MouseSent
        BY <1>1, <2>1 DEF InStep, SetUp, Typed, MouseSent
      <3>8. Mixed(packets', keys', wire', MouseRead', Len(typed'), MouseSent', Len(keys'))
        BY <1>1, <2>3, <2>4, <3>6, <3>7
      <3> QED BY <3>3, <3>7, <3>8 DEF InStep
    <2>11. CASE Len(packet) # 3
      <3>1. ~(packet = <<b>> /\ ~Bit(b, 3))
        <4>1. ASSUME packet = <<b>> PROVE Bit(b, 3)
          <5>1. G + 1 = 1
            BY <1>4, <4>1
          <5>2. b = packets[M + 1][1]
            BY <2>6, <5>1
          <5> QED BY <2>7, <5>2
        <4> QED BY <4>1
      <3>2. g_mouse_packet' = packet /\ moved' = moved /\ Len(g_mouse_packet') = G + 1
        BY <1>2, <1>4, <2>11, <3>1
      <3>3. MadeOut'
        <4>1. Len(moved') < Len(packets)
          BY <2>5, <3>2
        <4>2. \A j \in 1 .. Len(g_mouse_packet') :
                 g_mouse_packet'[j] = packets[Len(moved') + 1][j]
          BY <2>9, <3>2
        <4> QED BY <1>1, <2>8, <3>2, <4>1, <4>2 DEF MadeOut
      <3>4. MouseRead' = 2 + 3 * M + (G + 1)
        BY <1>1, <3>2 DEF MouseRead
      <3>6. MouseRead' = m1
        <4> HIDE DEF M, G, L
        <4> QED BY <1>3, <2>2, <2>4, <3>4
      <3>7. SetUp' /\ Typed' /\ MouseSent' = MouseSent
        BY <1>1, <2>1 DEF InStep, SetUp, Typed, MouseSent
      <3>8. Mixed(packets', keys', wire', MouseRead', Len(typed'), MouseSent', Len(keys'))
        BY <1>1, <2>3, <2>4, <3>6, <3>7
      <3> QED BY <3>3, <3>7, <3>8 DEF InStep
    <2> QED BY <2>10, <2>11
  <1> QED BY <1>6, <1>7, <1>8, <1>9 DEF Ps2Inv

LEMMA PollKeyboardInv == ASSUME Ps2Inv, ps2_poll_keyboard PROVE Ps2Inv'
  <1> DEFINE c == Head(wire).b
             n == Len(typed)
  <1>1. /\ Ps2TypeOK /\ OnScreen /\ ps2_stage = "polling" /\ wire # << >> /\ ~Head(wire).aux
        /\ wire' = Tail(wire) /\ typed' = Append(typed, c)
        /\ g_shift_state' = IF c % 128 \in {42, 54} THEN c < 128 ELSE g_shift_state
        /\ UNCHANGED <<ps2_stage, g_mouse_packet, g_mouse, unanswered, packets, moved, keys, clean>>
    BY DEF ps2_poll_keyboard, Ps2Inv
  <1>2. /\ wire \in Seq(Sent) /\ wire' \in Seq(Sent) /\ c \in Byte
        /\ typed \in Seq(Byte) /\ keys \in Seq(Byte)
        /\ n \in Nat /\ Len(keys) \in Nat
    <2>1. wire \in Seq(Sent) /\ typed \in Seq(Byte) /\ keys \in Seq(Byte)
      BY <1>1 DEF Ps2TypeOK
    <2>2. Head(wire) \in Sent /\ Tail(wire) \in Seq(Sent)
      BY <1>1, <2>1
    <2>3. c \in Byte
      BY <2>2 DEF Sent
    <2> QED BY <1>1, <2>1, <2>2, <2>3
  <1> HIDE DEF c
  <1>3. /\ typed' \in Seq(Byte) /\ Len(typed') = n + 1 /\ typed'[n + 1] = c
        /\ \A i \in 1 .. n : typed'[i] = typed[i]
        /\ DOMAIN typed' = 1 .. n + 1 /\ DOMAIN typed = 1 .. n
    BY <1>1, <1>2
  <1> HIDE DEF n
  <1>4. Ps2TypeOK'
    BY <1>1, <1>2, <1>3 DEF Ps2TypeOK
  <1>5. OnScreen'
    BY <1>1 DEF OnScreen
  <1>6. ASSUME g_shift_state' PROVE Down' # {}
    <2>1. CASE c % 128 \in {42, 54}
      <3>1. c < 128
        BY <1>1, <1>6, <2>1
      <3>2. c \in {42, 54}
        <4>1. \A i \in 0 .. 127 : i % 128 = i
          OBVIOUS
        <4>2. c \in 0 .. 127
          BY <1>2, <3>1 DEF Byte
        <4> QED BY <2>1, <4>1, <4>2
      <3>3. \A j \in n + 2 .. n + 1 : FALSE
        BY <1>2
      <3>4. n + 1 \in DOMAIN typed' /\ (n + 1) + 1 = n + 2
        BY <1>2, <1>3
      <3>5. c \in Down'
        BY <1>3, <3>2, <3>3, <3>4 DEF Down
      <3> QED BY <3>5
    <2>2. CASE ~(c % 128 \in {42, 54})
      <3>1. Down # {}
        BY <1>1, <1>6, <2>2 DEF Ps2Inv
      <3>2. PICK k \in {42, 54}, i \in DOMAIN typed :
               typed[i] = k /\ \A j \in i + 1 .. Len(typed) : typed[j] # k + 128
        BY <3>1 DEF Down
      <3>3. c # k + 128
        <4>1. k = 42 => (k + 128) % 128 = 42
          OBVIOUS
        <4>2. k = 54 => (k + 128) % 128 = 54
          OBVIOUS
        <4> QED BY <2>2, <3>2, <4>1, <4>2
      <3>4. i \in DOMAIN typed' /\ typed'[i] = k
        BY <1>2, <1>3, <3>2
      <3>5. ASSUME NEW j \in i + 1 .. n + 1 PROVE typed'[j] # k + 128
        <4>1. i \in 1 .. n
          BY <1>3, <3>2
        <4>2. CASE j = n + 1
          BY <1>3, <3>3, <4>2
        <4>3. CASE j # n + 1
          <5>1. j \in i + 1 .. n /\ j \in 1 .. n
            BY <1>2, <4>1, <4>3
          <5>2. typed[j] # k + 128
            BY <3>2, <5>1 DEF n
          <5> QED BY <1>3, <5>1, <5>2
        <4> QED BY <4>2, <4>3
      <3>6. k \in Down'
        BY <1>3, <3>2, <3>4, <3>5 DEF Down
      <3> QED BY <3>6
    <2> QED BY <2>1, <2>2
  <1>7. ASSUME clean' PROVE InStep'
    <2>1. InStep
      BY <1>1, <1>7 DEF Ps2Inv
    <2>2. /\ MouseSent \in Nat
      BY <1>1, <2>1, MouseCounts DEF InStep
    <2>3. PICK m1, k1 \in Nat :
             /\ Mixed(packets, keys, Tail(wire), m1, k1, MouseSent, Len(keys))
             /\ Counted(packets, keys, Head(wire), MouseRead, n, m1, k1)
             /\ m1 <= MouseSent /\ k1 <= Len(keys)
      BY <1>1, <1>2, <2>1, <2>2, HeadCounted DEF InStep, n
    <2>4. m1 = MouseRead /\ k1 = n + 1 /\ k1 <= Len(keys) /\ c = keys[k1]
      BY <1>1, <2>3 DEF Counted, c
    <2>5. MouseRead' = MouseRead /\ MouseSent' = MouseSent
      BY <1>1 DEF MouseRead, MouseSent
    <2>6. SetUp' /\ MadeOut'
      BY <1>1, <2>1 DEF InStep, SetUp, MadeOut
    <2>7. Typed'
      <3>1. Typed
        BY <2>1 DEF InStep
      <3>2. ASSUME NEW i \in 1 .. n + 1 PROVE typed'[i] = keys[i]
        <4>1. CASE i = n + 1
          BY <1>3, <2>4, <4>1
        <4>2. CASE i \in 1 .. n
          BY <1>3, <3>1, <4>2 DEF Typed, n
        <4> QED BY <1>2, <4>1, <4>2
      <3> QED BY <1>1, <1>3, <2>4, <3>2 DEF Typed
    <2>8. Mixed(packets', keys', wire', MouseRead', Len(typed'), MouseSent', Len(keys'))
      BY <1>1, <1>3, <2>3, <2>4, <2>5
    <2> QED BY <2>6, <2>7, <2>8 DEF InStep
  <1> QED BY <1>4, <1>5, <1>6, <1>7 DEF Ps2Inv

LEMMA Ps2InvHolds == Ps2Spec => []Ps2Inv
  <1>1. ASSUME Ps2Init PROVE Ps2Inv
    <2>1. /\ wire = << >> /\ ps2_stage = "defaults" /\ g_mouse_packet = << >>
          /\ g_shift_state = FALSE /\ unanswered = 1
          /\ packets = << >> /\ moved = << >> /\ keys = << >> /\ typed = << >> /\ clean = TRUE
      BY <1>1 DEF Ps2Init
    <2>2. g_mouse.x = ScreenW \div 2 /\ g_mouse.y = ScreenH \div 2
      BY <1>1 DEF Ps2Init
    <2>3. OnScreen
      <3>1. \A n \in Nat \ {0} : n \div 2 \in 0 .. n - 1
        OBVIOUS
      <3>2. ScreenW \in Nat \ {0} /\ ScreenH \in Nat \ {0}
        BY Ps2Assumption
      <3> QED BY <2>2, <3>1, <3>2 DEF OnScreen
    <2>4. Len(<< >>) = 0
      OBVIOUS
    <2>5. Ps2TypeOK
      <3>1. /\ wire \in Seq(Sent) /\ g_mouse_packet \in Seq(Byte) /\ packets \in Seq(MousePacket)
            /\ moved \in Seq(Seq(Byte)) /\ keys \in Seq(Byte) /\ typed \in Seq(Byte)
        BY <2>1, EmptySeq
      <3>2. Len(g_mouse_packet) <= 2
        BY <2>1, <2>4
      <3> QED BY <2>1, <3>1, <3>2 DEF Ps2TypeOK
    <2>6. MouseRead = 0 /\ MouseSent = 0
      <3>1. MouseRead = 0 /\ MouseSent = 1 - unanswered
        BY <2>1 DEF MouseRead, MouseSent
      <3> QED BY <2>1, <3>1
    <2>7. Mixed(packets, keys, wire, 0, 0, 0, 0)
      <3> DEFINE m == [i \in 0 .. Len(wire) |-> 0]
      <3>1. Len(wire) = 0
        BY <2>1, <2>4
      <3>2. m \in [0 .. Len(wire) -> Nat] /\ m[0] = 0 /\ m[Len(wire)] = 0
        BY <3>1
      <3>3. \A i \in 0 .. Len(wire) : m[i] <= 0
        OBVIOUS
      <3>4. \A i \in 1 .. Len(wire) : FALSE
        BY <3>1
      <3> HIDE DEF m
      <3> QED BY <3>2, <3>3, <3>4 DEF Mixed
    <2>8. SetUp /\ MadeOut /\ Typed
      <3>1. /\ Len(moved) = 0 /\ Len(packets) = 0 /\ Len(typed) = 0 /\ Len(keys) = 0
            /\ Len(g_mouse_packet) = 0
        BY <2>1, <2>4
      <3>2. SetUp
        BY <2>1 DEF SetUp
      <3>3. MadeOut
        BY <2>1, <3>1 DEF MadeOut
      <3>4. Typed
        BY <3>1 DEF Typed
      <3> QED BY <3>2, <3>3, <3>4
    <2>9. InStep
      <3>1. Len(typed) = 0 /\ Len(keys) = 0
        BY <2>1, <2>4
      <3> QED BY <2>6, <2>7, <2>8, <3>1 DEF InStep
    <2> QED BY <2>1, <2>3, <2>5, <2>9 DEF Ps2Inv
  <1>2. ASSUME Ps2Inv, [Ps2Next]_ps2Vars PROVE Ps2Inv'
    <2>1. CASE UNCHANGED ps2Vars
      <3>1. UNCHANGED <<wire, ps2_stage, g_mouse_packet, g_mouse, g_shift_state, unanswered,
                        packets, moved, keys, typed, clean>>
        BY <2>1 DEF ps2Vars
      <3>2. Ps2TypeOK' /\ OnScreen' /\ Down' = Down
        BY <1>2, <3>1 DEF Ps2Inv, Ps2TypeOK, OnScreen, Down
      <3>3. InStep' <=> InStep
        BY <3>1 DEF InStep, SetUp, MadeOut, Typed, MouseRead, MouseSent
      <3> QED BY <1>2, <3>1, <3>2, <3>3 DEF Ps2Inv
    <2>2. CASE MouseAnswers
      BY <1>2, <2>2, AnswersInv
    <2>3. CASE ps2_mouse_read
      BY <1>2, <2>3, ReadInv
    <2>4. CASE ps2_poll_mouse
      BY <1>2, <2>4, PollMouseInv
    <2>5. CASE ps2_poll_keyboard
      BY <1>2, <2>5, PollKeyboardInv
    <2>6. ASSUME NEW p \in MousePacket, MouseMoves(p) PROVE Ps2Inv'
      BY <1>2, <2>6, MovesInv
    <2>7. ASSUME NEW c \in ScanCode, KeyStruck(c) PROVE Ps2Inv'
      BY <1>2, <2>7, StruckInv
    <2> QED BY <1>2, <2>1, <2>2, <2>3, <2>4, <2>5, <2>6, <2>7 DEF Ps2Next
  <1> QED BY <1>1, <1>2, PTL DEF Ps2Spec

LEMMA Ps2InvImplies == ASSUME Ps2Inv PROVE PointerInStep
  <1>1. ASSUME NEW S, NEW s \in Seq(S), NEW t \in Seq(S), Len(s) <= Len(t),
               \A i \in 1 .. Len(s) : s[i] = t[i]
        PROVE  IsPrefix(s, t)
    <2> DEFINE n == Len(s)
    <2>1. n \in 0 .. Len(t) /\ n \in 0 .. Len(s)
      BY <1>1
    <2>2. SubSeq(s, 1, n) = s
      BY SubSeqFull
    <2>3. SubSeq(t, 1, n) \in Seq(S) /\ Len(SubSeq(t, 1, n)) = n
          /\ \A i \in 1 .. n : SubSeq(t, 1, n)[i] = t[i]
      BY <2>1
    <2>4. SubSeq(t, 1, n) = s
      BY <1>1, <2>3, SeqEqual
    <2> QED BY <1>1, <2>2, <2>4 DEF IsPrefix
  <1>2. ASSUME clean PROVE IsPrefix(moved, packets) /\ IsPrefix(typed, keys)
    <2>1. Ps2TypeOK /\ MadeOut /\ Typed
      BY <1>2 DEF Ps2Inv, InStep
    <2>2. MousePacket \subseteq Seq(Byte)
      BY PacketBytes
    <2>3. packets \in Seq(Seq(Byte))
      <3>1. packets \in Seq(MousePacket)
        BY <2>1 DEF Ps2TypeOK
      <3> QED BY <2>2, <3>1, SeqMonotonic
    <2>4. moved \in Seq(Seq(Byte)) /\ typed \in Seq(Byte) /\ keys \in Seq(Byte)
      BY <2>1 DEF Ps2TypeOK
    <2>5. IsPrefix(moved, packets)
      BY <1>1, <2>1, <2>3, <2>4 DEF MadeOut
    <2>6. IsPrefix(typed, keys)
      BY <1>1, <2>1, <2>4 DEF Typed
    <2> QED BY <2>5, <2>6
  <1> QED BY <1>2 DEF Ps2Inv, OnScreen, PointerInStep

-----------------------------------------------------------------------------
(* The kernel's lines to a page.  Where lines end. *)

LEMMA LineBytesFact == LineBytes \in Nat /\ LineBytes >= 1
  BY LinesAssumption

LEMMA TimesMod ==
    ASSUME NEW b \in Nat \ {0}, NEW u \in Nat PROVE (u * b) % b = 0 /\ u * b \in Nat
  <1>1. (u * b) % b = 0
    OBVIOUS
  <1>2. u * b \in Nat
    OBVIOUS
  <1> QED BY <1>1, <1>2

LEMMA TimesFacts ==
    ASSUME NEW b \in Nat, b >= 1, NEW u \in Nat, NEW p \in Nat
    PROVE  /\ u * b \in Nat /\ (u * b) % b = 0
           /\ p < u => u * b >= p * b + b
           /\ p * b < u * b => p < u
           /\ (u + 1) * b = u * b + b
           /\ u > 0 => u - 1 \in Nat /\ (u - 1) * b = u * b - b /\ u * b >= b
  <1>0. b \in Nat \ {0}
    OBVIOUS
  <1>1. u * b \in Nat /\ (u * b) % b = 0
    BY <1>0, TimesMod
  <1>2. ASSUME NEW n \in Nat, NEW m \in Nat, m < n PROVE n * b >= m * b + b
    BY <1>0, <1>2
  <1>3. \A n \in Nat : n * b \in Nat
    BY <1>0
  <1>4. p * b < u * b => p < u
    <2>1. u < p => p * b >= u * b + b
      BY <1>2
    <2>2. p = u => p * b = u * b
      OBVIOUS
    <2>3. p * b \in Nat /\ u * b \in Nat
      BY <1>3
    <2>4. p < u \/ p = u \/ u < p
      OBVIOUS
    <2> DEFINE x == p * b
               y == u * b
    <2> HIDE DEF x, y
    <2>5. (u < p => x >= y + b) /\ (p = u => x = y) /\ x \in Nat /\ y \in Nat
      BY <2>1, <2>2, <2>3 DEF x, y
    <2>6. x < y => p < u
      BY <1>0, <2>4, <2>5
    <2> QED BY <2>6 DEF x, y
  <1>5. (u + 1) * b = u * b + b
    BY <1>0
  <1>6. ASSUME u > 0 PROVE u - 1 \in Nat /\ (u - 1) * b = u * b - b /\ u * b >= b
    BY <1>0, <1>6
  <1> QED BY <1>1, <1>2, <1>4, <1>5, <1>6

LEMMA EndsFacts ==
    ASSUME NEW j \in Nat
    PROVE  /\ IsEnd(j) => /\ \E u \in Nat : j = u * LineBytes
                          /\ IsEnd(j + LineBytes)
                          /\ j >= LineBytes => IsEnd(j - LineBytes)
                          /\ j > 0 => j >= LineBytes
           /\ \A i \in Nat : IsEnd(i) /\ IsEnd(j) /\ i < j => j - i >= LineBytes
           /\ \A u \in Nat : IsEnd(u * LineBytes) /\ u * LineBytes \in Nat
  <1>1. LineBytes \in Nat \ {0} /\ LineBytes \in Nat /\ LineBytes >= 1
    BY LineBytesFact
  <1>2. ASSUME NEW i \in Nat, IsEnd(i) PROVE \E u \in Nat : i = u * LineBytes
    <2>1. i % LineBytes = 0
      BY <1>2 DEF IsEnd
    <2>2. i \div LineBytes \in Nat /\ i = LineBytes * (i \div LineBytes)
      BY <1>1, <2>1
    <2>3. \A u \in Nat : LineBytes * u = u * LineBytes
      BY <1>1
    <2> QED BY <2>2, <2>3
  <1>3. \A u \in Nat : IsEnd(u * LineBytes) /\ u * LineBytes \in Nat
    BY <1>1, TimesFacts DEF IsEnd
  <1>4. ASSUME IsEnd(j)
        PROVE  /\ IsEnd(j + LineBytes)
               /\ j >= LineBytes => IsEnd(j - LineBytes)
               /\ j > 0 => j >= LineBytes
    <2>1. PICK u \in Nat : j = u * LineBytes
      BY <1>2, <1>4
    <2>2. j + LineBytes = (u + 1) * LineBytes /\ u + 1 \in Nat
      BY <1>1, <2>1, TimesFacts
    <2>3. IsEnd(j + LineBytes)
      BY <1>3, <2>2
    <2>4. u = 0 => j = 0
      BY <1>1, <2>1
    <2>5. u > 0 => u - 1 \in Nat /\ (u - 1) * LineBytes = j - LineBytes /\ j >= LineBytes
      BY <1>1, <2>1, TimesFacts
    <2>6. u > 0 => IsEnd(j - LineBytes)
      BY <1>3, <2>5
    <2>7. u = 0 \/ u > 0
      OBVIOUS
    <2>8. j = 0 => ~(j >= LineBytes) /\ ~(j > 0)
      BY <1>1
    <2> QED BY <2>3, <2>4, <2>5, <2>6, <2>7, <2>8
  <1>5. ASSUME NEW i \in Nat, IsEnd(i), IsEnd(j), i < j PROVE j - i >= LineBytes
    <2>1. PICK p \in Nat : i = p * LineBytes
      BY <1>2, <1>5
    <2>2. PICK u \in Nat : j = u * LineBytes
      BY <1>2, <1>5
    <2>3. j >= i + LineBytes
      BY <1>1, <1>5, <2>1, <2>2, TimesFacts
    <2> QED BY <1>1, <2>3
  <1> QED BY <1>2, <1>3, <1>4, <1>5

(* The line a byte is of. *)
LEMMA LineOfFacts ==
    ASSUME NEW e \in Nat, IsEnd(e), NEW x \in Nat, x >= 1, x <= e, e - x < LineBytes
    PROVE  LineOf(x) * LineBytes = e
  <1>1. LineBytes \in Nat \ {0} /\ LineBytes \in Nat /\ LineBytes >= 1
    BY LineBytesFact
  <1>2. PICK u \in Nat : e = u * LineBytes
    BY EndsFacts
  <1>3. u > 0
    <2>1. u = 0 => e = 0
      BY <1>1, <1>2
    <2> QED BY <2>1
  <1>4. u - 1 \in Nat /\ (u - 1) * LineBytes = e - LineBytes
    BY <1>1, <1>2, <1>3, TimesFacts
  <1> DEFINE r == (x - 1) - (e - LineBytes)
  <1>5. r \in 0 .. LineBytes - 1 /\ x - 1 = (e - LineBytes) + r
    BY <1>1
  <1> HIDE DEF r
  <1>6. ASSUME NEW b \in Nat \ {0}, NEW p \in Nat, NEW s \in 0 .. b - 1
        PROVE  (p * b + s) \div b = p
    OBVIOUS
  <1>7. (x - 1) \div LineBytes = u - 1
    <2>1. ((u - 1) * LineBytes + r) \div LineBytes = u - 1
      BY <1>1, <1>4, <1>5, <1>6
    <2> QED BY <1>4, <1>5, <2>1
  <1>8. LineOf(x) = u
    <2>1. (u - 1) + 1 = u
      OBVIOUS
    <2> QED BY <1>7, <2>1 DEF LineOf
  <1> QED BY <1>2, <1>8

(* A line that runs from byte a to its end e, and no other ends in it. *)
LEMMA LineLength ==
    ASSUME NEW a \in Nat, a >= 1, NEW e \in Nat, a <= e, IsEnd(e),
           \A j \in a .. e - 1 : ~IsEnd(j)
    PROVE  /\ e - a <= LineBytes - 1
           /\ IsEnd(a - 1) => e - a = LineBytes - 1
  <1>1. LineBytes \in Nat /\ LineBytes >= 1
    BY LineBytesFact
  <1>2. e - a <= LineBytes - 1
    <2>1. SUFFICES ASSUME e - a > LineBytes - 1 PROVE FALSE
      BY <1>1
    <2>2. e - LineBytes \in a .. e - 1 /\ e >= LineBytes
      BY <1>1, <2>1
    <2>3. IsEnd(e - LineBytes)
      BY <2>2, EndsFacts
    <2> QED BY <2>2, <2>3
  <1>3. ASSUME IsEnd(a - 1) PROVE e - a >= LineBytes - 1
    <2>1. a - 1 \in Nat /\ a - 1 < e
      OBVIOUS
    <2>2. e - (a - 1) >= LineBytes
      BY <1>3, <2>1, EndsFacts
    <2> QED BY <1>1, <2>2
  <1> QED BY <1>1, <1>2, <1>3

(* A line's text, when its end is byte x. *)
TextEnds(text, x) ==
    /\ Len(text) <= LineBytes - 1
    /\ \A k \in 1 .. Len(text) : text[k] = ((x - 1) - Len(text)) + k

(* The bytes of b are those from s on. *)
Onward(b, s) == \A i \in 1 .. Len(b) : b[i] = (s - 1) + i

LEMMA WholeFacts ==
    ASSUME NEW text \in Seq(Nat), NEW n \in Nat \ {0}, TextEnds(text, n * LineBytes),
           Len(text) = LineBytes - 1
    PROVE  text = Whole(n)
  <1>1. LineBytes \in Nat /\ LineBytes >= 1
    BY LineBytesFact
  <1>2. n - 1 \in Nat /\ (n - 1) * LineBytes = n * LineBytes - LineBytes
        /\ n * LineBytes >= LineBytes /\ n * LineBytes \in Nat
    BY <1>1, TimesFacts
  <1> DEFINE x == n * LineBytes
             l == LineBytes - 1
             y == (n - 1) * LineBytes
  <1>3. Whole(n) = [k \in 1 .. l |-> y + k]
    BY DEF Whole
  <1>4. /\ y = x - LineBytes /\ x >= LineBytes /\ x \in Nat /\ y \in Nat /\ l \in Nat
        /\ l = LineBytes - 1 /\ Len(text) = l
    <2>1. y = x - LineBytes /\ x >= LineBytes /\ x \in Nat
      BY <1>2
    <2> HIDE DEF x, y
    <2> QED BY <1>1, <2>1
  <1>5. \A k \in 1 .. Len(text) : text[k] = ((x - 1) - Len(text)) + k
    BY DEF TextEnds
  <1> HIDE DEF x, y, l
  <1>6. \A k \in 1 .. l : text[k] = y + k
    <2> TAKE k \in 1 .. l
    <2>1. text[k] = ((x - 1) - l) + k
      BY <1>4, <1>5
    <2> QED BY <1>1, <1>4, <2>1
  <1>7. text = [k \in 1 .. l |-> text[k]]
    BY <1>4
  <1> QED BY <1>3, <1>6, <1>7

(* Where lines end in what the bridge has at hand. *)
LEMMA ChunkEnds ==
    ASSUME NEW b \in Seq(Nat), NEW s \in Nat, s >= 1, Onward(b, s)
    PROVE  /\ Len(Ends(b)) \in Nat /\ DOMAIN Ends(b) = 1 .. Len(Ends(b))
           /\ \A k \in 1 .. Len(Ends(b)) :
                 Ends(b)[k] \in 1 .. Len(b) /\ IsEnd((s - 1) + Ends(b)[k])
           /\ \A k, l \in 1 .. Len(Ends(b)) : k < l => Ends(b)[k] < Ends(b)[l]
           /\ \A i \in 1 .. Len(b) : IsEnd((s - 1) + i) =>
                 \E k \in 1 .. Len(Ends(b)) : Ends(b)[k] = i
  <1> DEFINE T == {i \in DOMAIN b : IsEnd(b[i])}
             u == Cardinality(T)
             A == Ends(b)
  <1>0. Len(b) \in Nat /\ DOMAIN b = 1 .. Len(b)
    OBVIOUS
  <1>1. T \subseteq Nat /\ IsFiniteSet(T) /\ T \subseteq 1 .. Len(b)
    <2>1. T \subseteq 1 .. Len(b)
      BY <1>0
    <2>2. IsFiniteSet(1 .. Len(b))
      BY <1>0, FS_Interval
    <2> HIDE DEF T
    <2>3. IsFiniteSet(T)
      BY <2>1, <2>2, FS_Subset
    <2> QED BY <1>0, <2>1, <2>3
  <1>2. A = Ascending(T)
    BY DEF Ends
  <1>3. \A i \in 1 .. Len(b) : i \in T <=> IsEnd((s - 1) + i)
    BY <1>0 DEF Onward
  <1> HIDE DEF T, A
  <1>4. /\ u \in Nat
        /\ A \in [1 .. u -> T]
        /\ \A m, n \in 1 .. u : m < n => A[m] < A[n]
        /\ \A i \in T : \E n \in 1 .. u : A[n] = i
    BY <1>1, <1>2, AscendingFacts
  <1> HIDE DEF u
  <1>5. Len(A) = u /\ DOMAIN A = 1 .. u
    <2>1. A \in Seq(T)
      BY <1>4 DEF Seq
    <2>2. DOMAIN A = 1 .. u /\ DOMAIN A = 1 .. Len(A) /\ Len(A) \in Nat
      BY <1>4, <2>1, LenProperties
    <2>3. \A m, n \in Nat : 1 .. m = 1 .. n => m = n
      <3> TAKE m, n \in Nat
      <3> HAVE 1 .. m = 1 .. n
      <3>1. (m \in 1 .. n \/ m = 0) /\ (n \in 1 .. m \/ n = 0)
        OBVIOUS
      <3> QED BY <3>1
    <2>4. 1 .. Len(A) = 1 .. u
      BY <2>2
    <2> QED BY <1>4, <2>2, <2>3, <2>4
  <1>6. \A k \in 1 .. u : A[k] \in 1 .. Len(b) /\ IsEnd((s - 1) + A[k])
    <2> TAKE k \in 1 .. u
    <2>1. A[k] \in T
      BY <1>4
    <2> QED BY <1>1, <1>3, <2>1
  <1>7. \A i \in 1 .. Len(b) : IsEnd((s - 1) + i) => \E k \in 1 .. u : A[k] = i
    BY <1>3, <1>4
  <1>8. /\ Len(A) \in Nat /\ DOMAIN A = 1 .. Len(A)
        /\ \A k \in 1 .. Len(A) : A[k] \in 1 .. Len(b) /\ IsEnd((s - 1) + A[k])
        /\ \A k, l \in 1 .. Len(A) : k < l => A[k] < A[l]
        /\ \A i \in 1 .. Len(b) : IsEnd((s - 1) + i) => \E k \in 1 .. Len(A) : A[k] = i
    BY <1>4, <1>5, <1>6, <1>7
  <1> QED BY <1>8 DEF A

(* Between an end and the one before it there is none. *)
LEMMA ChunkGaps ==
    ASSUME NEW b \in Seq(Nat), NEW s \in Nat, s >= 1, Onward(b, s),
           NEW k \in 1 .. Len(Ends(b)) + 1
    PROVE  LET g == EndBefore(b, k)
               z == IF k <= Len(Ends(b)) THEN Ends(b)[k] ELSE Len(b) + 1
           IN  /\ g \in 0 .. Len(b) /\ g < z /\ z \in 1 .. Len(b) + 1
               /\ \A i \in g + 1 .. z - 1 : ~IsEnd((s - 1) + i)
               /\ k = 1 => g = 0
               /\ k > 1 => IsEnd((s - 1) + g) /\ g >= 1
               /\ \A j \in 1 .. Len(Ends(b)) : j < k => Ends(b)[j] <= g
  <1> DEFINE u == Len(Ends(b))
             A == Ends(b)
             g == EndBefore(b, k)
             z == IF k <= u THEN A[k] ELSE Len(b) + 1
  <1>1. /\ u \in Nat
        /\ \A j \in 1 .. u : A[j] \in 1 .. Len(b) /\ IsEnd((s - 1) + A[j])
        /\ \A j, l \in 1 .. u : j < l => A[j] < A[l]
        /\ \A i \in 1 .. Len(b) : IsEnd((s - 1) + i) => \E j \in 1 .. u : A[j] = i
    BY ChunkEnds
  <1>2. g = IF k = 1 THEN 0 ELSE A[k - 1]
    BY DEF EndBefore
  <1>3. Len(b) \in Nat /\ k \in 1 .. u + 1
    OBVIOUS
  <1> HIDE DEF u, A, g
  <1>4. k > 1 => k - 1 \in 1 .. u
    BY <1>1, <1>3
  <1>5. g \in 0 .. Len(b) /\ (k = 1 => g = 0) /\ (k > 1 => IsEnd((s - 1) + g) /\ g >= 1)
    <2>1. CASE k = 1
      BY <1>2, <1>3, <2>1
    <2>2. CASE k > 1
      <3>1. g = A[k - 1]
        BY <1>2, <2>2
      <3> QED BY <1>1, <1>4, <2>2, <3>1
    <2> QED BY <1>1, <1>3, <2>1, <2>2
  <1>6. z \in 1 .. Len(b) + 1 /\ g < z
    <2>1. CASE k <= u
      <3>1. k \in 1 .. u /\ z = A[k]
        BY <1>1, <1>3, <2>1
      <3>2. z \in 1 .. Len(b)
        BY <1>1, <3>1
      <3>3. k = 1 => g < z
        BY <1>2, <3>2
      <3>4. k > 1 => g < z
        BY <1>1, <1>2, <1>4, <3>1
      <3> QED BY <1>1, <1>3, <3>2, <3>3, <3>4
    <2>2. CASE ~(k <= u)
      BY <1>3, <1>5, <2>2
    <2> QED BY <2>1, <2>2
  <1>7. \A j \in 1 .. u : j < k => A[j] <= g
    <2> TAKE j \in 1 .. u
    <2> HAVE j < k
    <2>1. k > 1 /\ g = A[k - 1] /\ k - 1 \in 1 .. u
      BY <1>1, <1>2, <1>3, <1>4
    <2>2. CASE j = k - 1
      BY <1>1, <2>1, <2>2
    <2>3. CASE j < k - 1
      BY <1>1, <2>1, <2>3, SMTT(40)
    <2> QED BY <1>1, <1>3, <2>2, <2>3
  <1>8. \A i \in g + 1 .. z - 1 : ~IsEnd((s - 1) + i)
    <2> SUFFICES ASSUME NEW i \in g + 1 .. z - 1, IsEnd((s - 1) + i) PROVE FALSE
      OBVIOUS
    <2>1. i \in 1 .. Len(b) /\ i > g /\ i < z
      BY <1>3, <1>5, <1>6, SMTT(40)
    <2>2. PICK j \in 1 .. u : A[j] = i
      BY <1>1, <2>1
    <2>3. ~(j < k)
      BY <1>5, <1>7, <2>1, <2>2
    <2>4. k <= u /\ k \in 1 .. u /\ (j = k \/ k < j) /\ z = A[k]
      BY <1>1, <1>3, <2>2, <2>3
    <2>5. A[k] <= A[j] /\ A[k] \in Nat
      BY <1>1, <2>2, <2>4, SMTT(40)
    <2> QED BY <2>1, <2>2, <2>4, <2>5
  <1> HIDE DEF z
  <1>9. /\ g \in 0 .. Len(b) /\ g < z /\ z \in 1 .. Len(b) + 1
        /\ \A i \in g + 1 .. z - 1 : ~IsEnd((s - 1) + i)
        /\ k = 1 => g = 0
        /\ k > 1 => IsEnd((s - 1) + g) /\ g >= 1
        /\ \A j \in 1 .. u : j < k => A[j] <= g
    BY <1>5, <1>6, <1>7, <1>8
  <1> QED BY <1>9 DEF g, z, u, A

(* A line of a chunk. *)
LEMMA ChunkLine ==
    ASSUME NEW b \in Seq(Nat), NEW s \in Nat, s >= 1, Onward(b, s),
           NEW k \in 1 .. Len(Ends(b))
    PROVE  LET x == (s - 1) + Ends(b)[k]
           IN  /\ x \in Nat /\ IsEnd(x) /\ x >= s /\ x <= (s - 1) + Len(b)
               /\ Line(b, k) \in Seq(Nat) /\ TextEnds(Line(b, k), x)
               /\ k > 1 \/ IsEnd(s - 1) => Len(Line(b, k)) = LineBytes - 1
               /\ k = 1 => Len(Line(b, k)) = x - s
  <1> DEFINE g == EndBefore(b, k)
             z == Ends(b)[k]
             x == (s - 1) + z
             t == Line(b, k)
  <1>1. /\ g \in 0 .. Len(b) /\ g < z
        /\ \A i \in g + 1 .. z - 1 : ~IsEnd((s - 1) + i)
        /\ k = 1 => g = 0
        /\ k > 1 => IsEnd((s - 1) + g) /\ g >= 1
    <2>0. Len(Ends(b)) \in Nat
      BY ChunkEnds
    <2>1. k \in 1 .. Len(Ends(b)) + 1 /\ k <= Len(Ends(b))
      BY <2>0
    <2> QED BY <2>1, ChunkGaps
  <1>2. z \in 1 .. Len(b) /\ IsEnd(x)
    BY ChunkEnds
  <1>3. t = SubSeq(b, g + 1, z - 1)
    BY DEF Line
  <1>4. Len(b) \in Nat /\ \A i \in 1 .. Len(b) : b[i] \in Nat /\ b[i] = (s - 1) + i
    BY DEF Onward
  <1> HIDE DEF g, z, t
  <1>5. x \in Nat /\ x >= s /\ x <= (s - 1) + Len(b) /\ g \in Nat /\ z \in Nat
    BY <1>1, <1>2, <1>4
  <1>6. /\ t \in Seq(Nat) /\ Len(t) = (z - 1) - g
        /\ \A i \in 1 .. (z - 1) - g : t[i] = b[g + i]
    <2>1. \A i \in g + 1 .. z - 1 : b[i] \in Nat
      <3>1. \A i \in g + 1 .. z - 1 : i \in 1 .. Len(b)
        BY <1>2, <1>4, <1>5
      <3> QED BY <1>4, <3>1
    <2>2. g + 1 \in Int /\ z - 1 \in Int
      BY <1>5
    <2> DEFINE m == g + 1
               n == z - 1
    <2> HIDE DEF m, n
    <2>3. /\ SubSeq(b, m, n) \in Seq(Nat)
          /\ Len(SubSeq(b, m, n)) = IF m <= n THEN n - m + 1 ELSE 0
          /\ \A i \in 1 .. n - m + 1 : SubSeq(b, m, n)[i] = b[m + i - 1]
      BY <2>1, <2>2, SubSeqProperties, SMTT(40) DEF m, n
    <2>4. t = SubSeq(b, m, n)
      BY <1>3 DEF m, n
    <2>5. m = g + 1 /\ n = z - 1
      BY DEF m, n
    <2>6. (n - m) + 1 = (z - 1) - g /\ ~(m <= n) => (z - 1) - g = 0
      BY <1>1, <1>5, <2>5
    <2>7. Len(t) = (z - 1) - g
      BY <1>1, <1>5, <2>3, <2>4, <2>5, <2>6
    <2>8. ASSUME NEW i \in 1 .. (z - 1) - g PROVE t[i] = b[g + i]
      <3>1. i \in 1 .. n - m + 1 /\ m + i - 1 = g + i
        BY <1>5, <2>5
      <3> QED BY <2>3, <2>4, <3>1
    <2> QED BY <2>3, <2>4, <2>7, <2>8
  <1> DEFINE a == s + g
  <1>7. /\ a \in Nat /\ a >= 1 /\ a <= x /\ Len(t) = x - a /\ a - 1 = (s - 1) + g
    BY <1>1, <1>5, <1>6
  <1>8. \A j \in a .. x - 1 : ~IsEnd(j)
    <2> TAKE j \in a .. x - 1
    <2>1. j - (s - 1) \in g + 1 .. z - 1 /\ (s - 1) + (j - (s - 1)) = j
      BY <1>5
    <2> QED BY <1>1, <2>1
  <1> HIDE DEF x, a
  <1>9. /\ x - a <= LineBytes - 1
        /\ IsEnd(a - 1) => x - a = LineBytes - 1
    BY <1>2, <1>5, <1>7, <1>8, LineLength
  <1>10. TextEnds(t, x)
    <2>1. ASSUME NEW i \in 1 .. Len(t) PROVE t[i] = ((x - 1) - Len(t)) + i
      <3>1. i \in 1 .. (z - 1) - g /\ g + i \in 1 .. Len(b)
        BY <1>2, <1>4, <1>5, <1>6
      <3>2. t[i] = (s - 1) + (g + i)
        BY <1>4, <1>6, <3>1
      <3>3. x = (s - 1) + z /\ Len(t) = (z - 1) - g
        BY <1>6 DEF x
      <3> QED BY <1>5, <3>2, <3>3
    <2> QED BY <1>7, <1>9, <2>1 DEF TextEnds
  <1>11. k > 1 \/ IsEnd(s - 1) => Len(t) = LineBytes - 1
    <2>1. k > 1 => IsEnd(a - 1)
      BY <1>1, <1>7
    <2>2. CASE IsEnd(s - 1) /\ k = 1
      <3>1. g = 0
        BY <1>1, <2>2
      <3>2. a - 1 = s - 1
        BY <1>7, <3>1
      <3> QED BY <1>7, <1>9, <2>2, <3>2
    <2>3. k = 1 \/ k > 1
      BY ChunkEnds
    <2> QED BY <1>7, <1>9, <2>1, <2>2, <2>3
  <1>12. k = 1 => Len(t) = x - s
    <2>1. k = 1 => a = s
      BY <1>1 DEF a
    <2> QED BY <1>7, <2>1
  <1>13. /\ x \in Nat /\ IsEnd(x) /\ x >= s /\ x <= (s - 1) + Len(b)
         /\ t \in Seq(Nat) /\ TextEnds(t, x)
         /\ k > 1 \/ IsEnd(s - 1) => Len(t) = LineBytes - 1
         /\ k = 1 => Len(t) = x - s
    BY <1>2, <1>5, <1>6, <1>10, <1>11, <1>12
  <1> QED BY <1>13 DEF x, z, t

(* What is left of a chunk. *)
LEMMA ChunkLeft ==
    ASSUME NEW b \in Seq(Nat), NEW s \in Nat, s >= 1, Onward(b, s)
    PROVE  LET g == EndBefore(b, Len(Ends(b)) + 1)
               rest == SubSeq(b, g + 1, Len(b))
           IN  /\ g \in 0 .. Len(b)
               /\ rest \in Seq(Nat) /\ Len(rest) = Len(b) - g /\ Onward(rest, s + g)
               /\ \A i \in 1 .. Len(rest) : ~IsEnd(((s + g) - 1) + i)
               /\ Len(Ends(b)) = 0 => g = 0
               /\ Len(Ends(b)) > 0 => IsEnd((s + g) - 1)
               /\ \A j \in 1 .. Len(Ends(b)) : Ends(b)[j] <= g
  <1> DEFINE u == Len(Ends(b))
             g == EndBefore(b, u + 1)
             rest == SubSeq(b, g + 1, Len(b))
  <1>1. u \in Nat /\ u + 1 \in 1 .. u + 1 /\ ~(u + 1 <= u)
    <2>1. u \in Nat
      BY ChunkEnds
    <2> HIDE DEF u
    <2> QED BY <2>1
  <1>2. /\ g \in 0 .. Len(b)
        /\ \A i \in g + 1 .. (Len(b) + 1) - 1 : ~IsEnd((s - 1) + i)
        /\ u + 1 = 1 => g = 0
        /\ u + 1 > 1 => IsEnd((s - 1) + g) /\ g >= 1
        /\ \A j \in 1 .. u : j < u + 1 => Ends(b)[j] <= g
    BY <1>1, ChunkGaps
  <1>3. Len(b) \in Nat /\ \A i \in 1 .. Len(b) : b[i] \in Nat /\ b[i] = (s - 1) + i
    BY DEF Onward
  <1> HIDE DEF u, g
  <1>4. g \in Nat /\ (s + g) - 1 = (s - 1) + g
    BY <1>2, <1>3
  <1>5. /\ rest \in Seq(Nat) /\ Len(rest) = Len(b) - g
        /\ \A i \in 1 .. Len(b) - g : rest[i] = b[g + i]
    <2>1. \A i \in g + 1 .. Len(b) : i \in 1 .. Len(b)
      BY <1>3, <1>4
    <2>2. \A i \in g + 1 .. Len(b) : b[i] \in Nat
      BY <1>3, <2>1
    <2> DEFINE m == g + 1
               n == Len(b)
    <2>3. m \in Int /\ n \in Int
      BY <1>3, <1>4
    <2> HIDE DEF m, n
    <2>4. /\ SubSeq(b, m, n) \in Seq(Nat)
          /\ Len(SubSeq(b, m, n)) = IF m <= n THEN n - m + 1 ELSE 0
          /\ \A i \in 1 .. n - m + 1 : SubSeq(b, m, n)[i] = b[m + i - 1]
      BY <2>2, <2>3, SubSeqProperties DEF m, n
    <2>5. rest = SubSeq(b, m, n)
      BY DEF m, n
    <2> HIDE DEF rest
    <2>6. m = g + 1 /\ n = Len(b)
      BY DEF m, n
    <2>7. Len(rest) = Len(b) - g
      BY <1>2, <1>3, <1>4, <2>4, <2>5, <2>6
    <2>8. ASSUME NEW i \in 1 .. Len(b) - g PROVE rest[i] = b[g + i]
      <3>1. i \in 1 .. n - m + 1 /\ m + i - 1 = g + i
        BY <1>3, <1>4, <2>6
      <3> QED BY <2>4, <2>5, <3>1
    <2> QED BY <2>4, <2>5, <2>7, <2>8
  <1> HIDE DEF rest
  <1>6. ASSUME NEW i \in 1 .. Len(rest)
        PROVE  rest[i] = ((s + g) - 1) + i /\ ~IsEnd(((s + g) - 1) + i)
    <2>1. i \in 1 .. Len(b) - g /\ g + i \in 1 .. Len(b) /\ g + i \in g + 1 .. (Len(b) + 1) - 1
          /\ (s - 1) + (g + i) = ((s + g) - 1) + i
      BY <1>2, <1>3, <1>4, <1>5
    <2>2. rest[i] = (s - 1) + (g + i)
      BY <1>3, <1>5, <2>1
    <2> QED BY <1>2, <2>1, <2>2
  <1>7. /\ u = 0 => g = 0
        /\ u > 0 => IsEnd((s + g) - 1)
        /\ \A j \in 1 .. u : Ends(b)[j] <= g
    <2>1. u = 0 => u + 1 = 1
      BY <1>1
    <2>2. u > 0 => u + 1 > 1
      BY <1>1
    <2>3. \A j \in 1 .. u : j < u + 1
      BY <1>1
    <2> QED BY <1>2, <1>4, <2>1, <2>2, <2>3
  <1>8. /\ g \in 0 .. Len(b)
        /\ rest \in Seq(Nat) /\ Len(rest) = Len(b) - g /\ Onward(rest, s + g)
        /\ \A i \in 1 .. Len(rest) : ~IsEnd(((s + g) - 1) + i)
        /\ u = 0 => g = 0
        /\ u > 0 => IsEnd((s + g) - 1)
        /\ \A j \in 1 .. u : Ends(b)[j] <= g
    BY <1>2, <1>5, <1>6, <1>7 DEF Onward
  <1> QED BY <1>8 DEF u, g, rest

(* What a page may be told. *)
Told == [text : Seq(Nat),
         on : SUBSET {"kernel:event", "its own", "kernel:misc", "ipc:log", "kernel:raw",
                      "kernel:log"}]

(* The lines that were cut at their beginning. *)
CutLines == {i \in 1 .. Len(forwarded) : Len(forwarded[i].text) < LineBytes - 1}

(* The first byte of the line that has not ended. *)
LineStart == ((written - Len(pipe)) - Len(_buffer)) + 1

LinesTypeOK ==
    /\ written \in Nat /\ pipe \in Seq(Nat) /\ _buffer \in Seq(Nat)
    /\ forwarded \in Seq(Told) /\ first \in Nat /\ connects \in Nat
    /\ connects <= MaxConnects

(* The lines ended with the bytes e. *)
LineEnds(e) ==
    /\ e \in [1 .. Len(forwarded) -> Nat]
    /\ \A i \in 1 .. Len(forwarded) :
          IsEnd(e[i]) /\ e[i] >= 1 /\ e[i] <= written /\ TextEnds(forwarded[i].text, e[i])
    /\ \A i, j \in 1 .. Len(forwarded) : i < j => e[i] < e[j]

(* The bridge has what was written since the line began; the line is the
   first of the connection or follows another's end.                        *)
Following(e) ==
    /\ LineStart >= 1
    /\ Onward(_buffer, LineStart)
    /\ \A i \in 1 .. Len(_buffer) : ~IsEnd((LineStart - 1) + i)
    /\ Onward(pipe, (written - Len(pipe)) + 1)
    /\ LineStart = first \/ IsEnd(LineStart - 1)
    /\ ~IsEnd(LineStart - 1) => Cardinality(CutLines) + 1 <= connects
    /\ \A i \in 1 .. Len(forwarded) : e[i] < LineStart
    /\ \A n \in 1 .. MaxLines :
          first <= (n - 1) * LineBytes + 1 /\ n * LineBytes < LineStart =>
             \E i \in 1 .. Len(forwarded) : forwarded[i].text = Whole(n)

LinesInv ==
    /\ LinesTypeOK
    /\ ~ _connected => pipe = << >>
    /\ Cardinality(CutLines) <= connects
    /\ \E e : LineEnds(e) /\ (_connected => Following(e))

LEMMA CutFacts ==
    ASSUME LinesTypeOK
    PROVE  /\ IsFiniteSet(CutLines) /\ Cardinality(CutLines) \in Nat
           /\ Len(forwarded) \in Nat /\ Len(pipe) \in Nat /\ Len(_buffer) \in Nat
           /\ LineStart \in Int
           /\ \A i \in 1 .. Len(forwarded) : forwarded[i].text \in Seq(Nat)
                                             /\ Len(forwarded[i].text) \in Nat
  <1>1. /\ Len(forwarded) \in Nat /\ Len(pipe) \in Nat /\ Len(_buffer) \in Nat /\ written \in Nat
        /\ forwarded \in Seq(Told)
    BY DEF LinesTypeOK
  <1>2. IsFiniteSet(CutLines)
    <2>1. IsFiniteSet(1 .. Len(forwarded)) /\ CutLines \subseteq 1 .. Len(forwarded)
      BY <1>1, FS_Interval DEF CutLines
    <2> QED BY <2>1, FS_Subset
  <1>3. Cardinality(CutLines) \in Nat
    BY <1>2, FS_CardinalityType
  <1>4. LineStart \in Int
    BY <1>1 DEF LineStart
  <1>5. ASSUME NEW i \in 1 .. Len(forwarded)
        PROVE  forwarded[i].text \in Seq(Nat) /\ Len(forwarded[i].text) \in Nat
    <2>1. forwarded[i] \in Told
      BY <1>1
    <2>2. forwarded[i].text \in Seq(Nat)
      BY <2>1 DEF Told
    <2> QED BY <2>2
  <1> QED BY <1>1, <1>2, <1>3, <1>4, <1>5

LEMMA PutcInv == ASSUME LinesInv, uart_putc PROVE LinesInv'
  <1>1. /\ LinesTypeOK /\ written' = written + 1
        /\ pipe' = IF _connected THEN Append(pipe, written + 1) ELSE pipe
        /\ UNCHANGED <<_connected, _buffer, forwarded, first, connects>>
    BY DEF uart_putc, LinesInv
  <1>2. /\ written \in Nat /\ pipe \in Seq(Nat) /\ written + 1 \in Nat
        /\ Len(pipe) \in Nat /\ Len(_buffer) \in Nat
    <2>1. written \in Nat /\ pipe \in Seq(Nat) /\ _buffer \in Seq(Nat)
      BY <1>1 DEF LinesTypeOK
    <2> QED BY <2>1
  <1>3. pipe' \in Seq(Nat)
    BY <1>1, <1>2
  <1>4. LinesTypeOK'
    BY <1>1, <1>2, <1>3 DEF LinesTypeOK
  <1>5. CutLines' = CutLines
    BY <1>1 DEF CutLines
  <1>6. Cardinality(CutLines') <= connects' /\ (~ _connected' => pipe' = << >>)
    BY <1>1, <1>5 DEF LinesInv
  <1>7. PICK e : LineEnds(e) /\ (_connected => Following(e))
    BY DEF LinesInv
  <1>8. LineEnds(e)'
    <2>1. ASSUME NEW i \in 1 .. Len(forwarded) PROVE e[i] <= written + 1
      <3>1. e[i] \in Nat /\ e[i] <= written
        BY <1>7 DEF LineEnds
      <3> QED BY <1>2, <3>1
    <2> QED BY <1>1, <1>7, <2>1 DEF LineEnds
  <1>9. ASSUME _connected PROVE Following(e)'
    <2>1. /\ pipe' = Append(pipe, written + 1) /\ Len(pipe') = Len(pipe) + 1
          /\ pipe'[Len(pipe) + 1] = written + 1
          /\ \A i \in 1 .. Len(pipe) : pipe'[i] = pipe[i]
      BY <1>1, <1>2, <1>9
    <2>2. LineStart' = LineStart /\ written' - Len(pipe') = written - Len(pipe)
      <3>1. \A w, n, l \in Nat : /\ (w + 1) - (n + 1) = w - n
                                 /\ (((w + 1) - (n + 1)) - l) + 1 = ((w - n) - l) + 1
        OBVIOUS
      <3>2. written' = written + 1 /\ Len(pipe') = Len(pipe) + 1 /\ Len(_buffer') = Len(_buffer)
        BY <1>1, <2>1
      <3>3. written' - Len(pipe') = written - Len(pipe)
        BY <1>2, <3>1, <3>2
      <3> QED BY <3>2, <3>3 DEF LineStart
    <2>3. Onward(pipe', (written - Len(pipe)) + 1)
      <3>1. Onward(pipe, (written - Len(pipe)) + 1)
        BY <1>7, <1>9 DEF Following
      <3>2. ASSUME NEW i \in 1 .. Len(pipe') PROVE pipe'[i] = (((written - Len(pipe)) + 1) - 1) + i
        <4>1. CASE i = Len(pipe) + 1
          BY <1>2, <2>1, <4>1
        <4>2. CASE i \in 1 .. Len(pipe)
          BY <2>1, <3>1, <4>2 DEF Onward
        <4> QED BY <1>2, <2>1, <4>1, <4>2
      <3> QED BY <3>2 DEF Onward
    <2>4. Following(e)
      BY <1>7, <1>9
    <2> QED BY <1>1, <1>5, <2>2, <2>3, <2>4 DEF Following, Onward
  <1>10. \E x : LineEnds(x)' /\ (_connected' => Following(x)')
    BY <1>1, <1>8, <1>9
  <1> QED BY <1>4, <1>6, <1>10 DEF LinesInv

LEMMA ConnectInv == ASSUME LinesInv, on_connect PROVE LinesInv'
  <1>1. /\ LinesTypeOK /\ ~ _connected /\ connects < MaxConnects
        /\ _connected' = TRUE /\ _buffer' = << >> /\ first' = written + 1
        /\ connects' = connects + 1
        /\ UNCHANGED <<written, pipe, forwarded>>
    BY DEF on_connect, LinesInv
  <1>2. /\ written \in Nat /\ connects \in Nat /\ MaxConnects \in Nat
        /\ pipe = << >> /\ Len(pipe) = 0
    <2>1. pipe = << >>
      BY <1>1 DEF LinesInv
    <2>2. MaxConnects \in Nat
      BY LinesAssumption
    <2> QED BY <1>1, <2>1, <2>2 DEF LinesTypeOK
  <1>3. _buffer' \in Seq(Nat) /\ Len(_buffer') = 0
    BY <1>1, EmptySeq
  <1>4. LinesTypeOK'
    <2>1. connects' <= MaxConnects /\ connects' \in Nat /\ first' \in Nat
      BY <1>1, <1>2
    <2> QED BY <1>1, <1>3, <2>1 DEF LinesTypeOK
  <1>5. CutLines' = CutLines
    BY <1>1 DEF CutLines
  <1>6. Cardinality(CutLines) \in Nat /\ Cardinality(CutLines) <= connects
    BY <1>1, CutFacts DEF LinesInv
  <1>7. Cardinality(CutLines') <= connects' /\ Cardinality(CutLines') + 1 <= connects'
    BY <1>1, <1>2, <1>5, <1>6
  <1>8. PICK e : LineEnds(e)
    BY DEF LinesInv
  <1>9. LineEnds(e)'
    BY <1>1, <1>8 DEF LineEnds
  <1>10. LineStart' = written + 1 /\ first' = LineStart' /\ LineStart' >= 1
    BY <1>1, <1>2, <1>3 DEF LineStart
  <1>11. Following(e)'
    <2>1. Onward(_buffer', LineStart') /\ \A i \in 1 .. Len(_buffer') : ~IsEnd((LineStart' - 1) + i)
      BY <1>3 DEF Onward
    <2>2. Onward(pipe', (written' - Len(pipe')) + 1)
      BY <1>1, <1>2 DEF Onward
    <2>3. \A i \in 1 .. Len(forwarded') : e[i] < LineStart'
      <3> TAKE i \in 1 .. Len(forwarded')
      <3>1. e[i] \in Nat /\ e[i] <= written
        BY <1>1, <1>8 DEF LineEnds
      <3> QED BY <1>2, <1>10, <3>1
    <2>4. ASSUME NEW n \in 1 .. MaxLines, first' <= (n - 1) * LineBytes + 1, n * LineBytes < LineStart'
          PROVE  FALSE
      <3>1. LineBytes \in Nat /\ LineBytes >= 1 /\ n \in Nat /\ n > 0
        BY LineBytesFact
      <3>2. (n - 1) * LineBytes = n * LineBytes - LineBytes /\ n * LineBytes \in Nat
        BY <3>1, TimesFacts
      <3> DEFINE x == n * LineBytes
                 y == (n - 1) * LineBytes
      <3>3. y = x - LineBytes /\ x \in Nat /\ x < written + 1 /\ written + 1 <= y + 1
        BY <1>1, <1>10, <2>4, <3>2
      <3> HIDE DEF x, y
      <3> QED BY <1>2, <3>1, <3>3
    <2>5. LineStart' = first' \/ IsEnd(LineStart' - 1)
      BY <1>10
    <2> QED BY <1>7, <1>10, <2>1, <2>2, <2>3, <2>4, <2>5 DEF Following
  <1>12. ~ _connected' => pipe' = << >>
    BY <1>1
  <1> QED BY <1>4, <1>7, <1>9, <1>11, <1>12 DEF LinesInv

LEMMA ClosedInv ==
    ASSUME LinesInv, _connected' = FALSE, pipe' = << >>, connects' \in Nat,
           connects' <= MaxConnects, connects <= connects',
           UNCHANGED <<written, _buffer, forwarded, first>>
    PROVE  LinesInv'
  <1>1. LinesTypeOK'
    BY EmptySeq DEF LinesInv, LinesTypeOK
  <1>2. CutLines' = CutLines
    BY DEF CutLines
  <1>3. Cardinality(CutLines') <= connects'
    <2>1. Cardinality(CutLines) \in Nat /\ Cardinality(CutLines) <= connects /\ connects \in Nat
      BY CutFacts DEF LinesInv, LinesTypeOK
    <2> QED BY <1>2, <2>1
  <1>4. PICK e : LineEnds(e)
    BY DEF LinesInv
  <1>5. LineEnds(e)'
    BY <1>4 DEF LineEnds
  <1> QED BY <1>1, <1>3, <1>5 DEF LinesInv

LEMMA ChannelsFact == ASSUME NEW line PROVE Channels(line) \in SUBSET
    {"kernel:event", "its own", "kernel:misc", "ipc:log", "kernel:raw", "kernel:log"}
  BY DEF Channels, _dispatchKernelEvent, _handleKernelMessage

(* A chunk. *)
LEMMA DataInv ==
    ASSUME LinesInv, NEW n \in 1 .. Len(pipe), on_data(n)
    PROVE  LinesInv'
  <1> DEFINE N == Len(forwarded)
             s == LineStart
             chunk == SubSeq(pipe, 1, n)
             b == _buffer \o chunk
             A == Ends(b)
             u == Len(A)
             g == EndBefore(b, u + 1)
             lines == [k \in DOMAIN A |-> [text |-> Line(b, k), on |-> Channels(Line(b, k))]]
  <1>1. /\ LinesTypeOK /\ _connected
        /\ _buffer' = SubSeq(b, g + 1, Len(b))
        /\ forwarded' = forwarded \o lines
        /\ pipe' = SubSeq(pipe, n + 1, Len(pipe))
        /\ UNCHANGED <<written, _connected, first, connects>>
    BY DEF on_data, LinesInv
  <1>2. /\ written \in Nat /\ pipe \in Seq(Nat) /\ _buffer \in Seq(Nat)
        /\ forwarded \in Seq(Told) /\ connects \in Nat
        /\ Len(pipe) \in Nat /\ Len(_buffer) \in Nat /\ N \in Nat /\ n \in Nat /\ n >= 1
        /\ n <= Len(pipe) /\ s \in Int
    <2>1. written \in Nat /\ pipe \in Seq(Nat) /\ _buffer \in Seq(Nat)
          /\ forwarded \in Seq(Told) /\ connects \in Nat
      BY <1>1 DEF LinesTypeOK
    <2>2. Len(pipe) \in Nat /\ Len(_buffer) \in Nat /\ N \in Nat
      BY <2>1
    <2>3. s \in Int
      BY <1>1, CutFacts
    <2> QED BY <2>1, <2>2, <2>3
  <1>3. PICK e : LineEnds(e) /\ Following(e)
    BY <1>1 DEF LinesInv
  <1>4. s \in Nat /\ s >= 1
    BY <1>2, <1>3 DEF Following
  <1>5. chunk \in Seq(Nat) /\ Len(chunk) = n /\ \A i \in 1 .. n : chunk[i] = pipe[i]
    BY <1>2
  <1> HIDE DEF chunk
  <1>6. b \in Seq(Nat) /\ Len(b) = Len(_buffer) + n /\ Onward(b, s)
    <2>1. /\ b \in Seq(Nat) /\ Len(b) = Len(_buffer) + Len(chunk)
          /\ \A i \in 1 .. Len(_buffer) + Len(chunk) :
                b[i] = IF i <= Len(_buffer) THEN _buffer[i] ELSE chunk[i - Len(_buffer)]
      BY <1>2, <1>5, ConcatProperties, SMTT(40)
    <2>2. Onward(_buffer, s) /\ Onward(pipe, (written - Len(pipe)) + 1)
      BY <1>3 DEF Following
    <2>3. s = ((written - Len(pipe)) - Len(_buffer)) + 1
      BY DEF LineStart
    <2> HIDE DEF b, s
    <2>4. ASSUME NEW i \in 1 .. Len(b) PROVE b[i] = (s - 1) + i
      <3>1. CASE i <= Len(_buffer)
        <4>1. i \in 1 .. Len(_buffer) /\ i \in 1 .. Len(_buffer) + Len(chunk)
          BY <1>2, <1>5, <2>1, <3>1
        <4> QED BY <2>1, <2>2, <3>1, <4>1 DEF Onward
      <3>2. CASE ~(i <= Len(_buffer))
        <4> DEFINE j == i - Len(_buffer)
        <4>1. j \in 1 .. n /\ j \in 1 .. Len(pipe) /\ i \in 1 .. Len(_buffer) + Len(chunk)
              /\ i = Len(_buffer) + j
          BY <1>2, <1>5, <2>1, <3>2, SMTT(40)
        <4>2. b[i] = chunk[j]
          BY <2>1, <3>2, <4>1
        <4> HIDE DEF j
        <4>3. chunk[j] = pipe[j] /\ pipe[j] = (((written - Len(pipe)) + 1) - 1) + j
          BY <1>5, <2>2, <4>1 DEF Onward
        <4> QED BY <1>2, <2>3, <4>1, <4>2, <4>3
      <3> QED BY <3>1, <3>2
    <2> QED BY <1>5, <2>1, <2>4 DEF Onward
  <1> HIDE DEF b
  <1>7. /\ u \in Nat /\ DOMAIN A = 1 .. u
        /\ \A k \in 1 .. u : A[k] \in 1 .. Len(b) /\ IsEnd((s - 1) + A[k])
        /\ \A k, l \in 1 .. u : k < l => A[k] < A[l]
        /\ \A i \in 1 .. Len(b) : IsEnd((s - 1) + i) => \E k \in 1 .. u : A[k] = i
    BY <1>4, <1>6, ChunkEnds
  <1>8. \A k \in 1 .. u :
           /\ (s - 1) + A[k] \in Nat /\ IsEnd((s - 1) + A[k]) /\ (s - 1) + A[k] >= s
           /\ (s - 1) + A[k] <= (s - 1) + Len(b)
           /\ Line(b, k) \in Seq(Nat) /\ TextEnds(Line(b, k), (s - 1) + A[k])
           /\ k > 1 \/ IsEnd(s - 1) => Len(Line(b, k)) = LineBytes - 1
           /\ k = 1 => Len(Line(b, k)) = ((s - 1) + A[k]) - s
    BY <1>4, <1>6, ChunkLine
  <1>9. /\ g \in 0 .. Len(b)
        /\ _buffer' \in Seq(Nat) /\ Len(_buffer') = Len(b) - g /\ Onward(_buffer', s + g)
        /\ \A i \in 1 .. Len(_buffer') : ~IsEnd(((s + g) - 1) + i)
        /\ u = 0 => g = 0
        /\ u > 0 => IsEnd((s + g) - 1)
        /\ \A j \in 1 .. u : A[j] <= g
    BY <1>1, <1>4, <1>6, ChunkLeft
  <1> HIDE DEF g, u, A
  <1>10. /\ lines \in Seq(Told) /\ Len(lines) = u
         /\ \A k \in 1 .. u : lines[k].text = Line(b, k)
    <2>1. \A k \in 1 .. u : [text |-> Line(b, k), on |-> Channels(Line(b, k))] \in Told
      BY <1>8, ChannelsFact DEF Told
    <2>2. lines \in [1 .. u -> Told]
      BY <1>7, <2>1
    <2>3. lines \in Seq(Told)
      BY <1>7, <2>2 DEF Seq
    <2>4. \A k \in 1 .. u : lines[k].text = Line(b, k)
      BY <1>7
    <2> HIDE DEF lines
    <2>5. DOMAIN lines = 1 .. u /\ DOMAIN lines = 1 .. Len(lines) /\ Len(lines) \in Nat
      BY <2>2, <2>3, LenProperties
    <2>6. \A i, j \in Nat : 1 .. i = 1 .. j => i = j
      <3> TAKE i, j \in Nat
      <3> HAVE 1 .. i = 1 .. j
      <3>1. (i \in 1 .. j \/ i = 0) /\ (j \in 1 .. i \/ j = 0)
        OBVIOUS
      <3> QED BY <3>1
    <2>7. 1 .. Len(lines) = 1 .. u
      BY <2>5
    <2>8. Len(lines) = u
      BY <1>7, <2>5, <2>6, <2>7
    <2> QED BY <2>3, <2>4, <2>8
  <1> HIDE DEF lines
  <1>11. /\ forwarded' \in Seq(Told) /\ Len(forwarded') = N + u
         /\ \A i \in 1 .. N : forwarded'[i] = forwarded[i]
         /\ \A k \in 1 .. u : forwarded'[N + k].text = Line(b, k)
    <2>1. /\ forwarded \o lines \in Seq(Told) /\ Len(forwarded \o lines) = N + Len(lines)
          /\ \A i \in 1 .. N + Len(lines) : (forwarded \o lines)[i] =
                IF i <= N THEN forwarded[i] ELSE lines[i - N]
      BY <1>2, <1>10, ConcatProperties
    <2> HIDE DEF N
    <2>2. ASSUME NEW i \in 1 .. N PROVE forwarded'[i] = forwarded[i]
      <3>1. i \in 1 .. N + Len(lines) /\ i <= N
        BY <1>2, <1>7, <1>10
      <3> QED BY <1>1, <2>1, <3>1
    <2>3. ASSUME NEW k \in 1 .. u PROVE forwarded'[N + k].text = Line(b, k)
      <3>1. N + k \in 1 .. N + Len(lines) /\ ~(N + k <= N) /\ (N + k) - N = k
        BY <1>2, <1>7, <1>10
      <3>2. forwarded'[N + k] = lines[k]
        BY <1>1, <2>1, <3>1
      <3> QED BY <1>10, <3>2
    <2> QED BY <1>1, <1>10, <2>1, <2>2, <2>3
  <1>12. pipe' \in Seq(Nat) /\ Len(pipe') = Len(pipe) - n
         /\ \A i \in 1 .. Len(pipe) - n : pipe'[i] = pipe[n + i]
    BY <1>1, <1>2, SMTT(40)
  <1>13. LinesTypeOK'
    BY <1>1, <1>9, <1>11, <1>12 DEF LinesTypeOK
  <1> HIDE DEF N
  <1>14. LineStart' = s + g
    <2>1. s = ((written - Len(pipe)) - Len(_buffer)) + 1
      BY DEF LineStart
    <2>2. LineStart' = ((written - Len(pipe')) - Len(_buffer')) + 1
      BY <1>1 DEF LineStart
    <2>3. Len(pipe') = Len(pipe) - n /\ Len(_buffer') = (Len(_buffer) + n) - g /\ g \in Int
      BY <1>6, <1>9, <1>12
    <2> HIDE DEF s
    <2> QED BY <1>2, <2>1, <2>2, <2>3
  <1>15. (s - 1) + Len(b) <= written
    <2>1. s = ((written - Len(pipe)) - Len(_buffer)) + 1
      BY DEF LineStart
    <2> HIDE DEF s
    <2> QED BY <1>2, <1>6, <2>1
  <1> HIDE DEF s
  <1> DEFINE x == [i \in 1 .. N + u |-> IF i <= N THEN e[i] ELSE (s - 1) + A[i - N]]
  <1>16. /\ e \in [1 .. N -> Nat] /\ \A i \in 1 .. N : e[i] < s /\ IsEnd(e[i]) /\ e[i] >= 1
                                        /\ e[i] <= written /\ TextEnds(forwarded[i].text, e[i])
         /\ \A i, j \in 1 .. N : i < j => e[i] < e[j]
    BY <1>3 DEF LineEnds, Following, N, s
  <1>17. /\ \A i \in 1 .. N : x[i] = e[i]
         /\ \A k \in 1 .. u : x[N + k] = (s - 1) + A[k]
         /\ x \in [1 .. N + u -> Nat]
    <2>1. \A i \in 1 .. N : i \in 1 .. N + u /\ i <= N
      BY <1>2, <1>7
    <2>2. \A k \in 1 .. u : N + k \in 1 .. N + u /\ ~(N + k <= N) /\ (N + k) - N = k
      BY <1>2, <1>7
    <2>3. \A i \in 1 .. N + u : /\ i <= N => i \in 1 .. N
                                /\ ~(i <= N) => i - N \in 1 .. u
      BY <1>2, <1>7
    <2>4. \A i \in 1 .. N : e[i] \in Nat
      BY <1>16
    <2>5. \A k \in 1 .. u : (s - 1) + A[k] \in Nat
      BY <1>8
    <2>6. \A i \in 1 .. N : x[i] = e[i]
      BY <2>1
    <2>7. \A k \in 1 .. u : x[N + k] = (s - 1) + A[k]
      BY <2>2
    <2>8. x \in [1 .. N + u -> Nat]
      BY <2>3, <2>4, <2>5
    <2> QED BY <2>6, <2>7, <2>8
  <1> HIDE DEF x
  (* A line is an old one or one of the chunk's. *)
  <1>18. \A i \in 1 .. N + u : i \in 1 .. N \/ \E k \in 1 .. u : i = N + k
    <2> TAKE i \in 1 .. N + u
    <2>1. i \in 1 .. N \/ i - N \in 1 .. u
      BY <1>2, <1>7
    <2>2. i = N + (i - N)
      BY <1>2
    <2> QED BY <2>1, <2>2
  <1>19. PICK y : y = x /\ LineEnds(y)'
    <2>1. ASSUME NEW i \in 1 .. N + u
          PROVE  IsEnd(x[i]) /\ x[i] >= 1 /\ x[i] <= written /\ TextEnds(forwarded'[i].text, x[i])
      <3>1. CASE i \in 1 .. N
        BY <1>11, <1>16, <1>17, <3>1
      <3>2. ASSUME NEW k \in 1 .. u, i = N + k
            PROVE  IsEnd(x[i]) /\ x[i] >= 1 /\ x[i] <= written
                   /\ TextEnds(forwarded'[i].text, x[i])
        <4>1. x[i] = (s - 1) + A[k] /\ forwarded'[i].text = Line(b, k)
          BY <1>11, <1>17, <3>2
        <4>2. x[i] \in Nat /\ x[i] >= s /\ x[i] <= (s - 1) + Len(b) /\ IsEnd(x[i])
              /\ TextEnds(Line(b, k), x[i])
          BY <1>8, <4>1
        <4>3. Len(b) \in Nat
          BY <1>2, <1>6
        <4>4. x[i] >= 1 /\ x[i] <= written
          BY <1>2, <1>4, <1>15, <4>2, <4>3, SMTT(40)
        <4> QED BY <4>1, <4>2, <4>4
      <3> QED BY <1>18, <3>1, <3>2
    <2>2. ASSUME NEW i \in 1 .. N + u, NEW j \in 1 .. N + u, i < j PROVE x[i] < x[j]
      <3>1. CASE j \in 1 .. N
        <4>1. i \in 1 .. N
          BY <1>2, <1>7, <2>2, <3>1
        <4> QED BY <1>16, <1>17, <2>2, <3>1, <4>1
      <3>2. ASSUME NEW l \in 1 .. u, j = N + l PROVE x[i] < x[j]
        <4>1. x[j] = (s - 1) + A[l] /\ x[j] >= s /\ x[j] \in Nat
          BY <1>8, <1>17, <3>2
        <4>2. CASE i \in 1 .. N
          <5>1. x[i] < s /\ x[i] \in Nat
            BY <1>16, <1>17, <4>2
          <5> QED BY <1>4, <4>1, <5>1
        <4>3. ASSUME NEW k \in 1 .. u, i = N + k PROVE x[i] < x[j]
          <5>1. k < l
            BY <1>2, <1>7, <2>2, <3>2, <4>3
          <5>2. A[k] < A[l] /\ A[k] \in Nat /\ A[l] \in Nat
            BY <1>7, <5>1
          <5>3. x[i] = (s - 1) + A[k]
            BY <1>17, <4>3
          <5> QED BY <1>4, <4>1, <5>2, <5>3
        <4> QED BY <1>18, <4>2, <4>3
      <3> QED BY <1>18, <3>1, <3>2
    <2>3. x \in [1 .. Len(forwarded') -> Nat]
      BY <1>11, <1>17
    <2>4. \A i \in 1 .. Len(forwarded') :
             IsEnd(x[i]) /\ x[i] >= 1 /\ x[i] <= written' /\ TextEnds(forwarded'[i].text, x[i])
      BY <1>1, <1>11, <2>1
    <2>5. \A i, j \in 1 .. Len(forwarded') : i < j => x[i] < x[j]
      BY <1>11, <2>2
    <2>6. PICK z : z = x
      OBVIOUS
    <2>7. /\ z \in [1 .. Len(forwarded') -> Nat]
          /\ \A i \in 1 .. Len(forwarded') :
                IsEnd(z[i]) /\ z[i] >= 1 /\ z[i] <= written' /\ TextEnds(forwarded'[i].text, z[i])
          /\ \A i, j \in 1 .. Len(forwarded') : i < j => z[i] < z[j]
      BY <2>3, <2>4, <2>5, <2>6
    <2>8. LineEnds(z)'
      BY <2>7 DEF LineEnds
    <2> QED BY <2>6, <2>8
  (* Only the first line of a chunk may be a cut one. *)
  <1>20. /\ \A i \in 1 .. N : i \in CutLines' <=> i \in CutLines
         /\ \A k \in 1 .. u : N + k \in CutLines' => k = 1 /\ ~IsEnd(s - 1)
    <2>1. ASSUME NEW i \in 1 .. N PROVE i \in CutLines' <=> i \in CutLines
      <3>1. i \in 1 .. N + u /\ i \in 1 .. N
        BY <1>2, <1>7
      <3> QED BY <1>11, <3>1 DEF CutLines, N
    <2>2. ASSUME NEW k \in 1 .. u, N + k \in CutLines' PROVE k = 1 /\ ~IsEnd(s - 1)
      <3>1. Len(Line(b, k)) < LineBytes - 1
        BY <1>11, <2>2 DEF CutLines
      <3>2. LineBytes - 1 \in Int
        BY LineBytesFact
      <3>3. ~(k > 1 \/ IsEnd(s - 1))
        <4>1. k > 1 \/ IsEnd(s - 1) => Len(Line(b, k)) = LineBytes - 1
          BY <1>8
        <4> QED BY <3>1, <3>2, <4>1
      <3> QED BY <1>7, <3>3
    <2> QED BY <2>1, <2>2
  <1>21. CutLines' \subseteq CutLines \cup {N + 1}
         /\ (IsEnd(s - 1) \/ u = 0 => CutLines' = CutLines)
    <2>1. CutLines' \subseteq 1 .. N + u /\ CutLines \subseteq 1 .. N
      BY <1>11 DEF CutLines, N
    <2>2. \A i \in CutLines' : i \in CutLines \/ (\E k \in 1 .. u : i = N + k /\ k = 1 /\ ~IsEnd(s - 1))
      BY <1>18, <1>20, <2>1
    <2>3. CutLines \subseteq CutLines'
      BY <1>20, <2>1
    <2>4. u = 0 => 1 .. u = {}
      BY <1>7
    <2> QED BY <2>2, <2>3, <2>4
  <1>22. Cardinality(CutLines') <= connects
         /\ (~IsEnd((s + g) - 1) => Cardinality(CutLines') + 1 <= connects)
    <2>1. /\ IsFiniteSet(CutLines) /\ Cardinality(CutLines) \in Nat
          /\ Cardinality(CutLines) <= connects
          /\ ~IsEnd(s - 1) => Cardinality(CutLines) + 1 <= connects
      BY <1>1, <1>3, CutFacts DEF LinesInv, Following, s
    <2>2. CASE IsEnd(s - 1) \/ u = 0
      <3>1. CutLines' = CutLines
        BY <1>21, <2>2
      <3>2. ~IsEnd((s + g) - 1) => ~IsEnd(s - 1)
        <4>1. CASE u = 0
          <5>1. g = 0 /\ (s + g) - 1 = s - 1
            BY <1>4, <1>9, <4>1
          <5> QED BY <5>1
        <4>2. CASE u # 0
          BY <1>7, <1>9, <4>2
        <4> QED BY <4>1, <4>2
      <3> QED BY <2>1, <3>1, <3>2
    <2>3. CASE ~IsEnd(s - 1) /\ u # 0
      <3>1. IsEnd((s + g) - 1)
        BY <1>7, <1>9, <2>3
      <3>2. /\ IsFiniteSet(CutLines \cup {N + 1})
            /\ Cardinality(CutLines \cup {N + 1}) <= Cardinality(CutLines) + 1
        <4>1. /\ IsFiniteSet(CutLines \cup {N + 1})
              /\ Cardinality(CutLines \cup {N + 1}) =
                    IF N + 1 \in CutLines THEN Cardinality(CutLines) ELSE Cardinality(CutLines) + 1
          BY <2>1, FS_AddElement
        <4> QED BY <2>1, <4>1
      <3>3. /\ Cardinality(CutLines') <= Cardinality(CutLines \cup {N + 1})
            /\ Cardinality(CutLines \cup {N + 1}) \in Nat /\ Cardinality(CutLines') \in Nat
        <4>1. IsFiniteSet(CutLines')
          BY <1>21, <3>2, FS_Subset
        <4> QED BY <1>21, <3>2, <4>1, FS_Subset, FS_CardinalityType
      <3>4. Cardinality(CutLines) + 1 <= connects
        BY <2>1, <2>3
      <3> QED BY <1>2, <2>1, <3>1, <3>2, <3>3, <3>4
    <2> QED BY <2>2, <2>3
  (* What has been read since the last connection has been forwarded. *)
  <1>23. ASSUME NEW m \in 1 .. MaxLines, first <= (m - 1) * LineBytes + 1,
                m * LineBytes < s + g
         PROVE  \E i \in 1 .. N + u : forwarded'[i].text = Whole(m)
    <2>1. /\ LineBytes \in Nat /\ LineBytes >= 1 /\ m \in Nat /\ m > 0 /\ m \in Nat \ {0}
      BY LineBytesFact
    <2>2. /\ (m - 1) * LineBytes = m * LineBytes - LineBytes /\ m * LineBytes \in Nat
          /\ IsEnd(m * LineBytes)
      BY <2>1, TimesFacts, EndsFacts
    <2>3. CASE m * LineBytes < s
      <3>1. \E i \in 1 .. Len(forwarded) : forwarded[i].text = Whole(m)
        BY <1>3, <1>23, <2>3 DEF Following, s
      <3>2. PICK i \in 1 .. N : forwarded[i].text = Whole(m)
        BY <3>1 DEF N
      <3>3. i \in 1 .. N + u
        BY <1>2, <1>7
      <3> QED BY <1>11, <3>2, <3>3
    <2>4. CASE ~(m * LineBytes < s)
      <3> DEFINE z == m * LineBytes
                 i == z - (s - 1)
      <3>0. z \in Nat /\ z >= s /\ z < s + g /\ IsEnd(z) /\ first <= (z - LineBytes) + 1
        BY <1>4, <1>23, <2>2, <2>4
      <3> HIDE DEF z
      <3>1. i \in 1 .. Len(b) /\ (s - 1) + i = z
        <4>1. g \in 0 .. Len(b) /\ Len(b) \in Nat
          BY <1>2, <1>6, <1>9
        <4> QED BY <1>4, <3>0, <4>1
      <3> HIDE DEF i
      <3>2. PICK k \in 1 .. u : A[k] = i
        BY <1>7, <3>0, <3>1
      <3>3. /\ Line(b, k) \in Seq(Nat) /\ TextEnds(Line(b, k), z)
            /\ k > 1 \/ IsEnd(s - 1) => Len(Line(b, k)) = LineBytes - 1
            /\ k = 1 => Len(Line(b, k)) = z - s
        BY <1>8, <3>1, <3>2
      <3>4. Len(Line(b, k)) = LineBytes - 1
        <4>1. CASE k > 1 \/ IsEnd(s - 1)
          BY <3>3, <4>1
        <4>2. CASE ~(k > 1 \/ IsEnd(s - 1))
          <5>1. k = 1 /\ s = first
            BY <1>3, <1>7, <4>2 DEF Following, s
          <5>2. Len(Line(b, k)) = z - s /\ Len(Line(b, k)) <= LineBytes - 1
            BY <3>3, <5>1 DEF TextEnds
          <5>3. s <= (z - LineBytes) + 1
            BY <3>0, <5>1
          <5> QED BY <1>4, <2>1, <3>0, <5>2, <5>3
        <4> QED BY <4>1, <4>2
      <3>5. Line(b, k) = Whole(m)
        BY <2>1, <3>3, <3>4, WholeFacts DEF z
      <3>6. N + k \in 1 .. N + u
        BY <1>2, <1>7
      <3> QED BY <1>11, <3>5, <3>6
    <2> QED BY <2>3, <2>4
  <1>24. Following(y)'
    <2>1. g \in Nat /\ s + g >= 1 /\ s + g \in Nat
      BY <1>2, <1>4, <1>6, <1>9
    <2>2. \A i \in 1 .. N + u : x[i] < s + g
      <3> TAKE i \in 1 .. N + u
      <3>1. CASE i \in 1 .. N
        BY <1>4, <1>16, <1>17, <2>1, <3>1
      <3>2. ASSUME NEW k \in 1 .. u, i = N + k PROVE x[i] < s + g
        <4>1. A[k] <= g /\ A[k] \in Nat /\ x[i] = (s - 1) + A[k]
          BY <1>7, <1>9, <1>17, <3>2
        <4> QED BY <1>4, <2>1, <4>1
      <3> QED BY <1>18, <3>1, <3>2
    <2>3. Onward(pipe', (written - Len(pipe')) + 1)
      <3>1. Onward(pipe, (written - Len(pipe)) + 1)
        BY <1>3 DEF Following
      <3>2. ASSUME NEW i \in 1 .. Len(pipe') PROVE pipe'[i] = (((written - Len(pipe')) + 1) - 1) + i
        <4>0. n \in Nat /\ Len(pipe) \in Nat /\ Len(pipe') = Len(pipe) - n
          BY <1>2, <1>12
        <4>1. i \in 1 .. Len(pipe) - n /\ n + i \in 1 .. Len(pipe)
          BY <4>0
        <4>2. pipe'[i] = (((written - Len(pipe)) + 1) - 1) + (n + i)
          BY <1>12, <3>1, <4>1 DEF Onward
        <4> QED BY <1>2, <1>12, <4>2
      <3> QED BY <3>2 DEF Onward
    <2>4. s + g = first \/ IsEnd((s + g) - 1)
      <3>1. CASE u = 0
        <4>1. g = 0 /\ s + g = s
          BY <1>4, <1>9, <3>1
        <4>2. s = first \/ IsEnd(s - 1)
          BY <1>3 DEF Following, s
        <4> QED BY <4>1, <4>2
      <3>2. CASE u # 0
        BY <1>7, <1>9, <3>2
      <3> QED BY <3>1, <3>2
    <2>2a. \A i \in 1 .. N + u : y[i] < s + g
      BY <1>19, <2>2
    <2>5. /\ LineStart' >= 1 /\ Onward(_buffer', LineStart')
          /\ \A i \in 1 .. Len(_buffer') : ~IsEnd((LineStart' - 1) + i)
          /\ Onward(pipe', (written' - Len(pipe')) + 1)
          /\ LineStart' = first' \/ IsEnd(LineStart' - 1)
          /\ ~IsEnd(LineStart' - 1) => Cardinality(CutLines') + 1 <= connects'
          /\ \A i \in 1 .. Len(forwarded') : y[i] < LineStart'
      BY <1>1, <1>9, <1>11, <1>14, <1>22, <2>1, <2>3, <2>4, <2>2a
    <2>6. \A m \in 1 .. MaxLines :
             first' <= (m - 1) * LineBytes + 1 /\ m * LineBytes < LineStart' =>
                \E i \in 1 .. Len(forwarded') : forwarded'[i].text = Whole(m)
      BY <1>1, <1>11, <1>14, <1>23
    <2> QED BY <2>5, <2>6 DEF Following
  <1>25. Cardinality(CutLines') <= connects' /\ _connected'
    BY <1>1, <1>22
  <1> QED BY <1>13, <1>19, <1>24, <1>25 DEF LinesInv

LEMMA LinesInvHolds == LinesSpec => []LinesInv
  <1>1. ASSUME LinesInit PROVE LinesInv
    <2>1. /\ written = 0 /\ pipe = << >> /\ _connected = FALSE /\ _buffer = << >>
          /\ forwarded = << >> /\ first = 1 /\ connects = 0
      BY <1>1 DEF LinesInit
    <2>2. MaxConnects \in Nat
      BY LinesAssumption
    <2>3. LinesTypeOK
      BY <2>1, <2>2, EmptySeq DEF LinesTypeOK
    <2>4. Len(forwarded) = 0
      BY <2>1
    <2>5. CutLines = {}
      BY <2>4 DEF CutLines
    <2>6. Cardinality(CutLines) <= connects
      BY <2>1, <2>5, FS_EmptySet
    <2>7. LineEnds([i \in 1 .. 0 |-> 0])
      <3> DEFINE e == [i \in 1 .. 0 |-> 0]
      <3>1. e \in [1 .. Len(forwarded) -> Nat]
        BY <2>4
      <3>2. \A i \in 1 .. Len(forwarded) : FALSE
        BY <2>4
      <3> HIDE DEF e
      <3>3. LineEnds(e)
        BY <3>1, <3>2 DEF LineEnds
      <3> QED BY <3>3 DEF e
    <2> QED BY <2>1, <2>3, <2>6, <2>7 DEF LinesInv
  <1>2. ASSUME LinesInv, [LinesNext]_linesVars PROVE LinesInv'
    <2>0. connects \in Nat /\ connects <= MaxConnects /\ MaxConnects \in Nat
      BY <1>2, LinesAssumption DEF LinesInv, LinesTypeOK
    <2>1. CASE uart_putc
      BY <1>2, <2>1, PutcInv
    <2>2. CASE on_connect
      BY <1>2, <2>2, ConnectInv
    <2>3. CASE on_close
      <3>1. /\ _connected' = FALSE /\ pipe' = << >>
            /\ UNCHANGED <<written, _buffer, forwarded, first, connects>>
        BY <2>3 DEF on_close
      <3>2. connects' \in Nat /\ connects' <= MaxConnects /\ connects <= connects'
        BY <2>0, <3>1
      <3> QED BY <1>2, <3>1, <3>2, ClosedInv
    <2>4. CASE app_quit
      <3>1. /\ _connected' = FALSE /\ pipe' = << >> /\ connects' = MaxConnects
            /\ UNCHANGED <<written, _buffer, forwarded, first>>
        BY <2>4 DEF app_quit
      <3>2. connects' \in Nat /\ connects' <= MaxConnects /\ connects <= connects'
        BY <2>0, <3>1
      <3> QED BY <1>2, <3>1, <3>2, ClosedInv
    <2>5. ASSUME NEW n \in 1 .. Len(pipe), on_data(n) PROVE LinesInv'
      BY <1>2, <2>5, DataInv
    <2>6. CASE UNCHANGED linesVars
      <3>1. UNCHANGED <<written, pipe, _connected, _buffer, forwarded, first, connects>>
        BY <2>6 DEF linesVars
      <3>2. LinesTypeOK' /\ CutLines' = CutLines /\ LineStart' = LineStart
        BY <1>2, <3>1 DEF LinesInv, LinesTypeOK, CutLines, LineStart
      <3>3. PICK e : LineEnds(e) /\ (_connected => Following(e))
        BY <1>2 DEF LinesInv
      <3>4. LineEnds(e)' /\ (_connected' => Following(e)')
        BY <3>1, <3>2, <3>3 DEF LineEnds, Following
      <3>5. Cardinality(CutLines') <= connects' /\ (~ _connected' => pipe' = << >>)
        BY <1>2, <3>1, <3>2 DEF LinesInv
      <3> QED BY <3>2, <3>4, <3>5 DEF LinesInv
    <2> QED BY <1>2, <2>1, <2>2, <2>3, <2>4, <2>5, <2>6 DEF LinesNext
  <1> QED BY <1>1, <1>2, PTL DEF LinesSpec

LEMMA LinesInvImplies == ASSUME LinesInv PROVE LinesWhole
  <1> DEFINE N == Len(forwarded)
             text(i) == forwarded[i].text
  <1>1. LinesTypeOK /\ N \in Nat /\ DOMAIN forwarded = 1 .. N /\ forwarded \in Seq(Told)
    <2>1. LinesTypeOK /\ forwarded \in Seq(Told)
      BY DEF LinesInv, LinesTypeOK
    <2> QED BY <2>1
  <1>2. \A i \in 1 .. N : text(i) \in Seq(Nat) /\ Len(text(i)) \in Nat
                          /\ DOMAIN text(i) = 1 .. Len(text(i))
    <2> TAKE i \in 1 .. N
    <2>1. text(i) \in Seq(Nat) /\ Len(text(i)) \in Nat
      BY <1>1, CutFacts
    <2> QED BY <2>1
  <1>3. LineBytes \in Nat /\ LineBytes >= 1
    BY LineBytesFact
  <1>4. PICK e : LineEnds(e) /\ (_connected => Following(e))
    BY DEF LinesInv
  <1>5. /\ \A i \in 1 .. N : /\ e[i] \in Nat /\ IsEnd(e[i]) /\ e[i] >= 1
                             /\ TextEnds(text(i), e[i])
        /\ \A i, j \in 1 .. N : i < j => e[i] < e[j]
    BY <1>4 DEF LineEnds
  <1> HIDE DEF N, text
  (* The bytes of a line are the last before its end. *)
  <1>6. ASSUME NEW i \in 1 .. N, NEW k \in 1 .. Len(text(i))
        PROVE  /\ text(i)[k] = ((e[i] - 1) - Len(text(i))) + k
               /\ text(i)[k] \in Nat /\ text(i)[k] >= 1 /\ text(i)[k] <= e[i] - 1
               /\ e[i] - text(i)[k] < LineBytes
    <2>1. /\ text(i)[k] = ((e[i] - 1) - Len(text(i))) + k /\ Len(text(i)) <= LineBytes - 1
      BY <1>5 DEF TextEnds
    <2>1a. e[i] \in Nat /\ IsEnd(e[i]) /\ e[i] > 0
      BY <1>5
    <2>1b. e[i] >= LineBytes
      BY <2>1a, EndsFacts
    <2>2. Len(text(i)) \in Nat
      BY <1>2
    <2> DEFINE w == e[i]
               h == Len(text(i))
    <2>3. w \in Nat /\ w >= LineBytes /\ h \in Nat /\ h <= LineBytes - 1 /\ k \in 1 .. h
      BY <2>1, <2>1a, <2>1b, <2>2
    <2>4. text(i)[k] = ((w - 1) - h) + k
      BY <2>1
    <2> HIDE DEF w, h
    <2>5. /\ text(i)[k] \in Nat /\ text(i)[k] >= 1 /\ text(i)[k] <= w - 1
          /\ w - text(i)[k] < LineBytes
      BY <1>3, <2>3, <2>4
    <2> QED BY <2>1, <2>5 DEF w
  <1>7. ASSUME NEW i \in 1 .. N, NEW k \in 1 .. Len(text(i))
        PROVE  text(i)[k] = LineOf(text(i)[k]) * LineBytes - 1 - Len(text(i)) + k
    <2>1. text(i)[k] <= e[i]
      BY <1>5, <1>6
    <2>2. LineOf(text(i)[k]) * LineBytes = e[i]
      BY <1>5, <1>6, <2>1, LineOfFacts
    <2>3. Len(text(i)) \in Nat /\ e[i] \in Nat
      BY <1>2, <1>5
    <2>4. text(i)[k] = ((e[i] - 1) - Len(text(i))) + k
      BY <1>6
    <2>5. e[i] - 1 - Len(text(i)) + k = ((e[i] - 1) - Len(text(i))) + k
      BY <2>3
    <2> QED BY <2>2, <2>4, <2>5
  <1>8. ASSUME NEW i \in 1 .. N, NEW j \in 1 .. N, i < j,
               NEW k \in 1 .. Len(text(i)), NEW l \in 1 .. Len(text(j))
        PROVE  text(i)[k] < text(j)[l]
    <2>1. e[j] - e[i] >= LineBytes
      BY <1>5, <1>8, EndsFacts
    <2>2. text(i)[k] <= e[i] - 1 /\ text(i)[k] \in Nat
      BY <1>6
    <2>3. e[j] - text(j)[l] < LineBytes /\ text(j)[l] \in Nat
      BY <1>6
    <2>4. e[i] \in Nat /\ e[j] \in Nat
      BY <1>5
    <2> DEFINE v == e[i]
               w == e[j]
               a == text(i)[k]
               d == text(j)[l]
    <2>5. /\ v \in Nat /\ w \in Nat /\ a \in Nat /\ d \in Nat /\ w - v >= LineBytes
          /\ a <= v - 1 /\ w - d < LineBytes
      BY <2>1, <2>2, <2>3, <2>4
    <2> HIDE DEF v, w, a, d
    <2>6. a < d
      BY <1>3, <2>5
    <2> QED BY <2>6 DEF a, d
  <1>9. Cardinality({i \in 1 .. N : Len(text(i)) < LineBytes - 1}) <= connects
    BY DEF LinesInv, CutLines, N, text
  <1>10. ASSUME NEW n \in 1 .. MaxLines, (n - 1) * LineBytes + 1 >= first,
                n * LineBytes <= written - Len(pipe), _connected
         PROVE  \E i \in 1 .. N : text(i) = Whole(n)
    <2>1. n \in Nat /\ n > 0 /\ n * LineBytes \in Nat /\ IsEnd(n * LineBytes)
      BY EndsFacts
    <2>2. Following(e)
      BY <1>4, <1>10
    <2>3. /\ written \in Nat /\ Len(pipe) \in Nat /\ Len(_buffer) \in Nat
      BY <1>1, CutFacts DEF LinesTypeOK
    <2>4. n * LineBytes < LineStart
      <3> DEFINE y == n * LineBytes
                 i == y - (LineStart - 1)
      <3> SUFFICES ASSUME ~(y < LineStart) PROVE FALSE
        OBVIOUS
      <3>1. y \in Nat /\ IsEnd(y) /\ y <= written - Len(pipe)
        BY <1>10, <2>1
      <3> HIDE DEF y
      <3>2. LineStart = ((written - Len(pipe)) - Len(_buffer)) + 1 /\ LineStart \in Int
        BY <2>3 DEF LineStart
      <3>3. i \in 1 .. Len(_buffer) /\ (LineStart - 1) + i = y
        BY <2>3, <3>1, <3>2
      <3> HIDE DEF i
      <3>4. ~IsEnd((LineStart - 1) + i)
        BY <2>2, <3>3 DEF Following
      <3> QED BY <3>1, <3>3, <3>4
    <2>5. first <= (n - 1) * LineBytes + 1
      <3>1. (n - 1) * LineBytes \in Int /\ first \in Nat
        <4>1. n - 1 \in Nat
          BY <2>1
        <4>2. (n - 1) * LineBytes \in Nat
          BY <4>1, EndsFacts
        <4> QED BY <1>1, <4>2 DEF LinesTypeOK
      <3> DEFINE z == (n - 1) * LineBytes
      <3>2. z + 1 >= first /\ z \in Int
        BY <1>10, <3>1
      <3> HIDE DEF z
      <3>3. first <= z + 1
        BY <3>1, <3>2
      <3> QED BY <3>3 DEF z
    <2>6. \E i \in 1 .. Len(forwarded) : forwarded[i].text = Whole(n)
      BY <2>2, <2>4, <2>5 DEF Following
    <2> QED BY <2>6 DEF N, text
  <1> USE DEF N, text
  <1>11. /\ \A i \in DOMAIN forwarded : \A k \in DOMAIN forwarded[i].text :
               forwarded[i].text[k] =
                  LineOf(forwarded[i].text[k]) * LineBytes - 1 - Len(forwarded[i].text) + k
         /\ \A i, j \in DOMAIN forwarded : i < j =>
               \A k \in DOMAIN forwarded[i].text, l \in DOMAIN forwarded[j].text :
                  forwarded[i].text[k] < forwarded[j].text[l]
    <2>1. \A i \in DOMAIN forwarded : i \in 1 .. N /\ DOMAIN forwarded[i].text = 1 .. Len(text(i))
      BY <1>1, <1>2
    <2>2. \A i \in DOMAIN forwarded : \A k \in DOMAIN forwarded[i].text :
             forwarded[i].text[k] =
                LineOf(forwarded[i].text[k]) * LineBytes - 1 - Len(forwarded[i].text) + k
      BY <1>7, <2>1
    <2>3. \A i, j \in DOMAIN forwarded : i < j =>
             \A k \in DOMAIN forwarded[i].text, l \in DOMAIN forwarded[j].text :
                forwarded[i].text[k] < forwarded[j].text[l]
      BY <1>8, <2>1
    <2> QED BY <2>2, <2>3
  <1>12. Cardinality({i \in DOMAIN forwarded : Len(forwarded[i].text) < LineBytes - 1}) <= connects
    BY <1>1, <1>9
  <1>13. \A n \in 1 .. MaxLines :
            (n - 1) * LineBytes + 1 >= first /\ n * LineBytes <= written - Len(pipe) /\ _connected
               => \E i \in DOMAIN forwarded : forwarded[i].text = Whole(n)
    BY <1>1, <1>10
  <1> QED BY <1>11, <1>12, <1>13 DEF LinesWhole

(* At whatever times bytes come and wherever a packet or a line is cut, what
   the input driver makes out of the mouse and the keyboard is what they sent
   (ps2.c), the debugger's packets are handled once and in order (kshell.c),
   and a page is told the kernel's lines, none put together from two and none
   missing since the bridge connected (ipc_bridge.cjs).                     *)
THEOREM LinesStay == Ps2Spec /\ KshellSpec /\ LinesSpec => []LinesInStep
  <1>1. Ps2Inv /\ KshellInv /\ LinesInv => LinesInStep
    BY Ps2InvImplies, KshellInvImplies, LinesInvImplies DEF LinesInStep
  <1> QED BY <1>1, Ps2InvHolds, KshellInvHolds, LinesInvHolds, PTL

=============================================================================
