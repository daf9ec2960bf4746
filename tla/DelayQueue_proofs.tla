------------------------- MODULE DelayQueue_proofs -------------------------
(***************************************************************************)
(* Proof that the two rings of inc/delay_queue.hpp, with the end of the    *)
(* ready members found by binary search and compared by distances that     *)
(* adjust for the wrap, are the queue with delays of ReadyFifo, for every  *)
(* size and whatever is pushed and popped, if all members are pushed with  *)
(* the same latency, or none waits longer than a cycle.                    *)
(*                                                                         *)
(* The binary search is a recursive function, and TLA+ gives a recursive   *)
(* function its value only once one that satisfies the recursion is shown  *)
(* to exist: BisectDefined shows that, by the least length at which there  *)
(* would be none.                                                          *)
(***************************************************************************)
EXTENDS DelayQueue, NaturalsInduction, SequenceTheorems, WellFoundedInduction, TLAPS

-----------------------------------------------------------------------------
(* The binary search.                                                      *)

(* Every set of numbers that is not empty has a least one.                 *)
LEMMA LeastNumber ==
    ASSUME NEW N, N \subseteq Nat, N # {}
    PROVE  \E n \in N : \A m \in N : n <= m
<1>1. PICK n \in N : \A m \in N : ~ (<<m, n>> \in OpToRel(<, Nat))
  BY NatLessThanWellFounded, WFMin, Zenon
<1>2. \A p \in Nat \X Nat : p[1] < p[2] => p \in OpToRel(<, Nat)
  BY Zenon DEF OpToRel
<1>3. ASSUME NEW m \in N PROVE n <= m
  <2>1. m \in Nat /\ n \in Nat /\ ~(m < n)
    BY <1>1, <1>2
  <2> QED BY <2>1
<1> QED BY <1>3

(* One probe of the search for a window of len delays from first on, that  *)
(* goes on as g says.                                                      *)
Probe(r, g, len, first) ==
    LET half == len \div 2
    IN  IF len = 0 THEN first
        ELSE IF r.entry[circ_inc(r.head, first + half)] <= 0
        THEN g[len - half - 1][first + half + 1]
        ELSE g[half][first]

Probes(r, n, g) == g = [len \in 0 .. n |-> [first \in Nat |-> Probe(r, g, len, first)]]

Search(r, n) == CHOOSE g : Probes(r, n, g)

LEMMA SearchIsPartitionPoint ==
    ASSUME NEW r, NEW n PROVE partition_point(r, n) = Search(r, n)[n][0]
BY Zenon DEF partition_point, Search, Probes, Probe

LEMMA Halves ==
    ASSUME NEW len \in Nat, len # 0
    PROVE  /\ len \div 2 \in Nat /\ len \div 2 < len
           /\ len - len \div 2 - 1 \in Nat /\ len - len \div 2 - 1 < len
OBVIOUS

(* A probe goes on with a shorter window.                                  *)
LEMMA ProbesAgree ==
    ASSUME NEW r, NEW g, NEW h, NEW len \in Nat, NEW first \in Nat,
           \A l \in Nat : l < len => g[l] = h[l]
    PROVE  Probe(r, g, len, first) = Probe(r, h, len, first)
<1>1. CASE len = 0
  BY <1>1 DEF Probe
<1>2. CASE len # 0
  <2>1. PICK half : half = len \div 2
    OBVIOUS
  <2>2. half \in Nat /\ half < len /\ len - half - 1 \in Nat /\ len - half - 1 < len
    BY <1>2, <2>1, Halves, Zenon
  <2>3. g[half] = h[half] /\ g[len - half - 1] = h[len - half - 1]
    BY <2>2, Zenon
  <2> QED BY <1>2, <2>1, <2>3, Zenon DEF Probe
<1> QED BY <1>1, <1>2

ProbesBelow(r, n, k, g) ==
    \A len \in 0 .. n : len < k => g[len] = [first \in Nat |-> Probe(r, g, len, first)]

LEMMA OneLengthMore ==
    ASSUME NEW r, NEW n \in Nat, NEW k \in Nat, NEW g, ProbesBelow(r, n, k, g)
    PROVE  \E h : ProbesBelow(r, n, k + 1, h)
<1>1. PICK row : row = [first \in Nat |-> Probe(r, g, k, first)]
  OBVIOUS
<1>2. PICK h : h = [len \in 0 .. n |-> IF len = k THEN row ELSE g[len]]
  OBVIOUS
<1>3. ASSUME NEW len \in 0 .. n, len < k + 1
      PROVE  h[len] = [first \in Nat |-> Probe(r, h, len, first)]
  <2>1. len \in Nat /\ len <= k
    BY <1>3
  <2>2. \A l \in Nat : l < len => g[l] = h[l]
    <3>1. ASSUME NEW l \in Nat, l < len PROVE l \in 0 .. n /\ l # k
      BY <2>1, <3>1
    <3> QED BY <1>2, <3>1, Zenon
  <2>3. ASSUME NEW first \in Nat PROVE Probe(r, g, len, first) = Probe(r, h, len, first)
    BY <2>1, <2>2, ProbesAgree
  <2>4. h[len] = [first \in Nat |-> Probe(r, g, len, first)]
    <3>1. CASE len = k
      BY <1>1, <1>2, <3>1, Zenon
    <3>2. CASE len # k
      <4>1. len < k
        BY <2>1, <3>2
      <4> QED BY <1>2, <3>2, <4>1, Zenon DEF ProbesBelow
    <3> QED BY <3>1, <3>2, Zenon
  <2> QED BY <2>3, <2>4, Zenon
<1>4. ProbesBelow(r, n, k + 1, h)
  BY <1>3 DEF ProbesBelow
<1> QED BY <1>4, Zenon

LEMMA BisectDefined ==
    ASSUME NEW r, NEW n \in Nat PROVE Probes(r, n, Search(r, n))
<1> DEFINE Missing == {k \in Nat : ~ \E g : ProbesBelow(r, n, k, g)}
<1>1. Missing = {}
  <2> SUFFICES ASSUME Missing # {} PROVE FALSE
    OBVIOUS
  <2>1. PICK k \in Missing : \A m \in Missing : k <= m
    <3>1. Missing \subseteq Nat
      OBVIOUS
    <3> HIDE DEF Missing
    <3> QED BY <3>1, LeastNumber
  <2>2. k # 0
    <3>1. ASSUME k = 0 PROVE \E g : ProbesBelow(r, n, k, g)
      <4>1. \A len \in 0 .. n : ~(len < k)
        BY <3>1
      <4> QED BY <4>1, Zenon DEF ProbesBelow
    <3> QED BY <3>1
  <2>3. k - 1 \in Nat /\ (k - 1) + 1 = k /\ ~(k <= k - 1)
    BY <2>2
  <2>4. k - 1 \notin Missing
    BY <2>1, <2>3, Zenon
  <2>5. \E g : ProbesBelow(r, n, k - 1, g)
    BY <2>3, <2>4, Zenon
  <2>6. \E h : ProbesBelow(r, n, (k - 1) + 1, h)
    BY <2>3, <2>5, OneLengthMore, Zenon
  <2> QED BY <2>3, <2>6, Zenon
<1>2. PICK g : ProbesBelow(r, n, n + 1, g)
  <2>1. n + 1 \in Nat
    OBVIOUS
  <2> QED BY <1>1, <2>1, Zenon
<1>3. PICK f : f = [len \in 0 .. n |-> g[len]]
  OBVIOUS
<1>4. ASSUME NEW len \in 0 .. n PROVE f[len] = [first \in Nat |-> Probe(r, f, len, first)]
  <2>1. len \in Nat /\ len < n + 1 /\ \A l \in Nat : l < len => l \in 0 .. n
    OBVIOUS
  <2>2. ASSUME NEW first \in Nat PROVE Probe(r, g, len, first) = Probe(r, f, len, first)
    <3>1. \A l \in Nat : l < len => g[l] = f[l]
      BY <1>3, <2>1, Zenon
    <3> QED BY <2>1, <3>1, ProbesAgree
  <2> QED BY <1>2, <1>3, <2>1, <2>2, Zenon DEF ProbesBelow
<1>5. Probes(r, n, f)
  <2>1. f = [len \in 0 .. n |-> f[len]]
    BY <1>3, Zenon
  <2> QED BY <1>4, <2>1, Zenon DEF Probes
<1> QED BY <1>5, Zenon DEF Search

(* The delay of the i-th member of ring r, counted from 0.                 *)
DelayAt(r, i) == r.entry[circ_inc(r.head, i)]

Sorted(r, n) ==
    /\ \A i \in 0 .. n - 1 : DelayAt(r, i) \in Nat
    /\ \A i, j \in 0 .. n - 1 : i <= j => DelayAt(r, i) <= DelayAt(r, j)

(* Of the n delays the ones in front of the p-th are 0, the ones from it   *)
(* on positive; between the p-th and the q-th nothing is said.             *)
Parted(r, n, p, q) ==
    \A i \in 0 .. n - 1 : /\ i < p => DelayAt(r, i) = 0
                          /\ i >= q => DelayAt(r, i) > 0

Finds(r, n, f, len) ==
    \A first \in Nat : first + len <= n /\ Parted(r, n, first, first + len) =>
        f[len][first] \in 0 .. n /\ Parted(r, n, f[len][first], f[len][first])

LEMMA LongerFinds ==
    ASSUME NEW r, NEW n \in Nat, Sorted(r, n), NEW f, Probes(r, n, f), NEW len \in 0 .. n,
           \A l \in 0 .. n : l < len => Finds(r, n, f, l)
    PROVE  Finds(r, n, f, len)
<1> SUFFICES ASSUME NEW first \in Nat, first + len <= n, Parted(r, n, first, first + len)
             PROVE  f[len][first] \in 0 .. n /\ Parted(r, n, f[len][first], f[len][first])
  BY Zenon DEF Finds
<1>1. f[len][first] = Probe(r, f, len, first)
  <2>1. PICK g : g = [l \in 0 .. n |-> [k \in Nat |-> Probe(r, f, l, k)]]
    OBVIOUS
  <2>2. g[len][first] = Probe(r, f, len, first)
    BY <2>1, Zenon
  <2>3. f = g
    BY <2>1, Zenon DEF Probes
  <2> QED BY <2>2, <2>3, Zenon
<1>2. CASE len = 0
  <2>1. f[len][first] = first
    BY <1>1, <1>2 DEF Probe
  <2>2. first \in 0 .. n /\ first + len = first
    BY <1>2
  <2> QED BY <2>1, <2>2, Zenon
<1>3. CASE len # 0
  <2>1. PICK half : half = len \div 2
    OBVIOUS
  <2>2. PICK rest : rest = len - half - 1
    OBVIOUS
  <2>3. PICK next : next = first + half + 1
    OBVIOUS
  <2>4. len \in Nat /\ half \in Nat /\ half < len /\ rest \in Nat /\ rest < len
    BY <1>3, <2>1, <2>2, Halves
  <2>5. /\ half \in 0 .. n /\ rest \in 0 .. n /\ next \in Nat /\ first + half \in 0 .. n - 1
        /\ next + rest = first + len /\ first + half <= n
    BY <2>2, <2>3, <2>4
  <2>6. Finds(r, n, f, half) /\ Finds(r, n, f, rest)
    BY <2>4, <2>5, Zenon
  <2>7. CASE DelayAt(r, first + half) <= 0
    <3>1. f[len][first] = f[rest][next]
      BY <1>1, <1>3, <2>1, <2>2, <2>3, <2>7, Zenon DEF Probe, DelayAt
    <3>2. Parted(r, n, next, next + rest)
      <4> SUFFICES ASSUME NEW i \in 0 .. n - 1
                   PROVE  /\ i < next => DelayAt(r, i) = 0
                          /\ i >= next + rest => DelayAt(r, i) > 0
        BY Zenon DEF Parted
      <4>1. i < next => i <= first + half
        BY <2>3, <2>5
      <4>2. i <= first + half => DelayAt(r, i) <= DelayAt(r, first + half)
        BY <2>5, Zenon DEF Sorted
      <4>3. DelayAt(r, i) \in Nat /\ DelayAt(r, first + half) \in Nat
        BY <2>5, Zenon DEF Sorted
      <4>4. i < next => DelayAt(r, i) = 0
        BY <2>7, <4>1, <4>2, <4>3
      <4>5. i >= next + rest => DelayAt(r, i) > 0
        BY <2>5, Zenon DEF Parted
      <4> QED BY <4>4, <4>5
    <3>3. next + rest <= n
      BY <2>5
    <3> QED BY <2>5, <2>6, <3>1, <3>2, <3>3, Zenon DEF Finds
  <2>8. CASE ~(DelayAt(r, first + half) <= 0)
    <3>1. f[len][first] = f[half][first]
      BY <1>1, <1>3, <2>1, <2>8, Zenon DEF Probe, DelayAt
    <3>2. Parted(r, n, first, first + half)
      <4> SUFFICES ASSUME NEW i \in 0 .. n - 1
                   PROVE  /\ i < first => DelayAt(r, i) = 0
                          /\ i >= first + half => DelayAt(r, i) > 0
        BY Zenon DEF Parted
      <4>1. i < first => DelayAt(r, i) = 0
        BY Zenon DEF Parted
      <4>2. first + half <= i => DelayAt(r, first + half) <= DelayAt(r, i)
        BY <2>5, Zenon DEF Sorted
      <4>3. DelayAt(r, i) \in Nat /\ DelayAt(r, first + half) \in Nat
        BY <2>5, Zenon DEF Sorted
      <4>4. i >= first + half => first + half <= i
        BY <2>5
      <4>5. i >= first + half => DelayAt(r, i) > 0
        BY <2>8, <4>2, <4>3, <4>4
      <4> QED BY <4>1, <4>5
    <3> QED BY <2>5, <2>6, <3>1, <3>2, Zenon DEF Finds
  <2> QED BY <2>7, <2>8
<1> QED BY <1>2, <1>3

(* Of delays in ascending order the search finds the first that is         *)
(* positive (std::partition_point, inc/delay_queue.hpp operate).           *)
LEMMA PartitionPoint ==
    ASSUME NEW r, NEW n \in Nat, Sorted(r, n)
    PROVE  /\ partition_point(r, n) \in 0 .. n
           /\ Parted(r, n, partition_point(r, n), partition_point(r, n))
<1>1. PICK f : f = Search(r, n)
  OBVIOUS
<1>2. Probes(r, n, f)
  BY <1>1, BisectDefined, Zenon
<1> DEFINE Failing == {len \in 0 .. n : ~Finds(r, n, f, len)}
<1>3. Failing = {}
  <2> SUFFICES ASSUME Failing # {} PROVE FALSE
    OBVIOUS
  <2>1. PICK len \in Failing : \A m \in Failing : len <= m
    <3>1. Failing \subseteq Nat
      OBVIOUS
    <3> HIDE DEF Failing
    <3> QED BY <3>1, LeastNumber
  <2>2. ASSUME NEW l \in 0 .. n, l < len PROVE Finds(r, n, f, l)
    <3>1. ~(len <= l)
      BY <2>2
    <3> QED BY <2>1, <3>1, Zenon
  <2>3. len \in 0 .. n
    BY Zenon
  <2>4. Finds(r, n, f, len)
    BY <1>2, <2>2, <2>3, LongerFinds
  <2> QED BY <2>4, Zenon
<1>4. n \in 0 .. n /\ 0 \in Nat /\ 0 + n <= n
  OBVIOUS
<1>5. Finds(r, n, f, n)
  BY <1>3, <1>4, Zenon
<1>6. Parted(r, n, 0, 0 + n)
  BY DEF Parted
<1>7. f[n][0] \in 0 .. n /\ Parted(r, n, f[n][0], f[n][0])
  BY <1>4, <1>5, <1>6, Zenon DEF Finds
<1> QED BY <1>1, <1>7, SearchIsPartitionPoint, Zenon

-----------------------------------------------------------------------------
(* The rings.                                                              *)

LEMMA RingFields ==
    ASSUME NEW V, NEW r \in RingOf(V)
    PROVE  /\ r.entry \in [Pos -> V] /\ r.head \in Pos /\ r.tail \in Pos
           /\ r = [entry |-> r.entry, head |-> r.head, tail |-> r.tail]
BY DEF RingOf

(* Distance counts the places from the head on and circ_inc finds them.    *)
LEMMA PlaceOf ==
    ASSUME NEW r, r.head \in Pos, NEW p \in Pos
    PROVE  /\ Distance(r, p, r.head) \in 0 .. sz
           /\ circ_inc(r.head, Distance(r, p, r.head)) = p
<1>1. PICK head \in Pos : head = r.head
  OBVIOUS
<1>2. Distance(r, p, r.head) = IF p < head THEN (sz + 1) + (p - head) ELSE p - head
  BY <1>1, DelayQueueAssumption DEF Distance, Pos
<1>3. PICK d : d = Distance(r, p, r.head)
  OBVIOUS
<1>4. d \in 0 .. sz /\ circ_inc(head, d) = p
  BY <1>2, <1>3, DelayQueueAssumption DEF circ_inc, Pos
<1> QED BY <1>1, <1>3, <1>4

LEMMA PlaceAt ==
    ASSUME NEW r, r.head \in Pos, NEW i \in 0 .. sz
    PROVE  /\ circ_inc(r.head, i) \in Pos
           /\ Distance(r, circ_inc(r.head, i), r.head) = i
<1>1. PICK head \in Pos : head = r.head
  OBVIOUS
<1>2. PICK p : p = circ_inc(head, i)
  OBVIOUS
<1>3. p \in Pos /\ p = IF head + i > sz THEN head + i - (sz + 1) ELSE head + i
  BY <1>2, DelayQueueAssumption DEF circ_inc, Pos
<1>4. Distance(r, p, r.head) = IF p < head THEN (sz + 1) + (p - head) ELSE p - head
  BY <1>1, <1>3, DelayQueueAssumption DEF Distance, Pos
<1>5. Distance(r, p, r.head) = i
  BY <1>3, <1>4, DelayQueueAssumption DEF Pos
<1> QED BY <1>1, <1>2, <1>3, <1>5

(* The next place is one further from the head, or the head.               *)
LEMMA NextPlace ==
    ASSUME NEW r, r.head \in Pos, NEW p \in Pos, Distance(r, p, r.head) # sz
    PROVE  /\ circ_inc(p, 1) \in Pos
           /\ Distance(r, circ_inc(p, 1), r.head) = Distance(r, p, r.head) + 1
<1>1. PICK head \in Pos : head = r.head
  OBVIOUS
<1>2. Distance(r, p, r.head) = IF p < head THEN (sz + 1) + (p - head) ELSE p - head
  BY <1>1, DelayQueueAssumption DEF Distance, Pos
<1>3. PICK q : q = circ_inc(p, 1)
  OBVIOUS
<1>4. q \in Pos /\ q = IF p = sz THEN 0 ELSE p + 1
  BY <1>3, DelayQueueAssumption DEF circ_inc, Pos
<1>5. Distance(r, q, r.head) = IF q < head THEN (sz + 1) + (q - head) ELSE q - head
  BY <1>1, <1>4, DelayQueueAssumption DEF Distance, Pos
<1>6. Distance(r, q, r.head) = Distance(r, p, r.head) + 1
  BY <1>2, <1>4, <1>5, DelayQueueAssumption DEF Pos
<1> QED BY <1>3, <1>4, <1>6

(* When the head moves on every other place is one nearer to it.           *)
LEMMA HeadMoves ==
    ASSUME NEW r, NEW s, r.head \in Pos, s.head = circ_inc(r.head, 1),
           NEW p \in Pos, Distance(r, p, r.head) # 0
    PROVE  s.head \in Pos /\ Distance(s, p, s.head) = Distance(r, p, r.head) - 1
<1>1. PICK head \in Pos : head = r.head
  OBVIOUS
<1>2. Distance(r, p, r.head) = IF p < head THEN (sz + 1) + (p - head) ELSE p - head
  BY <1>1, DelayQueueAssumption DEF Distance, Pos
<1>3. PICK q : q = s.head
  OBVIOUS
<1>4. q \in Pos /\ q = IF head = sz THEN 0 ELSE head + 1
  BY <1>1, <1>3, DelayQueueAssumption DEF circ_inc, Pos
<1>5. Distance(s, p, s.head) = IF p < q THEN (sz + 1) + (p - q) ELSE p - q
  BY <1>3, <1>4, DelayQueueAssumption DEF Distance, Pos
<1>6. Distance(s, p, s.head) = Distance(r, p, r.head) - 1
  BY <1>2, <1>4, <1>5, DelayQueueAssumption DEF Pos
<1> QED BY <1>3, <1>4, <1>6

LEMMA Pushed ==
    ASSUME NEW V, NEW r \in RingOf(V), occupancy(r) # sz, NEW x \in V,
           NEW s, s = PushedBack(r, x)
    PROVE  /\ s \in RingOf(V) /\ s.head = r.head /\ s.tail = circ_inc(r.tail, 1)
           /\ occupancy(r) \in 0 .. sz - 1 /\ occupancy(s) = occupancy(r) + 1
           /\ \A i \in 0 .. occupancy(r) :
                 DelayAt(s, i) = IF i = occupancy(r) THEN x ELSE DelayAt(r, i)
<1>1. /\ s = [entry |-> [r.entry EXCEPT ![r.tail] = x], head |-> r.head, tail |-> circ_inc(r.tail, 1)]
  BY DEF PushedBack, RingOf
<1>2. /\ s.entry = [r.entry EXCEPT ![r.tail] = x] /\ s.head = r.head
      /\ s.tail = circ_inc(r.tail, 1)
  BY <1>1
<1>3. occupancy(r) \in 0 .. sz /\ circ_inc(r.head, occupancy(r)) = r.tail
  BY RingFields, PlaceOf DEF occupancy
<1>4. s.tail \in Pos /\ Distance(r, s.tail, r.head) = occupancy(r) + 1
  BY <1>2, RingFields, NextPlace DEF occupancy
<1>5. occupancy(s) = occupancy(r) + 1
  BY <1>2, <1>4 DEF occupancy, Distance
<1>6. occupancy(r) \in 0 .. sz - 1
  BY <1>3, DelayQueueAssumption
<1>7. s \in RingOf(V)
  <2>1. [r.entry EXCEPT ![r.tail] = x] \in [Pos -> V]
    BY RingFields, Zenon
  <2> QED BY <1>1, <1>2, <1>4, <2>1, RingFields, Zenon DEF RingOf
<1>8. ASSUME NEW i \in 0 .. occupancy(r)
      PROVE  DelayAt(s, i) = IF i = occupancy(r) THEN x ELSE DelayAt(r, i)
  <2>1. i \in 0 .. sz
    BY <1>6, DelayQueueAssumption
  <2>2. circ_inc(r.head, i) \in Pos /\ (i # occupancy(r) => circ_inc(r.head, i) # r.tail)
    <3>1. r.head \in Pos /\ r.tail \in Pos
      BY RingFields
    <3>2. circ_inc(r.head, i) \in Pos /\ Distance(r, circ_inc(r.head, i), r.head) = i
      BY <2>1, <3>1, PlaceAt
    <3> QED BY <3>2, Zenon DEF occupancy
  <2>3. r.entry \in [Pos -> V]
    BY RingFields
  <2> QED BY <1>2, <1>3, <2>2, <2>3, Zenon DEF DelayAt
<1> QED BY <1>2, <1>5, <1>6, <1>7, <1>8

LEMMA Popped ==
    ASSUME NEW V, NEW r \in RingOf(V), occupancy(r) # 0, NEW s, s = PoppedFront(r)
    PROVE  /\ s \in RingOf(V) /\ s.head = circ_inc(r.head, 1) /\ s.tail = r.tail
           /\ occupancy(r) \in 1 .. sz /\ occupancy(s) = occupancy(r) - 1
           /\ \A i \in 0 .. occupancy(s) - 1 : DelayAt(s, i) = DelayAt(r, i + 1)
<1>1. s = [entry |-> r.entry, head |-> circ_inc(r.head, 1), tail |-> r.tail]
  BY DEF PoppedFront, RingOf
<1>2. s.entry = r.entry /\ s.head = circ_inc(r.head, 1) /\ s.tail = r.tail
  BY <1>1
<1>3. s.head \in Pos /\ occupancy(s) = occupancy(r) - 1
  BY <1>2, RingFields, HeadMoves DEF occupancy
<1>4. s \in RingOf(V)
  BY <1>1, <1>2, <1>3, RingFields, Zenon DEF RingOf
<1>5. occupancy(r) \in 1 .. sz
  <2>1. occupancy(r) \in 0 .. sz
    BY RingFields, PlaceOf DEF occupancy
  <2> QED BY <2>1
<1>6. ASSUME NEW i \in 0 .. occupancy(s) - 1 PROVE DelayAt(s, i) = DelayAt(r, i + 1)
  <2>1. i \in Nat /\ i + 1 <= sz
    BY <1>3, <1>5, DelayQueueAssumption
  <2>2. circ_inc(circ_inc(r.head, 1), i) = circ_inc(r.head, i + 1)
    BY <2>1, RingFields, DelayQueueAssumption DEF circ_inc, Pos
  <2> QED BY <1>2, <2>2, Zenon DEF DelayAt
<1> QED BY <1>2, <1>3, <1>4, <1>5, <1>6

LEMMA DelaysLowered ==
    ASSUME NEW r \in RingOf(Nat), NEW s, s = Lowered(r)
    PROVE  /\ s \in RingOf(Nat) /\ s.head = r.head /\ s.tail = r.tail
           /\ occupancy(s) = occupancy(r)
           /\ \A i \in 0 .. occupancy(r) - 1 :
                 DelayAt(s, i) = IF DelayAt(r, i) > 0 THEN DelayAt(r, i) - 1 ELSE 0
<1>1. PICK e : e = [p \in Pos |->
                      IF (\E i \in 0 .. occupancy(r) - 1 : p = circ_inc(r.head, i)) /\ r.entry[p] > 0
                      THEN r.entry[p] - 1 ELSE r.entry[p]]
  OBVIOUS
<1>2. s = [entry |-> e, head |-> r.head, tail |-> r.tail]
  BY <1>1 DEF Lowered, RingOf
<1>3. s.entry = e /\ s.head = r.head /\ s.tail = r.tail
  BY <1>2
<1>4. e \in [Pos -> Nat]
  <2>1. \A p \in Pos : r.entry[p] \in Nat
    BY RingFields
  <2>2. \A n \in Nat : n > 0 => n - 1 \in Nat
    OBVIOUS
  <2> QED BY <1>1, <2>1, <2>2, Zenon
<1>5. s \in RingOf(Nat)
  BY <1>2, <1>4, RingFields, Zenon DEF RingOf
<1>6. occupancy(s) = occupancy(r)
  BY <1>3 DEF occupancy, Distance
<1>7. ASSUME NEW i \in 0 .. occupancy(r) - 1
      PROVE  DelayAt(s, i) = IF DelayAt(r, i) > 0 THEN DelayAt(r, i) - 1 ELSE 0
  <2>1. occupancy(r) \in 0 .. sz
    BY RingFields, PlaceOf DEF occupancy
  <2>2. circ_inc(r.head, i) \in Pos
    <3>1. i \in 0 .. sz
      BY <2>1, DelayQueueAssumption
    <3> QED BY <3>1, RingFields, PlaceAt
  <2>3. PICK d \in Nat : d = DelayAt(r, i)
    BY <2>2, RingFields DEF DelayAt
  <2>4. DelayAt(s, i) = IF d > 0 THEN d - 1 ELSE d
    BY <1>1, <1>3, <2>2, <2>3, Zenon DEF DelayAt
  <2> QED BY <2>3, <2>4
<1> QED BY <1>3, <1>5, <1>6, <1>7

-----------------------------------------------------------------------------
(* The content of a ring, as a sequence.                                   *)

LEMMA ContentOf ==
    ASSUME NEW V, NEW r \in RingOf(V)
    PROVE  /\ occupancy(r) \in 0 .. sz /\ occupancy(r) \in Nat
           /\ Content(r) \in Seq(V) /\ Len(Content(r)) = occupancy(r)
           /\ \A i \in 1 .. occupancy(r) : Content(r)[i] = DelayAt(r, i - 1)
           /\ Content(r) = <<>> <=> occupancy(r) = 0
<1>1. PICK n : n = occupancy(r)
  OBVIOUS
<1>2. n \in 0 .. sz /\ n \in Nat
  <2>1. n \in 0 .. sz
    BY <1>1, RingFields, PlaceOf DEF occupancy
  <2> QED BY <2>1, DelayQueueAssumption
<1>3. PICK c : c = [i \in 1 .. n |-> DelayAt(r, i - 1)]
  OBVIOUS
<1>4. ASSUME NEW i \in 1 .. n PROVE DelayAt(r, i - 1) \in V
  <2>1. i - 1 \in 0 .. sz
    BY <1>2, DelayQueueAssumption
  <2>2. circ_inc(r.head, i - 1) \in Pos
    BY <2>1, RingFields, PlaceAt
  <2> QED BY <2>2, RingFields, Zenon DEF DelayAt
<1>5. c \in [1 .. n -> V]
  BY <1>3, <1>4, Zenon
<1>6. c \in Seq(V) /\ DOMAIN c = 1 .. n
  BY <1>2, <1>5, SeqDef, Zenon
<1>7. Len(c) = n
  BY <1>2, <1>6, LenProperties
<1>8. c = <<>> <=> n = 0
  BY <1>6, <1>7, EmptySeq
<1>9. c = Content(r)
  BY <1>1, <1>3, Zenon DEF Content, DelayAt
<1>10. \A i \in 1 .. n : c[i] = DelayAt(r, i - 1)
  BY <1>3, Zenon
<1> QED BY <1>1, <1>2, <1>6, <1>7, <1>8, <1>9, <1>10, Zenon

LEMMA ContentPushed ==
    ASSUME NEW V, NEW r \in RingOf(V), occupancy(r) # sz, NEW x \in V,
           NEW s, s = PushedBack(r, x)
    PROVE  Content(s) = Append(Content(r), x)
<1>1. PICK n \in Nat : n = occupancy(r)
  BY ContentOf
<1>2. s \in RingOf(V) /\ occupancy(s) = n + 1
  BY <1>1, Pushed
<1>3. \A i \in 0 .. n : DelayAt(s, i) = IF i = n THEN x ELSE DelayAt(r, i)
  BY <1>1, Pushed
<1>4. /\ Content(r) \in Seq(V) /\ Len(Content(r)) = n
      /\ \A i \in 1 .. n : Content(r)[i] = DelayAt(r, i - 1)
  BY <1>1, ContentOf
<1>5. /\ Content(s) \in Seq(V) /\ Len(Content(s)) = n + 1
      /\ \A i \in 1 .. n + 1 : Content(s)[i] = DelayAt(s, i - 1)
  BY <1>2, ContentOf
<1>6. /\ Append(Content(r), x) \in Seq(V) /\ Len(Append(Content(r), x)) = n + 1
      /\ \A i \in 1 .. n : Append(Content(r), x)[i] = Content(r)[i]
      /\ Append(Content(r), x)[n + 1] = x
  BY <1>4, AppendProperties
<1>7. ASSUME NEW i \in 1 .. n + 1 PROVE Content(s)[i] = Append(Content(r), x)[i]
  <2>1. i - 1 \in 0 .. n /\ (i - 1 = n <=> i = n + 1) /\ (i # n + 1 => i \in 1 .. n)
    OBVIOUS
  <2>2. Content(s)[i] = IF i = n + 1 THEN x ELSE DelayAt(r, i - 1)
    BY <1>3, <1>5, <2>1, Zenon
  <2> QED BY <1>4, <1>6, <2>1, <2>2, Zenon
<1>8. Len(Content(s)) = Len(Append(Content(r), x))
  BY <1>5, <1>6
<1>9. \A i \in 1 .. Len(Content(s)) : Content(s)[i] = Append(Content(r), x)[i]
  BY <1>5, <1>7
<1> QED BY <1>5, <1>6, <1>8, <1>9, SeqEqual

LEMMA ContentPopped ==
    ASSUME NEW V, NEW r \in RingOf(V), occupancy(r) # 0, NEW s, s = PoppedFront(r)
    PROVE  Content(s) = Tail(Content(r))
<1>1. PICK n \in Nat : n = occupancy(r)
  BY ContentOf
<1>2. s \in RingOf(V) /\ occupancy(s) = n - 1 /\ n >= 1
  BY <1>1, Popped
<1>3. \A i \in 0 .. (n - 1) - 1 : DelayAt(s, i) = DelayAt(r, i + 1)
  BY <1>1, <1>2, Popped
<1>4. /\ Content(r) \in Seq(V) /\ Len(Content(r)) = n /\ Content(r) # <<>>
      /\ \A i \in 1 .. n : Content(r)[i] = DelayAt(r, i - 1)
  BY <1>1, ContentOf
<1>5. /\ Content(s) \in Seq(V) /\ Len(Content(s)) = n - 1
      /\ \A i \in 1 .. n - 1 : Content(s)[i] = DelayAt(s, i - 1)
  BY <1>2, ContentOf
<1>6. /\ Tail(Content(r)) \in Seq(V) /\ Len(Tail(Content(r))) = n - 1
      /\ \A i \in 1 .. n - 1 : Tail(Content(r))[i] = Content(r)[i + 1]
  BY <1>4, HeadTailProperties
<1>7. ASSUME NEW i \in 1 .. n - 1 PROVE Content(s)[i] = Tail(Content(r))[i]
  <2>1. /\ i - 1 \in 0 .. (n - 1) - 1 /\ i + 1 \in 1 .. n /\ (i - 1) + 1 = i /\ (i + 1) - 1 = i
    BY <1>2
  <2>2. Content(s)[i] = DelayAt(r, i)
    BY <1>3, <1>5, <2>1, Zenon
  <2>3. Tail(Content(r))[i] = DelayAt(r, i)
    BY <1>4, <1>6, <2>1, Zenon
  <2> QED BY <2>2, <2>3, Zenon
<1>8. Len(Content(s)) = Len(Tail(Content(r)))
  BY <1>5, <1>6
<1>9. \A i \in 1 .. Len(Content(s)) : Content(s)[i] = Tail(Content(r))[i]
  BY <1>5, <1>7
<1> QED BY <1>5, <1>6, <1>8, <1>9, SeqEqual

-----------------------------------------------------------------------------
(* All members are pushed with the same latency: RQ, WQ, PQ and VAPQ of a  *)
(* cache, RQ of the page table walker and DISPATCH_BUFFER only call        *)
(* push_back, with the latency of the queue.                               *)
OneLatency == \A a, b \in Latency : a = b

(* DECODE_BUFFER does not: a decoded instruction comes by push_back_ready, *)
(* with latency 0.  It may, as long as the others wait one cycle only      *)
(* (decode_latency is 1 in the configurations that are shipped).           *)
InOrder == OneLatency \/ Latency \subseteq {0, 1}

(* The invariant.  b and d are the two rings and e is end_ready: they turn *)
(* together, no delay is longer than a latency, with one latency they      *)
(* ascend, and what is in front of e has waited out its delay.             *)
RingsFit(b, d, e) ==
    /\ b \in RingOf(Item \cup {NoItem}) /\ d \in RingOf(Nat) /\ e \in Pos
    /\ b.head = d.head /\ b.tail = d.tail
    /\ \A i \in 0 .. occupancy(d) - 1 : /\ DelayAt(d, i) \in Nat
                                        /\ \E l \in Latency : DelayAt(d, i) <= l
    /\ OneLatency => Sorted(d, occupancy(d))
    /\ Distance(b, e, b.head) <= occupancy(b)
    /\ \A i \in 0 .. occupancy(d) - 1 : i < Distance(b, e, b.head) => DelayAt(d, i) = 0

RingInv == RingsFit(buf, delays, end_ready)

LEMMA RingsFitNext ==
    ASSUME NEW b, NEW d, NEW e, b = buf', d = delays', e = end_ready'
    PROVE  /\ RingInv' <=> RingsFit(b, d, e)
           /\ Content(buf)' = Content(b) /\ Content(delays)' = Content(d)
           /\ Distance(buf, end_ready, buf.head)' = Distance(b, e, b.head)
           /\ Content(buf') = Content(b) /\ Content(delays') = Content(d)
BY DEF RingInv, RingsFit, OneLatency, RingOf, Sorted, DelayAt, Content, occupancy, Distance, circ_inc

LEMMA SameTurn ==
    ASSUME NEW b, NEW d, NEW e, RingsFit(b, d, e)
    PROVE  /\ occupancy(b) = occupancy(d) /\ occupancy(d) \in 0 .. sz /\ occupancy(d) \in Nat
           /\ Distance(b, e, b.head) \in 0 .. occupancy(d)
           /\ circ_inc(b.head, Distance(b, e, b.head)) = e
<1>1. d \in RingOf(Nat) /\ b \in RingOf(Item \cup {NoItem}) /\ e \in Pos
      /\ b.head = d.head /\ b.tail = d.tail /\ Distance(b, e, b.head) <= occupancy(b)
  BY DEF RingsFit
<1>2. occupancy(b) = occupancy(d)
  BY <1>1 DEF occupancy, Distance
<1>3. occupancy(d) \in 0 .. sz /\ occupancy(d) \in Nat
  BY <1>1, ContentOf
<1>4. b.head \in Pos
  BY <1>1, RingFields
<1>5. /\ Distance(b, e, b.head) \in 0 .. sz
      /\ circ_inc(b.head, Distance(b, e, b.head)) = e
  BY <1>1, <1>4, PlaceOf
<1>6. Distance(b, e, b.head) \in 0 .. occupancy(d)
  BY <1>1, <1>2, <1>3, <1>5
<1> QED BY <1>2, <1>3, <1>5, <1>6

LEMMA FitPush ==
    ASSUME NEW b, NEW d, NEW e, RingsFit(b, d, e), occupancy(b) # sz,
           NEW x \in Item, NEW l \in Latency
    PROVE  RingsFit(PushedBack(b, x), PushedBack(d, l), e)
<1>1. PICK b2 : b2 = PushedBack(b, x)
  OBVIOUS
<1>2. PICK d2 : d2 = PushedBack(d, l)
  OBVIOUS
<1>3. PICK n \in Nat : n = occupancy(d) /\ n = occupancy(b) /\ n # sz
  BY SameTurn
<1>4. PICK k \in 0 .. n : k = Distance(b, e, b.head)
  BY <1>3, SameTurn
<1>5. l \in Nat /\ x \in Item \cup {NoItem}
  BY DelayQueueAssumption
<1>6. d \in RingOf(Nat) /\ b \in RingOf(Item \cup {NoItem}) /\ e \in Pos
      /\ b.head = d.head /\ b.tail = d.tail
  BY Zenon DEF RingsFit
<1>7. /\ b2 \in RingOf(Item \cup {NoItem}) /\ b2.head = b.head /\ b2.tail = circ_inc(b.tail, 1)
      /\ occupancy(b2) = n + 1
  BY <1>1, <1>3, <1>5, <1>6, Pushed
<1>8. /\ d2 \in RingOf(Nat) /\ d2.head = d.head /\ d2.tail = circ_inc(d.tail, 1)
      /\ occupancy(d2) = n + 1
      /\ \A i \in 0 .. n : DelayAt(d2, i) = IF i = n THEN l ELSE DelayAt(d, i)
  <2>1. d \in RingOf(Nat) /\ occupancy(d) # sz /\ l \in Nat
    BY <1>3, <1>5, <1>6, Zenon
  <2>2. /\ d2 \in RingOf(Nat) /\ d2.head = d.head /\ d2.tail = circ_inc(d.tail, 1)
        /\ occupancy(d2) = occupancy(d) + 1
        /\ \A i \in 0 .. occupancy(d) :
              DelayAt(d2, i) = IF i = occupancy(d) THEN l ELSE DelayAt(d, i)
    BY <1>2, <2>1, Pushed
  <2> QED BY <1>3, <2>2, Zenon
<1>9. \A i \in 0 .. n - 1 : DelayAt(d, i) \in Nat /\ \E a \in Latency : DelayAt(d, i) <= a
  BY <1>3, Zenon DEF RingsFit
<1>10. \A i \in 0 .. n : i # n => i \in 0 .. n - 1
  OBVIOUS
<1>11. l <= l
  BY <1>5
<1>12. ASSUME NEW i \in 0 .. n
       PROVE  DelayAt(d2, i) \in Nat /\ \E a \in Latency : DelayAt(d2, i) <= a
  <2>1. CASE i = n
    BY <1>5, <1>8, <1>11, <2>1, Zenon
  <2>2. CASE i # n
    BY <1>8, <1>9, <1>10, <2>2, Zenon
  <2> QED BY <2>1, <2>2
<1>13. ASSUME OneLatency, NEW i \in 0 .. n, NEW j \in 0 .. n, i <= j
       PROVE  DelayAt(d2, i) <= DelayAt(d2, j)
  <2>1. CASE j = n
    <3>1. DelayAt(d2, j) = l
      BY <1>8, <2>1, Zenon
    <3> QED BY <1>12, <1>13, <3>1, Zenon DEF OneLatency
  <2>2. CASE j # n
    <3>1. i # n
      BY <1>13, <2>2
    <3>2. i \in 0 .. n - 1 /\ j \in 0 .. n - 1
      BY <1>10, <2>2, <3>1, Zenon
    <3>3. DelayAt(d, i) <= DelayAt(d, j)
      BY <1>3, <1>13, <3>2, Zenon DEF RingsFit, Sorted
    <3> QED BY <1>8, <2>2, <3>1, <3>3, Zenon
  <2> QED BY <2>1, <2>2
<1>14. (n + 1) - 1 = n
  OBVIOUS
<1>15. OneLatency => Sorted(d2, n + 1)
  BY <1>12, <1>13, <1>14, Zenon DEF Sorted
<1>17. Distance(b2, e, b2.head) = k
  BY <1>4, <1>7 DEF Distance
<1>18. k <= n + 1
  OBVIOUS
<1>19. ASSUME NEW i \in 0 .. n, i < k PROVE DelayAt(d2, i) = 0
  <2>1. i # n
    BY <1>19
  <2>2. DelayAt(d, i) = 0
    BY <1>3, <1>4, <1>10, <1>19, <2>1, Zenon DEF RingsFit
  <2> QED BY <1>8, <2>1, <2>2, Zenon
<1>20. RingsFit(b2, d2, e)
  BY <1>6, <1>7, <1>8, <1>12, <1>14, <1>15, <1>17, <1>18, <1>19, Zenon DEF RingsFit
<1> QED BY <1>1, <1>2, <1>20, Zenon

LEMMA FitPop ==
    ASSUME NEW b, NEW d, NEW e, RingsFit(b, d, e), Distance(b, e, b.head) # 0
    PROVE  /\ RingsFit(PoppedFront(b), PoppedFront(d), e)
           /\ occupancy(b) # 0 /\ occupancy(d) # 0
           /\ Distance(PoppedFront(b), e, PoppedFront(b).head) = Distance(b, e, b.head) - 1
<1>1. PICK b2 : b2 = PoppedFront(b)
  OBVIOUS
<1>2. PICK d2 : d2 = PoppedFront(d)
  OBVIOUS
<1>3. PICK n \in Nat : n = occupancy(d) /\ n = occupancy(b)
  BY SameTurn
<1>4. PICK k \in 1 .. n : k = Distance(b, e, b.head)
  BY <1>3, SameTurn
<1>5. n >= 1 /\ n - 1 \in Nat
  OBVIOUS
<1>6. d \in RingOf(Nat) /\ b \in RingOf(Item \cup {NoItem}) /\ e \in Pos
      /\ b.head = d.head /\ b.tail = d.tail
  BY Zenon DEF RingsFit
<1>7. /\ b2 \in RingOf(Item \cup {NoItem}) /\ b2.head = circ_inc(b.head, 1) /\ b2.tail = b.tail
      /\ occupancy(b2) = n - 1
  BY <1>1, <1>3, <1>5, <1>6, Popped
<1>8. /\ d2 \in RingOf(Nat) /\ d2.head = circ_inc(d.head, 1) /\ d2.tail = d.tail
      /\ occupancy(d2) = n - 1
      /\ \A i \in 0 .. (n - 1) - 1 : DelayAt(d2, i) = DelayAt(d, i + 1)
  <2>1. d \in RingOf(Nat) /\ occupancy(d) # 0
    BY <1>3, <1>5, <1>6
  <2>2. /\ d2 \in RingOf(Nat) /\ d2.head = circ_inc(d.head, 1) /\ d2.tail = d.tail
        /\ occupancy(d2) = occupancy(d) - 1
        /\ \A i \in 0 .. occupancy(d2) - 1 : DelayAt(d2, i) = DelayAt(d, i + 1)
    BY <1>2, <2>1, Popped
  <2> QED BY <1>3, <2>2, Zenon
<1>9. \A i \in 0 .. (n - 1) - 1 : i + 1 \in 0 .. n - 1 /\ (i < k - 1 => i + 1 < k)
  OBVIOUS
<1>10. \A i, j \in 0 .. (n - 1) - 1 : i <= j => i + 1 <= j + 1
  OBVIOUS
<1>11. OneLatency => Sorted(d2, n - 1)
  BY <1>3, <1>8, <1>9, <1>10, Zenon DEF RingsFit, Sorted
<1>12. \A i \in 0 .. (n - 1) - 1 : /\ DelayAt(d2, i) \in Nat
                                   /\ \E l \in Latency : DelayAt(d2, i) <= l
  BY <1>3, <1>8, <1>9, Zenon DEF RingsFit
<1>13. Distance(b2, e, b2.head) = k - 1
  <2>1. b.head \in Pos
    BY <1>6, RingFields
  <2>2. Distance(b, e, b.head) # 0
    OBVIOUS
  <2> QED BY <1>4, <1>6, <1>7, <2>1, <2>2, HeadMoves
<1>14. k - 1 <= n - 1
  OBVIOUS
<1>15. \A i \in 0 .. (n - 1) - 1 : i < k - 1 => DelayAt(d2, i) = 0
  BY <1>3, <1>4, <1>8, <1>9, Zenon DEF RingsFit
<1>16. RingsFit(b2, d2, e)
  BY <1>6, <1>7, <1>8, <1>11, <1>12, <1>13, <1>14, <1>15, Zenon DEF RingsFit
<1>17. n # 0
  BY <1>5
<1> QED BY <1>1, <1>2, <1>3, <1>4, <1>13, <1>16, <1>17, Zenon

LEMMA FitOperate ==
    ASSUME InOrder, NEW b, NEW d, NEW e, RingsFit(b, d, e), NEW d2, d2 = Lowered(d),
           NEW p, p = partition_point(d2, occupancy(d2)),
           NEW e2, e2 = circ_inc(b.head, p)
    PROVE  /\ RingsFit(b, d2, e2) /\ occupancy(d2) = occupancy(d)
           /\ p \in 0 .. occupancy(d) /\ Distance(b, e2, b.head) = p
           /\ Parted(d2, occupancy(d), p, p)
           /\ \A i \in 0 .. occupancy(d) - 1 :
                 DelayAt(d2, i) = IF DelayAt(d, i) > 0 THEN DelayAt(d, i) - 1 ELSE 0
<1>1. PICK n \in Nat : n = occupancy(d) /\ n = occupancy(b) /\ n <= sz
  <2>1. occupancy(d) \in Nat /\ occupancy(b) = occupancy(d) /\ occupancy(d) <= sz
    BY SameTurn
  <2> QED BY <2>1
<1>2. d \in RingOf(Nat) /\ b \in RingOf(Item \cup {NoItem})
      /\ b.head = d.head /\ b.tail = d.tail
  BY Zenon DEF RingsFit
<1>3. /\ d2 \in RingOf(Nat) /\ d2.head = d.head /\ d2.tail = d.tail /\ occupancy(d2) = n
      /\ \A i \in 0 .. n - 1 :
            DelayAt(d2, i) = IF DelayAt(d, i) > 0 THEN DelayAt(d, i) - 1 ELSE 0
  <2>1. /\ d2 \in RingOf(Nat) /\ d2.head = d.head /\ d2.tail = d.tail
        /\ occupancy(d2) = occupancy(d)
        /\ \A i \in 0 .. occupancy(d) - 1 :
              DelayAt(d2, i) = IF DelayAt(d, i) > 0 THEN DelayAt(d, i) - 1 ELSE 0
    BY <1>2, DelaysLowered
  <2> QED BY <1>1, <2>1, Zenon
<1>4. \A i \in 0 .. n - 1 : DelayAt(d, i) \in Nat /\ \E l \in Latency : DelayAt(d, i) <= l
  BY <1>1, Zenon DEF RingsFit
<1>5. OneLatency => \A i, j \in 0 .. n - 1 : i <= j => DelayAt(d, i) <= DelayAt(d, j)
  BY <1>1, Zenon DEF RingsFit, Sorted
<1>6. \A i \in 0 .. n - 1 : DelayAt(d2, i) \in Nat /\ DelayAt(d2, i) <= DelayAt(d, i)
  <2> TAKE i \in 0 .. n - 1
  <2>1. PICK m \in Nat : m = DelayAt(d, i)
    BY <1>4, Zenon
  <2>2. DelayAt(d2, i) = IF m > 0 THEN m - 1 ELSE 0
    BY <1>3, <2>1, Zenon
  <2> QED BY <2>1, <2>2
<1>7. \A i, j \in 0 .. n - 1 : i <= j => DelayAt(d2, i) <= DelayAt(d2, j)
  <2> SUFFICES ASSUME NEW i \in 0 .. n - 1, NEW j \in 0 .. n - 1, i <= j
               PROVE  DelayAt(d2, i) <= DelayAt(d2, j)
    OBVIOUS
  <2>1. PICK m \in Nat : m = DelayAt(d, i)
    BY <1>4, Zenon
  <2>2. PICK k \in Nat : k = DelayAt(d, j)
    BY <1>4, Zenon
  <2>3. DelayAt(d2, i) = (IF m > 0 THEN m - 1 ELSE 0) /\ DelayAt(d2, j) = (IF k > 0 THEN k - 1 ELSE 0)
    BY <1>3, <2>1, <2>2, Zenon
  <2>4. CASE OneLatency
    <3>1. m <= k
      BY <1>5, <2>1, <2>2, <2>4, Zenon
    <3> QED BY <2>3, <3>1
  <2>5. CASE Latency \subseteq {0, 1}
    <3>1. PICK l \in Latency : m <= l
      BY <1>4, <2>1, Zenon
    <3>2. m <= 1
      BY <2>5, <3>1
    <3> QED BY <2>3, <3>2
  <2> QED BY <2>4, <2>5 DEF InOrder
<1>8. Sorted(d2, n)
  BY <1>6, <1>7, Zenon DEF Sorted
<1>9. p \in 0 .. n /\ Parted(d2, n, p, p)
  <2>1. partition_point(d2, n) \in 0 .. n /\ Parted(d2, n, partition_point(d2, n), partition_point(d2, n))
    BY <1>8, PartitionPoint
  <2> QED BY <1>3, <2>1, Zenon
<1>10. e2 \in Pos /\ Distance(b, e2, b.head) = p
  <2>1. p \in 0 .. sz
    BY <1>1, <1>9, DelayQueueAssumption
  <2>2. b.head \in Pos
    BY <1>2, RingFields
  <2> QED BY <2>1, <2>2, PlaceAt
<1>11. ASSUME NEW i \in 0 .. n - 1 PROVE \E l \in Latency : DelayAt(d2, i) <= l
  <2>1. PICK l \in Latency : DelayAt(d, i) <= l
    BY <1>4, Zenon
  <2>2. l \in Nat
    BY DelayQueueAssumption
  <2>3. DelayAt(d2, i) <= l
    BY <1>4, <1>6, <2>1, <2>2
  <2> QED BY <2>3
<1>12. p <= n
  BY <1>9
<1>13. \A i \in 0 .. n - 1 : i < p => DelayAt(d2, i) = 0
  BY <1>9, Zenon DEF Parted
<1>14. RingsFit(b, d2, e2)
  BY <1>1, <1>2, <1>3, <1>6, <1>8, <1>10, <1>11, <1>12, <1>13, Zenon DEF RingsFit
<1> QED BY <1>1, <1>3, <1>9, <1>10, <1>14, Zenon

-----------------------------------------------------------------------------
(* Every step of the rings is one of the queue that ReadyFifo describes.   *)

LEMMA PushImplements ==
    ASSUME RingInv, NEW x \in Item, NEW l \in Latency, push_back(x, l)
    PROVE  RingInv' /\ F!Push(x, l)
<1>1. PICK b : b = buf'
  OBVIOUS
<1>2. PICK d : d = delays'
  OBVIOUS
<1>3. PICK e : e = end_ready'
  OBVIOUS
<1>4. /\ occupancy(buf) # sz /\ b = PushedBack(buf, x) /\ d = PushedBack(delays, l)
      /\ e = end_ready
  BY <1>1, <1>2, <1>3 DEF push_back
<1>5. RingsFit(b, d, e)
  BY <1>4, FitPush DEF RingInv
<1>6. /\ RingInv' <=> RingsFit(b, d, e)
      /\ Content(buf)' = Content(b) /\ Content(delays)' = Content(d)
      /\ Distance(buf, end_ready, buf.head)' = Distance(b, e, b.head)
  BY <1>1, <1>2, <1>3, RingsFitNext
<1>7. /\ buf \in RingOf(Item \cup {NoItem}) /\ delays \in RingOf(Nat)
      /\ occupancy(buf) = occupancy(delays) /\ occupancy(buf) \in 0 .. sz /\ l \in Nat
      /\ x \in Item \cup {NoItem}
  BY SameTurn, DelayQueueAssumption DEF RingInv, RingsFit
<1>8. Content(b) = Append(Content(buf), x) /\ Content(d) = Append(Content(delays), l)
  BY <1>4, <1>7, ContentPushed
<1>9. Len(Content(buf)) < sz
  <2>1. Len(Content(buf)) = occupancy(buf)
    BY <1>7, ContentOf
  <2> QED BY <1>4, <1>7, <2>1, DelayQueueAssumption
<1>10. Distance(b, e, b.head) = Distance(buf, end_ready, buf.head)
  BY <1>4 DEF Distance, PushedBack
<1> QED BY <1>5, <1>6, <1>8, <1>9, <1>10, Zenon DEF F!Push

LEMMA PopImplements ==
    ASSUME RingInv, pop_front PROVE RingInv' /\ F!Pop
<1>1. PICK b : b = buf'
  OBVIOUS
<1>2. PICK d : d = delays'
  OBVIOUS
<1>3. PICK e : e = end_ready'
  OBVIOUS
<1>4. has_ready /\ b = PoppedFront(buf) /\ d = PoppedFront(delays) /\ e = end_ready
  BY <1>1, <1>2, <1>3 DEF pop_front
<1>5. /\ buf \in RingOf(Item \cup {NoItem}) /\ delays \in RingOf(Nat) /\ end_ready \in Pos
      /\ Distance(buf, end_ready, buf.head) \in Nat
  <2>1. Distance(buf, end_ready, buf.head) \in 0 .. occupancy(delays)
    BY SameTurn DEF RingInv
  <2>2. buf \in RingOf(Item \cup {NoItem}) /\ delays \in RingOf(Nat) /\ end_ready \in Pos
    BY DEF RingInv, RingsFit
  <2> QED BY <2>1, <2>2
(* The two iterators differ.                                               *)
<1>6. Distance(buf, end_ready, buf.head) > 0
  <2>1. PICK h \in Pos : h = buf.head
    BY <1>5, RingFields
  <2>2. Distance(buf, end_ready, h) = IF end_ready < h THEN (sz + 1) + (end_ready - h) ELSE end_ready - h
    BY <1>5, <2>1, DelayQueueAssumption DEF Distance, Pos
  <2>3. Distance(buf, h, end_ready) = IF end_ready < h THEN (sz + 1) - (h - end_ready) ELSE h - end_ready
    BY <1>5, <2>1, DelayQueueAssumption DEF Distance, Pos
  <2>4. Distance(buf, end_ready, h) > 0 \/ Distance(buf, h, end_ready) > 0
    BY <1>4, <2>1, Zenon DEF has_ready, Less
  <2>5. Distance(buf, end_ready, h) > 0
    BY <1>5, <2>2, <2>3, <2>4, DelayQueueAssumption DEF Pos
  <2> QED BY <2>1, <2>5
<1>7. Distance(buf, end_ready, buf.head) # 0
  BY <1>6
<1>8. /\ RingsFit(b, d, e) /\ occupancy(buf) # 0 /\ occupancy(delays) # 0
      /\ Distance(b, e, b.head) = Distance(buf, end_ready, buf.head) - 1
  BY <1>4, <1>7, FitPop DEF RingInv
<1>9. /\ RingInv' <=> RingsFit(b, d, e)
      /\ Content(buf)' = Content(b) /\ Content(delays)' = Content(d)
      /\ Distance(buf, end_ready, buf.head)' = Distance(b, e, b.head)
  BY <1>1, <1>2, <1>3, RingsFitNext
<1>10. Content(b) = Tail(Content(buf)) /\ Content(d) = Tail(Content(delays))
  BY <1>4, <1>5, <1>8, ContentPopped
<1> QED BY <1>6, <1>8, <1>9, <1>10, Zenon DEF F!Pop

LEMMA OperateImplements ==
    ASSUME InOrder, RingInv, operate PROVE RingInv' /\ F!Tick
<1>1. PICK b : b = buf'
  OBVIOUS
<1>2. PICK d : d = delays'
  OBVIOUS
<1>3. PICK e : e = end_ready'
  OBVIOUS
<1>4. PICK p : p = partition_point(d, occupancy(d))
  OBVIOUS
<1>5. b = buf /\ d = Lowered(delays) /\ e = circ_inc(buf.head, p)
  <2>1. partition_point(delays', occupancy(delays')) = p
    BY <1>2, <1>4, Zenon
  <2> QED BY <1>1, <1>2, <1>3, <2>1 DEF operate
<1>6. /\ RingsFit(b, d, e) /\ p \in 0 .. occupancy(delays) /\ Distance(b, e, b.head) = p
      /\ occupancy(d) = occupancy(delays)
      /\ Parted(d, occupancy(delays), p, p)
      /\ \A i \in 0 .. occupancy(delays) - 1 :
            DelayAt(d, i) = IF DelayAt(delays, i) > 0 THEN DelayAt(delays, i) - 1 ELSE 0
  BY <1>4, <1>5, FitOperate DEF RingInv
<1>7. /\ RingInv' <=> RingsFit(b, d, e)
      /\ Content(buf)' = Content(b) /\ Content(delays)' = Content(d)
      /\ Distance(buf, end_ready, buf.head)' = Distance(b, e, b.head)
  BY <1>1, <1>2, <1>3, RingsFitNext
<1>8. PICK n \in Nat : n = occupancy(delays)
  BY SameTurn DEF RingInv
<1>9. /\ Content(delays) \in Seq(Nat) /\ Len(Content(delays)) = n
      /\ DOMAIN Content(delays) = 1 .. n
      /\ \A i \in 1 .. n : Content(delays)[i] = DelayAt(delays, i - 1)
  <2>1. delays \in RingOf(Nat)
    BY DEF RingInv, RingsFit
  <2>2. /\ Content(delays) \in Seq(Nat) /\ Len(Content(delays)) = n
        /\ \A i \in 1 .. n : Content(delays)[i] = DelayAt(delays, i - 1)
    BY <1>8, <2>1, ContentOf
  <2> QED BY <2>2, LenProperties
<1>10. /\ Len(Content(d)) = n /\ DOMAIN Content(d) = 1 .. n
       /\ Content(d) = [i \in 1 .. n |-> Content(d)[i]]
       /\ \A i \in 1 .. n : Content(d)[i] = DelayAt(d, i - 1)
  <2>1. d \in RingOf(Nat)
    BY <1>6 DEF RingsFit
  <2>2. /\ Content(d) \in Seq(Nat) /\ Len(Content(d)) = n
        /\ \A i \in 1 .. n : Content(d)[i] = DelayAt(d, i - 1)
    BY <1>6, <1>8, <2>1, ContentOf
  <2>3. DOMAIN Content(d) = 1 .. n /\ Content(d) \in [1 .. n -> Nat]
    BY <2>2, LenProperties
  <2> QED BY <2>2, <2>3
<1>11. \A i \in 1 .. n : i - 1 \in 0 .. n - 1
  OBVIOUS
<1>12. ASSUME NEW i \in 1 .. n
       PROVE  Content(d)[i] = IF Content(delays)[i] > 0 THEN Content(delays)[i] - 1 ELSE 0
  BY <1>6, <1>8, <1>9, <1>10, <1>11, Zenon
<1>13. Content(d) = [i \in 1 .. n |-> IF Content(delays)[i] > 0 THEN Content(delays)[i] - 1 ELSE 0]
  BY <1>10, <1>12, Zenon
<1>14. p \in 0 .. Len(Content(delays))
  BY <1>6, <1>8, <1>9, Zenon
<1>15. ASSUME NEW i \in 1 .. p PROVE Content(d)[i] = 0
  <2>1. i \in 1 .. n /\ i - 1 \in 0 .. n - 1 /\ i - 1 < p
    BY <1>6, <1>8
  <2> QED BY <1>6, <1>8, <1>10, <2>1, Zenon DEF Parted
<1>16. ASSUME p < Len(Content(delays)) PROVE Content(d)[p + 1] > 0
  <2>1. p + 1 \in 1 .. n /\ p \in 0 .. n - 1 /\ p >= p /\ (p + 1) - 1 = p
    BY <1>6, <1>8, <1>9, <1>16
  <2> QED BY <1>6, <1>8, <1>10, <2>1, Zenon DEF Parted
<1>17. Content(b) = Content(buf)
  BY <1>5
<1> QED BY <1>6, <1>7, <1>9, <1>13, <1>14, <1>15, <1>16, <1>17, Zenon DEF F!Tick

LEMMA InitImplements ==
    ASSUME DelayQueueInit PROVE RingInv /\ F!FifoInit
<1>1. 0 \in Pos
  BY DelayQueueAssumption DEF Pos
<1>2. buf \in RingOf(Item \cup {NoItem}) /\ delays \in RingOf(Nat)
  BY <1>1 DEF DelayQueueInit, RingOf
<1>3. occupancy(buf) = 0 /\ occupancy(delays) = 0
  BY DelayQueueAssumption DEF DelayQueueInit, occupancy, Distance
<1>4. Distance(buf, end_ready, buf.head) = 0
  BY DelayQueueAssumption DEF DelayQueueInit, Distance
<1>5. Content(buf) = <<>> /\ Content(delays) = <<>>
  BY <1>2, <1>3, ContentOf
<1>6. \A i \in 0 .. 0 - 1 : FALSE
  OBVIOUS
<1>7. Sorted(delays, 0)
  BY <1>6, Zenon DEF Sorted
<1>8. buf.head = delays.head /\ buf.tail = delays.tail /\ end_ready \in Pos
  BY <1>1 DEF DelayQueueInit
<1>9. 0 <= 0
  OBVIOUS
<1>10. RingInv
  BY <1>2, <1>3, <1>4, <1>6, <1>7, <1>8, <1>9, Zenon DEF RingInv, RingsFit
<1> QED BY <1>4, <1>5, <1>10 DEF F!FifoInit

LEMMA StepImplements ==
    ASSUME InOrder, RingInv, [DelayQueueNext]_ringVars
    PROVE  RingInv' /\ [F!FifoNext]_F!fifoVars
<1>1. ASSUME NEW x \in Item, NEW l \in Latency, push_back(x, l)
      PROVE  RingInv' /\ F!FifoNext
  BY <1>1, PushImplements DEF F!FifoNext
<1>2. ASSUME pop_front PROVE RingInv' /\ F!FifoNext
  BY <1>2, PopImplements DEF F!FifoNext
<1>3. ASSUME operate PROVE RingInv' /\ F!FifoNext
  BY <1>3, OperateImplements DEF F!FifoNext
<1>4. ASSUME UNCHANGED ringVars PROVE RingInv' /\ UNCHANGED F!fifoVars
  BY <1>4 DEF ringVars, RingInv, RingsFit, OneLatency, RingOf, Sorted, DelayAt, Content, occupancy,
              Distance, circ_inc, F!fifoVars
<1> QED BY <1>1, <1>2, <1>3, <1>4 DEF DelayQueueNext

(* Two rings that wrap around and an end iterator set by binary search     *)
(* once a cycle are the queue with delays that the class promises, for     *)
(* every size and any pushes and pops, if all members wait equally long or *)
(* none waits longer than a cycle (inc/delay_queue.hpp).                   *)
THEOREM DelayQueueImplementsReadyFifo ==
    ASSUME InOrder PROVE DelayQueueSpec => ImplementsReadyFifo
<1>1. DelayQueueInit => RingInv /\ F!FifoInit
  BY InitImplements
<1>2. RingInv /\ [DelayQueueNext]_ringVars => RingInv' /\ [F!FifoNext]_F!fifoVars
  BY StepImplements
<1> QED BY <1>1, <1>2, PTL DEF DelayQueueSpec, ImplementsReadyFifo, F!FifoSpec

LEMMA FitReleases ==
    ASSUME RingInv PROVE OnlyReadyReleased
<1>1. PICK n \in Nat : n = occupancy(delays)
  BY SameTurn DEF RingInv
<1>2. PICK k \in 0 .. n : k = Distance(buf, end_ready, buf.head)
  BY <1>1, SameTurn DEF RingInv
<1>3. \A i \in 1 .. n : Content(delays)[i] = DelayAt(delays, i - 1)
  BY <1>1, ContentOf DEF RingInv, RingsFit
<1>4. \A i \in 0 .. n - 1 : i < k => DelayAt(delays, i) = 0
  BY <1>1, <1>2, Zenon DEF RingInv, RingsFit
<1>5. ASSUME NEW i \in 1 .. k PROVE Content(delays)[i] <= 0
  <2>1. i \in 1 .. n /\ i - 1 \in 0 .. n - 1 /\ i - 1 < k
    BY <1>5
  <2>2. Content(delays)[i] = 0
    BY <1>3, <1>4, <2>1, Zenon
  <2> QED BY <2>2
<1> QED BY <1>2, <1>5, Zenon DEF OnlyReadyReleased

(* "end_ready() will always point to the first non-ready member"           *)
(* (inc/delay_queue.hpp) holds under the same condition, so that nothing   *)
(* is handed out before its delay has passed; with latencies 0 and 3 the   *)
(* comment is wrong.                                                       *)
THEOREM ReadyOnlyReleased ==
    ASSUME InOrder PROVE DelayQueueSpec => []OnlyReadyReleased
<1>1. DelayQueueInit => RingInv
  BY InitImplements
<1>2. RingInv /\ [DelayQueueNext]_ringVars => RingInv'
  BY StepImplements
<1>3. RingInv => OnlyReadyReleased
  BY FitReleases
<1> QED BY <1>1, <1>2, <1>3, PTL DEF DelayQueueSpec
=============================================================================
