---------------------------- MODULE Cache_proofs ----------------------------
(***************************************************************************)
(* Proofs about module Cache for every size of its queues, every set of    *)
(* lines and every latency: the type invariant, the three invariants of    *)
(* the MSHR, that a returned line stays returned, that no write is         *)
(* dropped, that no line is held twice and that every reply is owed once.  *)
(* The MSHR is the hard part: five handlers change it, each in its own     *)
(* way, so each kind of change has a lemma.                                *)
(***************************************************************************)
EXTENDS Cache, SequenceTheorems, FiniteSetTheorems, WellFoundedInduction, TLAPS

(* A set of natural numbers that is not empty has a first element.          *)
LEMMA FirstIsLeast ==
  ASSUME NEW S \in SUBSET Nat, S # {}
  PROVE  First(S) \in S /\ \A j \in S : First(S) <= j
<1>1. PICK x \in S : \A y \in S : ~ (<<y, x>> \in OpToRel(<, Nat))
  BY NatLessThanWellFounded, WFMin, Zenon
<1>2. ASSUME NEW y \in S, y < x PROVE FALSE
  <2>1. <<y, x>> \in Nat \X Nat /\ <<y, x>>[1] < <<y, x>>[2]
    BY <1>2
  <2>2. \A p \in Nat \X Nat : p[1] < p[2] => p \in OpToRel(<, Nat)
    BY Zenon DEF OpToRel
  <2>. QED
    BY <1>1, <2>1, <2>2, Zenon
<1>3. \A y \in S : x <= y
  BY <1>2
<1>. QED
  BY <1>3 DEF First

-----------------------------------------------------------------------------
(* The MSHR invariants for any list m of entries and any debt lr of the     *)
(* level below.                                                             *)
GoodMshr(m, lr) ==
  /\ m \in Seq(ENTRY)
  /\ lr \in [Line -> Nat]
  /\ \A i, j \in DOMAIN m : eq_addr(m[i].address, m[j].address) => i = j
  /\ \A i, j \in DOMAIN m : i < j => m[i].due <= m[j].due
  /\ \A l \in Line : lr[l] = IF Waits(m, l) THEN 1 ELSE 0

(* An entry: its fields, and the entry with another due.                    *)
LEMMA EntryFields ==
  ASSUME NEW e \in ENTRY
  PROVE  /\ e.address \in Addr /\ e.due \in 0 .. Never
         /\ line_of[e.address] \in Line
BY CacheAssumption DEF ENTRY

LEMMA EntryDue ==
  ASSUME NEW e \in ENTRY, NEW d \in 0 .. Never
  PROVE  /\ [e EXCEPT !.due = d] \in ENTRY
         /\ [e EXCEPT !.due = d].due = d
         /\ [e EXCEPT !.due = d].address = e.address
BY DEF ENTRY

LEMMA MshrFields ==
  ASSUME NEW m \in Seq(ENTRY)
  PROVE  /\ Len(m) \in Nat /\ DOMAIN m = 1 .. Len(m)
         /\ \A i \in DOMAIN m : /\ m[i] \in ENTRY
                               /\ m[i].due \in 0 .. Never
                               /\ line_of[m[i].address] \in Line
<1>1. \A i \in DOMAIN m : m[i] \in ENTRY
  OBVIOUS
<1>. QED
  BY <1>1, EntryFields

(* Appending an entry for a line that has none, as readlike_miss does, and  *)
(* asking below for that line.                                              *)
LEMMA AppendGood ==
  ASSUME NEW m, NEW lr, GoodMshr(m, lr),
         NEW e \in ENTRY, e.due = Never,
         \A i \in DOMAIN m : ~eq_addr(m[i].address, e.address)
  PROVE  GoodMshr(Append(m, e),
                  [lr EXCEPT ![line_of[e.address]] = @ + 1])
<1>. DEFINE r == Append(m, e)
            l0 == line_of[e.address]
            lr2 == [lr EXCEPT ![l0] = @ + 1]
<1>1. /\ m \in Seq(ENTRY) /\ lr \in [Line -> Nat] /\ l0 \in Line
      /\ Len(m) \in Nat
  BY EntryFields DEF GoodMshr
<1>2. /\ r \in Seq(ENTRY) /\ Len(r) = Len(m) + 1
      /\ DOMAIN r = 1 .. (Len(m) + 1) /\ DOMAIN m = 1 .. Len(m)
      /\ \A i \in 1 .. Len(m) : r[i] = m[i]
      /\ r[Len(m) + 1] = e
  BY <1>1
<1>3. \A i, j \in DOMAIN r : eq_addr(r[i].address, r[j].address) => i = j
  BY <1>1, <1>2 DEF GoodMshr, eq_addr
<1>4. \A i \in DOMAIN m : m[i].due \in 0 .. Never
  BY <1>1, MshrFields
<1>5. \A i, j \in DOMAIN r : i < j => r[i].due <= r[j].due
  BY <1>1, <1>2, <1>4, CacheAssumption DEF GoodMshr, Never
<1>6. Waits(r, l0) /\ ~Waits(m, l0)
  BY <1>1, <1>2 DEF Waits, eq_addr
<1>7. \A l \in Line \ {l0} : Waits(r, l) <=> Waits(m, l)
  BY <1>1, <1>2 DEF Waits
<1>8. \A l \in Line : lr2[l] = IF Waits(r, l) THEN 1 ELSE 0
  BY <1>1, <1>6, <1>7 DEF GoodMshr
<1>. QED
  BY <1>1, <1>2, <1>3, <1>5, <1>8 DEF GoodMshr

(* return_data: the entry at place i trades places with the first entry not *)
(* yet returned, and the level below owes its line no more.                 *)
LEMMA ReturnedGood ==
  ASSUME NEW m, NEW lr, GoodMshr(m, lr),
         NEW i \in DOMAIN m, m[i].due = Never
  PROVE  /\ GoodMshr(Returned(m, i), [lr EXCEPT ![line_of[m[i].address]] = @ - 1])
         /\ Len(Returned(m, i)) = Len(m)
<1>. DEFINE f == FirstUnreturned(m)
            r == Returned(m, i)
            l0 == line_of[m[i].address]
            lr2 == [lr EXCEPT ![l0] = @ - 1]
<1>1. /\ m \in Seq(ENTRY) /\ lr \in [Line -> Nat] /\ l0 \in Line
      /\ Len(m) \in Nat /\ DOMAIN m = 1 .. Len(m)
      /\ \A j \in DOMAIN m : m[j] \in ENTRY /\ m[j].due \in 0 .. Never
      /\ Never \in Nat /\ FILL_LATENCY \in 0 .. Never /\ Never = FILL_LATENCY + 1
  BY MshrFields, CacheAssumption DEF GoodMshr, Never
<1>2. /\ f \in DOMAIN m /\ m[f].due = Never
      /\ \A j \in DOMAIN m : m[j].due = Never => f <= j
  <2>1. /\ {j \in DOMAIN m : m[j].due = Never} \in SUBSET Nat
        /\ {j \in DOMAIN m : m[j].due = Never} # {}
    BY <1>1
  <2>. QED
    BY <2>1, FirstIsLeast DEF FirstUnreturned
<1>3. /\ DOMAIN r = DOMAIN m /\ r = [j \in DOMAIN m |-> r[j]]
      /\ r[f] = [m[i] EXCEPT !.due = FILL_LATENCY]
      /\ \A j \in DOMAIN m \ {f} : r[j] = IF j = i THEN m[f] ELSE m[j]
  BY <1>1, <1>2 DEF Returned, Swap
<1>. HIDE DEF f, r
<1>4. r[f] \in ENTRY /\ r[f].due = FILL_LATENCY /\ r[f].address = m[i].address
  <2>1. m[i] \in ENTRY /\ FILL_LATENCY \in 0 .. Never
    BY <1>1
  <2>. DEFINE e == [m[i] EXCEPT !.due = FILL_LATENCY]
  <2>2. e \in ENTRY /\ e.due = FILL_LATENCY /\ e.address = m[i].address
    BY <2>1, EntryDue
  <2>. HIDE DEF e
  <2>3. r[f] = e
    BY <1>3 DEF e
  <2>. QED
    BY <2>2, <2>3
<1>5. r \in Seq(ENTRY) /\ Len(r) = Len(m)
  <2>1. \A j \in DOMAIN m : r[j] \in ENTRY
    BY <1>1, <1>2, <1>3, <1>4
  <2>2. r \in [1 .. Len(m) -> ENTRY]
    BY <1>1, <1>3, <2>1
  <2>. QED
    BY <1>1, <2>2, SeqDef
<1>6. \A j, k \in DOMAIN r : eq_addr(r[j].address, r[k].address) => j = k
  BY <1>2, <1>3, <1>4 DEF GoodMshr, eq_addr
<1>8. \A j \in DOMAIN m : j < f => r[j] = m[j] /\ m[j].due <= FILL_LATENCY
  BY <1>1, <1>2, <1>3
<1>9. \A j \in DOMAIN m : f < j => r[j].due = Never
  <2>1. \A j \in DOMAIN m : f < j => m[f].due <= m[j].due
    BY <1>2 DEF GoodMshr
  <2>2. \A j \in DOMAIN m : f < j => m[j].due = Never
    BY <1>1, <1>2, <2>1
  <2>3. \A j \in DOMAIN m : f < j => j # f
    BY <1>1, <1>2
  <2>. QED
    BY <1>2, <1>3, <2>2, <2>3
<1>10. ASSUME NEW j \in DOMAIN r, NEW k \in DOMAIN r, j < k
       PROVE  r[j].due <= r[k].due
  <2>1. CASE k < f
    <3>1. r[j] = m[j] /\ r[k] = m[k] /\ j \in DOMAIN m /\ k \in DOMAIN m
      BY <1>1, <1>2, <1>3, <1>8, <1>10, <2>1
    <3>. QED
      BY <1>10, <3>1 DEF GoodMshr
  <2>2. CASE k = f
    BY <1>1, <1>2, <1>3, <1>4, <1>8, <1>10, <2>2
  <2>3. CASE f < k
    <3>1. r[j].due \in 0 .. Never
      BY <1>1, <1>2, <1>3, <1>4
    <3>. QED
      BY <1>1, <1>2, <1>3, <1>9, <2>3, <3>1
  <2>. QED
    BY <1>1, <1>2, <1>3, <2>1, <2>2, <2>3
<1>11. ~Waits(r, l0) /\ Waits(m, l0)
  <2>1. Waits(m, l0)
    BY DEF Waits
  <2>2. ASSUME NEW j \in DOMAIN r, line_of[r[j].address] = l0 PROVE j = f
    BY <1>2, <1>3, <1>4, <1>6, <2>2 DEF eq_addr
  <2>3. r[f].due # Never
    BY <1>1, <1>4
  <2>. QED
    BY <2>1, <2>2, <2>3 DEF Waits
<1>12. ASSUME NEW l \in Line \ {l0} PROVE Waits(r, l) <=> Waits(m, l)
  <2>1. ASSUME NEW j \in DOMAIN r, r[j].due = Never, line_of[r[j].address] = l
        PROVE  Waits(m, l)
    BY <1>1, <1>2, <1>3, <1>4, <2>1 DEF Waits
  <2>2. ASSUME NEW j \in DOMAIN m, m[j].due = Never, line_of[m[j].address] = l
        PROVE  Waits(r, l)
    <3>1. j # i
      BY <2>2
    <3>2. CASE j = f
      BY <1>1, <1>2, <1>3, <2>2, <3>1, <3>2 DEF Waits
    <3>3. CASE j # f
      BY <1>1, <1>2, <1>3, <2>2, <3>1, <3>3 DEF Waits
    <3>. QED
      BY <3>2, <3>3
  <2>. QED
    BY <2>1, <2>2 DEF Waits
<1>13. \A l \in Line : lr2[l] = IF Waits(r, l) THEN 1 ELSE 0
  BY <1>1, <1>11, <1>12 DEF GoodMshr
<1>14. lr2 \in [Line -> Nat]
  BY <1>1, <1>11 DEF GoodMshr
<1>15. GoodMshr(r, lr2)
  BY <1>5, <1>6, <1>10, <1>13, <1>14 DEF GoodMshr
<1>. QED
  BY <1>5, <1>15 DEF r

(* What a replacement or a merge of readlike_miss leaves in place: same     *)
(* line, same event_cycle.                                                  *)
LEMMA ReplaceGood ==
  ASSUME NEW m, NEW lr, GoodMshr(m, lr),
         NEW i \in DOMAIN m, NEW e \in ENTRY,
         e.due = m[i].due, eq_addr(e.address, m[i].address)
  PROVE  GoodMshr([m EXCEPT ![i] = e], lr)
<1>. DEFINE r == [m EXCEPT ![i] = e]
<1>1. /\ m \in Seq(ENTRY) /\ lr \in [Line -> Nat]
      /\ Len(m) \in Nat /\ DOMAIN m = 1 .. Len(m)
  BY MshrFields DEF GoodMshr
<1>2. /\ DOMAIN r = DOMAIN m /\ r[i] = e
      /\ \A j \in DOMAIN m \ {i} : r[j] = m[j]
      /\ r \in Seq(ENTRY)
  BY <1>1
<1>. HIDE DEF r
<1>3. \A j \in DOMAIN m : /\ r[j].due = m[j].due
                          /\ line_of[r[j].address] = line_of[m[j].address]
  BY <1>2 DEF eq_addr
<1>4. \A l \in Line : Waits(r, l) <=> Waits(m, l)
  BY <1>2, <1>3 DEF Waits
<1>5. GoodMshr(r, lr)
  BY <1>1, <1>2, <1>3, <1>4 DEF GoodMshr, eq_addr
<1>. QED
  BY <1>5 DEF r

(* handle_fill takes the first entry out once it is due.                    *)
LEMMA TailGood ==
  ASSUME NEW m, NEW lr, GoodMshr(m, lr), m # <<>>, m[1].due = 0
  PROVE  GoodMshr(Tail(m), lr) /\ Len(Tail(m)) <= Len(m)
<1>1. /\ m \in Seq(ENTRY) /\ lr \in [Line -> Nat]
      /\ Len(m) \in Nat \ {0} /\ DOMAIN m = 1 .. Len(m) /\ Never # 0
  BY CacheAssumption DEF GoodMshr, Never
<1>2. /\ Tail(m) \in Seq(ENTRY) /\ Len(Tail(m)) = Len(m) - 1
      /\ DOMAIN Tail(m) = 1 .. (Len(m) - 1)
      /\ \A j \in 1 .. (Len(m) - 1) : Tail(m)[j] = m[j + 1]
  BY <1>1
<1>3. \A l \in Line : Waits(Tail(m), l) <=> Waits(m, l)
  <2>. SUFFICES ASSUME NEW l \in Line PROVE Waits(Tail(m), l) <=> Waits(m, l)
    OBVIOUS
  <2>1. Waits(Tail(m), l) => Waits(m, l)
    BY <1>1, <1>2 DEF Waits
  <2>2. ASSUME NEW j \in DOMAIN m, m[j].due = Never, line_of[m[j].address] = l
        PROVE  Waits(Tail(m), l)
    <3>1. j - 1 \in DOMAIN Tail(m) /\ Tail(m)[j - 1] = m[j]
      BY <1>1, <1>2, <2>2
    <3>. QED
      BY <2>2, <3>1 DEF Waits
  <2>. QED
    BY <2>1, <2>2 DEF Waits
<1>4. \A j, k \in DOMAIN Tail(m) :
        eq_addr(Tail(m)[j].address, Tail(m)[k].address) => j = k
  <2>. SUFFICES ASSUME NEW j \in DOMAIN Tail(m), NEW k \in DOMAIN Tail(m),
                       eq_addr(Tail(m)[j].address, Tail(m)[k].address)
                PROVE  j = k
    OBVIOUS
  <2>1. /\ j \in Nat /\ k \in Nat /\ j + 1 \in DOMAIN m /\ k + 1 \in DOMAIN m
        /\ eq_addr(m[j + 1].address, m[k + 1].address)
    BY <1>1, <1>2
  <2>2. j + 1 = k + 1
    BY <2>1 DEF GoodMshr
  <2>. QED
    BY <2>1, <2>2
<1>5. \A j, k \in DOMAIN Tail(m) : j < k => Tail(m)[j].due <= Tail(m)[k].due
  <2>. SUFFICES ASSUME NEW j \in DOMAIN Tail(m), NEW k \in DOMAIN Tail(m), j < k
                PROVE  Tail(m)[j].due <= Tail(m)[k].due
    OBVIOUS
  <2>1. /\ j + 1 \in DOMAIN m /\ k + 1 \in DOMAIN m /\ j + 1 < k + 1
        /\ Tail(m)[j] = m[j + 1] /\ Tail(m)[k] = m[k + 1]
    BY <1>1, <1>2
  <2>. QED
    BY <2>1 DEF GoodMshr
<1>. QED
  BY <1>1, <1>2, <1>3, <1>4, <1>5 DEF GoodMshr

(* The entries after one more cycle.                                        *)
LEMMA AgeGood ==
  ASSUME NEW m, NEW lr, GoodMshr(m, lr)
  PROVE  LET r == [i \in DOMAIN m |->
                     [m[i] EXCEPT !.due = IF @ \in {0, Never} THEN @ ELSE @ - 1]]
         IN  GoodMshr(r, lr) /\ Len(r) = Len(m)
<1>. DEFINE r == [i \in DOMAIN m |->
                    [m[i] EXCEPT !.due = IF @ \in {0, Never} THEN @ ELSE @ - 1]]
<1>1. /\ m \in Seq(ENTRY) /\ lr \in [Line -> Nat]
      /\ Len(m) \in Nat /\ DOMAIN m = 1 .. Len(m)
      /\ \A j \in DOMAIN m : m[j] \in ENTRY /\ m[j].due \in 0 .. Never
      /\ Never \in Nat
  BY MshrFields, CacheAssumption DEF GoodMshr, Never
<1>2. ASSUME NEW j \in DOMAIN m
      PROVE  /\ r[j] \in ENTRY /\ r[j].address = m[j].address
             /\ r[j].due = IF m[j].due \in {0, Never} THEN m[j].due ELSE m[j].due - 1
  <2>. DEFINE d == IF m[j].due \in {0, Never} THEN m[j].due ELSE m[j].due - 1
  <2>1. m[j] \in ENTRY /\ d \in 0 .. Never
    BY <1>1
  <2>2. r[j] = [m[j] EXCEPT !.due = d]
    OBVIOUS
  <2>. HIDE DEF r, d
  <2>3. r[j] \in ENTRY /\ r[j].address = m[j].address /\ r[j].due = d
    BY <2>1, <2>2, EntryDue
  <2>. QED
    BY <2>3 DEF d
<1>3. DOMAIN r = DOMAIN m /\ r = [j \in DOMAIN m |-> r[j]]
  OBVIOUS
<1>. HIDE DEF r
<1>4. r \in Seq(ENTRY) /\ Len(r) = Len(m)
  <2>1. r \in [1 .. Len(m) -> ENTRY]
    BY <1>1, <1>2, <1>3
  <2>. QED
    BY <1>1, <2>1, SeqDef
<1>5. \A j, k \in DOMAIN r : eq_addr(r[j].address, r[k].address) => j = k
  BY <1>2, <1>3 DEF GoodMshr, eq_addr
<1>6. \A j, k \in DOMAIN r : j < k => r[j].due <= r[k].due
  <2>. SUFFICES ASSUME NEW j \in DOMAIN m, NEW k \in DOMAIN m, j < k
                PROVE  r[j].due <= r[k].due
    BY <1>3
  <2>1. m[j].due <= m[k].due
    BY DEF GoodMshr
  <2>2. m[j].due \in 0 .. Never /\ m[k].due \in 0 .. Never
    BY <1>1
  <2>. QED
    BY <1>1, <1>2, <2>1, <2>2
<1>7. \A l \in Line : Waits(r, l) <=> Waits(m, l)
  <2>1. \A j \in DOMAIN m : r[j].due = Never <=> m[j].due = Never
    BY <1>1, <1>2
  <2>. QED
    BY <1>2, <1>3, <2>1 DEF Waits
<1>8. GoodMshr(r, lr)
  BY <1>1, <1>4, <1>5, <1>6, <1>7 DEF GoodMshr
<1>. QED
  BY <1>4, <1>8 DEF r

-----------------------------------------------------------------------------
(* The queues: what merging, aging and serving keep.                        *)
LEMMA PacketFields ==
  ASSUME NEW p \in PACKET
  PROVE  /\ p.address \in Addr /\ p.type \in Type /\ p.level \in Level
         /\ p.rets \in Seq(Requester) /\ p.due \in 0 .. Longest
         /\ line_of[p.address] \in Line
         /\ index_of[line_of[p.address]] \in Index
BY CacheAssumption DEF PACKET

LEMMA LatencyTypes ==
  /\ Longest \in Nat /\ HIT_LATENCY \in 0 .. Longest
  /\ VA_PREFETCH_TRANSLATION_LATENCY \in 0 .. Longest
  /\ Never \in Nat /\ 0 \in 0 .. Longest
BY CacheAssumption DEF Longest, Never

LEMMA MergedRets ==
  ASSUME NEW d \in Seq(Requester), NEW s \in Seq(Requester)
  PROVE  packet_dep_merge(d, s) \in Seq(Requester)
BY DEF packet_dep_merge

LEMMA LevelMin ==
  ASSUME NEW x \in Level, NEW y \in Level
  PROVE  min_level(x, y) \in Level
BY DEF min_level, Level

LEMMA NewPacketType ==
  ASSUME NEW a \in Addr, NEW t \in Type, NEW lv \in Level,
         NEW rs \in Seq(Requester), NEW d \in 0 .. Longest
  PROVE  /\ NewPacket(a, t, lv, rs, d) \in PACKET
         /\ NewPacket(a, t, lv, rs, d).address = a
BY DEF NewPacket, PACKET

LEMMA MatchingPlaces ==
  ASSUME NEW T, NEW q \in Seq(T), NEW a, Matching(q, a) # {}
  PROVE  /\ First(Matching(q, a)) \in DOMAIN q
         /\ eq_addr(q[First(Matching(q, a))].address, a)
<1>1. Matching(q, a) \in SUBSET Nat
  BY DEF Matching
<1>2. First(Matching(q, a)) \in Matching(q, a)
  BY <1>1, FirstIsLeast
<1>. QED
  BY <1>2 DEF Matching

(* The packet in a queue after it has taken another in.                     *)
LEMMA MergedPacket ==
  ASSUME NEW p \in PACKET, NEW lv \in Level, NEW rs \in Seq(Requester)
  PROVE  [p EXCEPT !.level = lv, !.rets = rs] \in PACKET
BY DEF PACKET

LEMMA AgedQueue ==
  ASSUME NEW q \in Seq(PACKET)
  PROVE  Aged(q) \in Seq(PACKET) /\ Len(Aged(q)) = Len(q)
<1>1. /\ Len(q) \in Nat /\ DOMAIN q = 1 .. Len(q) /\ DOMAIN Aged(q) = DOMAIN q
  BY DEF Aged
<1>2. ASSUME NEW i \in DOMAIN q PROVE Aged(q)[i] \in PACKET
  <2>. DEFINE d == IF q[i].due > 0 THEN q[i].due - 1 ELSE 0
  <2>1. q[i] \in PACKET /\ d \in 0 .. Longest
    BY LatencyTypes, PacketFields
  <2>2. Aged(q)[i] = [q[i] EXCEPT !.due = d]
    BY DEF Aged
  <2>. HIDE DEF d
  <2>. QED
    BY <2>1, <2>2 DEF PACKET
<1>3. Aged(q) \in [1 .. Len(q) -> PACKET]
  BY <1>1, <1>2 DEF Aged
<1>. QED
  BY <1>1, <1>3, SeqDef

VaPacket == [target : Prefetchable, due : 0 .. Longest]

LEMMA AgedVa ==
  ASSUME NEW q \in Seq(VaPacket)
  PROVE  Aged(q) \in Seq(VaPacket) /\ Len(Aged(q)) = Len(q)
<1>1. /\ Len(q) \in Nat /\ DOMAIN q = 1 .. Len(q) /\ DOMAIN Aged(q) = DOMAIN q
  BY DEF Aged
<1>2. ASSUME NEW i \in DOMAIN q PROVE Aged(q)[i] \in VaPacket
  <2>. DEFINE d == IF q[i].due > 0 THEN q[i].due - 1 ELSE 0
  <2>1. q[i] \in VaPacket
    OBVIOUS
  <2>. d \in 0 .. Longest
    BY <2>1, LatencyTypes DEF VaPacket
  <2>2. Aged(q)[i] = [q[i] EXCEPT !.due = d]
    BY DEF Aged
  <2>. HIDE DEF d
  <2>. QED
    BY <2>1, <2>2 DEF VaPacket
<1>3. Aged(q) \in [1 .. Len(q) -> VaPacket]
  BY <1>1, <1>2 DEF Aged
<1>. QED
  BY <1>1, <1>3, SeqDef

LEMMA ServedQueue ==
  ASSUME NEW T, NEW q \in Seq(T), q # <<>>
  PROVE  /\ q[1] \in T /\ Tail(q) \in Seq(T) /\ Len(Tail(q)) <= Len(q)
OBVIOUS

(* EnterPQ keeps the type and the size of the prefetch queue.               *)
LEMMA EnterPQType ==
  ASSUME TypeOK, NEW p \in PACKET, EnterPQ(p)
  PROVE  PQ' \in Seq(PACKET) /\ Len(PQ') <= PQ_SIZE
<1>. DEFINE dup == Matching(PQ, p.address)
            i == First(dup)
<1>1. PQ \in Seq(PACKET) /\ Len(PQ) <= PQ_SIZE /\ PQ_SIZE \in Nat
  BY CacheAssumption DEF TypeOK
<1>2. CASE dup # {}
  <2>. DEFINE lv == min_level(PQ[i].level, p.level)
              rs == packet_dep_merge(PQ[i].rets, p.rets)
  <2>1. i \in DOMAIN PQ /\ PQ[i] \in PACKET
    BY <1>1, <1>2, MatchingPlaces
  <2>2. lv \in Level /\ rs \in Seq(Requester)
    BY <2>1, PacketFields, LevelMin, MergedRets
  <2>. DEFINE e == [PQ[i] EXCEPT !.level = lv, !.rets = rs]
  <2>3. e \in PACKET
    BY <2>1, <2>2, MergedPacket
  <2>4. PQ' = [PQ EXCEPT ![i] = e]
    BY <1>2, <2>1 DEF EnterPQ, PACKET
  <2>. HIDE DEF e, i, dup
  <2>. QED
    BY <1>1, <2>1, <2>3, <2>4
<1>3. CASE dup = {}
  <2>1. [p EXCEPT !.due = HIT_LATENCY] \in PACKET
    BY LatencyTypes DEF PACKET
  <2>2. Len(PQ) < PQ_SIZE /\ PQ' = Append(PQ, [p EXCEPT !.due = HIT_LATENCY])
    BY <1>3 DEF EnterPQ
  <2>. QED
    BY <1>1, <2>1, <2>2
<1>. QED
  BY <1>2, <1>3

-----------------------------------------------------------------------------
(* readlike_miss keeps the MSHR invariants, whichever way it goes.          *)
LEMMA readlike_missGood ==
  ASSUME GoodMshr(MSHR, lowerReads), Len(MSHR) <= MSHR_SIZE,
         NEW p \in PACKET, readlike_miss(p)
  PROVE  GoodMshr(MSHR', lowerReads') /\ Len(MSHR') <= MSHR_SIZE
<1>. DEFINE found == Matching(MSHR, p.address)
            i == First(found)
<1>1. MSHR \in Seq(ENTRY) /\ MSHR_SIZE \in Nat /\ Len(MSHR) \in Nat
  BY CacheAssumption DEF GoodMshr
<1>2. CASE found # {}
  <2>. DEFINE e == MSHR[i]
              merged == packet_dep_merge(e.rets, p.rets)
              lv == min_level(e.level, p.level)
              e1 == [p EXCEPT !.due = e.due, !.rets = merged]
              e2 == [e EXCEPT !.level = lv, !.rets = merged]
  <2>1. /\ i \in DOMAIN MSHR /\ e \in ENTRY
        /\ eq_addr(e.address, p.address)
    BY <1>1, <1>2, MatchingPlaces
  <2>2. /\ merged \in Seq(Requester) /\ lv \in Level
        /\ e.due \in 0 .. Never
    BY <2>1, PacketFields, MergedRets, LevelMin DEF ENTRY
  <2>3. e1 \in ENTRY /\ e1.due = e.due /\ e1.address = p.address
    BY <2>2 DEF PACKET, ENTRY
  <2>4. e2 \in ENTRY /\ e2.due = e.due /\ e2.address = e.address
    BY <2>1, <2>2 DEF ENTRY
  <2>5. /\ MSHR' = [MSHR EXCEPT ![i] = e1] \/ MSHR' = [MSHR EXCEPT ![i] = e2]
        /\ lowerReads' = lowerReads
    <3>1. MergeMiss(p, i) /\ UNCHANGED lowerReads
      BY <1>2 DEF readlike_miss
    <3>. QED
      BY <3>1 DEF MergeMiss
  <2>. HIDE DEF e1, e2, i
  <2>6. GoodMshr([MSHR EXCEPT ![i] = e1], lowerReads)
    BY <2>1, <2>3, ReplaceGood DEF eq_addr
  <2>7. GoodMshr([MSHR EXCEPT ![i] = e2], lowerReads)
    BY <2>1, <2>4, ReplaceGood DEF eq_addr
  <2>8. Len(MSHR') = Len(MSHR)
    BY <1>1, <2>1, <2>3, <2>4, <2>5
  <2>. QED
    BY <2>5, <2>6, <2>7, <2>8
<1>3. CASE found = {}
  <2>. DEFINE e == [p EXCEPT !.due = Never]
              m == Append(MSHR, e)
              l == line_of[p.address]
              lr == [lowerReads EXCEPT ![l] = @ + 1]
  <2>1. AllocateMiss(p)
    BY <1>3 DEF readlike_miss
  <2>2. e \in ENTRY /\ e.due = Never /\ e.address = p.address
    BY LatencyTypes DEF PACKET, ENTRY
  <2>3. \A j \in DOMAIN MSHR : ~eq_addr(MSHR[j].address, e.address)
    BY <1>3, <2>2 DEF Matching
  <2>4. GoodMshr(m, lr)
    <3>. HIDE DEF e
    <3>1. GoodMshr(m, [lowerReads EXCEPT ![line_of[e.address]] = @ + 1])
      BY <2>2, <2>3, AppendGood
    <3>. QED
      BY <2>2, <3>1
  <2>5. Len(m) = Len(MSHR) + 1 /\ Len(m) \in DOMAIN m /\ m[Len(m)] = e
    <3>. HIDE DEF e
    <3>. QED
      BY <1>1, <2>2
  <2>6. Len(MSHR) < MSHR_SIZE
    BY <2>1 DEF AllocateMiss
  <2>. HIDE DEF e
  <2>7. CASE l \in lowerWQ
    <3>1. MSHR' = Returned(m, Len(m)) /\ lowerReads' = lowerReads
      BY <2>1, <2>7 DEF AllocateMiss, e
    <3>. DEFINE back == [lr EXCEPT ![line_of[m[Len(m)].address]] = @ - 1]
    <3>2. GoodMshr(Returned(m, Len(m)), back) /\ Len(Returned(m, Len(m))) = Len(m)
      <4>. HIDE DEF m, lr
      <4>. QED
        BY <2>2, <2>4, <2>5, ReturnedGood
    <3>3. back = lowerReads
      <4>1. lowerReads \in [Line -> Nat] /\ l \in Line /\ m[Len(m)].address = p.address
        BY <2>2, <2>5, PacketFields DEF GoodMshr
      <4>. HIDE DEF m, l
      <4>2. back = [lr EXCEPT ![l] = @ - 1]
        BY <4>1 DEF l
      <4>. QED
        BY <4>1, <4>2
    <3>. QED
      BY <1>1, <2>5, <2>6, <3>1, <3>2, <3>3
  <2>8. CASE l \notin lowerWQ
    <3>1. MSHR' = m /\ lowerReads' = lr
      BY <2>1, <2>8 DEF AllocateMiss, e
    <3>. QED
      BY <1>1, <2>4, <2>5, <2>6, <3>1
  <2>. QED
    BY <2>7, <2>8
<1>. QED
  BY <1>2, <1>3

-----------------------------------------------------------------------------
(* The blocks: a dirty block holds a line, so that its eviction has an      *)
(* address to write to.                                                     *)
DirtyIsValid ==
  \A s \in Index, w \in 1 .. NUM_WAY :
    block[s][w].dirty => block[s][w].address # NoAddr

BlocksOK ==
  /\ block \in [Index -> [1 .. NUM_WAY -> BLOCK]]
  /\ DirtyIsValid

LEMMA BlockType ==
  ASSUME BlocksOK, NEW s \in Index, NEW w \in 1 .. NUM_WAY
  PROVE  /\ block[s][w] \in BLOCK
         /\ block[s][w].address \in Addr \cup {NoAddr}
         /\ block[s][w].dirty => block[s][w].address \in Addr
BY DEF BlocksOK, BLOCK, DirtyIsValid

LEMMA BlockSet ==
  ASSUME BlocksOK, NEW s \in Index, NEW w \in 1 .. NUM_WAY,
         NEW b \in BLOCK, b.dirty => b.address # NoAddr,
         block' = [block EXCEPT ![s][w] = b]
  PROVE  BlocksOK'
BY DEF BlocksOK, DirtyIsValid

LEMMA VictimPlaces ==
  ASSUME TypeOK, NEW s \in Index
  PROVE  VictimWays(s) \subseteq 1 .. NUM_WAY
<1>. DEFINE invalid == {w \in 1 .. current_assoc : block[s][w].address = NoAddr}
<1>1. current_assoc \in 1 .. NUM_WAY /\ NUM_WAY \in Nat
  BY CacheAssumption DEF TypeOK
<1>2. invalid \in SUBSET Nat
  BY <1>1
<1>3. invalid # {} => First(invalid) \in invalid
  BY <1>2, FirstIsLeast
<1>4. VictimWays(s) = IF invalid # {} THEN {First(invalid)} ELSE 1 .. current_assoc
  BY DEF VictimWays
<1>. HIDE DEF invalid
<1>5. CASE invalid # {}
  BY <1>1, <1>3, <1>4, <1>5 DEF invalid
<1>6. CASE invalid = {}
  BY <1>1, <1>4, <1>6
<1>. QED
  BY <1>5, <1>6

LEMMA HitPlaces ==
  ASSUME TypeOK, NEW a \in Addr, HitWays(a) # {}
  PROVE  /\ First(HitWays(a)) \in 1 .. NUM_WAY
         /\ block[index_of[line_of[a]]][First(HitWays(a))].address # NoAddr
<1>1. current_assoc \in 1 .. NUM_WAY /\ NUM_WAY \in Nat
  BY CacheAssumption DEF TypeOK
<1>2. HitWays(a) \in SUBSET Nat
  BY <1>1 DEF HitWays
<1>3. First(HitWays(a)) \in HitWays(a)
  BY <1>2, FirstIsLeast
<1>4. \A w \in HitWays(a) : /\ w \in 1 .. NUM_WAY
                            /\ block[index_of[line_of[a]]][w].address # NoAddr
  BY <1>1 DEF HitWays
<1>. QED
  BY <1>3, <1>4

(* A fill keeps the blocks sound and writes back a line of the system.      *)
LEMMA FillGood ==
  ASSUME TypeOK, DirtyIsValid, NEW p, p.address \in Addr,
         NEW s \in Index, NEW w \in VictimWays(s), filllike_miss(p, s, w)
  PROVE  BlocksOK' /\ lowerWQ' \subseteq Line
<1>1. w \in 1 .. NUM_WAY
  BY VictimPlaces
<1>2. BlocksOK /\ lowerWQ \subseteq Line
  BY DEF TypeOK, BlocksOK
<1>. DEFINE b == [address |-> p.address, dirty |-> Dirties(p)]
<1>3. b \in BLOCK /\ b.address # NoAddr
  BY CacheAssumption DEF BLOCK, Dirties
<1>4. block' = [block EXCEPT ![s][w] = b]
  BY DEF filllike_miss
<1>. HIDE DEF b
<1>5. BlocksOK'
  BY <1>1, <1>2, <1>3, <1>4, BlockSet
<1>6. lowerWQ' \subseteq Line
  <2>1. block[s][w].dirty => line_of[block[s][w].address] \in Line
    BY <1>1, <1>2, BlockType, CacheAssumption
  <2>. QED
    BY <1>2, <2>1 DEF filllike_miss
<1>. QED
  BY <1>5, <1>6

(* handle_writeback on a hit. *)
LEMMA HitGood ==
  ASSUME TypeOK, DirtyIsValid, NEW a \in Addr, HitWays(a) # {},
         block' = [block EXCEPT ![index_of[line_of[a]]][First(HitWays(a))].dirty = TRUE]
  PROVE  BlocksOK'
<1>. DEFINE s == index_of[line_of[a]]
            w == First(HitWays(a))
            b == [block[s][w] EXCEPT !.dirty = TRUE]
<1>1. /\ s \in Index /\ w \in 1 .. NUM_WAY
      /\ block[s][w].address # NoAddr
  BY HitPlaces, CacheAssumption
<1>2. BlocksOK
  BY DEF TypeOK, BlocksOK
<1>3. block[s][w] \in BLOCK
  BY <1>1, <1>2, BlockType
<1>4. b \in BLOCK /\ b.address # NoAddr
  BY <1>1, <1>3 DEF BLOCK
<1>5. block' = [block EXCEPT ![s][w] = b]
  BY <1>1, <1>2 DEF BlocksOK
<1>. HIDE DEF b, s, w
<1>. QED
  BY <1>1, <1>2, <1>4, <1>5, BlockSet, Zenon

-----------------------------------------------------------------------------
(* The inductive invariant: the types, the invariants of the MSHR taken     *)
(* together (each is needed to keep the others), and that a dirty block has *)
(* an address.                                                              *)
IInv == TypeOK /\ DirtyIsValid /\ GoodMshr(MSHR, lowerReads)

LEMMA InitIInv == Init => IInv
<1>. SUFFICES ASSUME Init PROVE IInv
  OBVIOUS
<1>1. MSHR = <<>> /\ lowerReads = [l \in Line |-> 0]
  BY DEF Init
<1>2. GoodMshr(MSHR, lowerReads)
  BY <1>1 DEF GoodMshr, Waits
<1>. DEFINE b == [address |-> NoAddr, dirty |-> FALSE]
<1>3. b \in BLOCK /\ ~b.dirty
  BY DEF BLOCK
<1>4. block = [s \in Index |-> [w \in 1 .. NUM_WAY |-> b]]
  BY DEF Init
<1>. HIDE DEF b
<1>5. DirtyIsValid /\ block \in [Index -> [1 .. NUM_WAY -> BLOCK]]
  BY <1>3, <1>4 DEF DirtyIsValid
<1>6. /\ RQ = <<>> /\ WQ = <<>> /\ PQ = <<>> /\ VAPQ = <<>>
      /\ pc = "idle" /\ budget = 0 /\ current_assoc = NUM_WAY
      /\ outstanding = {} /\ lowerWQ = {}
  BY DEF Init
<1>7. \A S : <<>> \in Seq(S) /\ Len(<<>>) = 0
  OBVIOUS
<1>8. lowerReads \in [Line -> Nat]
  BY <1>1
<1>9. TypeOK
  BY <1>1, <1>5, <1>6, <1>7, <1>8, CacheAssumption DEF TypeOK
<1>. QED
  BY <1>2, <1>5, <1>9 DEF IInv

(* The invariant in the parts that the actions keep one by one.             *)
QueuesOK ==
  /\ RQ \in Seq(PACKET) /\ WQ \in Seq(PACKET) /\ PQ \in Seq(PACKET)
  /\ VAPQ \in Seq(VaPacket)
  /\ Len(RQ) <= RQ_SIZE /\ Len(WQ) <= WQ_SIZE /\ Len(PQ) <= PQ_SIZE
  /\ Len(VAPQ) <= PQ_SIZE

RestOK ==
  /\ pc \in {"idle", "fill", "writeback", "read", "prefetch"}
  /\ budget \in Nat
  /\ current_assoc \in 1 .. NUM_WAY
  /\ outstanding \subseteq Requester \X Line
  /\ lowerWQ \subseteq Line

MshrOK == GoodMshr(MSHR, lowerReads) /\ Len(MSHR) <= MSHR_SIZE

LEMMA IInvParts ==
  /\ IInv <=> QueuesOK /\ RestOK /\ BlocksOK /\ MshrOK
  /\ IInv' <=> (QueuesOK /\ RestOK /\ BlocksOK /\ MshrOK)'
BY DEF IInv, TypeOK, QueuesOK, RestOK, BlocksOK, MshrOK, GoodMshr, VaPacket

LEMMA Sizes ==
  /\ RQ_SIZE \in Nat /\ WQ_SIZE \in Nat /\ PQ_SIZE \in Nat /\ MSHR_SIZE \in Nat
  /\ MAX_READ \in Nat /\ MAX_WRITE \in Nat
BY CacheAssumption

(* The calls from above. *)
LEMMA add_rqStep ==
  ASSUME IInv, NEW r \in Requester, NEW a \in Addr, NEW t \in RqTypes,
         add_rq(r, a, t)
  PROVE  IInv'
<1>. DEFINE dup == Matching(RQ, a)
            i == First(dup)
<1>1. QueuesOK /\ RestOK /\ BlocksOK /\ MshrOK
  BY IInvParts
<1>2. line_of[a] \in Line /\ t \in Type /\ demand_level \in Level
  BY CacheAssumption
<1>3. RQ' \in Seq(PACKET) /\ Len(RQ') <= RQ_SIZE
  <2>1. CASE dup # {} /\ packet_can_merge
    <3>1. i \in DOMAIN RQ /\ RQ[i] \in PACKET
      BY <1>1, <2>1, MatchingPlaces DEF QueuesOK
    <3>. DEFINE rs == packet_dep_merge(RQ[i].rets, <<r>>)
                e == [RQ[i] EXCEPT !.rets = rs]
    <3>2. rs \in Seq(Requester)
      <4>1. RQ[i].rets \in Seq(Requester) /\ <<r>> \in Seq(Requester)
        BY <3>1, PacketFields
      <4>. QED
        BY <4>1, MergedRets
    <3>. HIDE DEF rs
    <3>3. e \in PACKET
      BY <3>1, <3>2 DEF PACKET
    <3>4. RQ' = [RQ EXCEPT ![i] = e]
      BY <2>1 DEF add_rq, rs
    <3>. HIDE DEF e, i
    <3>. QED
      BY <1>1, <3>1, <3>3, <3>4 DEF QueuesOK
  <2>2. CASE ~(dup # {} /\ packet_can_merge)
    <3>. DEFINE e == NewPacket(a, t, demand_level, <<r>>, HIT_LATENCY)
    <3>1. e \in PACKET
      <4>1. <<r>> \in Seq(Requester)
        OBVIOUS
      <4>. QED
        BY <1>2, <4>1, NewPacketType, LatencyTypes
    <3>2. Len(RQ) < RQ_SIZE /\ RQ' = Append(RQ, e)
      BY <2>2 DEF add_rq
    <3>. HIDE DEF e
    <3>. QED
      BY <1>1, <3>1, <3>2, Sizes DEF QueuesOK
  <2>. QED
    BY <2>1, <2>2
<1>4. /\ outstanding' = outstanding \cup {<<r, line_of[a]>>}
      /\ UNCHANGED <<pc, budget, WQ, PQ, VAPQ, MSHR, block, current_assoc, lower>>
  BY DEF add_rq
<1>5. QueuesOK' /\ RestOK' /\ BlocksOK' /\ MshrOK'
  <2>1. QueuesOK'
    BY <1>1, <1>3, <1>4 DEF QueuesOK
  <2>2. RestOK'
    BY <1>1, <1>2, <1>4 DEF RestOK, lower
  <2>3. BlocksOK' /\ MshrOK'
    BY <1>1, <1>4 DEF BlocksOK, DirtyIsValid, MshrOK, lower
  <2>. QED
    BY <2>1, <2>2, <2>3
<1>. QED
  BY <1>5, IInvParts

LEMMA add_wqStep ==
  ASSUME IInv, NEW a \in Addr, NEW t \in WqTypes, add_wq(a, t)
  PROVE  IInv'
<1>. DEFINE e == NewPacket(a, t, "here", <<>>, HIT_LATENCY)
<1>1. QueuesOK /\ RestOK /\ BlocksOK /\ MshrOK
  BY IInvParts
<1>2. e \in PACKET
  <2>1. <<>> \in Seq(Requester) /\ t \in Type /\ "here" \in Level
    BY CacheAssumption DEF Level
  <2>. QED
    BY <2>1, NewPacketType, LatencyTypes
<1>3. /\ Len(WQ) < WQ_SIZE /\ WQ' = Append(WQ, e)
      /\ UNCHANGED <<pc, budget, RQ, PQ, VAPQ, MSHR, block, current_assoc,
                     outstanding, lower>>
  BY DEF add_wq
<1>. HIDE DEF e
<1>4. QueuesOK'
  <2>1. WQ' \in Seq(PACKET) /\ Len(WQ') <= WQ_SIZE
    BY <1>1, <1>2, <1>3, Sizes DEF QueuesOK
  <2>. QED
    BY <1>1, <1>3, <2>1 DEF QueuesOK
<1>5. RestOK' /\ BlocksOK' /\ MshrOK'
  BY <1>1, <1>3 DEF RestOK, BlocksOK, DirtyIsValid, MshrOK, lower
<1>. QED
  BY <1>4, <1>5, IInvParts

LEMMA add_pqStep ==
  ASSUME IInv, NEW r \in Requester, NEW a \in Addr, NEW t \in PqTypes,
         add_pq(r, a, t)
  PROVE  IInv'
<1>. DEFINE e == NewPacket(a, t, "above", <<r>>, 0)
<1>1. QueuesOK /\ RestOK /\ BlocksOK /\ MshrOK /\ TypeOK
  BY IInvParts DEF IInv
<1>2. e \in PACKET
  <2>1. <<r>> \in Seq(Requester) /\ t \in Type /\ "above" \in Level
    BY CacheAssumption DEF Level
  <2>. QED
    BY <2>1, NewPacketType, LatencyTypes
<1>3. /\ EnterPQ(e)
      /\ outstanding' = outstanding \cup {<<r, line_of[a]>>}
      /\ UNCHANGED <<pc, budget, RQ, WQ, VAPQ, MSHR, block, current_assoc, lower>>
  BY DEF add_pq
<1>. HIDE DEF e
<1>4. QueuesOK'
  BY <1>1, <1>2, <1>3, EnterPQType DEF QueuesOK
<1>5. RestOK'
  <2>1. line_of[a] \in Line
    BY CacheAssumption
  <2>. QED
    BY <1>1, <1>3, <2>1 DEF RestOK, lower
<1>6. BlocksOK' /\ MshrOK'
  BY <1>1, <1>3 DEF BlocksOK, DirtyIsValid, MshrOK, lower
<1>. QED
  BY <1>4, <1>5, <1>6, IInvParts

LEMMA OwnPrefetch ==
  ASSUME NEW v \in Prefetchable
  PROVE  NewPacket(va_to_pa[v], "PREFETCH", "here", <<>>, 0) \in PACKET
<1>1. /\ va_to_pa[v] \in Addr /\ "PREFETCH" \in Type /\ "here" \in Level
      /\ <<>> \in Seq(Requester)
  BY CacheAssumption DEF Type, Level
<1>. QED
  BY <1>1, NewPacketType, LatencyTypes

LEMMA prefetch_lineStep ==
  ASSUME IInv, NEW v \in Prefetchable, prefetch_line(v)
  PROVE  IInv'
<1>. DEFINE e == NewPacket(va_to_pa[v], "PREFETCH", "here", <<>>, 0)
            vp == [target |-> v, due |-> VA_PREFETCH_TRANSLATION_LATENCY]
<1>1. QueuesOK /\ RestOK /\ BlocksOK /\ MshrOK /\ TypeOK
  BY IInvParts DEF IInv
<1>2. e \in PACKET /\ vp \in VaPacket
  BY OwnPrefetch, LatencyTypes DEF VaPacket
<1>3. /\ \/ Len(VAPQ) < PQ_SIZE /\ VAPQ' = Append(VAPQ, vp) /\ PQ' = PQ
         \/ EnterPQ(e) /\ VAPQ' = VAPQ
      /\ UNCHANGED <<pc, budget, RQ, WQ, MSHR, block, current_assoc, outstanding, lower>>
  BY DEF prefetch_line
<1>. HIDE DEF e, vp
<1>4. /\ PQ' \in Seq(PACKET) /\ Len(PQ') <= PQ_SIZE
      /\ VAPQ' \in Seq(VaPacket) /\ Len(VAPQ') <= PQ_SIZE
  <2>1. CASE Len(VAPQ) < PQ_SIZE /\ VAPQ' = Append(VAPQ, vp) /\ PQ' = PQ
    BY <1>1, <1>2, <2>1, Sizes DEF QueuesOK
  <2>2. CASE EnterPQ(e) /\ VAPQ' = VAPQ
    BY <1>1, <1>2, <2>2, EnterPQType DEF QueuesOK
  <2>. QED
    BY <1>3, <2>1, <2>2
<1>5. QueuesOK'
  BY <1>1, <1>3, <1>4 DEF QueuesOK
<1>6. RestOK' /\ BlocksOK' /\ MshrOK'
  BY <1>1, <1>3 DEF RestOK, BlocksOK, DirtyIsValid, MshrOK, lower
<1>. QED
  BY <1>5, <1>6, IInvParts

(* The calls from below. *)
LEMMA return_dataStep ==
  ASSUME IInv, NEW l \in Line, return_data(l)
  PROVE  IInv'
<1>. DEFINE found == {i \in DOMAIN MSHR : line_of[MSHR[i].address] = l}
            f == First(found)
<1>1. QueuesOK /\ RestOK /\ BlocksOK /\ MshrOK
  BY IInvParts
<1>2. /\ lowerReads[l] > 0
      /\ MSHR' = Returned(MSHR, f)
      /\ lowerReads' = [lowerReads EXCEPT ![l] = @ - 1]
      /\ UNCHANGED <<pc, budget, queues, block, current_assoc, outstanding, lowerWQ>>
  BY DEF return_data
<1>3. PICK j \in DOMAIN MSHR : MSHR[j].due = Never /\ line_of[MSHR[j].address] = l
  BY <1>1, <1>2 DEF MshrOK, GoodMshr, Waits
<1>4. f \in found
  <2>1. found \in SUBSET Nat /\ found # {}
    BY <1>1, <1>3 DEF MshrOK, GoodMshr
  <2>. QED
    BY <2>1, FirstIsLeast
<1>. HIDE DEF f
<1>5. f \in DOMAIN MSHR /\ MSHR[f].due = Never /\ line_of[MSHR[f].address] = l
  BY <1>1, <1>3, <1>4 DEF MshrOK, GoodMshr, eq_addr
<1>6. MshrOK'
  BY <1>1, <1>2, <1>5, ReturnedGood DEF MshrOK
<1>7. QueuesOK' /\ RestOK' /\ BlocksOK'
  BY <1>1, <1>2 DEF QueuesOK, RestOK, BlocksOK, DirtyIsValid, queues
<1>. QED
  BY <1>6, <1>7, IInvParts

LEMMA LowerDrainStep ==
  ASSUME IInv, NEW l \in Line, LowerDrain(l)
  PROVE  IInv'
<1>1. QueuesOK /\ RestOK /\ BlocksOK /\ MshrOK
  BY IInvParts
<1>2. QueuesOK' /\ RestOK' /\ BlocksOK' /\ MshrOK'
  BY <1>1 DEF LowerDrain, QueuesOK, RestOK, BlocksOK, DirtyIsValid, MshrOK, queues
<1>. QED
  BY <1>2, IInvParts

(* The handlers that change no more than the MSHR and the blocks.           *)
LEMMA handle_fillStep ==
  ASSUME IInv, handle_fill
  PROVE  IInv'
<1>. DEFINE p == MSHR[1]
            s == index_of[line_of[p.address]]
<1>1. QueuesOK /\ RestOK /\ BlocksOK /\ MshrOK /\ TypeOK /\ DirtyIsValid
  BY IInvParts DEF IInv
<1>2. /\ MSHR # <<>> /\ p.due = 0 /\ budget > 0
      /\ MSHR' = Tail(MSHR) /\ budget' = budget - 1
      /\ outstanding' = outstanding \ Answers(p)
      /\ UNCHANGED <<pc, queues, current_assoc, lowerReads>>
  BY DEF handle_fill, FillReady
<1>3. PICK w \in VictimWays(s) : filllike_miss(p, s, w)
  BY DEF handle_fill
<1>4. p.address \in Addr /\ s \in Index
  <2>1. p \in ENTRY
    BY <1>1, <1>2 DEF MshrOK, GoodMshr
  <2>. QED
    BY <2>1, EntryFields, CacheAssumption
<1>5. BlocksOK' /\ lowerWQ' \subseteq Line
  <2>. HIDE DEF p, s
  <2>. QED
    BY <1>1, <1>3, <1>4, FillGood
<1>6. MshrOK'
  <2>1. GoodMshr(Tail(MSHR), lowerReads) /\ Len(Tail(MSHR)) <= Len(MSHR)
    BY <1>1, <1>2, TailGood DEF MshrOK
  <2>2. Len(Tail(MSHR)) \in Nat /\ Len(MSHR) \in Nat
    BY <1>1, <2>1 DEF MshrOK, GoodMshr
  <2>. QED
    BY <1>1, <1>2, <2>1, <2>2, Sizes DEF MshrOK
<1>7. QueuesOK' /\ RestOK'
  BY <1>1, <1>2, <1>5 DEF QueuesOK, RestOK, queues
<1>. QED
  BY <1>5, <1>6, <1>7, IInvParts

LEMMA handle_writebackStep ==
  ASSUME IInv, handle_writeback
  PROVE  IInv'
<1>. DEFINE p == WQ[1]
            s == index_of[line_of[p.address]]
            W == HitWays(p.address)
<1>1. QueuesOK /\ RestOK /\ BlocksOK /\ MshrOK /\ TypeOK /\ DirtyIsValid
  BY IInvParts DEF IInv
<1>2. /\ WQ # <<>> /\ budget > 0 /\ WQ' = Tail(WQ) /\ budget' = budget - 1
      /\ UNCHANGED <<pc, RQ, PQ, VAPQ, current_assoc, outstanding>>
  BY DEF handle_writeback, WriteReady, has_ready
<1>3. /\ p \in PACKET /\ p.address \in Addr /\ s \in Index
      /\ Tail(WQ) \in Seq(PACKET) /\ Len(Tail(WQ)) <= WQ_SIZE
  <2>1. /\ p \in PACKET /\ Tail(WQ) \in Seq(PACKET)
        /\ Len(Tail(WQ)) <= WQ_SIZE
    BY <1>1, <1>2, Sizes DEF QueuesOK
  <2>. QED
    BY <2>1, PacketFields
<1>4. BlocksOK' /\ MshrOK' /\ lowerWQ' \subseteq Line
  <2>1. CASE /\ W # {}
             /\ block' = [block EXCEPT ![s][First(W)].dirty = TRUE]
             /\ UNCHANGED <<MSHR, lower>>
    <3>1. BlocksOK'
      BY <1>1, <1>3, <2>1, HitGood
    <3>. QED
      BY <1>1, <2>1, <3>1 DEF MshrOK, RestOK, lower
  <2>2. CASE readlike_miss(p) /\ UNCHANGED <<block, lowerWQ>>
    <3>1. MshrOK'
      BY <1>1, <1>3, <2>2, readlike_missGood DEF MshrOK
    <3>. QED
      BY <1>1, <2>2, <3>1 DEF RestOK, BlocksOK, DirtyIsValid
  <2>3. ASSUME NEW w \in VictimWays(s), filllike_miss(p, s, w),
               UNCHANGED <<MSHR, lowerReads>>
        PROVE  BlocksOK' /\ MshrOK' /\ lowerWQ' \subseteq Line
    <3>1. BlocksOK' /\ lowerWQ' \subseteq Line
      <4>. HIDE DEF p, s
      <4>. QED
        BY <1>1, <1>3, <2>3, FillGood
    <3>. QED
      BY <1>1, <2>3, <3>1 DEF MshrOK
  <2>. QED
    BY <2>1, <2>2, <2>3 DEF handle_writeback
<1>5. QueuesOK' /\ RestOK'
  BY <1>1, <1>2, <1>3, <1>4 DEF QueuesOK, RestOK
<1>. QED
  BY <1>4, <1>5, IInvParts

(* Serving a read or a prefetch. *)
LEMMA ServeReadGood ==
  ASSUME MshrOK, RestOK, NEW p \in PACKET, ServeRead(p)
  PROVE  MshrOK' /\ outstanding' \subseteq Requester \X Line
<1>1. CASE outstanding' = outstanding \ Answers(p) /\ UNCHANGED <<MSHR, lowerReads>>
  BY <1>1 DEF MshrOK, RestOK
<1>2. CASE readlike_miss(p) /\ UNCHANGED outstanding
  BY <1>2, readlike_missGood DEF MshrOK, RestOK
<1>. QED
  BY <1>1, <1>2 DEF ServeRead

LEMMA handle_readStep ==
  ASSUME IInv, handle_read
  PROVE  IInv'
<1>1. QueuesOK /\ RestOK /\ BlocksOK /\ MshrOK
  BY IInvParts
<1>2. /\ RQ # <<>> /\ ServeRead(RQ[1]) /\ RQ' = Tail(RQ)
      /\ budget > 0 /\ budget' = budget - 1
      /\ UNCHANGED <<pc, WQ, PQ, VAPQ, block, current_assoc, lowerWQ>>
  BY DEF handle_read, has_ready
<1>3. RQ[1] \in PACKET /\ RQ' \in Seq(PACKET) /\ Len(RQ') <= RQ_SIZE
  BY <1>1, <1>2, Sizes DEF QueuesOK
<1>4. MshrOK' /\ outstanding' \subseteq Requester \X Line
  BY <1>1, <1>2, <1>3, ServeReadGood
<1>5. QueuesOK' /\ RestOK' /\ BlocksOK'
  BY <1>1, <1>2, <1>3, <1>4 DEF QueuesOK, RestOK, BlocksOK, DirtyIsValid
<1>. QED
  BY <1>4, <1>5, IInvParts

LEMMA handle_prefetchStep ==
  ASSUME IInv, handle_prefetch
  PROVE  IInv'
<1>1. QueuesOK /\ RestOK /\ BlocksOK /\ MshrOK
  BY IInvParts
<1>2. /\ PQ # <<>> /\ ServeRead(PQ[1]) /\ PQ' = Tail(PQ)
      /\ budget > 0 /\ budget' = budget - 1
      /\ UNCHANGED <<pc, RQ, WQ, VAPQ, block, current_assoc, lowerWQ>>
  BY DEF handle_prefetch, has_ready
<1>3. PQ[1] \in PACKET /\ PQ' \in Seq(PACKET) /\ Len(PQ') <= PQ_SIZE
  BY <1>1, <1>2, Sizes DEF QueuesOK
<1>4. MshrOK' /\ outstanding' \subseteq Requester \X Line
  BY <1>1, <1>2, <1>3, ServeReadGood
<1>5. QueuesOK' /\ RestOK' /\ BlocksOK'
  BY <1>1, <1>2, <1>3, <1>4 DEF QueuesOK, RestOK, BlocksOK, DirtyIsValid
<1>. QED
  BY <1>4, <1>5, IInvParts

LEMMA va_translate_prefetchesStep ==
  ASSUME IInv, va_translate_prefetches
  PROVE  IInv'
<1>. DEFINE a == va_to_pa[VAPQ[1].target]
            e == NewPacket(a, "PREFETCH", "here", <<>>, 0)
<1>1. QueuesOK /\ RestOK /\ BlocksOK /\ MshrOK /\ TypeOK
  BY IInvParts DEF IInv
<1>2. /\ pc' = "prefetch" /\ budget' = IF is_L1D THEN 1 ELSE budget
      /\ UNCHANGED <<RQ, WQ, MSHR, block, current_assoc, outstanding, lower>>
  BY DEF va_translate_prefetches
<1>3. /\ PQ' \in Seq(PACKET) /\ Len(PQ') <= PQ_SIZE
      /\ VAPQ' \in Seq(VaPacket) /\ Len(VAPQ') <= PQ_SIZE
  <2>1. CASE UNCHANGED <<PQ, VAPQ>>
    BY <1>1, <2>1 DEF QueuesOK
  <2>2. CASE VAPQ # <<>> /\ VAPQ' = Tail(VAPQ) /\ PQ' = PQ
    BY <1>1, <2>2, Sizes DEF QueuesOK
  <2>3. CASE VAPQ # <<>> /\ VAPQ' = Tail(VAPQ) /\ EnterPQ(e)
    <3>1. VAPQ[1].target \in Prefetchable
      <4>1. VAPQ[1] \in VaPacket
        BY <1>1, <2>3 DEF QueuesOK
      <4>. QED
        BY <4>1 DEF VaPacket
    <3>2. e \in PACKET
      BY <3>1, OwnPrefetch
    <3>3. PQ' \in Seq(PACKET) /\ Len(PQ') <= PQ_SIZE
      <4>. HIDE DEF e
      <4>. QED
        BY <1>1, <2>3, <3>2, EnterPQType
    <3>4. VAPQ' \in Seq(VaPacket) /\ Len(VAPQ') <= PQ_SIZE
      BY <1>1, <2>3, Sizes DEF QueuesOK
    <3>. QED
      BY <3>3, <3>4
  <2>4. \/ UNCHANGED <<PQ, VAPQ>>
        \/ VAPQ # <<>> /\ VAPQ' = Tail(VAPQ) /\ PQ' = PQ
        \/ VAPQ # <<>> /\ VAPQ' = Tail(VAPQ) /\ EnterPQ(e)
    BY Zenon DEF va_translate_prefetches, Translated, has_ready
  <2>. QED
    BY <2>1, <2>2, <2>3, <2>4
<1>4. QueuesOK'
  BY <1>1, <1>2, <1>3 DEF QueuesOK
<1>5. RestOK' /\ BlocksOK' /\ MshrOK'
  BY <1>1, <1>2 DEF RestOK, BlocksOK, DirtyIsValid, MshrOK, lower
<1>. QED
  BY <1>4, <1>5, IInvParts

(* The steps between the handlers. *)
LEMMA PhaseStep ==
  ASSUME IInv, BeginCycle \/ EndFill \/ EndWrites
  PROVE  IInv'
<1>1. QueuesOK /\ RestOK /\ BlocksOK /\ MshrOK
  BY IInvParts
<1>2. Aged(WQ) \in Seq(PACKET) /\ Len(Aged(WQ)) <= WQ_SIZE
  BY <1>1, AgedQueue DEF QueuesOK
<1>3. CASE BeginCycle \/ EndFill
  BY <1>1, <1>3, Sizes, IInvParts
     DEF BeginCycle, EndFill, QueuesOK, RestOK, BlocksOK, DirtyIsValid, MshrOK,
         queues, lower
<1>4. CASE EndWrites
  <2>1. /\ pc' = "read" /\ budget' = MAX_READ /\ WQ' = Aged(WQ)
        /\ UNCHANGED <<RQ, PQ, VAPQ, MSHR, block, current_assoc, outstanding, lower>>
    BY <1>4 DEF EndWrites
  <2>2. QueuesOK' /\ RestOK' /\ BlocksOK' /\ MshrOK'
    BY <1>1, <1>2, <2>1, Sizes
       DEF QueuesOK, RestOK, BlocksOK, DirtyIsValid, MshrOK, lower
  <2>. QED
    BY <2>2, IInvParts
<1>. QED
  BY <1>3, <1>4

LEMMA EndCycleStep ==
  ASSUME IInv, EndCycle
  PROVE  IInv'
<1>1. QueuesOK /\ RestOK /\ BlocksOK /\ MshrOK
  BY IInvParts
<1>2. /\ pc' = "idle" /\ budget' = 0
      /\ RQ' = Aged(RQ) /\ PQ' = Aged(PQ) /\ VAPQ' = Aged(VAPQ)
      /\ MSHR' = [i \in DOMAIN MSHR |->
                    [MSHR[i] EXCEPT !.due = IF @ \in {0, Never} THEN @ ELSE @ - 1]]
      /\ UNCHANGED <<WQ, block, current_assoc, outstanding, lower>>
  BY DEF EndCycle
<1>3. QueuesOK'
  <2>1. /\ RQ' \in Seq(PACKET) /\ Len(RQ') <= RQ_SIZE
        /\ PQ' \in Seq(PACKET) /\ Len(PQ') <= PQ_SIZE
    BY <1>1, <1>2, AgedQueue DEF QueuesOK
  <2>2. VAPQ' \in Seq(VaPacket) /\ Len(VAPQ') <= PQ_SIZE
    BY <1>1, <1>2, AgedVa DEF QueuesOK
  <2>. QED
    BY <1>1, <1>2, <2>1, <2>2 DEF QueuesOK
<1>4. MshrOK'
  BY <1>1, <1>2, AgeGood DEF MshrOK, lower
<1>5. RestOK' /\ BlocksOK'
  BY <1>1, <1>2 DEF RestOK, BlocksOK, DirtyIsValid, lower
<1>. QED
  BY <1>3, <1>4, <1>5, IInvParts

LEMMA NextIInv == IInv /\ [Next]_vars => IInv'
<1>. SUFFICES ASSUME IInv, [Next]_vars PROVE IInv'
  OBVIOUS
<1>1. CASE Operate
  BY <1>1, PhaseStep, handle_fillStep, handle_writebackStep, handle_readStep,
     va_translate_prefetchesStep, handle_prefetchStep, EndCycleStep DEF Operate
<1>2. CASE Above
  <2>1. ASSUME NEW r \in Requester, NEW a \in Addr, NEW t \in RqTypes, add_rq(r, a, t)
        PROVE  IInv'
    BY <2>1, add_rqStep
  <2>2. ASSUME NEW a \in Addr, NEW t \in WqTypes, add_wq(a, t) PROVE IInv'
    BY <2>2, add_wqStep
  <2>3. ASSUME NEW r \in Requester, NEW a \in Addr, NEW t \in PqTypes, add_pq(r, a, t)
        PROVE  IInv'
    BY <2>3, add_pqStep
  <2>4. ASSUME NEW v \in Prefetchable, prefetch_line(v) PROVE IInv'
    BY <2>4, prefetch_lineStep
  <2>5. ASSUME NEW n \in Assocs, adjust_assoc(n) PROVE IInv'
    <3>1. QueuesOK /\ RestOK /\ BlocksOK /\ MshrOK /\ n \in 1 .. NUM_WAY
      BY IInvParts, CacheAssumption
    <3>2. QueuesOK' /\ RestOK' /\ BlocksOK' /\ MshrOK'
      BY <2>5, <3>1 DEF adjust_assoc, QueuesOK, RestOK, BlocksOK, DirtyIsValid,
                        MshrOK, queues, lower
    <3>. QED
      BY <3>2, IInvParts
  <2>. QED
    BY <1>2, <2>1, <2>2, <2>3, <2>4, <2>5 DEF Above
<1>3. CASE Below
  BY <1>3, return_dataStep, LowerDrainStep DEF Below
<1>4. CASE UNCHANGED vars
  BY <1>4, IInvParts DEF vars, queues, lower, QueuesOK, RestOK, BlocksOK,
                         DirtyIsValid, MshrOK
<1>. QED
  BY <1>1, <1>2, <1>3, <1>4 DEF Next

(* The inductive invariant holds in every reachable state. *)
THEOREM Invariance == Spec => []IInv
<1>. QED
  BY InitIInv, NextIInv, PTL DEF Spec

(* Every value a cache ever holds has its type, for every geometry: queues  *)
(* never outgrow their sizes, and the blocks' ways stay within the set.     *)
THEOREM CacheTyped == Spec => []TypeOK
<1>1. IInv => TypeOK
  BY DEF IInv
<1>. QED
  BY <1>1, Invariance, PTL

(* The MSHR never holds two entries for a line.                             *)
THEOREM CacheOneEntryPerLine == Spec => []OneEntryPerLine
<1>1. IInv => OneEntryPerLine
  BY DEF IInv, GoodMshr, OneEntryPerLine
<1>. QED
  BY <1>1, Invariance, PTL

(* The MSHR is always ordered by event_cycle, so looking at its first entry *)
(* is enough for handle_fill.                                               *)
THEOREM CacheMshrInOrder == Spec => []MshrInOrder
<1>1. IInv => MshrInOrder
  BY DEF IInv, GoodMshr, MshrInOrder
<1>. QED
  BY <1>1, Invariance, PTL

(* The level below owes exactly the answers the MSHR waits for: the         *)
(* assertion of return_data never fails.                                    *)
THEOREM CacheLowerOwesExactly == Spec => []LowerOwesExactly
<1>1. IInv => LowerOwesExactly
  BY DEF IInv, GoodMshr, LowerOwesExactly
<1>. QED
  BY <1>1, Invariance, PTL

-----------------------------------------------------------------------------
(* A line that has come back stays back, change by change of the MSHR.      *)
LEMMA BackInMiss ==
  ASSUME GoodMshr(MSHR, lowerReads), NEW p \in PACKET, readlike_miss(p),
         NEW a \in Addr, NEW d \in 0 .. FILL_LATENCY, BackBy(MSHR, a, d)
  PROVE  BackBy(MSHR', a, d)
<1>. DEFINE found == Matching(MSHR, p.address)
            i == First(found)
<1>1. MSHR \in Seq(ENTRY) /\ Len(MSHR) \in Nat /\ DOMAIN MSHR = 1 .. Len(MSHR)
  BY MshrFields DEF GoodMshr
<1>2. PICK j \in DOMAIN MSHR : eq_addr(MSHR[j].address, a) /\ MSHR[j].due <= d
  BY DEF BackBy
<1>3. CASE found # {}
  <2>1. i \in DOMAIN MSHR /\ MSHR[i] \in ENTRY /\ eq_addr(MSHR[i].address, p.address)
    BY <1>1, <1>3, MatchingPlaces
  <2>2. MergeMiss(p, i)
    BY <1>3 DEF readlike_miss
  <2>3. PICK e : /\ MSHR' = [MSHR EXCEPT ![i] = e]
                 /\ e.due = MSHR[i].due /\ eq_addr(e.address, MSHR[i].address)
    <3>. DEFINE merged == packet_dep_merge(MSHR[i].rets, p.rets)
                e1 == [p EXCEPT !.due = MSHR[i].due, !.rets = merged]
                e2 == [MSHR[i] EXCEPT !.level = min_level(MSHR[i].level, p.level),
                                      !.rets = merged]
    <3>1. e1.due = MSHR[i].due /\ e1.address = p.address
      BY DEF PACKET
    <3>2. e2.due = MSHR[i].due /\ e2.address = MSHR[i].address
      BY <2>1 DEF ENTRY
    <3>3. MSHR' = [MSHR EXCEPT ![i] = e1] \/ MSHR' = [MSHR EXCEPT ![i] = e2]
      BY <2>2 DEF MergeMiss
    <3>. HIDE DEF e1, e2, i
    <3>. QED
      BY <2>1, <3>1, <3>2, <3>3 DEF eq_addr
  <2>. HIDE DEF i
  <2>4. /\ DOMAIN MSHR' = DOMAIN MSHR
        /\ MSHR'[j] = IF j = i THEN e ELSE MSHR[j]
    BY <1>2, <2>1, <2>3
  <2>. QED
    BY <1>2, <2>3, <2>4 DEF BackBy, eq_addr
<1>4. CASE found = {}
  <2>. DEFINE e == [p EXCEPT !.due = Never]
              m == Append(MSHR, e)
  <2>1. AllocateMiss(p)
    BY <1>4 DEF readlike_miss
  <2>2. MSHR' = m \/ MSHR' = Returned(m, Len(m))
    BY <2>1 DEF AllocateMiss
  <2>. HIDE DEF e
  <2>3. /\ Len(m) = Len(MSHR) + 1 /\ DOMAIN m = 1 .. Len(m)
        /\ j \in DOMAIN m /\ m[j] = MSHR[j] /\ m[Len(m)] = e
    BY <1>1, <1>2
  <2>4. CASE MSHR' = m
    BY <1>2, <2>3, <2>4 DEF BackBy
  <2>5. CASE MSHR' = Returned(m, Len(m))
    <3>1. e.due = Never /\ d < Never /\ Never = FILL_LATENCY + 1
      BY CacheAssumption DEF e, PACKET, Never
    <3>. DEFINE f == FirstUnreturned(m)
    <3>2. f \in DOMAIN m /\ m[f].due = Never
      <4>1. /\ {k \in DOMAIN m : m[k].due = Never} \in SUBSET Nat
            /\ {k \in DOMAIN m : m[k].due = Never} # {}
        BY <1>1, <2>3, <3>1
      <4>. QED
        BY <4>1, FirstIsLeast DEF FirstUnreturned
    <3>3. j # f /\ j # Len(m)
      BY <1>2, <2>3, <3>1, <3>2
    <3>. HIDE DEF m
    <3>4. DOMAIN MSHR' = DOMAIN m /\ MSHR'[j] = m[j]
      <4>1. DOMAIN MSHR' = DOMAIN m
        BY <2>5 DEF Returned, Swap
      <4>2. MSHR'[j] = Swap(m, Len(m), f)[j]
        BY <2>3, <2>5, <3>2, <3>3 DEF Returned, Swap
      <4>3. Swap(m, Len(m), f)[j] = m[j]
        BY <2>3, <3>2, <3>3 DEF Swap
      <4>. QED
        BY <4>1, <4>2, <4>3
    <3>. QED
      BY <1>2, <2>3, <3>4 DEF BackBy
  <2>. QED
    BY <2>2, <2>4, <2>5
<1>. QED
  BY <1>3, <1>4

LEMMA BackInReturn ==
  ASSUME IInv, NEW l \in Line, return_data(l),
         NEW a \in Addr, NEW d \in 0 .. FILL_LATENCY, BackBy(MSHR, a, d)
  PROVE  BackBy(MSHR', a, d)
<1>. DEFINE found == {i \in DOMAIN MSHR : line_of[MSHR[i].address] = l}
            f == First(found)
            g == FirstUnreturned(MSHR)
<1>1. MSHR \in Seq(ENTRY) /\ Len(MSHR) \in Nat /\ DOMAIN MSHR = 1 .. Len(MSHR)
  BY MshrFields DEF IInv, GoodMshr
<1>2. PICK j \in DOMAIN MSHR : eq_addr(MSHR[j].address, a) /\ MSHR[j].due <= d
  BY DEF BackBy
<1>3. PICK k \in DOMAIN MSHR : MSHR[k].due = Never /\ line_of[MSHR[k].address] = l
  BY DEF return_data, IInv, GoodMshr, Waits
<1>4. f \in DOMAIN MSHR /\ MSHR[f].due = Never
  <2>1. found \in SUBSET Nat /\ found # {}
    BY <1>1, <1>3
  <2>2. f \in found
    BY <2>1, FirstIsLeast
  <2>. HIDE DEF f
  <2>. QED
    BY <1>3, <2>2 DEF IInv, GoodMshr, eq_addr
<1>5. g \in DOMAIN MSHR /\ MSHR[g].due = Never
  <2>1. /\ {i \in DOMAIN MSHR : MSHR[i].due = Never} \in SUBSET Nat
        /\ {i \in DOMAIN MSHR : MSHR[i].due = Never} # {}
    BY <1>1, <1>3
  <2>. QED
    BY <2>1, FirstIsLeast DEF FirstUnreturned
<1>6. j # f /\ j # g
  BY <1>2, <1>4, <1>5, CacheAssumption DEF Never
<1>7. MSHR' = Returned(MSHR, f)
  BY DEF return_data
<1>. HIDE DEF f
<1>8. DOMAIN MSHR' = DOMAIN MSHR /\ MSHR'[j] = MSHR[j]
  <2>1. DOMAIN MSHR' = DOMAIN MSHR
    BY <1>7 DEF Returned, Swap
  <2>2. MSHR'[j] = Swap(MSHR, f, g)[j]
    BY <1>2, <1>5, <1>6, <1>7 DEF Returned, Swap
  <2>3. Swap(MSHR, f, g)[j] = MSHR[j]
    BY <1>4, <1>5, <1>6 DEF Swap
  <2>. QED
    BY <2>1, <2>2, <2>3
<1>. QED
  BY <1>2, <1>8 DEF BackBy

LEMMA BackInFill ==
  ASSUME IInv, handle_fill,
         NEW a \in Addr, NEW d \in 0 .. FILL_LATENCY, BackBy(MSHR, a, d)
  PROVE  BackBy(MSHR', a, d) \/ HitWays(a)' # {}
<1>. DEFINE p == MSHR[1]
            s == index_of[line_of[p.address]]
<1>1. /\ MSHR \in Seq(ENTRY) /\ Len(MSHR) \in Nat /\ DOMAIN MSHR = 1 .. Len(MSHR)
      /\ MSHR # <<>> /\ MSHR' = Tail(MSHR) /\ TypeOK
  BY MshrFields DEF IInv, GoodMshr, handle_fill, FillReady
<1>2. PICK j \in DOMAIN MSHR : eq_addr(MSHR[j].address, a) /\ MSHR[j].due <= d
  BY DEF BackBy
<1>3. CASE j = 1
  <2>1. PICK w \in VictimWays(s) : filllike_miss(p, s, w)
    BY DEF handle_fill
  <2>2. p.address \in Addr /\ s \in Index /\ p.address # NoAddr
    <3>1. p \in ENTRY
      BY <1>1
    <3>. QED
      BY <3>1, EntryFields, CacheAssumption
  <2>3. w \in 1 .. current_assoc /\ w \in 1 .. NUM_WAY
    <3>1. VictimWays(s) \subseteq 1 .. current_assoc
      <4>. DEFINE invalid == {v \in 1 .. current_assoc : block[s][v].address = NoAddr}
      <4>1. invalid \in SUBSET Nat
        <5>1. current_assoc \in Nat
          BY <1>1, CacheAssumption DEF TypeOK
        <5>. QED
          BY <5>1
      <4>2. invalid # {} => First(invalid) \in invalid
        BY <4>1, FirstIsLeast
      <4>3. VictimWays(s) = IF invalid # {} THEN {First(invalid)} ELSE 1 .. current_assoc
        BY DEF VictimWays
      <4>4. invalid \subseteq 1 .. current_assoc
        OBVIOUS
      <4>. HIDE DEF invalid
      <4>. QED
        BY <4>2, <4>3, <4>4
    <3>. HIDE DEF s
    <3>. QED
      BY <1>1, <2>2, <3>1, VictimPlaces
  <2>4. block'[s][w].address = p.address
    BY <1>1, <2>1, <2>2, <2>3 DEF filllike_miss, TypeOK
  <2>5. current_assoc' = current_assoc /\ line_of[a] = line_of[p.address]
    BY <1>2, <1>3 DEF handle_fill, eq_addr
  <2>6. w \in HitWays(a)'
    BY <2>2, <2>3, <2>4, <2>5 DEF HitWays, eq_addr
  <2>. QED
    BY <2>6
<1>4. CASE j # 1
  <2>1. /\ j - 1 \in DOMAIN MSHR' /\ MSHR'[j - 1] = MSHR[j]
    BY <1>1, <1>2, <1>4
  <2>. QED
    BY <1>2, <2>1 DEF BackBy
<1>. QED
  BY <1>3, <1>4

LEMMA BackInAging ==
  ASSUME IInv, EndCycle,
         NEW a \in Addr, NEW d \in 0 .. FILL_LATENCY, BackBy(MSHR, a, d)
  PROVE  BackBy(MSHR', a, d)
<1>1. PICK j \in DOMAIN MSHR : eq_addr(MSHR[j].address, a) /\ MSHR[j].due <= d
  BY DEF BackBy
<1>2. MSHR[j] \in ENTRY
  BY <1>1 DEF IInv, GoodMshr
<1>3. MSHR' = [i \in DOMAIN MSHR |->
                 [MSHR[i] EXCEPT !.due = IF @ \in {0, Never} THEN @ ELSE @ - 1]]
  BY DEF EndCycle
<1>. DEFINE t == IF MSHR[j].due \in {0, Never} THEN MSHR[j].due ELSE MSHR[j].due - 1
<1>4. MSHR[j].due \in 0 .. Never /\ Never \in Nat
  BY <1>2, EntryFields, LatencyTypes
<1>5. t \in 0 .. Never /\ t <= MSHR[j].due
  BY <1>4
<1>6. j \in DOMAIN MSHR' /\ MSHR'[j] = [MSHR[j] EXCEPT !.due = t]
  BY <1>1, <1>3
<1>. HIDE DEF t
<1>7. MSHR'[j].due = t /\ MSHR'[j].address = MSHR[j].address
  BY <1>2, <1>5, <1>6, EntryDue
<1>8. MSHR'[j].due <= d
  BY <1>1, <1>4, <1>5, <1>7, CacheAssumption
<1>. QED
  BY <1>1, <1>6, <1>7, <1>8 DEF BackBy, eq_addr

(* No step makes a returned line wait again or drops it before its fill.    *)
THEOREM CacheReturnIsKept == Spec => ReturnIsKept
<1>. DEFINE Kept == \A a \in Addr, d \in 0 .. FILL_LATENCY :
                      BackBy(MSHR, a, d) => BackBy(MSHR', a, d) \/ HitWays(a)' # {}
<1>1. ASSUME IInv, [Next]_vars PROVE Kept
  <2>. SUFFICES ASSUME NEW a \in Addr, NEW d \in 0 .. FILL_LATENCY, BackBy(MSHR, a, d)
                PROVE  BackBy(MSHR', a, d) \/ HitWays(a)' # {}
    OBVIOUS
  <2>1. CASE UNCHANGED MSHR
    BY <2>1
  <2>2. CASE handle_fill
    BY <1>1, <2>2, BackInFill
  <2>3. ASSUME NEW l \in Line, return_data(l) PROVE BackBy(MSHR', a, d)
    BY <1>1, <2>3, BackInReturn
  <2>4. CASE EndCycle
    BY <1>1, <2>4, BackInAging
  <2>5. ASSUME NEW p \in PACKET, readlike_miss(p) PROVE BackBy(MSHR', a, d)
    BY <1>1, <2>5, BackInMiss DEF IInv
  <2>6. QueuesOK
    BY <1>1, IInvParts
  <2>7. CASE handle_writeback
    <3>1. WQ # <<>>
      BY <2>7 DEF handle_writeback, WriteReady, has_ready
    <3>2. WQ[1] \in PACKET
      BY <2>6, <3>1 DEF QueuesOK
    <3>3. UNCHANGED MSHR \/ readlike_miss(WQ[1])
      BY <2>7 DEF handle_writeback
    <3>. QED
      BY <2>1, <2>5, <3>2, <3>3
  <2>8. CASE handle_read
    <3>1. RQ # <<>>
      BY <2>8 DEF handle_read, has_ready
    <3>2. RQ[1] \in PACKET
      BY <2>6, <3>1 DEF QueuesOK
    <3>3. UNCHANGED MSHR \/ readlike_miss(RQ[1])
      BY <2>8 DEF handle_read, ServeRead
    <3>. QED
      BY <2>1, <2>5, <3>2, <3>3
  <2>9. CASE handle_prefetch
    <3>1. PQ # <<>>
      BY <2>9 DEF handle_prefetch, has_ready
    <3>2. PQ[1] \in PACKET
      BY <2>6, <3>1 DEF QueuesOK
    <3>3. UNCHANGED MSHR \/ readlike_miss(PQ[1])
      BY <2>9 DEF handle_prefetch, ServeRead
    <3>. QED
      BY <2>1, <2>5, <3>2, <3>3
  <2>10. CASE \/ BeginCycle \/ EndFill \/ EndWrites \/ va_translate_prefetches
              \/ Above \/ UNCHANGED vars \/ \E l \in Line : LowerDrain(l)
    <3>1. UNCHANGED MSHR
      BY <2>10 DEF BeginCycle, EndFill, EndWrites, va_translate_prefetches, Above,
         add_rq, add_wq, add_pq, prefetch_line, adjust_assoc, LowerDrain, vars
    <3>. QED
      BY <2>1, <3>1
  <2>. QED
    BY <1>1, <2>2, <2>3, <2>4, <2>7, <2>8, <2>9, <2>10 DEF Next, Operate, Below
<1>2. Spec => [][Kept]_vars
  BY <1>1, Invariance, PTL DEF Spec
<1>. QED
  BY <1>2 DEF ReturnIsKept

-----------------------------------------------------------------------------
(* What waits in the write queue: packets of the types the producers write, *)
(* and nobody to return to.                                                 *)
WqKnown ==
  \A i \in DOMAIN WQ : WQ[i].type \in WqTypes /\ WQ[i].rets = <<>>

(* The queue after one more cycle: the same packets in the same places.     *)
LEMMA AgedPackets ==
  ASSUME NEW q \in Seq(PACKET)
  PROVE  /\ DOMAIN Aged(q) = DOMAIN q
         /\ \A i \in DOMAIN q : /\ Aged(q)[i].address = q[i].address
                               /\ Aged(q)[i].type = q[i].type
                               /\ Aged(q)[i].rets = q[i].rets
<1>1. DOMAIN Aged(q) = DOMAIN q
  BY DEF Aged
<1>2. ASSUME NEW i \in DOMAIN q
      PROVE  /\ Aged(q)[i].address = q[i].address
             /\ Aged(q)[i].type = q[i].type
             /\ Aged(q)[i].rets = q[i].rets
  <2>. DEFINE d == IF q[i].due > 0 THEN q[i].due - 1 ELSE 0
  <2>1. q[i] \in PACKET /\ Aged(q)[i] = [q[i] EXCEPT !.due = d]
    BY DEF Aged
  <2>. HIDE DEF d
  <2>. QED
    BY <2>1 DEF PACKET
<1>. QED
  BY <1>1, <1>2

LEMMA WqKnownInit == Init => WqKnown
BY DEF Init, WqKnown

LEMMA WqKnownStep == IInv /\ WqKnown /\ [Next]_vars => WqKnown'
<1>. SUFFICES ASSUME IInv, WqKnown, [Next]_vars PROVE WqKnown'
  OBVIOUS
<1>1. WQ \in Seq(PACKET)
  BY DEF IInv, TypeOK
<1>2. ASSUME NEW a \in Addr, NEW t \in WqTypes, add_wq(a, t) PROVE WqKnown'
  <2>. DEFINE e == NewPacket(a, t, "here", <<>>, HIT_LATENCY)
  <2>1. WQ' = Append(WQ, e)
    BY <1>2 DEF add_wq
  <2>2. e.type = t /\ e.rets = <<>>
    BY DEF NewPacket
  <2>. HIDE DEF e
  <2>3. /\ DOMAIN WQ = 1 .. Len(WQ) /\ Len(WQ) \in Nat
        /\ DOMAIN WQ' = 1 .. Len(WQ) + 1
        /\ \A i \in DOMAIN WQ : WQ'[i] = WQ[i]
        /\ WQ'[Len(WQ) + 1] = e
    BY <1>1, <2>1
  <2>4. \A i \in DOMAIN WQ' : i \in DOMAIN WQ \/ i = Len(WQ) + 1
    BY <2>3
  <2>. QED
    BY <2>2, <2>3, <2>4 DEF WqKnown
<1>3. CASE handle_writeback
  <2>1. WQ # <<>> /\ WQ' = Tail(WQ)
    BY <1>3 DEF handle_writeback, WriteReady, has_ready
  <2>2. \A i \in DOMAIN WQ' : i + 1 \in DOMAIN WQ /\ WQ'[i] = WQ[i + 1]
    BY <1>1, <2>1
  <2>. QED
    BY <2>2 DEF WqKnown
<1>4. CASE EndWrites
  <2>1. WQ' = Aged(WQ)
    BY <1>4 DEF EndWrites
  <2>. QED
    BY <1>1, <2>1, AgedPackets DEF WqKnown
<1>5. CASE UNCHANGED WQ
  BY <1>5 DEF WqKnown
<1>6. CASE \/ BeginCycle \/ handle_fill \/ EndFill \/ handle_read
           \/ va_translate_prefetches \/ handle_prefetch \/ EndCycle
           \/ Below \/ UNCHANGED vars
  BY <1>5, <1>6 DEF BeginCycle, handle_fill, EndFill, handle_read,
     va_translate_prefetches, handle_prefetch, EndCycle, Below, return_data,
     LowerDrain, queues, vars
<1>7. CASE Above
  BY <1>2, <1>5, <1>7 DEF Above, add_rq, add_pq, prefetch_line, adjust_assoc, queues
<1>. QED
  BY <1>3, <1>4, <1>6, <1>7 DEF Next, Operate

LEMMA WqInvariance == Spec => []WqKnown
BY WqKnownInit, WqKnownStep, Invariance, PTL DEF Spec

-----------------------------------------------------------------------------
(* Writes.  A block that is hit holds the line that was looked for.         *)
LEMMA HitBlock ==
  ASSUME TypeOK, NEW a \in Addr, HitWays(a) # {}
  PROVE  /\ First(HitWays(a)) \in 1 .. NUM_WAY
         /\ eq_addr(block[index_of[line_of[a]]][First(HitWays(a))].address, a)
<1>1. current_assoc \in 1 .. NUM_WAY /\ NUM_WAY \in Nat
  BY CacheAssumption DEF TypeOK
<1>2. HitWays(a) \in SUBSET Nat
  BY <1>1 DEF HitWays
<1>3. First(HitWays(a)) \in HitWays(a)
  BY <1>2, FirstIsLeast
<1>4. \A w \in HitWays(a) : /\ w \in 1 .. NUM_WAY
                            /\ eq_addr(block[index_of[line_of[a]]][w].address, a)
  BY <1>1 DEF HitWays
<1>. QED
  BY <1>3, <1>4

(* A fill: the block it replaces is written back if it was dirty.           *)
LEMMA FillKeepsWrites ==
  ASSUME TypeOK, NEW p, NEW s \in Index, NEW w \in VictimWays(s),
         filllike_miss(p, s, w),
         NEW l, NEW s1 \in Index, NEW w1 \in 1 .. NUM_WAY,
         block[s1][w1].dirty, line_of[block[s1][w1].address] = l
  PROVE  \/ l \in lowerWQ'
         \/ block'[s1][w1].dirty /\ line_of[block'[s1][w1].address] = l
<1>. DEFINE b == [address |-> p.address, dirty |-> Dirties(p)]
<1>1. block' = [block EXCEPT ![s][w] = b] /\ w \in 1 .. NUM_WAY
  BY VictimPlaces DEF filllike_miss
<1>. HIDE DEF b
<1>2. CASE s1 = s /\ w1 = w
  BY <1>2 DEF filllike_miss
<1>3. CASE ~ (s1 = s /\ w1 = w)
  BY <1>1, <1>3 DEF TypeOK
<1>. QED
  BY <1>2, <1>3

LEMMA WritesStep ==
  ASSUME WqTypes \subseteq {"WRITEBACK"}, IInv, WqKnown, [Next]_vars,
         NEW l \in Line, Unwritten(l), ~Unwritten(l)'
  PROVE  l \in lowerWQ'
<1>1. /\ WQ \in Seq(PACKET) /\ DOMAIN WQ = 1 .. Len(WQ) /\ Len(WQ) \in Nat
      /\ TypeOK /\ block \in [Index -> [1 .. NUM_WAY -> BLOCK]]
  BY DEF IInv, TypeOK
<1>2. CASE handle_fill
  <2>. DEFINE p == MSHR[1]
              s == index_of[line_of[p.address]]
  <2>1. WQ' = WQ /\ MSHR # <<>>
    BY <1>2 DEF handle_fill, queues, FillReady
  <2>2. PICK w \in VictimWays(s) : filllike_miss(p, s, w)
    BY <1>2 DEF handle_fill
  <2>3. s \in Index
    <3>1. p \in ENTRY
      BY <2>1 DEF IInv, GoodMshr
    <3>. QED
      BY <3>1, EntryFields, CacheAssumption
  <2>4. PICK s1 \in Index, w1 \in 1 .. NUM_WAY :
           block[s1][w1].dirty /\ line_of[block[s1][w1].address] = l
    BY <2>1 DEF Unwritten
  <2>. HIDE DEF s, p
  <2>5. l \in lowerWQ' \/ (block'[s1][w1].dirty /\ line_of[block'[s1][w1].address] = l)
    BY <1>1, <2>2, <2>3, <2>4, FillKeepsWrites
  <2>. QED
    BY <2>5 DEF Unwritten
<1>3. CASE handle_writeback
  <2>. DEFINE p == WQ[1]
              s == index_of[line_of[p.address]]
              W == HitWays(p.address)
  <2>1. WQ # <<>> /\ WQ' = Tail(WQ)
    BY <1>3 DEF handle_writeback, WriteReady, has_ready
  <2>2. p \in PACKET /\ p.type = "WRITEBACK" /\ p.rets = <<>>
    <3>1. 1 \in DOMAIN WQ
      BY <1>1, <2>1
    <3>2. WQ[1] \in PACKET
      BY <1>1, <3>1
    <3>3. WQ[1].type = "WRITEBACK" /\ WQ[1].rets = <<>>
      BY <3>1 DEF WqKnown
    <3>. QED
      BY <3>2, <3>3
  <2>3. p.address \in Addr /\ s \in Index
    BY <2>2, PacketFields
  <2>4. \A i \in DOMAIN WQ : i = 1 \/ (i - 1 \in DOMAIN WQ' /\ WQ'[i - 1] = WQ[i])
    BY <1>1, <2>1
  <2>. HIDE DEF p, s, W
  <2>5. CASE /\ W # {}
             /\ block' = [block EXCEPT ![s][First(W)].dirty = TRUE]
    <3>1. First(W) \in 1 .. NUM_WAY /\ eq_addr(block[s][First(W)].address, p.address)
      BY <1>1, <2>3, <2>5, HitBlock DEF s, W
    <3>2. \A s1 \in Index, w1 \in 1 .. NUM_WAY :
            /\ block'[s1][w1].address = block[s1][w1].address
            /\ block[s1][w1].dirty => block'[s1][w1].dirty
      <4>. SUFFICES ASSUME NEW s1 \in Index, NEW w1 \in 1 .. NUM_WAY
                    PROVE  /\ block'[s1][w1].address = block[s1][w1].address
                           /\ block[s1][w1].dirty => block'[s1][w1].dirty
        OBVIOUS
      <4>1. block[s1][w1] \in BLOCK
        BY <1>1
      <4>2. block'[s1][w1] = IF s1 = s /\ w1 = First(W)
                             THEN [block[s1][w1] EXCEPT !.dirty = TRUE]
                             ELSE block[s1][w1]
        BY <1>1, <2>3, <2>5, <3>1
      <4>. QED
        BY <4>1, <4>2 DEF BLOCK
    <3>3. block'[s][First(W)].dirty
      <4>1. block[s][First(W)] \in BLOCK
        BY <1>1, <2>3, <3>1
      <4>2. block'[s][First(W)] = [block[s][First(W)] EXCEPT !.dirty = TRUE]
        BY <1>1, <2>3, <2>5, <3>1
      <4>. QED
        BY <4>1, <4>2 DEF BLOCK
    <3>4. line_of[p.address] # l
      BY <2>3, <3>1, <3>2, <3>3 DEF Unwritten, eq_addr
    <3>5. ASSUME NEW i \in DOMAIN WQ, line_of[WQ[i].address] = l PROVE FALSE
      BY <2>4, <3>4, <3>5 DEF Unwritten, p
    <3>. QED
      BY <2>3, <3>2, <3>5 DEF Unwritten
  <2>6. CASE ReadsFirst(p)
    BY <2>2, <2>6 DEF ReadsFirst
  <2>7. ASSUME NEW w \in VictimWays(s), filllike_miss(p, s, w)
        PROVE  l \in lowerWQ'
    <3>. DEFINE b == [address |-> p.address, dirty |-> Dirties(p)]
    <3>1. block' = [block EXCEPT ![s][w] = b] /\ w \in 1 .. NUM_WAY
      BY <1>1, <2>3, <2>7, VictimPlaces DEF filllike_miss
    <3>2. b.dirty /\ b.address = p.address
      BY <2>2 DEF Dirties
    <3>. HIDE DEF b
    <3>3. block'[s][w] = b
      BY <1>1, <2>3, <3>1
    <3>4. line_of[p.address] # l
      BY <2>3, <3>1, <3>2, <3>3 DEF Unwritten
    <3>5. ASSUME NEW i \in DOMAIN WQ, line_of[WQ[i].address] = l PROVE FALSE
      BY <2>4, <3>4, <3>5 DEF Unwritten, p
    <3>6. PICK s1 \in Index, w1 \in 1 .. NUM_WAY :
             block[s1][w1].dirty /\ line_of[block[s1][w1].address] = l
      BY <3>5 DEF Unwritten
    <3>7. l \in lowerWQ' \/ (block'[s1][w1].dirty /\ line_of[block'[s1][w1].address] = l)
      BY <1>1, <2>3, <2>7, <3>6, FillKeepsWrites
    <3>. QED
      BY <3>7 DEF Unwritten
  <2>. QED
    BY <1>3, <2>5, <2>6, <2>7 DEF handle_writeback, p, s, W
<1>4. CASE EndWrites
  <2>1. WQ' = Aged(WQ) /\ block' = block
    BY <1>4 DEF EndWrites
  <2>2. \A i \in DOMAIN WQ : i \in DOMAIN WQ' /\ WQ'[i].address = WQ[i].address
    BY <1>1, <2>1, AgedPackets
  <2>. QED
    BY <2>1, <2>2 DEF Unwritten
<1>5. ASSUME NEW a \in Addr, NEW t \in WqTypes, add_wq(a, t) PROVE l \in lowerWQ'
  <2>1. block' = block /\ \A i \in DOMAIN WQ : i \in DOMAIN WQ' /\ WQ'[i] = WQ[i]
    BY <1>1, <1>5 DEF add_wq
  <2>. QED
    BY <2>1 DEF Unwritten
<1>6. CASE UNCHANGED <<WQ, block>>
  BY <1>6 DEF Unwritten
<1>7. CASE \/ BeginCycle \/ EndFill \/ handle_read
           \/ va_translate_prefetches \/ handle_prefetch \/ EndCycle
           \/ Below \/ UNCHANGED vars
  <2>1. UNCHANGED <<WQ, block>>
    BY <1>7 DEF BeginCycle, EndFill, handle_read, va_translate_prefetches,
       handle_prefetch, EndCycle, Below, return_data, LowerDrain, queues, vars
  <2>. QED
    BY <1>6, <2>1
<1>8. CASE Above
  <2>1. \/ UNCHANGED <<WQ, block>>
        \/ \E a \in Addr, t \in WqTypes : add_wq(a, t)
    BY <1>8 DEF Above, add_rq, add_pq, prefetch_line, adjust_assoc, queues
  <2>. QED
    BY <1>5, <1>6, <2>1
<1>. QED
  BY <1>2, <1>3, <1>4, <1>7, <1>8 DEF Next, Operate

(* In a cache that lines are written back to (an L2, the LLC) no write is   *)
(* dropped, whatever is evicted, filled or written over it: a line stops    *)
(* being unwritten only in a step that hands it to the level below.         *)
THEOREM CacheWritesReachBelow ==
  ASSUME WqTypes \subseteq {"WRITEBACK"}
  PROVE  Spec => WritesReachBelow
<1>. DEFINE Handed == \A l \in Line : Unwritten(l) /\ ~Unwritten(l)' => l \in lowerWQ'
<1>1. IInv /\ WqKnown /\ [Next]_vars => Handed
  BY WritesStep
<1>2. Spec => [][Handed]_vars
  BY <1>1, Invariance, WqInvariance, PTL DEF Spec
<1>. QED
  BY <1>2 DEF WritesReachBelow

-----------------------------------------------------------------------------
(* Who is to be answered.  Requester r is named for line l by a packet, in  *)
(* a queue, and at most once in a queue.                                    *)
Named(s, r)   == \E k \in DOMAIN s : s[k] = r
OnceNamed(s, r) == \A j, k \in DOMAIN s : s[j] = r /\ s[k] = r => j = k

Names(p, r, l) == line_of[p.address] = l /\ Named(p.rets, r)
OnceNames(p, r, l) == line_of[p.address] = l => OnceNamed(p.rets, r)

Has(q, r, l)    == \E i \in DOMAIN q : Names(q[i], r, l)
Single(q, r, l) ==
  /\ \A i, j \in DOMAIN q : Names(q[i], r, l) /\ Names(q[j], r, l) => i = j
  /\ \A i \in DOMAIN q : OnceNames(q[i], r, l)

(* The three ways a queue changes: the packets move or age, one is taken    *)
(* in (as a new element or by merging), the first one leaves.               *)
SamePackets(q, n) ==
  /\ DOMAIN n = DOMAIN q
  /\ \E x \in [DOMAIN q -> DOMAIN q] : \A j \in DOMAIN q :
       /\ x[x[j]] = j
       /\ n[j].address = q[x[j]].address /\ n[j].rets = q[x[j]].rets

Keeps(q, n, r, l) ==
  (Has(n, r, l) <=> Has(q, r, l)) /\ (Single(q, r, l) => Single(n, r, l))

Adds(q, n, p, r, l) ==
  /\ Has(n, r, l) <=> Has(q, r, l) \/ Names(p, r, l)
  /\ /\ Single(q, r, l) /\ OnceNames(p, r, l)
     /\ ~ (Has(q, r, l) /\ Names(p, r, l))
     => Single(n, r, l)

Takes(q, n, p, r, l) ==
  Single(q, r, l) =>
    /\ Single(n, r, l) /\ OnceNames(p, r, l)
    /\ Has(n, r, l) <=> Has(q, r, l) /\ ~Names(p, r, l)
    /\ Names(p, r, l) => Has(q, r, l)

LEMMA SameKeeps ==
  ASSUME NEW q, NEW n, SamePackets(q, n), NEW r, NEW l
  PROVE  Keeps(q, n, r, l)
<1>1. PICK x \in [DOMAIN q -> DOMAIN q] : \A j \in DOMAIN q :
         /\ x[x[j]] = j
         /\ n[j].address = q[x[j]].address /\ n[j].rets = q[x[j]].rets
  BY DEF SamePackets
<1>2. DOMAIN n = DOMAIN q
  BY DEF SamePackets
<1>3. \A j \in DOMAIN q : /\ Names(n[j], r, l) <=> Names(q[x[j]], r, l)
                          /\ OnceNames(n[j], r, l) <=> OnceNames(q[x[j]], r, l)
  BY <1>1 DEF Names, Named, OnceNames, OnceNamed
<1>4. Has(n, r, l) => Has(q, r, l)
  BY <1>1, <1>2, <1>3 DEF Has
<1>5. ASSUME NEW i \in DOMAIN q, Names(q[i], r, l) PROVE Has(n, r, l)
  <2>1. x[i] \in DOMAIN q /\ x[x[i]] = i
    BY <1>1
  <2>. QED
    BY <1>2, <1>3, <1>5, <2>1 DEF Has
<1>6. ASSUME Single(q, r, l) PROVE Single(n, r, l)
  <2>1. ASSUME NEW i \in DOMAIN n, NEW j \in DOMAIN n,
               Names(n[i], r, l), Names(n[j], r, l)
        PROVE  i = j
    <3>1. x[i] \in DOMAIN q /\ x[j] \in DOMAIN q
      BY <1>1, <1>2
    <3>2. x[i] = x[j]
      BY <1>2, <1>3, <1>6, <2>1, <3>1 DEF Single
    <3>. QED
      BY <1>1, <1>2, <3>2
  <2>2. \A i \in DOMAIN n : OnceNames(n[i], r, l)
    BY <1>1, <1>2, <1>3, <1>6 DEF Single
  <2>. QED
    BY <2>1, <2>2 DEF Single
<1>. QED
  BY <1>4, <1>5, <1>6 DEF Keeps, Has

(* packet_dep_merge names whoever one of the lists names, and no one twice  *)
(* that neither list names twice and only one of them names.                *)
LEMMA MergedNames ==
  ASSUME NEW d \in Seq(Requester), NEW s \in Seq(Requester), NEW r
  PROVE  LET m == packet_dep_merge(d, s)
         IN  /\ Named(m, r) <=> Named(d, r) \/ Named(s, r)
             /\ /\ OnceNamed(d, r) /\ OnceNamed(s, r)
                /\ ~ (Named(d, r) /\ Named(s, r))
                => OnceNamed(m, r)
<1>. DEFINE m == packet_dep_merge(d, s)
<1>1. /\ Len(d) \in Nat /\ Len(s) \in Nat
      /\ DOMAIN d = 1 .. Len(d) /\ DOMAIN s = 1 .. Len(s)
  OBVIOUS
<1>2. CASE m = d \o s
  <2>1. /\ DOMAIN m = 1 .. Len(d) + Len(s)
        /\ \A k \in DOMAIN d : k \in DOMAIN m /\ m[k] = d[k]
        /\ \A k \in DOMAIN s : k + Len(d) \in DOMAIN m /\ m[k + Len(d)] = s[k]
        /\ \A k \in DOMAIN m : k \in DOMAIN d \/ k - Len(d) \in DOMAIN s
    BY <1>1, <1>2
  <2>. HIDE DEF m
  <2>2. \A k \in DOMAIN m : k \notin DOMAIN d => /\ k - Len(d) \in DOMAIN s
                                                 /\ m[k] = s[k - Len(d)]
    BY <1>1, <2>1
  <2>3. Named(m, r) <=> Named(d, r) \/ Named(s, r)
    BY <2>1, <2>2 DEF Named
  <2>4. ASSUME OnceNamed(d, r), OnceNamed(s, r), ~ (Named(d, r) /\ Named(s, r)),
               NEW j \in DOMAIN m, NEW k \in DOMAIN m, m[j] = r, m[k] = r
        PROVE  j = k
    <3>1. CASE j \in DOMAIN d /\ k \in DOMAIN d
      BY <2>1, <2>4, <3>1 DEF OnceNamed
    <3>2. CASE j \notin DOMAIN d /\ k \notin DOMAIN d
      <4>1. j - Len(d) = k - Len(d)
        BY <2>2, <2>4, <3>2 DEF OnceNamed
      <4>. QED
        BY <1>1, <2>1, <4>1
    <3>3. CASE j \in DOMAIN d /\ k \notin DOMAIN d
      BY <2>1, <2>2, <2>4, <3>3 DEF Named
    <3>4. CASE j \notin DOMAIN d /\ k \in DOMAIN d
      BY <2>1, <2>2, <2>4, <3>4 DEF Named
    <3>. QED
      BY <3>1, <3>2, <3>3, <3>4
  <2>. QED
    BY <2>3, <2>4 DEF OnceNamed, m
<1>3. CASE m = d \o Tail(s) /\ d # <<>> /\ s # <<>> /\ d[Len(d)] = s[1]
  <2>1. /\ Tail(s) \in Seq(Requester) /\ Len(Tail(s)) = Len(s) - 1
        /\ \A k \in 1 .. Len(s) - 1 : Tail(s)[k] = s[k + 1]
        /\ Len(d) \in DOMAIN d /\ 1 \in DOMAIN s
    BY <1>1, <1>3
  <2>2. /\ DOMAIN m = 1 .. Len(d) + Len(s) - 1
        /\ \A k \in DOMAIN d : k \in DOMAIN m /\ m[k] = d[k]
        /\ \A k \in 2 .. Len(s) : k + Len(d) - 1 \in DOMAIN m
                                  /\ m[k + Len(d) - 1] = s[k]
        /\ \A k \in DOMAIN m : k \notin DOMAIN d => /\ k - Len(d) + 1 \in 2 .. Len(s)
                                                    /\ k - Len(d) + 1 \in DOMAIN s
                                                    /\ m[k] = s[k - Len(d) + 1]
    BY <1>1, <1>3, <2>1
  <2>. HIDE DEF m
  <2>3. Named(m, r) => Named(d, r) \/ Named(s, r)
    BY <1>1, <2>2 DEF Named
  <2>4. Named(d, r) => Named(m, r)
    BY <2>2 DEF Named
  <2>5. Named(s, r) => Named(m, r)
    <3>1. ASSUME NEW k \in DOMAIN s, s[k] = r PROVE Named(m, r)
      <4>1. CASE k = 1
        BY <1>3, <2>1, <2>2, <3>1, <4>1 DEF Named
      <4>2. CASE k # 1
        <5>1. k \in 2 .. Len(s)
          BY <1>1, <4>2
        <5>. QED
          BY <2>2, <3>1, <5>1 DEF Named
      <4>. QED
        BY <4>1, <4>2
    <3>. QED
      BY <3>1 DEF Named
  <2>6. ASSUME OnceNamed(d, r), OnceNamed(s, r), ~ (Named(d, r) /\ Named(s, r)),
               NEW j \in DOMAIN m, NEW k \in DOMAIN m, m[j] = r, m[k] = r
        PROVE  j = k
    <3>1. CASE j \in DOMAIN d /\ k \in DOMAIN d
      BY <2>2, <2>6, <3>1 DEF OnceNamed
    <3>2. CASE j \notin DOMAIN d /\ k \notin DOMAIN d
      <4>1. j - Len(d) + 1 = k - Len(d) + 1
        BY <2>2, <2>6, <3>2 DEF OnceNamed
      <4>. QED
        BY <1>1, <2>2, <4>1
    <3>3. CASE j \in DOMAIN d /\ k \notin DOMAIN d
      BY <2>2, <2>6, <3>3 DEF Named
    <3>4. CASE j \notin DOMAIN d /\ k \in DOMAIN d
      BY <2>2, <2>6, <3>4 DEF Named
    <3>. QED
      BY <3>1, <3>2, <3>3, <3>4
  <2>. QED
    BY <2>3, <2>4, <2>5, <2>6 DEF OnceNamed, m
<1>. QED
  BY <1>2, <1>3 DEF packet_dep_merge

(* A packet is taken in by merging with the element at place i.             *)
LEMMA MergeAdds ==
  ASSUME NEW q, NEW i \in DOMAIN q, NEW p, NEW e,
         eq_addr(q[i].address, p.address), eq_addr(e.address, p.address),
         q[i].rets \in Seq(Requester), p.rets \in Seq(Requester),
         e.rets = packet_dep_merge(q[i].rets, p.rets),
         NEW r, NEW l
  PROVE  Adds(q, [q EXCEPT ![i] = e], p, r, l)
<1>. DEFINE n == [q EXCEPT ![i] = e]
<1>1. /\ Named(e.rets, r) <=> Named(q[i].rets, r) \/ Named(p.rets, r)
      /\ /\ OnceNamed(q[i].rets, r) /\ OnceNamed(p.rets, r)
         /\ ~ (Named(q[i].rets, r) /\ Named(p.rets, r))
         => OnceNamed(e.rets, r)
  BY MergedNames
<1>2. /\ line_of[e.address] = line_of[q[i].address]
      /\ line_of[p.address] = line_of[q[i].address]
  BY DEF eq_addr
<1>3. /\ Names(e, r, l) <=> Names(q[i], r, l) \/ Names(p, r, l)
      /\ /\ OnceNames(q[i], r, l) /\ OnceNames(p, r, l)
         /\ ~ (Names(q[i], r, l) /\ Names(p, r, l))
         => OnceNames(e, r, l)
  BY <1>1, <1>2 DEF Names, OnceNames
<1>4. /\ DOMAIN n = DOMAIN q /\ n[i] = e
      /\ \A j \in DOMAIN q \ {i} : n[j] = q[j]
  OBVIOUS
<1>. HIDE DEF n
<1>5. Has(n, r, l) <=> Has(q, r, l) \/ Names(p, r, l)
  <2>1. Has(n, r, l) => Has(q, r, l) \/ Names(p, r, l)
    BY <1>3, <1>4 DEF Has
  <2>2. ASSUME NEW j \in DOMAIN q, Names(q[j], r, l) PROVE Has(n, r, l)
    BY <1>3, <1>4, <2>2 DEF Has
  <2>3. Names(p, r, l) => Has(n, r, l)
    BY <1>3, <1>4 DEF Has
  <2>. QED
    BY <2>1, <2>2, <2>3 DEF Has
<1>6. ASSUME Single(q, r, l), OnceNames(p, r, l), ~ (Has(q, r, l) /\ Names(p, r, l))
      PROVE  Single(n, r, l)
  <2>1. ~ (Names(q[i], r, l) /\ Names(p, r, l))
    BY <1>6 DEF Has
  <2>2. \A j \in DOMAIN n : OnceNames(n[j], r, l)
    BY <1>3, <1>4, <1>6, <2>1 DEF Single
  <2>3. ASSUME NEW j \in DOMAIN n, NEW k \in DOMAIN n,
               Names(n[j], r, l), Names(n[k], r, l)
        PROVE  j = k
    <3>1. CASE Names(p, r, l)
      <4>1. \A x \in DOMAIN q : ~Names(q[x], r, l)
        BY <1>6, <3>1 DEF Has
      <4>. QED
        BY <1>4, <2>3, <4>1
    <3>2. CASE ~Names(p, r, l)
      <4>1. Names(q[j], r, l) /\ Names(q[k], r, l)
        BY <1>3, <1>4, <2>3, <3>2
      <4>. QED
        BY <1>4, <1>6, <4>1 DEF Single
    <3>. QED
      BY <3>1, <3>2
  <2>. QED
    BY <2>2, <2>3 DEF Single
<1>7. Adds(q, n, p, r, l)
  BY <1>5, <1>6 DEF Adds
<1>. QED
  BY <1>7 DEF n

(* ... and as a new last element.                                           *)
LEMMA AppendAdds ==
  ASSUME NEW T, NEW q \in Seq(T), NEW p, NEW e \in T,
         e.address = p.address, e.rets = p.rets,
         NEW r, NEW l
  PROVE  Adds(q, Append(q, e), p, r, l)
<1>. DEFINE n == Append(q, e)
<1>1. /\ Len(q) \in Nat /\ DOMAIN q = 1 .. Len(q)
      /\ DOMAIN n = 1 .. Len(q) + 1
      /\ \A j \in DOMAIN q : n[j] = q[j]
      /\ n[Len(q) + 1] = e
  OBVIOUS
<1>. HIDE DEF n
<1>2. /\ DOMAIN n = DOMAIN q \cup {Len(q) + 1}
      /\ Len(q) + 1 \notin DOMAIN q
  BY <1>1
<1>3. /\ Names(e, r, l) <=> Names(p, r, l)
      /\ OnceNames(e, r, l) <=> OnceNames(p, r, l)
  BY DEF Names, OnceNames
<1>4. Has(n, r, l) <=> Has(q, r, l) \/ Names(p, r, l)
  BY <1>1, <1>2, <1>3 DEF Has
<1>5. ASSUME Single(q, r, l), OnceNames(p, r, l), ~ (Has(q, r, l) /\ Names(p, r, l))
      PROVE  Single(n, r, l)
  <2>1. \A j \in DOMAIN n : OnceNames(n[j], r, l)
    BY <1>1, <1>2, <1>3, <1>5 DEF Single
  <2>2. ASSUME NEW j \in DOMAIN n, NEW k \in DOMAIN n,
               Names(n[j], r, l), Names(n[k], r, l)
        PROVE  j = k
    BY <1>1, <1>2, <1>3, <1>5, <2>2 DEF Single, Has
  <2>. QED
    BY <2>1, <2>2 DEF Single
<1>6. Adds(q, n, p, r, l)
  BY <1>4, <1>5 DEF Adds
<1>. QED
  BY <1>6 DEF n

LEMMA TailTakes ==
  ASSUME NEW T, NEW q \in Seq(T), q # <<>>, NEW r, NEW l
  PROVE  Takes(q, Tail(q), q[1], r, l)
<1>. DEFINE n == Tail(q)
<1>1. /\ Len(q) \in Nat \ {0} /\ DOMAIN q = 1 .. Len(q) /\ 1 \in DOMAIN q
      /\ DOMAIN n = 1 .. Len(q) - 1
      /\ \A j \in DOMAIN n : j + 1 \in DOMAIN q /\ n[j] = q[j + 1]
  OBVIOUS
<1>. HIDE DEF n
<1>2. \A j \in DOMAIN q : j # 1 => j - 1 \in DOMAIN n /\ n[j - 1] = q[j]
  BY <1>1
<1>. SUFFICES ASSUME Single(q, r, l)
              PROVE  /\ Single(n, r, l) /\ OnceNames(q[1], r, l)
                     /\ Has(n, r, l) <=> Has(q, r, l) /\ ~Names(q[1], r, l)
                     /\ Names(q[1], r, l) => Has(q, r, l)
  BY DEF Takes, n
<1>3. OnceNames(q[1], r, l) /\ (Names(q[1], r, l) => Has(q, r, l))
  BY <1>1 DEF Single, Has
<1>4. ASSUME NEW j \in DOMAIN n, NEW k \in DOMAIN n,
             Names(n[j], r, l), Names(n[k], r, l)
      PROVE  j = k
  <2>1. j + 1 = k + 1
    BY <1>1, <1>4 DEF Single
  <2>. QED
    BY <1>1, <2>1
<1>5. \A j \in DOMAIN n : OnceNames(n[j], r, l)
  BY <1>1 DEF Single
<1>6. ASSUME NEW j \in DOMAIN n, Names(n[j], r, l)
      PROVE  Has(q, r, l) /\ ~Names(q[1], r, l)
  <2>1. j + 1 \in DOMAIN q /\ Names(q[j + 1], r, l) /\ j + 1 # 1
    BY <1>1, <1>6
  <2>. QED
    BY <1>1, <2>1 DEF Has, Single
<1>7. ASSUME NEW j \in DOMAIN q, Names(q[j], r, l), ~Names(q[1], r, l)
      PROVE  Has(n, r, l)
  BY <1>2, <1>7 DEF Has
<1>. QED
  BY <1>3, <1>4, <1>5, <1>6, <1>7 DEF Has, Single

(* Aging and return_data only move the packets.                             *)
LEMMA AgedSame ==
  ASSUME NEW q \in Seq(PACKET)
  PROVE  SamePackets(q, Aged(q))
<1>. DEFINE x == [j \in DOMAIN q |-> j]
<1>1. x \in [DOMAIN q -> DOMAIN q] /\ \A j \in DOMAIN q : x[j] = j /\ x[x[j]] = j
  OBVIOUS
<1>. HIDE DEF x
<1>. QED
  BY <1>1, AgedPackets DEF SamePackets

LEMMA AgedMshrSame ==
  ASSUME NEW m \in Seq(ENTRY)
  PROVE  SamePackets(m, [i \in DOMAIN m |->
                           [m[i] EXCEPT !.due = IF @ \in {0, Never} THEN @ ELSE @ - 1]])
<1>. DEFINE n == [i \in DOMAIN m |->
                    [m[i] EXCEPT !.due = IF @ \in {0, Never} THEN @ ELSE @ - 1]]
            x == [j \in DOMAIN m |-> j]
<1>1. x \in [DOMAIN m -> DOMAIN m] /\ \A j \in DOMAIN m : x[j] = j /\ x[x[j]] = j
  OBVIOUS
<1>2. ASSUME NEW j \in DOMAIN m
      PROVE  n[j].address = m[j].address /\ n[j].rets = m[j].rets
  <2>. DEFINE d == IF m[j].due \in {0, Never} THEN m[j].due ELSE m[j].due - 1
  <2>1. n[j] = [m[j] EXCEPT !.due = d] /\ m[j] \in ENTRY
    OBVIOUS
  <2>. HIDE DEF d, n
  <2>. QED
    BY <2>1 DEF ENTRY
<1>3. DOMAIN n = DOMAIN m
  OBVIOUS
<1>. HIDE DEF x, n
<1>4. SamePackets(m, n)
  BY <1>1, <1>2, <1>3 DEF SamePackets
<1>. QED
  BY <1>4 DEF n

LEMMA ReturnedSame ==
  ASSUME NEW m \in Seq(ENTRY), NEW i \in DOMAIN m, m[i].due = Never
  PROVE  SamePackets(m, Returned(m, i))
<1>. DEFINE f == FirstUnreturned(m)
            n == Returned(m, i)
            x == [j \in DOMAIN m |-> IF j = i THEN f ELSE IF j = f THEN i ELSE j]
<1>1. DOMAIN m = 1 .. Len(m) /\ Len(m) \in Nat
  OBVIOUS
<1>2. f \in DOMAIN m
  <2>1. /\ {j \in DOMAIN m : m[j].due = Never} \in SUBSET Nat
        /\ {j \in DOMAIN m : m[j].due = Never} # {}
    BY <1>1
  <2>. QED
    BY <2>1, FirstIsLeast DEF FirstUnreturned
<1>3. /\ DOMAIN n = DOMAIN m
      /\ n[f] = [m[i] EXCEPT !.due = FILL_LATENCY]
      /\ \A j \in DOMAIN m \ {f} : n[j] = IF j = i THEN m[f] ELSE m[j]
  BY <1>2 DEF Returned, Swap
<1>. HIDE DEF f, n
<1>4. n[f].address = m[i].address /\ n[f].rets = m[i].rets
  <2>1. m[i] \in ENTRY
    OBVIOUS
  <2>. QED
    BY <1>3, <2>1 DEF ENTRY
<1>5. x \in [DOMAIN m -> DOMAIN m]
  BY <1>2
<1>6. \A j \in DOMAIN m : x[j] = IF j = i THEN f ELSE IF j = f THEN i ELSE j
  BY <1>2
<1>. HIDE DEF x
<1>7. \A j \in DOMAIN m : x[x[j]] = j
  BY <1>2, <1>6
<1>8. \A j \in DOMAIN m : n[j].address = m[x[j]].address /\ n[j].rets = m[x[j]].rets
  BY <1>2, <1>3, <1>4, <1>6
<1>9. SamePackets(m, n)
  BY <1>3, <1>5, <1>7, <1>8 DEF SamePackets
<1>. QED
  BY <1>9 DEF n

LEMMA ReturnedPlaces ==
  ASSUME NEW m \in Seq(ENTRY), NEW i \in DOMAIN m, m[i].due = Never,
         NEW j \in DOMAIN Returned(m, i)
  PROVE  \E k \in DOMAIN m : Returned(m, i)[j].address = m[k].address
BY ReturnedSame DEF SamePackets

-----------------------------------------------------------------------------
(* Lines held once.  Where no metadata prefetcher takes ways away, the      *)
(* associativity never changes.                                             *)
AllWays == current_assoc = NUM_WAY

OnceInv == IInv /\ WqKnown /\ AllWays /\ NoDuplicateLine

LEMMA AllWaysStep ==
  ASSUME Assocs \subseteq {NUM_WAY}, AllWays, [Next]_vars
  PROVE  AllWays'
<1>1. CASE UNCHANGED current_assoc
  BY <1>1 DEF AllWays
<1>2. CASE Operate \/ Below \/ UNCHANGED vars
  BY <1>1, <1>2 DEF Operate, BeginCycle, handle_fill, EndFill, handle_writeback,
     EndWrites, handle_read, va_translate_prefetches, handle_prefetch, EndCycle,
     Below, return_data, LowerDrain, vars
<1>3. ASSUME NEW n \in Assocs, adjust_assoc(n) PROVE AllWays'
  BY <1>3 DEF adjust_assoc, AllWays
<1>4. CASE Above
  BY <1>1, <1>3, <1>4 DEF Above, add_rq, add_wq, add_pq, prefetch_line
<1>. QED
  BY <1>2, <1>4 DEF Next

(* A step that leaves the line of every block alone and enters no line in   *)
(* the MSHR that is not there and is not missed.                            *)
LEMMA OnceKept ==
  ASSUME NoDuplicateLine, current_assoc' = current_assoc,
         \A s \in Index, w \in 1 .. NUM_WAY :
            block'[s][w].address = block[s][w].address,
         IInv, IInv',
         \A i \in DOMAIN MSHR' :
            \/ \E j \in DOMAIN MSHR : eq_addr(MSHR[j].address, MSHR'[i].address)
            \/ HitWays(MSHR'[i].address) = {}
  PROVE  NoDuplicateLine'
<1>1. /\ current_assoc \in 1 .. NUM_WAY /\ NUM_WAY \in Nat
      /\ MSHR \in Seq(ENTRY) /\ MSHR' \in Seq(ENTRY)
  BY CacheAssumption DEF IInv, TypeOK
<1>2. ASSUME NEW a \in Addr PROVE HitWays(a)' = HitWays(a)
  <2>1. index_of[line_of[a]] \in Index
    BY CacheAssumption
  <2>2. \A w \in 1 .. current_assoc : w \in 1 .. NUM_WAY
    BY <1>1
  <2>. QED
    BY <2>1, <2>2 DEF HitWays
<1>3. ASSUME NEW i \in DOMAIN MSHR' PROVE HitWays(MSHR[i].address)' = {}
  <2>1. MSHR'[i].address \in Addr
    <3>1. MSHR'[i] \in ENTRY
      BY <1>1
    <3>. QED
      BY <3>1, EntryFields
  <2>2. HitWays(MSHR'[i].address) = {}
    <3>1. ASSUME NEW j \in DOMAIN MSHR, eq_addr(MSHR[j].address, MSHR'[i].address)
          PROVE  HitWays(MSHR'[i].address) = {}
      <4>1. HitWays(MSHR[j].address) = {}
        BY DEF NoDuplicateLine
      <4>2. HitWays(MSHR[j].address) = HitWays(MSHR'[i].address)
        BY <3>1 DEF HitWays, eq_addr
      <4>. QED
        BY <4>1, <4>2
    <3>. QED
      BY <3>1
  <2>3. PICK a \in Addr : a = MSHR'[i].address
    BY <2>1
  <2>4. HitWays(a)' = {}
    BY <1>2, <2>2, <2>3
  <2>. QED
    BY <2>3, <2>4 DEF HitWays, eq_addr
<1>4. \A s \in Index : \A v, w \in 1 .. NUM_WAY :
        /\ block'[s][v].address # NoAddr /\ block'[s][w].address # NoAddr
        /\ eq_addr(block'[s][v].address, block'[s][w].address)
        => v = w
  BY DEF NoDuplicateLine
<1>. QED
  BY <1>3, <1>4 DEF NoDuplicateLine

(* The lines of the MSHR after readlike_miss, return_data and a cycle.      *)
LEMMA MissLines ==
  ASSUME IInv, NEW p \in PACKET, readlike_miss(p)
  PROVE  \A i \in DOMAIN MSHR' :
            \/ \E j \in DOMAIN MSHR : eq_addr(MSHR[j].address, MSHR'[i].address)
            \/ eq_addr(MSHR'[i].address, p.address)
<1>. DEFINE found == Matching(MSHR, p.address)
            i == First(found)
<1>1. MSHR \in Seq(ENTRY) /\ Len(MSHR) \in Nat /\ DOMAIN MSHR = 1 .. Len(MSHR)
  BY MshrFields DEF IInv, GoodMshr
<1>2. CASE found # {}
  <2>1. i \in DOMAIN MSHR /\ MSHR[i] \in ENTRY /\ eq_addr(MSHR[i].address, p.address)
    BY <1>1, <1>2, MatchingPlaces
  <2>2. MergeMiss(p, i)
    BY <1>2 DEF readlike_miss
  <2>3. PICK e : /\ MSHR' = [MSHR EXCEPT ![i] = e]
                 /\ eq_addr(e.address, p.address)
    <3>. DEFINE merged == packet_dep_merge(MSHR[i].rets, p.rets)
                e1 == [p EXCEPT !.due = MSHR[i].due, !.rets = merged]
                e2 == [MSHR[i] EXCEPT !.level = min_level(MSHR[i].level, p.level),
                                      !.rets = merged]
    <3>1. e1.address = p.address
      BY DEF PACKET
    <3>2. e2.address = MSHR[i].address
      BY <2>1 DEF ENTRY
    <3>3. MSHR' = [MSHR EXCEPT ![i] = e1] \/ MSHR' = [MSHR EXCEPT ![i] = e2]
      BY <2>2 DEF MergeMiss
    <3>. HIDE DEF e1, e2, i
    <3>. QED
      BY <2>1, <3>1, <3>2, <3>3 DEF eq_addr
  <2>. HIDE DEF i
  <2>4. \A j \in DOMAIN MSHR' : /\ j \in DOMAIN MSHR
                                /\ MSHR'[j] = IF j = i THEN e ELSE MSHR[j]
    BY <2>1, <2>3
  <2>. QED
    BY <2>3, <2>4 DEF eq_addr
<1>3. CASE found = {}
  <2>. DEFINE e == [p EXCEPT !.due = Never]
              m == Append(MSHR, e)
  <2>1. MSHR' = m \/ MSHR' = Returned(m, Len(m))
    BY <1>3 DEF readlike_miss, AllocateMiss
  <2>2. e \in ENTRY /\ e.address = p.address /\ e.due = Never
    BY LatencyTypes DEF PACKET, ENTRY
  <2>. HIDE DEF e
  <2>3. /\ Len(m) = Len(MSHR) + 1 /\ DOMAIN m = 1 .. Len(m) /\ m \in Seq(ENTRY)
        /\ \A j \in DOMAIN m : j \in DOMAIN MSHR \/ j = Len(m)
        /\ \A j \in DOMAIN MSHR : m[j] = MSHR[j]
        /\ m[Len(m)] = e
    BY <1>1, <2>2
  <2>4. CASE MSHR' = m
    BY <2>2, <2>3, <2>4 DEF eq_addr
  <2>5. CASE MSHR' = Returned(m, Len(m))
    <3>1. Len(m) \in DOMAIN m /\ m[Len(m)].due = Never
      BY <1>1, <2>2, <2>3
    <3>. HIDE DEF m
    <3>2. \A j \in DOMAIN MSHR' :
             \E k \in DOMAIN m : MSHR'[j].address = m[k].address
      BY <2>3, <2>5, <3>1, ReturnedPlaces
    <3>. QED
      BY <2>2, <2>3, <3>2 DEF eq_addr
  <2>. QED
    BY <2>1, <2>4, <2>5
<1>. QED
  BY <1>2, <1>3

LEMMA MissOnce ==
  ASSUME IInv, IInv', NoDuplicateLine, NEW p \in PACKET,
         HitWays(p.address) = {}, readlike_miss(p),
         UNCHANGED <<block, current_assoc>>
  PROVE  NoDuplicateLine'
<1>1. ASSUME NEW i \in DOMAIN MSHR', eq_addr(MSHR'[i].address, p.address)
      PROVE  HitWays(MSHR'[i].address) = {}
  <2>1. HitWays(MSHR'[i].address) = HitWays(p.address)
    BY <1>1 DEF HitWays, eq_addr
  <2>. QED
    BY <2>1
<1>2. \A i \in DOMAIN MSHR' :
         \/ \E j \in DOMAIN MSHR : eq_addr(MSHR[j].address, MSHR'[i].address)
         \/ HitWays(MSHR'[i].address) = {}
  BY <1>1, MissLines
<1>. QED
  BY <1>2, OnceKept

LEMMA SameOnce ==
  ASSUME IInv, IInv', NoDuplicateLine, SamePackets(MSHR, MSHR'),
         UNCHANGED <<block, current_assoc>>
  PROVE  NoDuplicateLine'
<1>1. \A i \in DOMAIN MSHR' :
         \E j \in DOMAIN MSHR : eq_addr(MSHR[j].address, MSHR'[i].address)
  BY DEF SamePackets, eq_addr
<1>. QED
  BY <1>1, OnceKept

(* return_data finds an entry that waits. *)
LEMMA return_dataSame ==
  ASSUME IInv, NEW l \in Line, return_data(l)
  PROVE  SamePackets(MSHR, MSHR')
<1>. DEFINE found == {i \in DOMAIN MSHR : line_of[MSHR[i].address] = l}
            f == First(found)
<1>1. /\ MSHR \in Seq(ENTRY) /\ Len(MSHR) \in Nat /\ DOMAIN MSHR = 1 .. Len(MSHR)
      /\ lowerReads[l] > 0 /\ MSHR' = Returned(MSHR, f)
  BY MshrFields DEF IInv, GoodMshr, return_data
<1>2. PICK j \in DOMAIN MSHR : MSHR[j].due = Never /\ line_of[MSHR[j].address] = l
  BY <1>1 DEF IInv, GoodMshr, Waits
<1>3. f \in found
  <2>1. found \in SUBSET Nat /\ found # {}
    BY <1>1, <1>2
  <2>. QED
    BY <2>1, FirstIsLeast
<1>. HIDE DEF f
<1>4. f \in DOMAIN MSHR /\ MSHR[f].due = Never
  BY <1>2, <1>3 DEF IInv, GoodMshr, eq_addr
<1>. QED
  BY <1>1, <1>4, ReturnedSame

LEMMA FillOnce ==
  ASSUME OnceInv, handle_fill
  PROVE  NoDuplicateLine'
<1>. DEFINE p == MSHR[1]
            s == index_of[line_of[p.address]]
<1>1. /\ TypeOK /\ MSHR \in Seq(ENTRY) /\ Len(MSHR) \in Nat \ {0}
      /\ DOMAIN MSHR = 1 .. Len(MSHR) /\ MSHR' = Tail(MSHR)
      /\ current_assoc = NUM_WAY /\ current_assoc' = NUM_WAY /\ NUM_WAY \in Nat
      /\ block \in [Index -> [1 .. NUM_WAY -> BLOCK]]
  BY MshrFields, CacheAssumption
     DEF OnceInv, IInv, GoodMshr, AllWays, handle_fill, FillReady, TypeOK
<1>2. PICK w \in VictimWays(s) : filllike_miss(p, s, w)
  BY DEF handle_fill
<1>3. p \in ENTRY /\ p.address \in Addr /\ s \in Index /\ p.address # NoAddr
  <2>1. p \in ENTRY
    BY <1>1
  <2>. QED
    BY <2>1, EntryFields, CacheAssumption
<1>. DEFINE b == [address |-> p.address, dirty |-> Dirties(p)]
<1>4. block' = [block EXCEPT ![s][w] = b] /\ w \in 1 .. NUM_WAY
  BY <1>1, <1>2, <1>3, VictimPlaces DEF filllike_miss
<1>5. b.address = p.address
  OBVIOUS
<1>. HIDE DEF b
<1>6. \A s1 \in Index, w1 \in 1 .. NUM_WAY :
        block'[s1][w1] = IF s1 = s /\ w1 = w THEN b ELSE block[s1][w1]
  BY <1>1, <1>3, <1>4
<1>7. HitWays(p.address) = {}
  <2>1. 1 \in DOMAIN MSHR
    BY <1>1
  <2>. QED
    BY <2>1 DEF OnceInv, NoDuplicateLine
<1>8. ASSUME NEW u \in 1 .. NUM_WAY, block[s][u].address # NoAddr
      PROVE  ~eq_addr(block[s][u].address, p.address)
  BY <1>1, <1>7, <1>8 DEF HitWays
<1>. HIDE DEF p, s
<1>9. ASSUME NEW s1 \in Index, NEW v \in 1 .. NUM_WAY, NEW u \in 1 .. NUM_WAY,
             block'[s1][v].address # NoAddr, block'[s1][u].address # NoAddr,
             eq_addr(block'[s1][v].address, block'[s1][u].address)
      PROVE  v = u
  <2>1. CASE s1 # s \/ (v # w /\ u # w)
    BY <1>6, <1>9, <2>1 DEF OnceInv, NoDuplicateLine
  <2>2. CASE s1 = s /\ v = w /\ u # w
    BY <1>3, <1>5, <1>6, <1>8, <1>9, <2>2 DEF eq_addr
  <2>3. CASE s1 = s /\ v # w /\ u = w
    BY <1>3, <1>5, <1>6, <1>8, <1>9, <2>3 DEF eq_addr
  <2>. QED
    BY <2>1, <2>2, <2>3
<1>10. ASSUME NEW i \in DOMAIN MSHR' PROVE HitWays(MSHR[i].address)' = {}
  <2>1. /\ i + 1 \in DOMAIN MSHR /\ i + 1 # 1 /\ MSHR'[i] = MSHR[i + 1]
        /\ 1 \in DOMAIN MSHR
    BY <1>1
  <2>2. MSHR[i + 1] \in ENTRY
    BY <1>1, <2>1
  <2>3. ~eq_addr(MSHR[i + 1].address, p.address)
    BY <2>1 DEF OnceInv, IInv, GoodMshr, eq_addr, p
  <2>4. PICK a \in Addr : a = MSHR'[i].address
    BY <2>1, <2>2, EntryFields
  <2>5. HitWays(a) = {}
    BY <2>1, <2>4 DEF OnceInv, NoDuplicateLine
  <2>6. index_of[line_of[a]] \in Index
    BY CacheAssumption
  <2>7. ASSUME NEW u \in 1 .. NUM_WAY, block'[index_of[line_of[a]]][u].address # NoAddr,
               eq_addr(block'[index_of[line_of[a]]][u].address, a)
        PROVE  FALSE
    <3>1. CASE index_of[line_of[a]] = s /\ u = w
      BY <1>5, <1>6, <2>1, <2>3, <2>4, <2>6, <2>7, <3>1 DEF eq_addr
    <3>2. CASE ~ (index_of[line_of[a]] = s /\ u = w)
      BY <1>1, <1>6, <2>5, <2>6, <2>7, <3>2 DEF HitWays
    <3>. QED
      BY <3>1, <3>2
  <2>. QED
    BY <1>1, <2>4, <2>7 DEF HitWays, eq_addr
<1>. QED
  BY <1>9, <1>10 DEF NoDuplicateLine

LEMMA WritebackOnce ==
  ASSUME WqTypes \subseteq {"RFO"}, OnceInv, IInv', handle_writeback
  PROVE  NoDuplicateLine'
<1>. DEFINE p == WQ[1]
            s == index_of[line_of[p.address]]
            W == HitWays(p.address)
<1>1. /\ TypeOK /\ WQ \in Seq(PACKET) /\ WQ # <<>>
      /\ block \in [Index -> [1 .. NUM_WAY -> BLOCK]]
      /\ current_assoc' = current_assoc /\ NoDuplicateLine /\ IInv
  BY DEF OnceInv, IInv, TypeOK, handle_writeback, WriteReady, has_ready
<1>2. p \in PACKET /\ ReadsFirst(p)
  <2>1. 1 \in DOMAIN WQ
    BY <1>1
  <2>2. WQ[1] \in PACKET
    BY <1>1, <2>1
  <2>3. WQ[1].type = "RFO" /\ WQ[1].rets = <<>>
    BY <2>1 DEF OnceInv, WqKnown
  <2>. QED
    BY <2>2, <2>3 DEF ReadsFirst
<1>3. p.address \in Addr /\ s \in Index
  BY <1>2, PacketFields
<1>. HIDE DEF p, s, W
<1>4. CASE /\ W # {}
           /\ block' = [block EXCEPT ![s][First(W)].dirty = TRUE]
           /\ UNCHANGED MSHR
  <2>1. First(W) \in 1 .. NUM_WAY
    BY <1>1, <1>3, <1>4, HitBlock DEF W
  <2>2. \A s1 \in Index, w1 \in 1 .. NUM_WAY :
          block'[s1][w1].address = block[s1][w1].address
    <3>. SUFFICES ASSUME NEW s1 \in Index, NEW w1 \in 1 .. NUM_WAY
                  PROVE  block'[s1][w1].address = block[s1][w1].address
      OBVIOUS
    <3>1. block[s1][w1] \in BLOCK
      BY <1>1
    <3>2. block'[s1][w1] = IF s1 = s /\ w1 = First(W)
                           THEN [block[s1][w1] EXCEPT !.dirty = TRUE]
                           ELSE block[s1][w1]
      BY <1>1, <1>3, <1>4, <2>1
    <3>. QED
      BY <3>1, <3>2 DEF BLOCK
  <2>3. \A i \in DOMAIN MSHR' :
           \E j \in DOMAIN MSHR : eq_addr(MSHR[j].address, MSHR'[i].address)
    BY <1>4 DEF eq_addr
  <2>. QED
    BY <1>1, <2>2, <2>3, OnceKept
<1>5. CASE W = {} /\ readlike_miss(p) /\ UNCHANGED block
  BY <1>1, <1>2, <1>5, MissOnce DEF W
<1>. QED
  BY <1>2, <1>4, <1>5 DEF handle_writeback, p, s, W

(* A step of a cache that is only read and stored to.                       *)
LEMMA OnceStep ==
  ASSUME WqTypes \subseteq {"RFO"}, Assocs \subseteq {NUM_WAY},
         OnceInv, IInv', [Next]_vars
  PROVE  NoDuplicateLine'
<1>1. /\ IInv /\ NoDuplicateLine /\ AllWays
      /\ RQ \in Seq(PACKET) /\ PQ \in Seq(PACKET) /\ MSHR \in Seq(ENTRY)
  BY DEF OnceInv, IInv, TypeOK
<1>2. CASE handle_fill
  BY <1>2, FillOnce
<1>3. CASE handle_writeback
  BY <1>3, WritebackOnce
<1>4. CASE UNCHANGED <<block, MSHR, current_assoc>>
  BY <1>1, <1>4, OnceKept DEF eq_addr
<1>5. CASE handle_read
  <2>1. RQ # <<>> /\ ServeRead(RQ[1]) /\ UNCHANGED <<block, current_assoc>>
    BY <1>5 DEF handle_read, has_ready
  <2>. QED
    BY <1>1, <1>4, <2>1, MissOnce DEF ServeRead
<1>6. CASE handle_prefetch
  <2>1. PQ # <<>> /\ ServeRead(PQ[1]) /\ UNCHANGED <<block, current_assoc>>
    BY <1>6 DEF handle_prefetch, has_ready
  <2>. QED
    BY <1>1, <1>4, <2>1, MissOnce DEF ServeRead
<1>7. CASE EndCycle
  <2>1. /\ SamePackets(MSHR, MSHR') /\ UNCHANGED <<block, current_assoc>>
    BY <1>1, <1>7, AgedMshrSame DEF EndCycle
  <2>. QED
    BY <1>1, <2>1, SameOnce
<1>8. ASSUME NEW l \in Line, return_data(l) PROVE NoDuplicateLine'
  <2>1. /\ SamePackets(MSHR, MSHR') /\ UNCHANGED <<block, current_assoc>>
    BY <1>1, <1>8, return_dataSame DEF return_data
  <2>. QED
    BY <1>1, <2>1, SameOnce
<1>9. CASE \/ BeginCycle \/ EndFill \/ EndWrites \/ va_translate_prefetches
           \/ \E l \in Line : LowerDrain(l)
           \/ UNCHANGED vars
  <2>1. UNCHANGED <<block, MSHR, current_assoc>>
    BY <1>9 DEF BeginCycle, EndFill, EndWrites, va_translate_prefetches,
       LowerDrain, vars
  <2>. QED
    BY <1>4, <2>1
<1>10. CASE Above
  <2>1. UNCHANGED <<block, MSHR, current_assoc>>
        \/ \E n \in Assocs : adjust_assoc(n)
    BY <1>10 DEF Above, add_rq, add_wq, add_pq, prefetch_line
  <2>2. ASSUME NEW n \in Assocs, adjust_assoc(n) PROVE FALSE
    BY <1>1, <2>2 DEF adjust_assoc, AllWays
  <2>. QED
    BY <1>4, <2>1, <2>2
<1>. QED
  BY <1>2, <1>3, <1>5, <1>6, <1>7, <1>8, <1>9, <1>10 DEF Next, Operate, Below

(* A cache that is only read and stored to (an L1I, a TLB, an L1D), and     *)
(* from which no metadata prefetcher takes ways, never holds a line twice   *)
(* and never holds one it is still fetching.                                *)
THEOREM CacheNoDuplicateLine ==
  ASSUME WqTypes \subseteq {"RFO"}, Assocs \subseteq {NUM_WAY}
  PROVE  Spec => []NoDuplicateLine
<1>1. Init => AllWays /\ NoDuplicateLine
  BY DEF Init, AllWays, NoDuplicateLine, HitWays
<1>2. OnceInv /\ IInv' /\ [Next]_vars => AllWays' /\ NoDuplicateLine'
  BY AllWaysStep, OnceStep DEF OnceInv
<1>3. OnceInv <=> IInv /\ WqKnown /\ AllWays /\ NoDuplicateLine
  BY DEF OnceInv
<1>. QED
  BY <1>1, <1>2, <1>3, Invariance, WqInvariance, PTL DEF Spec

-----------------------------------------------------------------------------
(* Replies.  Each of the three places that name requesters names r for l at *)
(* most once, no two of them do, and one does exactly when r waits for l.   *)
OwedOnce(r, l) ==
  /\ Single(RQ, r, l) /\ Single(PQ, r, l) /\ Single(MSHR, r, l)
  /\ ~ (Has(RQ, r, l) /\ Has(PQ, r, l))
  /\ ~ (Has(RQ, r, l) /\ Has(MSHR, r, l))
  /\ ~ (Has(PQ, r, l) /\ Has(MSHR, r, l))
  /\ <<r, l>> \in outstanding <=> Has(RQ, r, l) \/ Has(PQ, r, l) \/ Has(MSHR, r, l)

RepliesInv == \A r \in Requester, l \in Line : OwedOnce(r, l)

(* A list that is Single has one element or none.                           *)
LEMMA ListedOnce ==
  ASSUME NEW q, NEW r, NEW l, Single(q, r, l)
  PROVE  Cardinality(Listed(q, r, l)) = IF Has(q, r, l) THEN 1 ELSE 0
<1>. DEFINE L == Listed(q, r, l)
<1>1. \A x \in L : \E i \in DOMAIN q : \E k \in DOMAIN q[i].rets :
         /\ line_of[q[i].address] = l /\ q[i].rets[k] = r /\ x = <<i, k>>
  BY DEF Listed
<1>2. \A i \in DOMAIN q : \A k \in DOMAIN q[i].rets :
         line_of[q[i].address] = l /\ q[i].rets[k] = r => <<i, k>> \in L
  BY DEF Listed
<1>. HIDE DEF L
<1>3. CASE Has(q, r, l)
  <2>1. PICK i \in DOMAIN q : Names(q[i], r, l)
    BY <1>3 DEF Has
  <2>2. PICK k \in DOMAIN q[i].rets : q[i].rets[k] = r
    BY <2>1 DEF Names, Named
  <2>3. <<i, k>> \in L
    BY <1>2, <2>1, <2>2 DEF Names
  <2>4. ASSUME NEW x \in L PROVE x = <<i, k>>
    <3>4. PICK j \in DOMAIN q : \E m \in DOMAIN q[j].rets :
             line_of[q[j].address] = l /\ q[j].rets[m] = r /\ x = <<j, m>>
      BY <1>1
    <3>1. PICK m \in DOMAIN q[j].rets :
             line_of[q[j].address] = l /\ q[j].rets[m] = r /\ x = <<j, m>>
      BY <3>4
    <3>2. j = i
      BY <2>1, <3>1 DEF Single, Names, Named
    <3>3. m = k
      BY <2>1, <2>2, <3>1, <3>2 DEF Single, Names, OnceNames, OnceNamed
    <3>. QED
      BY <3>1, <3>2, <3>3
  <2>5. L = {<<i, k>>}
    BY <2>3, <2>4
  <2>6. Cardinality(L) = 1
    BY <2>5, FS_Singleton, Zenon
  <2>. QED
    BY <1>3, <2>6 DEF L
<1>4. CASE ~Has(q, r, l)
  <2>1. L = {}
    BY <1>1, <1>4 DEF Has, Names, Named
  <2>2. Cardinality(L) = 0
    BY <2>1, FS_EmptySet, Zenon
  <2>. QED
    BY <1>4, <2>2 DEF L
<1>. QED
  BY <1>3, <1>4

(* readlike_miss takes the packet into the MSHR.                            *)
LEMMA MissAdds ==
  ASSUME IInv, NEW p \in PACKET, readlike_miss(p), NEW r, NEW l
  PROVE  Adds(MSHR, MSHR', p, r, l)
<1>. DEFINE found == Matching(MSHR, p.address)
            i == First(found)
<1>1. MSHR \in Seq(ENTRY) /\ Len(MSHR) \in Nat /\ DOMAIN MSHR = 1 .. Len(MSHR)
  BY MshrFields DEF IInv, GoodMshr
<1>2. CASE found # {}
  <2>1. i \in DOMAIN MSHR /\ MSHR[i] \in ENTRY /\ eq_addr(MSHR[i].address, p.address)
    BY <1>1, <1>2, MatchingPlaces
  <2>2. MergeMiss(p, i)
    BY <1>2 DEF readlike_miss
  <2>3. PICK e : /\ MSHR' = [MSHR EXCEPT ![i] = e]
                 /\ eq_addr(e.address, p.address)
                 /\ e.rets = packet_dep_merge(MSHR[i].rets, p.rets)
    <3>. DEFINE merged == packet_dep_merge(MSHR[i].rets, p.rets)
                e1 == [p EXCEPT !.due = MSHR[i].due, !.rets = merged]
                e2 == [MSHR[i] EXCEPT !.level = min_level(MSHR[i].level, p.level),
                                      !.rets = merged]
    <3>1. e1.address = p.address /\ e1.rets = merged
      BY DEF PACKET
    <3>2. e2.address = MSHR[i].address /\ e2.rets = merged
      BY <2>1 DEF ENTRY
    <3>3. MSHR' = [MSHR EXCEPT ![i] = e1] \/ MSHR' = [MSHR EXCEPT ![i] = e2]
      BY <2>2 DEF MergeMiss
    <3>. HIDE DEF e1, e2, i
    <3>. QED
      BY <2>1, <3>1, <3>2, <3>3 DEF eq_addr
  <2>4. MSHR[i].rets \in Seq(Requester) /\ p.rets \in Seq(Requester)
    BY <2>1, PacketFields DEF ENTRY
  <2>. HIDE DEF i
  <2>. QED
    BY <2>1, <2>3, <2>4, MergeAdds
<1>3. CASE found = {}
  <2>. DEFINE e == [p EXCEPT !.due = Never]
              m == Append(MSHR, e)
  <2>1. MSHR' = m \/ MSHR' = Returned(m, Len(m))
    BY <1>3 DEF readlike_miss, AllocateMiss
  <2>2. /\ e \in ENTRY /\ e.address = p.address /\ e.rets = p.rets
        /\ e.due = Never
    BY LatencyTypes DEF PACKET, ENTRY
  <2>. HIDE DEF e
  <2>3. Adds(MSHR, m, p, r, l)
    BY <1>1, <2>2, AppendAdds
  <2>4. CASE MSHR' = Returned(m, Len(m))
    <3>1. m \in Seq(ENTRY) /\ Len(m) \in DOMAIN m /\ m[Len(m)].due = Never
      BY <1>1, <2>2
    <3>. HIDE DEF m
    <3>2. Keeps(m, MSHR', r, l)
      BY <2>4, <3>1, ReturnedSame, SameKeeps
    <3>. QED
      BY <2>3, <3>2 DEF Adds, Keeps
  <2>. QED
    BY <2>1, <2>3, <2>4
<1>. QED
  BY <1>2, <1>3

(* EnterPQ takes the packet into the prefetch queue.                        *)
LEMMA EnterAdds ==
  ASSUME TypeOK, NEW p \in PACKET, EnterPQ(p), NEW r, NEW l
  PROVE  Adds(PQ, PQ', p, r, l)
<1>. DEFINE dup == Matching(PQ, p.address)
            i == First(dup)
<1>1. PQ \in Seq(PACKET)
  BY DEF TypeOK
<1>2. CASE dup # {}
  <2>1. i \in DOMAIN PQ /\ PQ[i] \in PACKET /\ eq_addr(PQ[i].address, p.address)
    BY <1>1, <1>2, MatchingPlaces
  <2>. DEFINE e == [PQ[i] EXCEPT !.level = min_level(@, p.level),
                                 !.rets = packet_dep_merge(@, p.rets)]
  <2>2. /\ e.address = PQ[i].address
        /\ e.rets = packet_dep_merge(PQ[i].rets, p.rets)
    BY <2>1 DEF PACKET
  <2>3. PQ' = [PQ EXCEPT ![i] = e]
    BY <1>2, <2>1 DEF EnterPQ, PACKET
  <2>4. PQ[i].rets \in Seq(Requester) /\ p.rets \in Seq(Requester)
    BY <2>1, PacketFields
  <2>. HIDE DEF i, e
  <2>. QED
    BY <2>1, <2>2, <2>3, <2>4, MergeAdds
<1>3. CASE dup = {}
  <2>. DEFINE e == [p EXCEPT !.due = HIT_LATENCY]
  <2>1. e \in PACKET /\ e.address = p.address /\ e.rets = p.rets
    BY LatencyTypes DEF PACKET
  <2>2. PQ' = Append(PQ, e)
    BY <1>3 DEF EnterPQ
  <2>. HIDE DEF e
  <2>. QED
    BY <1>1, <2>1, <2>2, AppendAdds
<1>. QED
  BY <1>2, <1>3

(* A packet nobody waits for adds no one.                                   *)
LEMMA NobodyAdded ==
  ASSUME NEW q, NEW n, NEW p, p.rets = <<>>, NEW r, NEW l, Adds(q, n, p, r, l)
  PROVE  Keeps(q, n, r, l)
BY DEF Adds, Keeps, Names, Named, OnceNames, OnceNamed

LEMMA NamedAlone ==
  ASSUME NEW p, NEW u, p.rets = <<u>>, NEW r, NEW l
  PROVE  /\ OnceNames(p, r, l)
         /\ Names(p, r, l) <=> line_of[p.address] = l /\ r = u
<1>1. \A k : k \in DOMAIN <<u>> <=> k = 1
  OBVIOUS
<1>2. <<u>>[1] = u
  OBVIOUS
<1>. QED
  BY <1>1, <1>2 DEF OnceNames, OnceNamed, Names, Named

LEMMA AnswersNamed ==
  ASSUME NEW p, NEW r, NEW l
  PROVE  <<r, l>> \in Answers(p) <=> Names(p, r, l)
BY DEF Answers, Names, Named

(* No queue changes but by moves. *)
LEMMA KeepsOwed ==
  ASSUME NEW r, NEW l, OwedOnce(r, l),
         Keeps(RQ, RQ', r, l), Keeps(PQ, PQ', r, l), Keeps(MSHR, MSHR', r, l),
         <<r, l>> \in outstanding' <=> <<r, l>> \in outstanding
  PROVE  OwedOnce(r, l)'
<1>1. (Has(RQ, r, l)' <=> Has(RQ, r, l)) /\ Single(RQ, r, l)'
  BY DEF OwedOnce, Keeps, Has, Single
<1>2. (Has(PQ, r, l)' <=> Has(PQ, r, l)) /\ Single(PQ, r, l)'
  BY DEF OwedOnce, Keeps, Has, Single
<1>3. (Has(MSHR, r, l)' <=> Has(MSHR, r, l)) /\ Single(MSHR, r, l)'
  BY DEF OwedOnce, Keeps, Has, Single
<1>. QED
  BY <1>1, <1>2, <1>3 DEF OwedOnce

LEMMA KeepsSame ==
  ASSUME NEW q, NEW r, NEW l
  PROVE  Keeps(q, q, r, l)
BY DEF Keeps

(* The head of a queue is served. *)
LEMMA ServeOwed ==
  ASSUME IInv, NEW q \in Seq(PACKET), q # <<>>, ServeRead(q[1]), NEW r, NEW l
  PROVE  LET p == q[1]
         IN  \/ /\ Keeps(MSHR, MSHR', r, l)
                /\ <<r, l>> \in outstanding' <=>
                     <<r, l>> \in outstanding /\ ~Names(p, r, l)
             \/ /\ Adds(MSHR, MSHR', p, r, l)
                /\ outstanding' = outstanding
<1>. DEFINE p == q[1]
<1>1. p \in PACKET
  OBVIOUS
<1>. HIDE DEF p
<1>2. CASE outstanding' = outstanding \ Answers(p) /\ UNCHANGED MSHR
  BY <1>2, AnswersNamed, KeepsSame DEF p
<1>3. CASE readlike_miss(p) /\ UNCHANGED outstanding
  BY <1>1, <1>3, MissAdds DEF p
<1>. QED
  BY <1>2, <1>3 DEF ServeRead, p

(* A new request enters one of the two queues. *)
LEMMA AskedOnce ==
  ASSUME NEW p, NEW u, p.rets = <<u>>, NEW r, NEW l, OwedOnce(r, l),
         <<u, line_of[p.address]>> \notin outstanding,
         outstanding' = outstanding \cup {<<u, line_of[p.address]>>},
         UNCHANGED MSHR,
         \/ Adds(RQ, RQ', p, r, l) /\ UNCHANGED PQ
         \/ Adds(PQ, PQ', p, r, l) /\ UNCHANGED RQ
  PROVE  OwedOnce(r, l)'
<1>1. /\ OnceNames(p, r, l)
      /\ Names(p, r, l) <=> line_of[p.address] = l /\ r = u
  BY NamedAlone
<1>2. Names(p, r, l) => ~Has(RQ, r, l) /\ ~Has(PQ, r, l) /\ ~Has(MSHR, r, l)
  BY <1>1 DEF OwedOnce
<1>3. <<r, l>> \in outstanding' <=> <<r, l>> \in outstanding \/ Names(p, r, l)
  BY <1>1
<1>4. CASE Adds(RQ, RQ', p, r, l) /\ UNCHANGED PQ
  <2>1. /\ Single(MSHR, r, l)' <=> Single(MSHR, r, l)
        /\ Has(MSHR, r, l)' <=> Has(MSHR, r, l)
        /\ Single(RQ, r, l)' <=> Single(RQ', r, l)
        /\ Has(RQ, r, l)' <=> Has(RQ', r, l)
        /\ Single(PQ, r, l)' <=> Single(PQ, r, l)
        /\ Has(PQ, r, l)' <=> Has(PQ, r, l)
    BY <1>4 DEF Single, Has
  <2>. QED
    BY <1>1, <1>2, <1>3, <1>4, <2>1 DEF OwedOnce, Adds
<1>5. CASE Adds(PQ, PQ', p, r, l) /\ UNCHANGED RQ
  <2>1. /\ Single(MSHR, r, l)' <=> Single(MSHR, r, l)
        /\ Has(MSHR, r, l)' <=> Has(MSHR, r, l)
        /\ Single(PQ, r, l)' <=> Single(PQ', r, l)
        /\ Has(PQ, r, l)' <=> Has(PQ', r, l)
        /\ Single(RQ, r, l)' <=> Single(RQ, r, l)
        /\ Has(RQ, r, l)' <=> Has(RQ, r, l)
    BY <1>5 DEF Single, Has
  <2>. QED
    BY <1>1, <1>2, <1>3, <1>5, <2>1 DEF OwedOnce, Adds
<1>. QED
  BY <1>4, <1>5

(* This cache's own prefetches enter the prefetch queue for nobody. *)
LEMMA OwnEnters ==
  ASSUME TypeOK, NEW v \in Prefetchable,
         EnterPQ(NewPacket(va_to_pa[v], "PREFETCH", "here", <<>>, 0)), NEW r, NEW l
  PROVE  Keeps(PQ, PQ', r, l)
<1>. DEFINE p == NewPacket(va_to_pa[v], "PREFETCH", "here", <<>>, 0)
<1>1. p \in PACKET
  BY OwnPrefetch
<1>2. p.rets = <<>>
  BY DEF NewPacket
<1>. HIDE DEF p
<1>3. EnterPQ(p)
  BY DEF p
<1>. QED
  BY <1>1, <1>2, <1>3, EnterAdds, NobodyAdded

(* A demand and a prefetch arrive from above: nobody else is answered for   *)
(* it, since whoever asks does not wait for the line yet.                   *)
LEMMA add_rqOwed ==
  ASSUME IInv, NEW u \in Requester, NEW a \in Addr, NEW t \in RqTypes,
         add_rq(u, a, t), NEW r, NEW l, OwedOnce(r, l)
  PROVE  OwedOnce(r, l)'
<1>. DEFINE dup == Matching(RQ, a)
            i == First(dup)
            p == NewPacket(a, t, demand_level, <<u>>, HIT_LATENCY)
<1>1. /\ RQ \in Seq(PACKET) /\ <<u, line_of[a]>> \notin outstanding
      /\ outstanding' = outstanding \cup {<<u, line_of[a]>>}
      /\ UNCHANGED <<PQ, MSHR>>
  BY DEF IInv, TypeOK, add_rq
<1>2. p \in PACKET /\ p.address = a /\ p.rets = <<u>>
  <2>1. /\ t \in Type /\ demand_level \in Level /\ <<u>> \in Seq(Requester)
        /\ HIT_LATENCY \in 0 .. Longest
    BY LatencyTypes, CacheAssumption
  <2>2. p \in PACKET
    BY <2>1, NewPacketType
  <2>. QED
    BY <2>2 DEF NewPacket
<1>. HIDE DEF p
<1>3. Adds(RQ, RQ', p, r, l)
  <2>1. CASE dup # {} /\ packet_can_merge
    <3>1. i \in DOMAIN RQ /\ RQ[i] \in PACKET /\ eq_addr(RQ[i].address, a)
      BY <1>1, <2>1, MatchingPlaces
    <3>. DEFINE rs == packet_dep_merge(RQ[i].rets, <<u>>)
                e == [RQ[i] EXCEPT !.rets = rs]
    <3>2. RQ' = [RQ EXCEPT ![i] = e]
      BY <2>1 DEF add_rq
    <3>3. e.address = RQ[i].address /\ e.rets = rs
      BY <3>1 DEF PACKET
    <3>4. RQ[i].rets \in Seq(Requester) /\ p.rets \in Seq(Requester)
      BY <1>2, <3>1, PacketFields
    <3>. HIDE DEF e, i
    <3>. QED
      BY <1>2, <3>1, <3>2, <3>3, <3>4, MergeAdds
  <2>2. CASE ~ (dup # {} /\ packet_can_merge)
    <3>1. RQ' = Append(RQ, p)
      BY <2>2 DEF add_rq, p
    <3>. QED
      BY <1>1, <1>2, <3>1, AppendAdds
  <2>. QED
    BY <2>1, <2>2
<1>. QED
  BY <1>1, <1>2, <1>3, AskedOnce

LEMMA add_pqOwed ==
  ASSUME IInv, NEW u \in Requester, NEW a \in Addr, NEW t \in PqTypes,
         add_pq(u, a, t), NEW r, NEW l, OwedOnce(r, l)
  PROVE  OwedOnce(r, l)'
<1>. DEFINE p == NewPacket(a, t, "above", <<u>>, 0)
<1>1. /\ TypeOK /\ <<u, line_of[a]>> \notin outstanding
      /\ outstanding' = outstanding \cup {<<u, line_of[a]>>}
      /\ UNCHANGED <<RQ, MSHR>> /\ EnterPQ(p)
  BY DEF IInv, add_pq
<1>2. p \in PACKET /\ p.address = a /\ p.rets = <<u>>
  <2>1. t \in Type /\ "above" \in Level /\ <<u>> \in Seq(Requester)
    BY CacheAssumption DEF Level
  <2>2. p \in PACKET
    BY <2>1, NewPacketType, LatencyTypes
  <2>. QED
    BY <2>2 DEF NewPacket
<1>. HIDE DEF p
<1>3. Adds(PQ, PQ', p, r, l)
  BY <1>1, <1>2, EnterAdds
<1>. QED
  BY <1>1, <1>2, <1>3, AskedOnce

LEMMA OwedStep ==
  ASSUME IInv, WqKnown, RepliesInv, [Next]_vars,
         NEW r \in Requester, NEW l \in Line
  PROVE  OwedOnce(r, l)'
<1>1. /\ OwedOnce(r, l) /\ TypeOK
      /\ RQ \in Seq(PACKET) /\ PQ \in Seq(PACKET) /\ WQ \in Seq(PACKET)
      /\ MSHR \in Seq(ENTRY)
  BY DEF RepliesInv, IInv, TypeOK
<1>2. CASE UNCHANGED <<RQ, PQ, MSHR, outstanding>>
  BY <1>1, <1>2, KeepsOwed, KeepsSame
<1>3. CASE handle_fill
  <2>1. /\ MSHR # <<>> /\ MSHR' = Tail(MSHR) /\ UNCHANGED <<RQ, PQ>>
        /\ outstanding' = outstanding \ Answers(MSHR[1])
    BY <1>3 DEF handle_fill, FillReady, queues
  <2>2. Takes(MSHR, MSHR', MSHR[1], r, l)
    BY <1>1, <2>1, TailTakes
  <2>3. <<r, l>> \in Answers(MSHR[1]) <=> Names(MSHR[1], r, l)
    BY AnswersNamed
  <2>4. /\ Single(MSHR, r, l)' <=> Single(MSHR', r, l)
        /\ Has(MSHR, r, l)' <=> Has(MSHR', r, l)
        /\ Single(RQ, r, l)' <=> Single(RQ, r, l)
        /\ Has(RQ, r, l)' <=> Has(RQ, r, l)
        /\ Single(PQ, r, l)' <=> Single(PQ, r, l)
        /\ Has(PQ, r, l)' <=> Has(PQ, r, l)
    BY <2>1 DEF Single, Has
  <2>. QED
    BY <1>1, <2>1, <2>2, <2>3, <2>4 DEF OwedOnce, Takes
<1>4. CASE handle_writeback
  <2>1. WQ # <<>> /\ UNCHANGED <<RQ, PQ, outstanding>>
        /\ (UNCHANGED MSHR \/ readlike_miss(WQ[1]))
    BY <1>4 DEF handle_writeback, WriteReady, has_ready
  <2>2. WQ[1] \in PACKET /\ WQ[1].rets = <<>>
    <3>1. 1 \in DOMAIN WQ
      BY <1>1, <2>1
    <3>2. WQ[1] \in PACKET
      BY <1>1, <3>1
    <3>. QED
      BY <3>1, <3>2 DEF WqKnown
  <2>3. Keeps(MSHR, MSHR', r, l)
    BY <2>1, <2>2, MissAdds, NobodyAdded, KeepsSame
  <2>. QED
    BY <1>1, <2>1, <2>3, KeepsOwed, KeepsSame
<1>5. CASE handle_read
  <2>1. RQ # <<>> /\ ServeRead(RQ[1]) /\ RQ' = Tail(RQ) /\ UNCHANGED PQ
    BY <1>5 DEF handle_read, has_ready
  <2>2. Takes(RQ, RQ', RQ[1], r, l)
    BY <1>1, <2>1, TailTakes
  <2>3. \/ /\ Keeps(MSHR, MSHR', r, l)
           /\ <<r, l>> \in outstanding' <=>
                <<r, l>> \in outstanding /\ ~Names(RQ[1], r, l)
        \/ /\ Adds(MSHR, MSHR', RQ[1], r, l)
           /\ outstanding' = outstanding
    BY <1>1, <2>1, ServeOwed
  <2>4. /\ Single(MSHR, r, l)' <=> Single(MSHR', r, l)
        /\ Has(MSHR, r, l)' <=> Has(MSHR', r, l)
        /\ Single(RQ, r, l)' <=> Single(RQ', r, l)
        /\ Has(RQ, r, l)' <=> Has(RQ', r, l)
        /\ Single(PQ, r, l)' <=> Single(PQ, r, l)
        /\ Has(PQ, r, l)' <=> Has(PQ, r, l)
    BY <2>1 DEF Single, Has
  <2>. QED
    BY <1>1, <2>2, <2>3, <2>4 DEF OwedOnce, Takes, Adds, Keeps
<1>6. CASE handle_prefetch
  <2>1. PQ # <<>> /\ ServeRead(PQ[1]) /\ PQ' = Tail(PQ) /\ UNCHANGED RQ
    BY <1>6 DEF handle_prefetch, has_ready
  <2>2. Takes(PQ, PQ', PQ[1], r, l)
    BY <1>1, <2>1, TailTakes
  <2>3. \/ /\ Keeps(MSHR, MSHR', r, l)
           /\ <<r, l>> \in outstanding' <=>
                <<r, l>> \in outstanding /\ ~Names(PQ[1], r, l)
        \/ /\ Adds(MSHR, MSHR', PQ[1], r, l)
           /\ outstanding' = outstanding
    BY <1>1, <2>1, ServeOwed
  <2>4. /\ Single(MSHR, r, l)' <=> Single(MSHR', r, l)
        /\ Has(MSHR, r, l)' <=> Has(MSHR', r, l)
        /\ Single(PQ, r, l)' <=> Single(PQ', r, l)
        /\ Has(PQ, r, l)' <=> Has(PQ', r, l)
        /\ Single(RQ, r, l)' <=> Single(RQ, r, l)
        /\ Has(RQ, r, l)' <=> Has(RQ, r, l)
    BY <2>1 DEF Single, Has
  <2>. QED
    BY <1>1, <2>2, <2>3, <2>4 DEF OwedOnce, Takes, Adds, Keeps
<1>7. CASE va_translate_prefetches
  <2>1. UNCHANGED <<RQ, MSHR, outstanding>>
    BY <1>7 DEF va_translate_prefetches
  <2>2. \/ UNCHANGED PQ
        \/ /\ VAPQ # <<>>
           /\ EnterPQ(NewPacket(va_to_pa[VAPQ[1].target], "PREFETCH", "here", <<>>, 0))
    BY <1>7 DEF va_translate_prefetches, Translated, has_ready
  <2>3. VAPQ # <<>> => VAPQ[1].target \in Prefetchable
    <3>1. VAPQ \in Seq([target : Prefetchable, due : 0 .. Longest])
      BY <1>1 DEF TypeOK
    <3>2. VAPQ # <<>> => VAPQ[1] \in [target : Prefetchable, due : 0 .. Longest]
      BY <3>1, ServedQueue
    <3>. QED
      BY <3>2
  <2>4. Keeps(PQ, PQ', r, l)
    BY <1>1, <2>2, <2>3, OwnEnters, KeepsSame
  <2>. QED
    BY <1>1, <2>1, <2>4, KeepsOwed, KeepsSame
<1>8. CASE EndCycle
  <2>1. /\ RQ' = Aged(RQ) /\ PQ' = Aged(PQ) /\ UNCHANGED outstanding
        /\ SamePackets(MSHR, MSHR')
    BY <1>1, <1>8, AgedMshrSame DEF EndCycle
  <2>. QED
    BY <1>1, <2>1, AgedSame, SameKeeps, KeepsOwed
<1>9. ASSUME NEW x \in Line, return_data(x) PROVE OwedOnce(r, l)'
  <2>1. SamePackets(MSHR, MSHR') /\ UNCHANGED <<RQ, PQ, outstanding>>
    BY <1>1, <1>9, return_dataSame DEF return_data, queues
  <2>. QED
    BY <1>1, <2>1, SameKeeps, KeepsSame, KeepsOwed
<1>10. ASSUME NEW u \in Requester, NEW a \in Addr, NEW t \in RqTypes, add_rq(u, a, t)
       PROVE  OwedOnce(r, l)'
  BY <1>1, <1>10, add_rqOwed
<1>11. ASSUME NEW u \in Requester, NEW a \in Addr, NEW t \in PqTypes, add_pq(u, a, t)
       PROVE  OwedOnce(r, l)'
  BY <1>1, <1>11, add_pqOwed
<1>12. ASSUME NEW v \in Prefetchable, prefetch_line(v) PROVE OwedOnce(r, l)'
  <2>1. /\ UNCHANGED <<RQ, MSHR, outstanding>>
        /\ \/ UNCHANGED PQ
           \/ EnterPQ(NewPacket(va_to_pa[v], "PREFETCH", "here", <<>>, 0))
    BY <1>12 DEF prefetch_line
  <2>2. Keeps(PQ, PQ', r, l)
    BY <1>1, <2>1, OwnEnters, KeepsSame
  <2>. QED
    BY <1>1, <2>1, <2>2, KeepsOwed, KeepsSame
<1>13. CASE \/ BeginCycle \/ EndFill \/ EndWrites \/ UNCHANGED vars
            \/ \E x \in Line : LowerDrain(x)
            \/ \E a \in Addr, t \in WqTypes : add_wq(a, t)
            \/ \E n \in Assocs : adjust_assoc(n)
  <2>1. UNCHANGED <<RQ, PQ, MSHR, outstanding>>
    BY <1>13 DEF BeginCycle, EndFill, EndWrites, LowerDrain, add_wq, adjust_assoc,
       queues, vars
  <2>. QED
    BY <1>2, <2>1
<1>. QED
  BY <1>3, <1>4, <1>5, <1>6, <1>7, <1>8, <1>9, <1>10, <1>11, <1>12, <1>13
     DEF Next, Operate, Above, Below

(* No reply is lost and none is given twice, in any cache: whoever waits    *)
(* for a line is named for it in exactly one place, once, and who does not  *)
(* wait is named nowhere.                                                   *)
THEOREM CacheRepliesOwed == Spec => []RepliesOwed
<1>1. Init => RepliesInv
  BY DEF Init, RepliesInv, OwedOnce, Single, Has
<1>2. IInv /\ WqKnown /\ RepliesInv /\ [Next]_vars => RepliesInv'
  <2>. SUFFICES ASSUME IInv, WqKnown, RepliesInv, [Next]_vars,
                       NEW r \in Requester, NEW l \in Line
                PROVE  OwedOnce(r, l)'
    BY DEF RepliesInv
  <2>. QED
    BY OwedStep
<1>3. RepliesInv => RepliesOwed
  <2>. SUFFICES ASSUME NEW r \in Requester, NEW l \in Line, OwedOnce(r, l)
                PROVE  Cardinality(Listed(RQ, r, l)) + Cardinality(Listed(PQ, r, l))
                         + Cardinality(Listed(MSHR, r, l))
                       = IF <<r, l>> \in outstanding THEN 1 ELSE 0
    BY DEF RepliesInv, RepliesOwed
  <2>1. /\ Cardinality(Listed(RQ, r, l)) = IF Has(RQ, r, l) THEN 1 ELSE 0
        /\ Cardinality(Listed(PQ, r, l)) = IF Has(PQ, r, l) THEN 1 ELSE 0
        /\ Cardinality(Listed(MSHR, r, l)) = IF Has(MSHR, r, l) THEN 1 ELSE 0
    BY ListedOnce DEF OwedOnce
  <2>. QED
    BY <2>1 DEF OwedOnce
<1>. QED
  BY <1>1, <1>2, <1>3, Invariance, WqInvariance, PTL DEF Spec
=============================================================================
