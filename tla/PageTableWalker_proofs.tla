---------------------- MODULE PageTableWalker_proofs ----------------------
(***************************************************************************)
(* The walker for every geometry, shuffle and set of pages.  The walker's  *)
(* steps on the page tables are steps of VirtualMemory, so what            *)
(* VirtualMemory_proofs shows of memory holds under the walker; on top of  *)
(* the types, the theorems are those of the walks themselves.              *)
(***************************************************************************)
EXTENDS PageTableWalker, VirtualMemory_proofs, FiniteSetTheorems

(* The due fields of a list of walks are integers.                          *)
Dated(m) == \A i \in DOMAIN m : m[i].due \in Int

-----------------------------------------------------------------------------
(* Sorting.  The rank of a place in the list counts the places that come    *)
(* before it in the order, itself included; it numbers the places from 1 to *)
(* the length of the list, each once.                                       *)
LEMMA RankBounds ==
  ASSUME NEW S, NEW m \in Seq(S), Dated(m), NEW i \in DOMAIN m
  PROVE  Rank(m, i) \in 1 .. Len(m)
<1>. DEFINE before == {j \in DOMAIN m : \/ m[j].due < m[i].due
                                        \/ m[j].due = m[i].due /\ j <= i}
<1>1. DOMAIN m = 1 .. Len(m) /\ Len(m) \in Nat
  OBVIOUS
<1>2. IsFiniteSet(DOMAIN m) /\ Cardinality(DOMAIN m) = Len(m)
  <2>1. /\ IsFiniteSet(1 .. Len(m))
        /\ Cardinality(1 .. Len(m)) = IF 1 > Len(m) THEN 0 ELSE Len(m) - 1 + 1
    BY <1>1, FS_Interval
  <2>. QED
    BY <1>1, <2>1
<1>3. before \in SUBSET (DOMAIN m) /\ i \in before
  BY <1>1
<1>. HIDE DEF before
<1>4. IsFiniteSet(before) /\ Cardinality(before) <= Len(m)
  BY <1>2, <1>3, FS_Subset
<1>5. Cardinality(before) \in Nat /\ (Cardinality(before) = 0 <=> before = {})
  BY <1>4, FS_CardinalityType, FS_EmptySet
<1>6. Cardinality(before) \in 1 .. Len(m)
  BY <1>1, <1>3, <1>4, <1>5
<1>. QED
  BY <1>6 DEF Rank, before

(* A place that comes before another has the smaller rank.                  *)
LEMMA RankOrder ==
  ASSUME NEW S, NEW m \in Seq(S), Dated(m), NEW i \in DOMAIN m, NEW j \in DOMAIN m,
         \/ m[i].due < m[j].due
         \/ m[i].due = m[j].due /\ i < j
  PROVE  Rank(m, i) < Rank(m, j)
<1>. DEFINE before(n) == {x \in DOMAIN m : \/ m[x].due < m[n].due
                                           \/ m[x].due = m[n].due /\ x <= n}
<1>1. DOMAIN m = 1 .. Len(m) /\ Len(m) \in Nat
  OBVIOUS
<1>2. IsFiniteSet(DOMAIN m)
  BY <1>1, FS_Interval
<1>3. before(i) \in SUBSET before(j) /\ before(j) \in SUBSET (DOMAIN m)
  BY <1>1 DEF Dated
<1>4. j \in before(j) /\ j \notin before(i)
  BY <1>1 DEF Dated
<1>5. IsFiniteSet(before(j))
  BY <1>2, <1>3, FS_Subset
<1>6. /\ IsFiniteSet(before(i)) /\ Cardinality(before(i)) <= Cardinality(before(j))
      /\ Cardinality(before(i)) # Cardinality(before(j))
  BY <1>3, <1>4, <1>5, FS_Subset
<1>7. Cardinality(before(i)) \in Nat /\ Cardinality(before(j)) \in Nat
  BY <1>5, <1>6, FS_CardinalityType
<1>8. Cardinality(before(i)) < Cardinality(before(j))
  BY <1>6, <1>7
<1>. QED
  BY <1>8 DEF Rank

(* So every place from 1 to the length is the rank of one place.            *)
LEMMA RankOnto ==
  ASSUME NEW S, NEW m \in Seq(S), Dated(m), NEW n \in DOMAIN m
  PROVE  \E i \in DOMAIN m : Rank(m, i) = n
<1>. DEFINE r == [i \in DOMAIN m |-> Rank(m, i)]
<1>1. DOMAIN m = 1 .. Len(m) /\ Len(m) \in Nat
  OBVIOUS
<1>2. r \in [DOMAIN m -> DOMAIN m]
  BY <1>1, RankBounds
<1>3. \A i, j \in DOMAIN m : Rank(m, i) = Rank(m, j) => i = j
  <2>. SUFFICES ASSUME NEW i \in DOMAIN m, NEW j \in DOMAIN m, i # j
                PROVE  Rank(m, i) # Rank(m, j)
    OBVIOUS
  <2>1. Rank(m, i) \in Int /\ Rank(m, j) \in Int
    BY <1>1, RankBounds
  <2>2. \/ m[i].due < m[j].due
        \/ m[i].due = m[j].due /\ i < j
        \/ m[j].due < m[i].due
        \/ m[j].due = m[i].due /\ j < i
    BY <1>1 DEF Dated
  <2>3. Rank(m, i) < Rank(m, j) \/ Rank(m, j) < Rank(m, i)
    BY <2>2, RankOrder
  <2>. QED
    BY <2>1, <2>3
<1>4. r \in Injection(DOMAIN m, DOMAIN m)
  BY <1>2, <1>3 DEF Injection, IsInjective
<1>5. IsFiniteSet(DOMAIN m)
  BY <1>1, FS_Interval
<1>6. r \in Surjection(DOMAIN m, DOMAIN m)
  BY <1>4, <1>5, FS_Injection
<1>7. \E i \in DOMAIN m : r[i] = n
  BY <1>6 DEF Surjection
<1>. QED
  BY <1>7

(* What sorting a list gives: its elements, each at one place, in order.    *)
LEMMA SortedList ==
  ASSUME NEW S, NEW m \in Seq(S), Dated(m)
  PROVE  /\ Sorted(m) \in Seq(S) /\ Len(Sorted(m)) = Len(m)
         /\ \A n \in DOMAIN m :
              \E i \in DOMAIN m : Rank(m, i) = n /\ Sorted(m)[n] = m[i]
         /\ \A i \in DOMAIN m : \E n \in DOMAIN m : Sorted(m)[n] = m[i]
         /\ \A k, n \in DOMAIN m : k < n => Sorted(m)[k].due <= Sorted(m)[n].due
<1>. DEFINE at(n) == CHOOSE i \in DOMAIN m : Rank(m, i) = n
<1>1. DOMAIN m = 1 .. Len(m) /\ Len(m) \in Nat
  OBVIOUS
<1>2. \A n \in DOMAIN m : at(n) \in DOMAIN m /\ Rank(m, at(n)) = n
  BY RankOnto
<1>3. Sorted(m) = [n \in DOMAIN m |-> m[at(n)]]
  BY DEF Sorted
<1>. HIDE DEF at
<1>4. \A n \in DOMAIN m : m[at(n)] \in S
  BY <1>2
<1>5. Sorted(m) \in Seq(S) /\ Len(Sorted(m)) = Len(m)
  BY <1>1, <1>3, <1>4
<1>6. \A n \in DOMAIN m :
        \E i \in DOMAIN m : Rank(m, i) = n /\ Sorted(m)[n] = m[i]
  BY <1>2, <1>3
<1>7. ASSUME NEW i \in DOMAIN m
      PROVE  \E n \in DOMAIN m : Sorted(m)[n] = m[i]
  <2>1. Rank(m, i) \in DOMAIN m
    BY <1>1, RankBounds
  <2>2. at(Rank(m, i)) = i
    <3>. DEFINE j == at(Rank(m, i))
    <3>1. j \in DOMAIN m /\ Rank(m, j) = Rank(m, i)
      BY <1>2, <2>1
    <3>. HIDE DEF j
    <3>2. Rank(m, i) \in Int /\ Rank(m, j) \in Int
      BY <1>1, <3>1, RankBounds
    <3>3. ~(Rank(m, i) < Rank(m, j)) /\ ~(Rank(m, j) < Rank(m, i))
      BY <3>1, <3>2
    <3>4. /\ ~(m[i].due < m[j].due)
          /\ ~(m[i].due = m[j].due /\ i < j)
          /\ ~(m[j].due < m[i].due)
          /\ ~(m[j].due = m[i].due /\ j < i)
      BY <3>1, <3>3, RankOrder
    <3>5. i = j
      BY <1>1, <3>1, <3>4 DEF Dated
    <3>. QED
      BY <3>5 DEF j
  <2>. QED
    BY <1>3, <2>1, <2>2
<1>8. ASSUME NEW k \in DOMAIN m, NEW n \in DOMAIN m, k < n
      PROVE  Sorted(m)[k].due <= Sorted(m)[n].due
  <2>1. at(k) \in DOMAIN m /\ at(n) \in DOMAIN m
        /\ Rank(m, at(k)) = k /\ Rank(m, at(n)) = n
    BY <1>2
  <2>2. ~(Rank(m, at(n)) < Rank(m, at(k)))
    BY <1>1, <1>8, <2>1
  <2>3. ~(m[at(n)].due < m[at(k)].due)
    BY <2>1, <2>2, RankOrder
  <2>. QED
    BY <1>3, <2>1, <2>3 DEF Dated
<1>. QED
  BY <1>5, <1>6, <1>7, <1>8

-----------------------------------------------------------------------------
(* The two faults of VirtualMemory keep its types, and no table is lost or  *)
(* moved by them.                                                           *)
LEMMA FaultTypes ==
  ASSUME VMemTypeOK,
         \/ \E c \in Cpu, v \in VPage : va_to_pa(c, v)
         \/ \E c, v, level : get_pte_pa(c, v, level)
  PROVE  /\ VMemTypeOK'
         /\ \A k \in DOMAIN page_table :
              k \in DOMAIN page_table' /\ page_table'[k] = page_table[k]
<1>1. CASE \E c \in Cpu, v \in VPage : va_to_pa(c, v)
  <2>. PICK c \in Cpu, v \in VPage : va_to_pa(c, v)
    BY <1>1
  <2>. DEFINE f == vpage_to_ppage_map
              p == Head(ppage_free_list)
  <2>1. /\ f' = Extend(f, <<c, v>>, p) /\ ppage_free_list' = Tail(ppage_free_list)
        /\ ppage_free_list # <<>> /\ ppage_free_list \in Seq(Nat)
        /\ UNCHANGED <<page_table, next_pte_page>>
    BY DEF va_to_pa, VMemTypeOK
  <2>2. p \in Nat /\ Tail(ppage_free_list) \in Seq(Nat)
    BY <2>1, HeadAndTail
  <2>. HIDE DEF p
  <2>3. DOMAIN f' = DOMAIN f \cup {<<c, v>>} /\ \A j \in DOMAIN f' : f'[j] \in Nat
    BY <2>1, <2>2 DEF Extend, VMemTypeOK
  <2>4. f' \in [DOMAIN f' -> Nat]
    BY <2>1, <2>3 DEF Extend
  <2>5. DOMAIN f' \subseteq Cpu \X VPage
    BY <2>3 DEF VMemTypeOK
  <2>6. VMemTypeOK'
    BY <2>1, <2>2, <2>4, <2>5 DEF VMemTypeOK
  <2>. QED
    BY <2>1, <2>6
<1>2. CASE \E c, v, level : get_pte_pa(c, v, level)
  <2>. PICK c, v, level : get_pte_pa(c, v, level)
    BY <1>2
  <2>. DEFINE f == page_table
              k == TableKey(c, v, level)
              n == next_pte_page
  <2>1. /\ k \notin DOMAIN f /\ f' = Extend(f, k, n)
        /\ UNCHANGED vpage_to_ppage_map
        /\ n \in [page : Nat, unit : Nat] /\ ppage_free_list \in Seq(Nat)
    BY DEF get_pte_pa, VMemTypeOK, TableMapped
  <2>. HIDE DEF k
  <2>2. /\ DOMAIN f' = DOMAIN f \cup {k}
        /\ \A j \in DOMAIN f : f'[j] = f[j] /\ j # k
        /\ \A j \in DOMAIN f' : f'[j] \in [page : Nat, unit : Nat]
    BY <2>1 DEF Extend, VMemTypeOK
  <2>3. f' \in [DOMAIN f' -> [page : Nat, unit : Nat]]
    BY <2>1, <2>2 DEF Extend
  <2>4. n' \in [page : Nat, unit : Nat] /\ ppage_free_list' \in Seq(Nat)
    <3>1. CASE NextUnit(n).unit # 0
      <4>1. /\ ppage_free_list # <<>> /\ n' = Unit(Head(ppage_free_list))
            /\ ppage_free_list' = Tail(ppage_free_list)
        BY <3>1 DEF get_pte_pa
      <4>2. Head(ppage_free_list) \in Nat /\ Tail(ppage_free_list) \in Seq(Nat)
        BY <2>1, <4>1, HeadAndTail
      <4>. QED
        BY <4>1, <4>2 DEF Unit
    <3>2. CASE NextUnit(n).unit = 0
      <4>1. n' = NextUnit(n) /\ UNCHANGED ppage_free_list
        BY <3>2 DEF get_pte_pa
      <4>2. NextUnit(n) \in [page : Nat, unit : Nat]
        BY <2>1 DEF NextUnit, Unit
      <4>. QED
        BY <2>1, <4>1, <4>2
    <3>. QED
      BY <3>1, <3>2
  <2>. QED
    BY <2>1, <2>2, <2>3, <2>4 DEF VMemTypeOK
<1>. QED
  BY <1>1, <1>2

(* The entry of a table for a page has an address.                          *)
ADDRESS == [page : Nat, unit : Nat, offset : 0 .. Radix - 1]

LEMMA PteTypes ==
  ASSUME NEW u \in UNIT, NEW v \in VPage, NEW level \in 0 .. 4
  PROVE  /\ Pte(u, get_offset(v, level)) \in ADDRESS
         /\ splice(u, get_offset(v, level)) \in ADDRESS
<1>1. get_offset(v, level) \in 0 .. Radix - 1
  <2>1. VPage \subseteq [0 .. 4 -> 0 .. Radix - 1]
    BY VirtualMemoryAssumption, WalkerAssumption
  <2>. QED
    BY <2>1 DEF get_offset
<1>. QED
  BY <1>1 DEF Pte, splice, Unit, UNIT, ADDRESS

LEMMA PteOfTypes ==
  ASSUME VMemTypeOK, NEW v \in VPage, NEW level \in 0 .. 4, TableMapped(cpu, v, level)
  PROVE  /\ page_table[TableKey(cpu, v, level)] \in UNIT
         /\ PteOf(v, level) \in ADDRESS
<1>1. page_table[TableKey(cpu, v, level)] \in UNIT
  BY DEF VMemTypeOK, TableMapped, UNIT
<1>. QED
  BY <1>1, PteTypes DEF PteOf

(* What a paging-structure cache holds after fill_cache: the new block, and *)
(* otherwise only blocks it held before.                                    *)
LEMMA FilledCache ==
  ASSUME NEW P, NEW level, NEW v, NEW u, NEW Q \in fill_cache(P, level, v, u)
  PROVE  Q \subseteq P \cup {[tag |-> region(v, level + 1), table |-> u]}
BY DEF fill_cache

(* Where a walk may start.                                                  *)
LEMMA WalkStartTypes ==
  ASSUME WalkerTypeOK, NEW v \in VPage, NEW s \in WalkStarts(v)
  PROVE  s.address \in ADDRESS /\ s.level \in 0 .. 4
<1>. DEFINE P    == <<PSCL2, PSCL3, PSCL4, PSCL5>>
            hits == {k \in 1 .. 4 : check_hit(P[k], k, v) # {}}
            low  == CHOOSE k \in hits : \A j \in hits : k <= j
<1>1. CASE hits = {}
  <2>1. s = [address |-> splice(CR3_addr, get_offset(v, pt_levels - 1)),
             level |-> pt_levels - 1]
    BY <1>1 DEF WalkStarts
  <2>2. pt_levels - 1 = 4
    BY WalkerAssumption
  <2>3. CR3_addr \in UNIT
    BY DEF WalkerTypeOK
  <2>. QED
    BY <2>1, <2>2, <2>3, PteTypes
<1>2. CASE hits # {}
  <2>1. low \in hits /\ low \in 1 .. 4
    <3>1. \E k \in hits : \A j \in hits : k <= j
      BY <1>2
    <3>. QED
      BY <3>1
  <2>2. PICK b \in check_hit(P[low], low, v) :
          s = [address |-> splice(b.table, get_offset(v, low)), level |-> low - 1]
    BY <1>2 DEF WalkStarts
  <2>3. b \in P[low]
    BY <2>2 DEF check_hit
  <2>4. b.table \in UNIT
    <3>1. /\ \A x \in PSCL2 : x.table \in UNIT
          /\ \A x \in PSCL3 : x.table \in UNIT
          /\ \A x \in PSCL4 : x.table \in UNIT
          /\ \A x \in PSCL5 : x.table \in UNIT
      BY DEF WalkerTypeOK, PSCL
    <3>2. \A k \in 1 .. 4 : P[k] = PSCL2 \/ P[k] = PSCL3 \/ P[k] = PSCL4 \/ P[k] = PSCL5
      OBVIOUS
    <3>. HIDE DEF P, low
    <3>. QED
      BY <2>1, <2>3, <3>1, <3>2
  <2>. HIDE DEF low
  <2>5. splice(b.table, get_offset(v, low)) \in ADDRESS
    BY <2>1, <2>4, PteTypes
  <2>. QED
    BY <2>1, <2>2, <2>5
<1>. QED
  BY <1>1, <1>2

-----------------------------------------------------------------------------
(* The types of the walker's own variables.                                 *)
OwnTypes ==
  /\ pc \in {"construct", "idle", "fill", "read"} /\ budget \in Nat
  /\ RQ \in Seq([v : VPage, ready : BOOLEAN]) /\ Len(RQ) <= RQ_SIZE
  /\ MSHR \in Seq(WALK) /\ Len(MSHR) <= MSHR_SIZE
  /\ PSCL5 \in PSCL(4) /\ PSCL4 \in PSCL(3) /\ PSCL3 \in PSCL(2) /\ PSCL2 \in PSCL(1)
  /\ CR3_addr \in UNIT
  /\ asked \subseteq VPage
  /\ lowerReads \in [DOMAIN lowerReads -> 1 .. LowerRoom]

(* A list that is not empty, and one whose first element is replaced.       *)
LEMMA SplitList ==
  ASSUME NEW S, NEW s \in Seq(S), s # <<>>
  PROVE  /\ s[1] \in S /\ Tail(s) \in Seq(S) /\ Len(Tail(s)) = Len(s) - 1
         /\ Len(s) \in Nat /\ Len(s) > 0
OBVIOUS

LEMMA ReplaceFirst ==
  ASSUME NEW S, NEW s \in Seq(S), s # <<>>, NEW x \in S
  PROVE  [s EXCEPT ![1] = x] \in Seq(S) /\ Len([s EXCEPT ![1] = x]) = Len(s)
OBVIOUS

(* Never is a cycle number, in the model.                                   *)
LEMMA NeverInt == Never \in Int /\ Never > 1
BY WalkerAssumption DEF Never

(* The first walk of a list that is not empty.                              *)
LEMMA FirstWalk ==
  ASSUME WalkerTypeOK, MSHR # <<>>
  PROVE  /\ MSHR[1] \in WALK /\ MSHR[1].v \in VPage /\ MSHR[1].level \in 0 .. 4
         /\ MSHR[1].due \in Int /\ MSHR[1].address \in ADDRESS
         /\ Tail(MSHR) \in Seq(WALK) /\ Len(Tail(MSHR)) = Len(MSHR) - 1
         /\ Len(MSHR) \in Nat /\ Len(MSHR) > 0
<1>1. MSHR \in Seq(WALK)
  BY DEF WalkerTypeOK
<1>2. /\ MSHR[1] \in WALK /\ Tail(MSHR) \in Seq(WALK) /\ Len(Tail(MSHR)) = Len(MSHR) - 1
      /\ Len(MSHR) \in Nat /\ Len(MSHR) > 0
  BY <1>1
<1>3. \A e \in WALK : /\ e.v \in VPage /\ e.level \in 0 .. 4 /\ e.due \in Int
                       /\ e.address \in ADDRESS
  BY NeverInt DEF WALK, ADDRESS
<1>. QED
  BY <1>2, <1>3

(* Walks have dates, so their list can be sorted.                           *)
LEMMA WalksDated == ASSUME NEW m \in Seq(WALK) PROVE Dated(m)
<1>1. \A e \in WALK : e.due \in Int
  BY NeverInt DEF WALK
<1>2. \A i \in DOMAIN m : m[i] \in WALK
  OBVIOUS
<1>. QED
  BY <1>1, <1>2 DEF Dated

(* A walk at another level, address or date is a walk.                      *)
LEMMA WalkMoved ==
  ASSUME NEW e \in WALK, NEW a \in ADDRESS, NEW d \in -1 .. Never, NEW l \in 0 .. 4
  PROVE  /\ [e EXCEPT !.due = d] \in WALK
         /\ [e EXCEPT !.address = a, !.level = l, !.due = d] \in WALK
BY DEF WALK, ADDRESS

(* lower_add_rq adds one read of a block.                                   *)
LEMMA LowerReads ==
  ASSUME lowerReads \in [DOMAIN lowerReads -> 1 .. LowerRoom], NEW a, lower_add_rq(a)
  PROVE  /\ lowerReads' \in [DOMAIN lowerReads' -> 1 .. LowerRoom]
         /\ DOMAIN lowerReads' = DOMAIN lowerReads \cup {block_of(a)}
<1>. DEFINE b == block_of(a)
<1>1. Pending(b) \in Nat /\ Pending(b) < LowerRoom
  BY WalkerAssumption DEF lower_add_rq, Pending
<1>2. lowerReads' = Extend(lowerReads, b, Pending(b) + 1)
  BY DEF lower_add_rq
<1>. HIDE DEF b
<1>3. Pending(b) + 1 \in 1 .. LowerRoom
  BY <1>1, WalkerAssumption
<1>4. /\ lowerReads' = [j \in DOMAIN lowerReads \cup {b} |->
                          IF j = b THEN Pending(b) + 1 ELSE lowerReads[j]]
      /\ DOMAIN lowerReads' = DOMAIN lowerReads \cup {b}
  BY <1>2 DEF Extend
<1>5. \A j \in DOMAIN lowerReads' : lowerReads'[j] \in 1 .. LowerRoom
  BY <1>3, <1>4
<1>. QED
  BY <1>4, <1>5 DEF b

(* Sorting a list of walks gives a list of walks.                           *)
LEMMA SortedWalks ==
  ASSUME NEW m \in Seq(WALK)
  PROVE  Sorted(m) \in Seq(WALK) /\ Len(Sorted(m)) = Len(m)
BY WalksDated, SortedList

-----------------------------------------------------------------------------
(* The types, action by action.                                             *)
LEMMA TypeInit == WalkerInit => WalkerTypeOK
<1>. SUFFICES ASSUME WalkerInit PROVE WalkerTypeOK
  OBVIOUS
<1>1. VMemTypeOK
  BY VMemInitInv DEF WalkerInit, VMemInv
<1>2. CR3_addr \in UNIT
  BY <1>1 DEF WalkerInit, VMemTypeOK, UNIT
<1>3. /\ <<>> \in Seq([v : VPage, ready : BOOLEAN]) /\ <<>> \in Seq(WALK)
      /\ Len(<<>>) <= RQ_SIZE /\ Len(<<>>) <= MSHR_SIZE
  BY WalkerAssumption
<1>4. lowerReads \in [DOMAIN lowerReads -> 1 .. LowerRoom]
  BY DEF WalkerInit
<1>. QED
  BY <1>1, <1>2, <1>3, <1>4 DEF WalkerInit, WalkerTypeOK, PSCL

(* When no page or table is touched the types of VirtualMemory are kept.    *)
LEMMA VMemUntouched ==
  ASSUME VMemTypeOK, UNCHANGED vmem
  PROVE  /\ VMemTypeOK'
         /\ \A k \in DOMAIN page_table :
              k \in DOMAIN page_table' /\ page_table'[k] = page_table[k]
BY DEF vmem, VMemTypeOK

LEMMA TypeRead ==
  ASSUME WalkerTypeOK, handle_read
  PROVE  WalkerTypeOK'
<1>. DEFINE v == RQ[1].v
<1>1. /\ RQ # <<>> /\ Len(MSHR) < MSHR_SIZE /\ RQ' = Tail(RQ) /\ budget > 0
      /\ budget' = budget - 1 /\ UNCHANGED <<vmem, pc, pscls, CR3_addr, asked>>
  BY DEF handle_read
<1>2. PICK s \in WalkStarts(v) :
        /\ lower_add_rq(s.address)
        /\ MSHR' = Append(MSHR, [v |-> v, level |-> s.level,
                                 address |-> s.address, due |-> Never])
  BY DEF handle_read
<1>3. /\ v \in VPage /\ Tail(RQ) \in Seq([v : VPage, ready : BOOLEAN])
      /\ Len(Tail(RQ)) <= RQ_SIZE
  <2>1. RQ \in Seq([v : VPage, ready : BOOLEAN]) /\ Len(RQ) <= RQ_SIZE
    BY DEF WalkerTypeOK
  <2>. DEFINE R == [v : VPage, ready : BOOLEAN]
  <2>2. \A r \in R : r.v \in VPage
    OBVIOUS
  <2>3. RQ \in Seq(R)
    BY <2>1
  <2>. HIDE DEF R
  <2>4. RQ[1] \in R /\ Tail(RQ) \in Seq(R) /\ Len(Tail(RQ)) = Len(RQ) - 1 /\ Len(RQ) \in Nat
    BY <1>1, <2>3
  <2>5. v \in VPage /\ Tail(RQ) \in Seq(R) /\ Len(Tail(RQ)) <= RQ_SIZE
    BY <2>1, <2>2, <2>4, WalkerAssumption
  <2>. QED
    BY <2>5 DEF R
<1>. HIDE DEF v
<1>4. s.address \in ADDRESS /\ s.level \in 0 .. 4
  BY <1>3, WalkStartTypes
<1>5. [v |-> v, level |-> s.level, address |-> s.address, due |-> Never] \in WALK
  BY <1>3, <1>4, NeverInt DEF WALK, ADDRESS
<1>6. MSHR' \in Seq(WALK) /\ Len(MSHR') <= MSHR_SIZE
  <2>1. MSHR \in Seq(WALK) /\ MSHR_SIZE \in Nat
    BY WalkerAssumption DEF WalkerTypeOK
  <2>. HIDE DEF WALK
  <2>. QED
    BY <1>1, <1>2, <1>5, <2>1
<1>7. lowerReads' \in [DOMAIN lowerReads' -> 1 .. LowerRoom]
  BY <1>2, LowerReads DEF WalkerTypeOK
<1>8. VMemTypeOK'
  BY <1>1, VMemUntouched DEF WalkerTypeOK
<1>. QED
  BY <1>1, <1>3, <1>6, <1>7, <1>8 DEF WalkerTypeOK, pscls

LEMMA TypeFault ==
  ASSUME WalkerTypeOK, Fault
  PROVE  WalkerTypeOK'
<1>. DEFINE e == MSHR[1]
            m == [MSHR EXCEPT ![1].due = minor_fault_penalty]
<1>1. /\ MSHR # <<>> /\ budget > 0 /\ MSHR' = Sorted(m) /\ budget' = budget - 1
      /\ UNCHANGED <<pc, RQ, pscls, CR3_addr, asked, lowerReads>>
      /\ \/ va_to_pa(cpu, e.v)
         \/ get_pte_pa(cpu, e.v, e.level)
  BY DEF Fault, FillReady
<1>2. e \in WALK /\ e.v \in VPage /\ MSHR \in Seq(WALK)
  BY <1>1, FirstWalk DEF WalkerTypeOK
<1>3. VMemTypeOK'
  BY <1>1, <1>2, FaultTypes, WalkerAssumption DEF WalkerTypeOK
<1>4. m \in Seq(WALK) /\ Len(m) = Len(MSHR)
  <2>1. minor_fault_penalty \in -1 .. Never
    BY WalkerAssumption DEF Never
  <2>2. [e EXCEPT !.due = minor_fault_penalty] \in WALK
    BY <1>2, <2>1 DEF WALK
  <2>. DEFINE x == [e EXCEPT !.due = minor_fault_penalty]
  <2>3. m = [MSHR EXCEPT ![1] = x]
    OBVIOUS
  <2>4. x \in WALK
    BY <2>2
  <2>. HIDE DEF x, m, WALK
  <2>. QED
    BY <1>1, <1>2, <2>3, <2>4, ReplaceFirst
<1>5. MSHR' \in Seq(WALK) /\ Len(MSHR') = Len(MSHR)
  BY <1>1, <1>4, SortedWalks
<1>. QED
  BY <1>1, <1>3, <1>5 DEF WalkerTypeOK, pscls

LEMMA TypeTranslated ==
  ASSUME WalkerTypeOK, Translated
  PROVE  WalkerTypeOK'
<1>1. /\ MSHR # <<>> /\ budget > 0 /\ MSHR' = Tail(MSHR) /\ budget' = budget - 1
      /\ asked' = asked \ {MSHR[1].v}
      /\ UNCHANGED <<vmem, pc, RQ, pscls, CR3_addr, lowerReads>>
  BY DEF Translated, FillReady
<1>2. MSHR' \in Seq(WALK) /\ Len(MSHR') <= MSHR_SIZE
  <2>1. Tail(MSHR) \in Seq(WALK) /\ Len(Tail(MSHR)) = Len(MSHR) - 1 /\ Len(MSHR) \in Nat
    BY <1>1, FirstWalk
  <2>2. Len(MSHR) <= MSHR_SIZE /\ MSHR_SIZE \in Nat
    BY WalkerAssumption DEF WalkerTypeOK
  <2>. QED
    BY <1>1, <2>1, <2>2
<1>3. VMemTypeOK'
  BY <1>1, VMemUntouched DEF WalkerTypeOK
<1>. QED
  BY <1>1, <1>2, <1>3 DEF WalkerTypeOK, pscls

(* A cache of the right blocks is still one when a walk for v fills it.     *)
LEMMA FilledTypes ==
  ASSUME NEW level \in 1 .. 4, NEW P \in PSCL(level), NEW v \in VPage, NEW u \in UNIT,
         NEW Q \in fill_cache(P, level, v, u)
  PROVE  Q \in PSCL(level)
<1>1. [tag |-> region(v, level + 1), table |-> u]
        \in [tag : {region(w, level + 1) : w \in VPage}, table : UNIT]
  OBVIOUS
<1>. QED
  BY <1>1, FilledCache DEF PSCL

LEMMA TypeDescend ==
  ASSUME WalkerTypeOK, Descend
  PROVE  WalkerTypeOK'
<1>. DEFINE e == MSHR[1]
<1>1. /\ MSHR # <<>> /\ budget > 0 /\ budget' = budget - 1
      /\ e.level > 0 /\ TableMapped(cpu, e.v, e.level)
      /\ FillsPscls(e.v, e.level)
      /\ \/ lower_add_rq(PteOf(e.v, e.level)) /\ MSHR' = MovedDown(e)
         \/ UNCHANGED <<MSHR, lowerReads>>
      /\ UNCHANGED <<vmem, pc, RQ, CR3_addr, asked>>
  BY DEF Descend, FillReady
<1>2. /\ e \in WALK /\ e.v \in VPage /\ e.level \in 0 .. 4 /\ e.level > 0
      /\ MSHR \in Seq(WALK) /\ Tail(MSHR) \in Seq(WALK)
      /\ Len(Tail(MSHR)) = Len(MSHR) - 1 /\ Len(MSHR) \in Nat /\ Len(MSHR) > 0
  BY <1>1, FirstWalk DEF WalkerTypeOK
<1>3. VMemTypeOK /\ VMemTypeOK'
  BY <1>1, VMemUntouched DEF WalkerTypeOK
<1>. DEFINE t == page_table[TableKey(cpu, e.v, e.level)]
            a == PteOf(e.v, e.level)
<1>4. t \in UNIT /\ a \in ADDRESS
  BY <1>1, <1>2, <1>3, PteOfTypes
<1>5. PSCL5' \in PSCL(4) /\ PSCL4' \in PSCL(3) /\ PSCL3' \in PSCL(2) /\ PSCL2' \in PSCL(1)
  <2>1. /\ PSCL5' = PSCL5 \/ PSCL5' \in fill_cache(PSCL5, 4, e.v, t)
        /\ PSCL4' = PSCL4 \/ PSCL4' \in fill_cache(PSCL4, 3, e.v, t)
        /\ PSCL3' = PSCL3 \/ PSCL3' \in fill_cache(PSCL3, 2, e.v, t)
        /\ PSCL2' = PSCL2 \/ PSCL2' \in fill_cache(PSCL2, 1, e.v, t)
    BY <1>1 DEF FillsPscls
  <2>2. PSCL5 \in PSCL(4) /\ PSCL4 \in PSCL(3) /\ PSCL3 \in PSCL(2) /\ PSCL2 \in PSCL(1)
    BY DEF WalkerTypeOK
  <2>. HIDE DEF t, e
  <2>. QED
    BY <1>2, <1>4, <2>1, <2>2, FilledTypes
<1>. HIDE DEF t, a
<1>6. /\ MSHR' \in Seq(WALK) /\ Len(MSHR') <= MSHR_SIZE
      /\ lowerReads' \in [DOMAIN lowerReads' -> 1 .. LowerRoom]
  <2>1. CASE lower_add_rq(a) /\ MSHR' = MovedDown(e)
    <3>1. Descended(e) = [e EXCEPT !.address = a, !.level = e.level - 1, !.due = Never]
      BY DEF Descended, a
    <3>2. e.level - 1 \in 0 .. 4 /\ Never \in -1 .. Never
      BY <1>2, NeverInt
    <3>. HIDE DEF e
    <3>3. Descended(e) \in WALK
      <4>1. \A x \in WALK, y \in ADDRESS, l \in 0 .. 4 :
              [x EXCEPT !.address = y, !.level = l, !.due = Never] \in WALK
        BY <3>2, WalkMoved
      <4>2. e \in WALK /\ a \in ADDRESS /\ e.level - 1 \in 0 .. 4
        BY <1>2, <1>4, <3>2
      <4>. DEFINE l1 == e.level - 1
      <4>. HIDE DEF l1
      <4>3. [e EXCEPT !.address = a, !.level = l1, !.due = Never] \in WALK
        BY <4>1, <4>2 DEF l1
      <4>. QED
        BY <3>1, <4>3 DEF l1
    <3>4. MSHR' = Append(Tail(MSHR), Descended(e))
      BY <2>1 DEF MovedDown
    <3>5. MSHR' \in Seq(WALK) /\ Len(MSHR') = Len(MSHR)
      BY <1>2, <3>3, <3>4
    <3>. QED
      BY <2>1, <3>5, LowerReads DEF WalkerTypeOK
  <2>2. CASE UNCHANGED <<MSHR, lowerReads>>
    BY <2>2 DEF WalkerTypeOK
  <2>. QED
    BY <1>1, <2>1, <2>2 DEF a
<1>. QED
  BY <1>1, <1>3, <1>5, <1>6 DEF WalkerTypeOK

LEMMA TypeReturn ==
  ASSUME WalkerTypeOK, NEW b, return_data(b)
  PROVE  WalkerTypeOK'
<1>1. /\ b \in DOMAIN lowerReads /\ MSHR' = Sorted(Woken(b))
      /\ UNCHANGED <<vmem, pc, budget, RQ, pscls, CR3_addr, asked>>
  BY DEF return_data
<1>2. VMemTypeOK'
  BY <1>1, VMemUntouched DEF WalkerTypeOK
<1>3. Woken(b) \in Seq(WALK) /\ Len(Woken(b)) = Len(MSHR)
  <2>1. MSHR \in Seq(WALK) /\ 0 \in -1 .. Never
    BY NeverInt DEF WalkerTypeOK
  <2>2. \A x \in WALK : [x EXCEPT !.due = 0] \in WALK
    BY <2>1 DEF WALK
  <2>. QED
    BY <2>1, <2>2 DEF Woken
<1>4. MSHR' \in Seq(WALK) /\ Len(MSHR') = Len(MSHR)
  BY <1>1, <1>3, SortedWalks
<1>5. lowerReads' \in [DOMAIN lowerReads' -> 1 .. LowerRoom]
  <2>1. PICK left \in 0 .. lowerReads[b] - 1 :
          lowerReads' = [x \in IF left = 0 THEN DOMAIN lowerReads \ {b}
                                           ELSE DOMAIN lowerReads |->
                           IF x = b THEN left ELSE lowerReads[x]]
    BY DEF return_data
  <2>2. \A x \in DOMAIN lowerReads : lowerReads[x] \in 1 .. LowerRoom
    BY DEF WalkerTypeOK
  <2>3. left # 0 => left \in 1 .. LowerRoom
    BY <1>1, <2>2, WalkerAssumption
  <2>4. \A x \in DOMAIN lowerReads' : lowerReads'[x] \in 1 .. LowerRoom
    BY <2>1, <2>2, <2>3
  <2>. QED
    BY <2>1, <2>4
<1>. QED
  BY <1>1, <1>2, <1>4, <1>5 DEF WalkerTypeOK, pscls

LEMMA TypeConstruct ==
  ASSUME WalkerTypeOK, Construct
  PROVE  WalkerTypeOK'
<1>1. /\ get_pte_pa(cpu, Zero, pt_levels) /\ CR3_addr' = next_pte_page /\ pc' = "idle"
      /\ UNCHANGED <<budget, RQ, MSHR, pscls, asked, lowerReads>>
  BY DEF Construct
<1>2. VMemTypeOK'
  BY <1>1, FaultTypes DEF WalkerTypeOK
<1>3. CR3_addr' \in UNIT
  BY <1>1 DEF WalkerTypeOK, VMemTypeOK, UNIT
<1>. QED
  BY <1>1, <1>2, <1>3 DEF WalkerTypeOK, pscls

LEMMA TypeAsk ==
  ASSUME WalkerTypeOK, NEW v \in VPage, add_rq(v)
  PROVE  WalkerTypeOK'
<1>1. /\ Len(RQ) < RQ_SIZE /\ RQ' = Append(RQ, [v |-> v, ready |-> FALSE])
      /\ asked' = asked \cup {v}
      /\ UNCHANGED <<vmem, pc, budget, MSHR, pscls, CR3_addr, lowerReads>>
  BY DEF add_rq, RoomInRQ
<1>2. RQ' \in Seq([v : VPage, ready : BOOLEAN]) /\ Len(RQ') <= RQ_SIZE
  <2>1. RQ \in Seq([v : VPage, ready : BOOLEAN]) /\ RQ_SIZE \in Nat
    BY WalkerAssumption DEF WalkerTypeOK
  <2>. DEFINE R == [v : VPage, ready : BOOLEAN]
              x == [v |-> v, ready |-> FALSE]
  <2>2. x \in R /\ RQ \in Seq(R)
    BY <2>1
  <2>. HIDE DEF R, x
  <2>3. Append(RQ, x) \in Seq(R) /\ Len(Append(RQ, x)) = Len(RQ) + 1 /\ Len(RQ) \in Nat
    BY <2>2
  <2>. QED
    BY <1>1, <2>1, <2>3 DEF R, x
<1>3. VMemTypeOK'
  BY <1>1, VMemUntouched DEF WalkerTypeOK
<1>. QED
  BY <1>1, <1>2, <1>3 DEF WalkerTypeOK, pscls

LEMMA TypeTouch ==
  ASSUME WalkerTypeOK, NEW v \in Touched, PrefetchTouches(v)
  PROVE  WalkerTypeOK'
<1>1. va_to_pa(cpu, v) /\ UNCHANGED walker
  BY DEF PrefetchTouches
<1>2. VMemTypeOK'
  BY <1>1, FaultTypes, WalkerAssumption DEF WalkerTypeOK
<1>. QED
  BY <1>1, <1>2 DEF WalkerTypeOK, walker, pscls

LEMMA TypeEnds ==
  ASSUME WalkerTypeOK, BeginCycle \/ EndFill
  PROVE  WalkerTypeOK'
<1>1. /\ UNCHANGED <<vmem, RQ, MSHR, pscls, CR3_addr, asked, lowerReads>>
      /\ pc' \in {"fill", "read"} /\ budget' \in Nat
  BY WalkerAssumption DEF BeginCycle, EndFill
<1>2. VMemTypeOK'
  BY <1>1, VMemUntouched DEF WalkerTypeOK
<1>. QED
  BY <1>1, <1>2 DEF WalkerTypeOK, pscls

(* What the end of a cycle makes of the list of walks.                      *)
Aged(d) == IF d \in {-1, Never} THEN d ELSE d - 1

LEMMA AgedWalks ==
  ASSUME WalkerTypeOK, EndCycle
  PROVE  /\ MSHR' \in Seq(WALK) /\ Len(MSHR') = Len(MSHR)
         /\ DOMAIN MSHR' = DOMAIN MSHR
         /\ \A i \in DOMAIN MSHR :
              /\ MSHR'[i].due = Aged(MSHR[i].due)
              /\ MSHR'[i].v = MSHR[i].v
              /\ MSHR'[i].level = MSHR[i].level
              /\ MSHR'[i].address = MSHR[i].address
<1>. DEFINE older(e) == [e EXCEPT !.due = Aged(e.due)]
<1>1. MSHR' = [i \in DOMAIN MSHR |-> older(MSHR[i])]
  BY DEF EndCycle, Aged
<1>2. ASSUME NEW e \in WALK
      PROVE  /\ older(e) \in WALK
             /\ older(e).due = Aged(e.due) /\ older(e).v = e.v
             /\ older(e).level = e.level /\ older(e).address = e.address
  <2>1. Aged(e.due) \in -1 .. Never
    BY NeverInt DEF WALK, Aged
  <2>. DEFINE d == Aged(e.due)
  <2>. HIDE DEF d
  <2>2. d \in -1 .. Never
    BY <2>1 DEF d
  <2>3. /\ [e EXCEPT !.due = d] \in WALK
        /\ [e EXCEPT !.due = d].due = d /\ [e EXCEPT !.due = d].v = e.v
        /\ [e EXCEPT !.due = d].level = e.level
        /\ [e EXCEPT !.due = d].address = e.address
    BY <2>2 DEF WALK
  <2>. QED
    BY <2>3 DEF d
<1>3. MSHR \in Seq(WALK)
  BY DEF WalkerTypeOK
<1>. HIDE DEF older
<1>4. \A i \in DOMAIN MSHR : MSHR[i] \in WALK /\ DOMAIN MSHR = 1 .. Len(MSHR)
  BY <1>3
<1>5. MSHR' \in Seq(WALK) /\ Len(MSHR') = Len(MSHR) /\ DOMAIN MSHR' = DOMAIN MSHR
  BY <1>1, <1>2, <1>3, <1>4
<1>. QED
  BY <1>1, <1>2, <1>4, <1>5

LEMMA TypeEndCycle ==
  ASSUME WalkerTypeOK, EndCycle
  PROVE  WalkerTypeOK'
<1>1. /\ pc' = "idle" /\ budget' = 0
      /\ RQ' = [i \in DOMAIN RQ |-> [RQ[i] EXCEPT !.ready = TRUE]]
      /\ UNCHANGED <<vmem, pscls, CR3_addr, asked, lowerReads>>
  BY DEF EndCycle
<1>2. RQ' \in Seq([v : VPage, ready : BOOLEAN]) /\ Len(RQ') = Len(RQ)
  <2>1. RQ \in Seq([v : VPage, ready : BOOLEAN])
    BY DEF WalkerTypeOK
  <2>. DEFINE R == [v : VPage, ready : BOOLEAN]
              on(x) == [x EXCEPT !.ready = TRUE]
  <2>2. RQ \in Seq(R) /\ (\A x \in R : on(x) \in R) /\ RQ' = [i \in DOMAIN RQ |-> on(RQ[i])]
    BY <1>1, <2>1
  <2>. HIDE DEF R, on
  <2>3. RQ' \in Seq(R) /\ Len(RQ') = Len(RQ)
    BY <2>2
  <2>. QED
    BY <2>3 DEF R
<1>3. VMemTypeOK'
  BY <1>1, VMemUntouched DEF WalkerTypeOK
<1>. QED
  BY <1>1, <1>2, <1>3, AgedWalks DEF WalkerTypeOK, pscls

LEMMA TypeStep == WalkerTypeOK /\ [WalkerNext]_ptwVars => WalkerTypeOK'
<1>. SUFFICES ASSUME WalkerTypeOK, [WalkerNext]_ptwVars PROVE WalkerTypeOK'
  OBVIOUS
<1>1. CASE UNCHANGED ptwVars
  <2>1. UNCHANGED <<vmem, pc, budget, RQ, MSHR, pscls, CR3_addr, asked, lowerReads>>
    BY <1>1 DEF ptwVars, walker
  <2>2. VMemTypeOK'
    BY <2>1, VMemUntouched DEF WalkerTypeOK
  <2>. QED
    BY <2>1, <2>2 DEF WalkerTypeOK, pscls
<1>2. CASE WalkerNext
  BY <1>2, TypeConstruct, TypeAsk, TypeTouch, TypeEnds, TypeEndCycle, TypeRead,
     TypeFault, TypeTranslated, TypeDescend, TypeReturn
     DEF WalkerNext, Operate, handle_fill
<1>. QED
  BY <1>1, <1>2

(* The walker's queues stay within their sizes, and its caches, walks and   *)
(* tables have the types they are declared with (ptw.h, ptw.cc).            *)
THEOREM WalkerTyped == WalkerSpec => []WalkerTypeOK
<1>. QED
  BY TypeInit, TypeStep, PTL DEF WalkerSpec

-----------------------------------------------------------------------------
(* Every step of the walker is one of VirtualMemory or does not touch it:   *)
(* va_to_pa and get_pte_pa are all the walker knows of memory.              *)
THEOREM WalkerUsesVirtualMemory == WalkerSpec => VMemSpec
<1>1. WalkerInit => VMemInit
  BY DEF WalkerInit
<1>2. WalkerTypeOK /\ [WalkerNext]_ptwVars => [VMemNext]_vmem
  <2>. SUFFICES ASSUME WalkerTypeOK, [WalkerNext]_ptwVars PROVE VMemNext \/ UNCHANGED vmem
    OBVIOUS
  <2>1. CASE Construct
    BY <2>1, WalkerAssumption DEF Construct, VMemNext
  <2>2. CASE \E v \in Touched : PrefetchTouches(v)
    BY <2>2, WalkerAssumption DEF PrefetchTouches, VMemNext
  <2>3. CASE Fault
    <3>1. MSHR[1].v \in VPage /\ MSHR[1].level \in 0 .. 4
      BY <2>3, FirstWalk DEF Fault, FillReady
    <3>2. \/ va_to_pa(cpu, MSHR[1].v)
          \/ MSHR[1].level \in 1 .. pt_levels /\ get_pte_pa(cpu, MSHR[1].v, MSHR[1].level)
      BY <2>3, <3>1, WalkerAssumption DEF Fault
    <3>. QED
      BY <3>1, <3>2, WalkerAssumption DEF VMemNext
  <2>4. CASE \/ BeginCycle \/ Translated \/ Descend \/ EndFill \/ handle_read \/ EndCycle
             \/ \E v \in VPage : add_rq(v)
             \/ \E b \in DOMAIN lowerReads : return_data(b)
             \/ UNCHANGED ptwVars
    BY <2>4 DEF BeginCycle, Translated, Descend, EndFill, handle_read, EndCycle,
                add_rq, return_data, ptwVars
  <2>. QED
    BY <2>1, <2>2, <2>3, <2>4 DEF WalkerNext, Operate, handle_fill
<1>. QED
  BY <1>1, <1>2, WalkerTyped, PTL DEF WalkerSpec, VMemSpec

(* So under the walker too no physical page or table has two uses, when a   *)
(* physical page holds several tables.                                      *)
THEOREM WalkerPartitionsMemory ==
  ASSUME SharedPages PROVE WalkerSpec => [](PagesDisjoint /\ FreeListIsFree)
<1>. QED
  BY WalkerUsesVirtualMemory, MemoryIsPartitioned, FreeStaysFree, PTL

-----------------------------------------------------------------------------
(* The list of walks after each action that changes it, entry by entry.     *)
LEMMA FaultList ==
  ASSUME WalkerTypeOK, Fault
  PROVE  \E m \in Seq(WALK) :
           /\ MSHR' = Sorted(m) /\ Len(m) = Len(MSHR) /\ DOMAIN m = DOMAIN MSHR
           /\ MSHR # <<>> /\ m[1].due = minor_fault_penalty
           /\ \A i \in DOMAIN MSHR :
                /\ m[i].v = MSHR[i].v /\ m[i].level = MSHR[i].level
                /\ m[i].address = MSHR[i].address
                /\ i # 1 => m[i].due = MSHR[i].due
<1>. DEFINE e == MSHR[1]
            x == [e EXCEPT !.due = minor_fault_penalty]
            m == [MSHR EXCEPT ![1] = x]
<1>1. MSHR # <<>> /\ MSHR' = Sorted(m)
  BY DEF Fault, FillReady
<1>2. e \in WALK /\ MSHR \in Seq(WALK)
  BY <1>1, FirstWalk DEF WalkerTypeOK
<1>3. /\ x \in WALK /\ x.due = minor_fault_penalty /\ x.v = e.v /\ x.level = e.level
      /\ x.address = e.address
  <2>1. minor_fault_penalty \in -1 .. Never
    BY WalkerAssumption DEF Never
  <2>. QED
    BY <1>2, <2>1 DEF WALK
<1>. HIDE DEF x
<1>4. m \in Seq(WALK) /\ Len(m) = Len(MSHR) /\ DOMAIN m = DOMAIN MSHR /\ 1 \in DOMAIN MSHR
  BY <1>1, <1>2, <1>3
<1>5. /\ m[1] = x
      /\ \A i \in DOMAIN MSHR : i # 1 => m[i] = MSHR[i]
  BY <1>4
<1>. HIDE DEF m
<1>6. \A i \in DOMAIN MSHR :
        /\ m[i].v = MSHR[i].v /\ m[i].level = MSHR[i].level
        /\ m[i].address = MSHR[i].address
        /\ i # 1 => m[i].due = MSHR[i].due
  BY <1>3, <1>5
<1>. QED
  BY <1>1, <1>3, <1>4, <1>5, <1>6

LEMMA WokenList ==
  ASSUME WalkerTypeOK, NEW b
  PROVE  /\ Woken(b) \in Seq(WALK) /\ Len(Woken(b)) = Len(MSHR)
         /\ DOMAIN Woken(b) = DOMAIN MSHR
         /\ \A i \in DOMAIN MSHR :
              /\ Woken(b)[i].v = MSHR[i].v /\ Woken(b)[i].level = MSHR[i].level
              /\ Woken(b)[i].address = MSHR[i].address
              /\ Woken(b)[i].due = IF block_of(MSHR[i].address) = b THEN 0 ELSE MSHR[i].due
<1>. DEFINE on(x) == [x EXCEPT !.due = 0]
<1>1. MSHR \in Seq(WALK) /\ 0 \in -1 .. Never
  BY NeverInt DEF WalkerTypeOK
<1>2. \A x \in WALK : /\ on(x) \in WALK /\ on(x).v = x.v /\ on(x).level = x.level
                      /\ on(x).address = x.address /\ on(x).due = 0
  BY <1>1 DEF WALK
<1>3. Woken(b) = [i \in DOMAIN MSHR |->
                    IF block_of(MSHR[i].address) = b THEN on(MSHR[i]) ELSE MSHR[i]]
  BY DEF Woken
<1>. HIDE DEF on
<1>4. \A i \in DOMAIN MSHR : MSHR[i] \in WALK /\ DOMAIN MSHR = 1 .. Len(MSHR)
  BY <1>1
<1>5. /\ Woken(b) \in Seq(WALK) /\ Len(Woken(b)) = Len(MSHR)
      /\ DOMAIN Woken(b) = DOMAIN MSHR
  BY <1>1, <1>2, <1>3, <1>4
<1>. QED
  BY <1>2, <1>3, <1>4, <1>5

LEMMA DescendedWalk ==
  ASSUME WalkerTypeOK, Descend
  PROVE  LET e == MSHR[1]
             d == Descended(e)
         IN  /\ d \in WALK /\ d.v = e.v /\ d.level = e.level - 1
             /\ d.address = PteOf(e.v, e.level) /\ d.due = Never
<1>. DEFINE e == MSHR[1]
            a == PteOf(e.v, e.level)
            l == e.level - 1
<1>1. MSHR # <<>> /\ e.level > 0 /\ TableMapped(cpu, e.v, e.level)
  BY DEF Descend, FillReady
<1>2. e \in WALK /\ e.v \in VPage /\ e.level \in 0 .. 4 /\ l \in 0 .. 4
  BY <1>1, FirstWalk
<1>3. a \in ADDRESS
  BY <1>1, <1>2, PteOfTypes DEF WalkerTypeOK
<1>4. Descended(e) = [e EXCEPT !.address = a, !.level = l, !.due = Never]
  BY DEF Descended
<1>. HIDE DEF e, a, l
<1>5. Never \in -1 .. Never
  BY NeverInt
<1>6. LET d == [e EXCEPT !.address = a, !.level = l, !.due = Never]
      IN  /\ d \in WALK /\ d.v = e.v /\ d.level = l /\ d.address = a /\ d.due = Never
  BY <1>2, <1>3, <1>5 DEF WALK, ADDRESS
<1>. QED
  BY <1>4, <1>6 DEF e, a, l

(* What the end of a list is after Tail and Append.                         *)
LEMMA Shifted ==
  ASSUME NEW S, NEW s \in Seq(S), s # <<>>, NEW x
  PROVE  /\ DOMAIN s = 1 .. Len(s) /\ Len(s) \in Nat /\ Len(s) > 0
         /\ \A i \in DOMAIN Tail(s) : i + 1 \in DOMAIN s /\ Tail(s)[i] = s[i + 1]
         /\ DOMAIN Append(Tail(s), x) = DOMAIN s /\ DOMAIN Tail(s) = 1 .. Len(s) - 1
         /\ Append(Tail(s), x)[Len(s)] = x
         /\ \A i \in DOMAIN s : i # Len(s) =>
              i + 1 \in DOMAIN s /\ Append(Tail(s), x)[i] = s[i + 1]
OBVIOUS

LEMMA Appended ==
  ASSUME NEW S, NEW s \in Seq(S), NEW x
  PROVE  /\ DOMAIN s = 1 .. Len(s) /\ Len(s) \in Nat
         /\ DOMAIN Append(s, x) = 1 .. Len(s) + 1
         /\ Append(s, x)[Len(s) + 1] = x
         /\ \A i \in DOMAIN s : Append(s, x)[i] = s[i]
OBVIOUS

-----------------------------------------------------------------------------
(* The walks stay in the order of their dates.                              *)
LEMMA OrderStep == WalkerTypeOK /\ WalksInOrder /\ [WalkerNext]_ptwVars => WalksInOrder'
<1>. SUFFICES ASSUME WalkerTypeOK, WalksInOrder, [WalkerNext]_ptwVars PROVE WalksInOrder'
  OBVIOUS
<1>0. MSHR \in Seq(WALK)
  BY DEF WalkerTypeOK
<1>1. \A i \in DOMAIN MSHR : MSHR[i].due \in -1 .. Never /\ MSHR[i].due <= Never
  <2>1. \A e \in WALK : e.due \in -1 .. Never /\ e.due <= Never
    BY NeverInt DEF WALK
  <2>. HIDE DEF WALK
  <2>. QED
    BY <1>0, <2>1
<1>2. ASSUME NEW m \in Seq(WALK), MSHR' = Sorted(m)
      PROVE  WalksInOrder'
  <2>1. DOMAIN MSHR' = DOMAIN m
    BY <1>2, WalksDated, SortedList
  <2>. QED
    BY <1>2, <2>1, WalksDated, SortedList DEF WalksInOrder
<1>3. CASE Fault
  BY <1>2, <1>3, FaultList
<1>4. CASE Translated
  <2>1. MSHR # <<>> /\ MSHR' = Tail(MSHR)
    BY <1>4 DEF Translated, FillReady
  <2>2. \A i \in DOMAIN MSHR' : i + 1 \in DOMAIN MSHR /\ MSHR'[i] = MSHR[i + 1] /\ i \in Nat
    BY <1>0, <2>1, Shifted
  <2>. QED
    BY <2>2 DEF WalksInOrder
<1>5. CASE Descend
  <2>1. CASE UNCHANGED MSHR
    BY <2>1 DEF WalksInOrder
  <2>2. CASE MSHR' = MovedDown(MSHR[1])
    <3>. DEFINE d == Descended(MSHR[1])
                n == Len(MSHR)
    <3>1. d.due = Never
      BY <1>5, DescendedWalk
    <3>2. MSHR # <<>> /\ MSHR' = Append(Tail(MSHR), d)
      BY <1>5, <2>2 DEF MovedDown, Descend, FillReady
    <3>. HIDE DEF d
    <3>3. /\ DOMAIN MSHR' = 1 .. n /\ n \in Nat /\ DOMAIN MSHR = 1 .. n
          /\ MSHR'[n].due = Never
          /\ \A i \in 1 .. n : i # n => i + 1 \in DOMAIN MSHR /\ MSHR'[i] = MSHR[i + 1]
      BY <1>0, <3>1, <3>2, Shifted
    <3>. HIDE DEF n
    <3>4. ASSUME NEW i \in 1 .. n, NEW j \in 1 .. n, i < j
          PROVE  MSHR'[i].due <= MSHR'[j].due
      <4>1. i # n /\ i + 1 \in DOMAIN MSHR /\ MSHR'[i] = MSHR[i + 1]
        BY <3>3, <3>4
      <4>2. CASE j = n
        BY <1>1, <3>3, <4>1, <4>2
      <4>3. CASE j # n
        <5>1. j + 1 \in DOMAIN MSHR /\ MSHR'[j] = MSHR[j + 1] /\ i + 1 < j + 1
          BY <3>3, <3>4, <4>3
        <5>. QED
          BY <4>1, <5>1 DEF WalksInOrder
      <4>. QED
        BY <4>2, <4>3
    <3>. QED
      BY <3>3, <3>4 DEF WalksInOrder
  <2>. QED
    BY <1>5, <2>1, <2>2 DEF Descend
<1>6. CASE handle_read
  <2>1. PICK s : MSHR' = Append(MSHR, [v |-> RQ[1].v, level |-> s.level,
                                       address |-> s.address, due |-> Never])
    BY <1>6 DEF handle_read
  <2>. DEFINE x == [v |-> RQ[1].v, level |-> s.level, address |-> s.address, due |-> Never]
              n == Len(MSHR)
  <2>2. x.due = Never /\ MSHR' = Append(MSHR, x)
    BY <2>1
  <2>. HIDE DEF x
  <2>3. /\ DOMAIN MSHR' = 1 .. n + 1 /\ n \in Nat /\ DOMAIN MSHR = 1 .. n
        /\ MSHR'[n + 1].due = Never
        /\ \A i \in 1 .. n : MSHR'[i] = MSHR[i]
    BY <1>0, <2>2, Appended
  <2>. HIDE DEF n
  <2>4. ASSUME NEW i \in 1 .. n + 1, NEW j \in 1 .. n + 1, i < j
        PROVE  MSHR'[i].due <= MSHR'[j].due
    <3>1. i \in 1 .. n /\ MSHR'[i] = MSHR[i]
      BY <2>3, <2>4
    <3>2. CASE j = n + 1
      BY <1>1, <2>3, <3>1, <3>2
    <3>3. CASE j # n + 1
      <4>1. j \in 1 .. n /\ MSHR'[j] = MSHR[j]
        BY <2>3, <3>3
      <4>. QED
        BY <2>3, <2>4, <3>1, <4>1 DEF WalksInOrder
    <3>. QED
      BY <3>2, <3>3
  <2>. QED
    BY <2>3, <2>4 DEF WalksInOrder
<1>7. CASE EndCycle
  <2>1. /\ DOMAIN MSHR' = DOMAIN MSHR
        /\ \A i \in DOMAIN MSHR : MSHR'[i].due = Aged(MSHR[i].due)
    BY <1>7, AgedWalks
  <2>2. \A c, d \in -1 .. Never : c <= d => Aged(c) <= Aged(d)
    BY NeverInt DEF Aged
  <2>. QED
    BY <1>1, <2>1, <2>2 DEF WalksInOrder
<1>8. CASE \E b \in DOMAIN lowerReads : return_data(b)
  <2>. PICK b \in DOMAIN lowerReads : return_data(b)
    BY <1>8
  <2>. QED
    BY <1>2, WokenList DEF return_data
<1>9. CASE \/ Construct \/ BeginCycle \/ EndFill
           \/ \E v \in VPage : add_rq(v)
           \/ \E v \in Touched : PrefetchTouches(v)
           \/ UNCHANGED ptwVars
  <2>1. UNCHANGED MSHR
    BY <1>9 DEF Construct, BeginCycle, EndFill, add_rq, PrefetchTouches, ptwVars, walker
  <2>. QED
    BY <2>1 DEF WalksInOrder
<1>. QED
  BY <1>3, <1>4, <1>5, <1>6, <1>7, <1>8, <1>9 DEF WalkerNext, Operate, handle_fill

(* No walk that is due is behind one that is not (ptw.cc handle_fill).      *)
THEOREM WalksOrdered == WalkerSpec => []WalksInOrder
<1>1. WalkerInit => WalksInOrder
  BY DEF WalkerInit, WalksInOrder
<1>. QED
  BY <1>1, OrderStep, WalkerTyped, PTL DEF WalkerSpec

-----------------------------------------------------------------------------
(* A walk that waits has its block among the reads of the L1D.              *)
LEMMA WaitStep == WalkerTypeOK /\ WaitingIsRead /\ [WalkerNext]_ptwVars => WaitingIsRead'
<1>. SUFFICES ASSUME WalkerTypeOK, WaitingIsRead, [WalkerNext]_ptwVars PROVE WaitingIsRead'
  OBVIOUS
<1>0. MSHR \in Seq(WALK) /\ lowerReads \in [DOMAIN lowerReads -> 1 .. LowerRoom]
  BY DEF WalkerTypeOK
<1>1. \A i \in DOMAIN MSHR : MSHR[i].due \in -1 .. Never
  <2>1. \A e \in WALK : e.due \in -1 .. Never
    BY DEF WALK
  <2>. HIDE DEF WALK
  <2>. QED
    BY <1>0, <2>1
<1>2. CASE Fault
  <2>1. PICK m \in Seq(WALK) :
          /\ MSHR' = Sorted(m) /\ DOMAIN m = DOMAIN MSHR
          /\ m[1].due = minor_fault_penalty
          /\ \A i \in DOMAIN MSHR :
               m[i].address = MSHR[i].address /\ (i # 1 => m[i].due = MSHR[i].due)
    BY <1>2, FaultList
  <2>2. minor_fault_penalty # Never
    BY WalkerAssumption DEF Never
  <2>3. \A i \in DOMAIN m : m[i].due = Never => block_of(m[i].address) \in DOMAIN lowerReads
    BY <2>1, <2>2 DEF WaitingIsRead
  <2>4. /\ DOMAIN MSHR' = DOMAIN m
        /\ \A n \in DOMAIN m : \E i \in DOMAIN m : MSHR'[n] = m[i]
    <3>1. Len(Sorted(m)) = Len(m) /\ Sorted(m) \in Seq(WALK)
          /\ \A n \in DOMAIN m : \E i \in DOMAIN m : Sorted(m)[n] = m[i]
      BY WalksDated, SortedList
    <3>. QED
      BY <2>1, <3>1
  <2>5. UNCHANGED lowerReads
    BY <1>2 DEF Fault
  <2>. QED
    BY <2>3, <2>4, <2>5 DEF WaitingIsRead
<1>3. CASE Translated
  <2>1. MSHR # <<>> /\ MSHR' = Tail(MSHR) /\ UNCHANGED lowerReads
    BY <1>3 DEF Translated, FillReady
  <2>2. \A i \in DOMAIN MSHR' : i + 1 \in DOMAIN MSHR /\ MSHR'[i] = MSHR[i + 1]
    BY <1>0, <2>1, Shifted
  <2>. QED
    BY <2>1, <2>2 DEF WaitingIsRead
<1>4. CASE Descend
  <2>. DEFINE d == Descended(MSHR[1])
              a == PteOf(MSHR[1].v, MSHR[1].level)
              n == Len(MSHR)
  <2>1. CASE UNCHANGED <<MSHR, lowerReads>>
    BY <2>1 DEF WaitingIsRead
  <2>2. CASE lower_add_rq(a) /\ MSHR' = MovedDown(MSHR[1])
    <3>1. d.address = a
      BY <1>4, DescendedWalk
    <3>2. MSHR # <<>> /\ MSHR' = Append(Tail(MSHR), d)
      BY <1>4, <2>2 DEF MovedDown, Descend, FillReady
    <3>3. DOMAIN lowerReads' = DOMAIN lowerReads \cup {block_of(a)}
      BY <1>0, <2>2, LowerReads
    <3>. HIDE DEF d, a
    <3>4. /\ DOMAIN MSHR' = DOMAIN MSHR
          /\ MSHR'[n].address = a
          /\ \A i \in DOMAIN MSHR : i # n => i + 1 \in DOMAIN MSHR /\ MSHR'[i] = MSHR[i + 1]
      BY <1>0, <3>1, <3>2, Shifted
    <3>. QED
      BY <3>3, <3>4 DEF WaitingIsRead
  <2>. QED
    BY <1>4, <2>1, <2>2 DEF Descend
<1>5. CASE handle_read
  <2>1. PICK s \in WalkStarts(RQ[1].v) :
          /\ lower_add_rq(s.address)
          /\ MSHR' = Append(MSHR, [v |-> RQ[1].v, level |-> s.level,
                                   address |-> s.address, due |-> Never])
    BY <1>5 DEF handle_read
  <2>. DEFINE x == [v |-> RQ[1].v, level |-> s.level, address |-> s.address, due |-> Never]
              n == Len(MSHR)
  <2>2. x.address = s.address /\ MSHR' = Append(MSHR, x)
    BY <2>1
  <2>3. DOMAIN lowerReads' = DOMAIN lowerReads \cup {block_of(s.address)}
    BY <1>0, <2>1, LowerReads
  <2>. HIDE DEF x
  <2>4. /\ DOMAIN MSHR' = 1 .. n + 1 /\ n \in Nat /\ DOMAIN MSHR = 1 .. n
        /\ MSHR'[n + 1].address = s.address
        /\ \A i \in 1 .. n : MSHR'[i] = MSHR[i]
    BY <1>0, <2>2, Appended
  <2>. HIDE DEF n
  <2>5. \A i \in 1 .. n + 1 : i \in 1 .. n \/ i = n + 1
    BY <2>4
  <2>. QED
    BY <2>3, <2>4, <2>5 DEF WaitingIsRead
<1>6. CASE EndCycle
  <2>1. /\ DOMAIN MSHR' = DOMAIN MSHR /\ UNCHANGED lowerReads
        /\ \A i \in DOMAIN MSHR : /\ MSHR'[i].due = Aged(MSHR[i].due)
                                  /\ MSHR'[i].address = MSHR[i].address
    BY <1>6, AgedWalks DEF EndCycle
  <2>2. \A c \in -1 .. Never : Aged(c) = Never => c = Never
    BY NeverInt DEF Aged
  <2>. QED
    BY <1>1, <2>1, <2>2 DEF WaitingIsRead
<1>7. CASE \E b \in DOMAIN lowerReads : return_data(b)
  <2>. PICK b \in DOMAIN lowerReads : return_data(b)
    BY <1>7
  <2>. DEFINE m == Woken(b)
  <2>1. /\ m \in Seq(WALK) /\ DOMAIN m = DOMAIN MSHR
        /\ \A i \in DOMAIN MSHR :
             /\ m[i].address = MSHR[i].address
             /\ m[i].due = IF block_of(MSHR[i].address) = b THEN 0 ELSE MSHR[i].due
    BY WokenList
  <2>2. MSHR' = Sorted(m) /\ \A x \in DOMAIN lowerReads : x # b => x \in DOMAIN lowerReads'
    BY DEF return_data
  <2>. HIDE DEF m
  <2>3. \A i \in DOMAIN m : m[i].due = Never => block_of(m[i].address) \in DOMAIN lowerReads'
    BY <2>1, <2>2, NeverInt DEF WaitingIsRead
  <2>4. /\ DOMAIN MSHR' = DOMAIN m
        /\ \A n \in DOMAIN m : \E i \in DOMAIN m : MSHR'[n] = m[i]
    <3>1. Len(Sorted(m)) = Len(m) /\ Sorted(m) \in Seq(WALK)
          /\ \A n \in DOMAIN m : \E i \in DOMAIN m : Sorted(m)[n] = m[i]
      BY <2>1, WalksDated, SortedList
    <3>. QED
      BY <2>1, <2>2, <3>1
  <2>. QED
    BY <2>3, <2>4 DEF WaitingIsRead
<1>8. CASE \/ Construct \/ BeginCycle \/ EndFill
           \/ \E v \in VPage : add_rq(v)
           \/ \E v \in Touched : PrefetchTouches(v)
           \/ UNCHANGED ptwVars
  <2>1. UNCHANGED <<MSHR, lowerReads>>
    BY <1>8 DEF Construct, BeginCycle, EndFill, add_rq, PrefetchTouches, ptwVars, walker
  <2>. QED
    BY <2>1 DEF WaitingIsRead
<1>. QED
  BY <1>2, <1>3, <1>4, <1>5, <1>6, <1>7, <1>8 DEF WalkerNext, Operate, handle_fill

(* No walk waits for a read that the L1D no longer has (ptw.cc return_data).*)
THEOREM WaitersHaveReads == WalkerSpec => []WaitingIsRead
<1>1. WalkerInit => WaitingIsRead
  BY DEF WalkerInit, WaitingIsRead
<1>. QED
  BY <1>1, WaitStep, WalkerTyped, PTL DEF WalkerSpec

-----------------------------------------------------------------------------
(* A page that is asked for is in one place.  Counting them is inductive    *)
(* only with the places known to be distinct.                               *)
Placed ==
  /\ \A i, j \in DOMAIN RQ : RQ[i].v = RQ[j].v => i = j
  /\ \A i, j \in DOMAIN MSHR : MSHR[i].v = MSHR[j].v => i = j
  /\ \A i \in DOMAIN RQ, j \in DOMAIN MSHR : RQ[i].v # MSHR[j].v

AskedInv == Placed /\ AskedOnce /\ IsFiniteSet(asked)

(* The same pages are asked for when the walks are only reordered.          *)
LEMMA Reordered ==
  ASSUME AskedInv, RQ' = RQ, asked' = asked,
         DOMAIN MSHR' = DOMAIN MSHR, Len(MSHR') = Len(MSHR),
         {MSHR'[i].v : i \in DOMAIN MSHR} = {MSHR[i].v : i \in DOMAIN MSHR},
         \A i, j \in DOMAIN MSHR : MSHR'[i].v = MSHR'[j].v => i = j
  PROVE  AskedInv'
<1>1. {MSHR'[i].v : i \in DOMAIN MSHR'} = {MSHR[i].v : i \in DOMAIN MSHR}
  OBVIOUS
<1>2. AskedOnce' /\ IsFiniteSet(asked')
  BY <1>1 DEF AskedInv, AskedOnce
<1>3. \A j \in DOMAIN MSHR : \E i \in DOMAIN MSHR : MSHR'[j].v = MSHR[i].v
  OBVIOUS
<1>4. Placed'
  BY <1>3 DEF AskedInv, Placed
<1>. QED
  BY <1>2, <1>4 DEF AskedInv

(* Sorting a list with the pages of MSHR, place by place, reorders it.      *)
LEMMA SortedReorders ==
  ASSUME WalkerTypeOK, AskedInv, UNCHANGED <<RQ, asked>>, NEW m \in Seq(WALK),
         DOMAIN m = DOMAIN MSHR, Len(m) = Len(MSHR), MSHR' = Sorted(m),
         \A i \in DOMAIN MSHR : m[i].v = MSHR[i].v
  PROVE  AskedInv'
<1>1. /\ Sorted(m) \in Seq(WALK) /\ Len(Sorted(m)) = Len(m)
      /\ \A n \in DOMAIN m :
           \E i \in DOMAIN m : Rank(m, i) = n /\ Sorted(m)[n] = m[i]
      /\ \A i \in DOMAIN m : \E n \in DOMAIN m : Sorted(m)[n] = m[i]
  BY WalksDated, SortedList
<1>2. DOMAIN MSHR' = DOMAIN MSHR /\ Len(MSHR') = Len(MSHR)
  BY <1>1
<1>3. {MSHR'[i].v : i \in DOMAIN MSHR} = {MSHR[i].v : i \in DOMAIN MSHR}
  <2>1. \A n \in DOMAIN MSHR : \E i \in DOMAIN MSHR : MSHR'[n] = m[i]
    BY <1>1
  <2>2. \A n \in DOMAIN MSHR : MSHR'[n].v \in {MSHR[i].v : i \in DOMAIN MSHR}
    BY <2>1
  <2>3. \A i \in DOMAIN MSHR : \E n \in DOMAIN MSHR : MSHR'[n] = m[i]
    BY <1>1
  <2>4. \A i \in DOMAIN MSHR : MSHR[i].v \in {MSHR'[n].v : n \in DOMAIN MSHR}
    BY <2>3
  <2>. QED
    BY <2>2, <2>4
<1>4. ASSUME NEW k \in DOMAIN MSHR, NEW n \in DOMAIN MSHR, MSHR'[k].v = MSHR'[n].v
      PROVE  k = n
  <2>1. PICK i \in DOMAIN m : Rank(m, i) = k /\ Sorted(m)[k] = m[i]
    BY <1>1
  <2>2. PICK j \in DOMAIN m : Rank(m, j) = n /\ Sorted(m)[n] = m[j]
    BY <1>1
  <2>3. MSHR[i].v = MSHR[j].v
    BY <1>4, <2>1, <2>2
  <2>4. i = j
    BY <2>3 DEF AskedInv, Placed
  <2>. QED
    BY <2>1, <2>2, <2>4
<1>. QED
  BY <1>2, <1>3, <1>4, Reordered

LEMMA AskedStep == WalkerTypeOK /\ AskedInv /\ [WalkerNext]_ptwVars => AskedInv'
<1>. SUFFICES ASSUME WalkerTypeOK, AskedInv, [WalkerNext]_ptwVars PROVE AskedInv'
  OBVIOUS
<1>. DEFINE R == [v : VPage, ready : BOOLEAN]
<1>0. MSHR \in Seq(WALK) /\ RQ \in Seq(R) /\ Len(MSHR) \in Nat /\ Len(RQ) \in Nat
      /\ Cardinality(asked) \in Nat
  <2>1. MSHR \in Seq(WALK) /\ RQ \in Seq(R)
    BY DEF WalkerTypeOK
  <2>2. Cardinality(asked) \in Nat
    BY FS_CardinalityType DEF AskedInv
  <2>. HIDE DEF R
  <2>. QED
    BY <2>1, <2>2
<1>. HIDE DEF R
<1>1. CASE Fault
  <2>1. PICK m \in Seq(WALK) : /\ MSHR' = Sorted(m) /\ Len(m) = Len(MSHR)
                               /\ DOMAIN m = DOMAIN MSHR
                               /\ \A i \in DOMAIN MSHR : m[i].v = MSHR[i].v
    BY <1>1, FaultList
  <2>. QED
    BY <1>1, <2>1, SortedReorders DEF Fault
<1>2. CASE \E b \in DOMAIN lowerReads : return_data(b)
  <2>. PICK b \in DOMAIN lowerReads : return_data(b)
    BY <1>2
  <2>. QED
    BY WokenList, SortedReorders DEF return_data
<1>3. CASE EndCycle
  <2>1. /\ DOMAIN MSHR' = DOMAIN MSHR /\ Len(MSHR') = Len(MSHR)
        /\ \A i \in DOMAIN MSHR : MSHR'[i].v = MSHR[i].v
    BY <1>3, AgedWalks
  <2>2. DOMAIN RQ' = DOMAIN RQ /\ \A i \in DOMAIN RQ : RQ'[i].v = RQ[i].v
    <3>1. \A x \in R : [x EXCEPT !.ready = TRUE].v = x.v
      BY DEF R
    <3>2. \A i \in DOMAIN RQ : RQ[i] \in R
      BY <1>0
    <3>3. RQ' = [i \in DOMAIN RQ |-> [RQ[i] EXCEPT !.ready = TRUE]]
      BY <1>3 DEF EndCycle
    <3>. DEFINE on(x) == [x EXCEPT !.ready = TRUE]
    <3>4. (\A x \in R : on(x).v = x.v) /\ RQ' = [i \in DOMAIN RQ |-> on(RQ[i])]
      BY <3>1, <3>3
    <3>. HIDE DEF on
    <3>. QED
      BY <3>2, <3>4
  <2>3. Len(RQ') = Len(RQ) /\ UNCHANGED asked
    <3>1. RQ' = [i \in DOMAIN RQ |-> RQ'[i]] /\ DOMAIN RQ = 1 .. Len(RQ)
      BY <1>0, <1>3, <2>2 DEF EndCycle
    <3>2. Len(RQ') = Len(RQ)
      BY <1>0, <2>2, <3>1
    <3>. QED
      BY <1>3, <3>2 DEF EndCycle
  <2>4. /\ {RQ'[i].v : i \in DOMAIN RQ'} = {RQ[i].v : i \in DOMAIN RQ}
        /\ {MSHR'[i].v : i \in DOMAIN MSHR'} = {MSHR[i].v : i \in DOMAIN MSHR}
    BY <2>1, <2>2
  <2>5. Placed'
    BY <2>1, <2>2 DEF AskedInv, Placed
  <2>. QED
    BY <2>1, <2>3, <2>4, <2>5 DEF AskedInv, AskedOnce
<1>4. CASE Translated
  <2>. DEFINE v == MSHR[1].v
  <2>1. MSHR # <<>> /\ MSHR' = Tail(MSHR) /\ UNCHANGED RQ /\ asked' = asked \ {v}
    BY <1>4 DEF Translated, FillReady
  <2>2. /\ DOMAIN MSHR' = 1 .. Len(MSHR) - 1 /\ DOMAIN MSHR = 1 .. Len(MSHR)
        /\ Len(MSHR') = Len(MSHR) - 1 /\ Len(MSHR) > 0
        /\ \A i \in DOMAIN MSHR' : i + 1 \in DOMAIN MSHR /\ MSHR'[i] = MSHR[i + 1]
    BY <1>0, <2>1
  <2>3. {MSHR'[i].v : i \in DOMAIN MSHR'} = {MSHR[i].v : i \in DOMAIN MSHR} \ {v}
    <3>1. \A i \in DOMAIN MSHR' : MSHR'[i].v # v
      BY <1>0, <2>2 DEF AskedInv, Placed
    <3>2. ASSUME NEW i \in DOMAIN MSHR, MSHR[i].v # v
          PROVE  \E j \in DOMAIN MSHR' : MSHR'[j].v = MSHR[i].v
      <4>1. i - 1 \in DOMAIN MSHR' /\ (i - 1) + 1 = i
        BY <1>0, <2>2, <3>2
      <4>. QED
        BY <2>2, <4>1
    <3>. QED
      BY <2>2, <3>1, <3>2
  <2>4. v \in asked /\ \A i \in DOMAIN RQ : RQ[i].v # v
    BY <1>0, <2>2 DEF AskedInv, AskedOnce, Placed
  <2>5. IsFiniteSet(asked') /\ Cardinality(asked') = Cardinality(asked) - 1
    BY <2>1, <2>4, FS_RemoveElement DEF AskedInv
  <2>. HIDE DEF v
  <2>6. AskedOnce'
    <3>1. asked' = {RQ'[i].v : i \in DOMAIN RQ'} \cup {MSHR'[i].v : i \in DOMAIN MSHR'}
      BY <2>1, <2>3, <2>4 DEF AskedInv, AskedOnce
    <3>2. Cardinality(asked') = Len(RQ') + Len(MSHR')
      BY <1>0, <2>1, <2>2, <2>5 DEF AskedInv, AskedOnce
    <3>. QED
      BY <3>1, <3>2 DEF AskedOnce
  <2>7. Placed'
    <3>1. \A i \in DOMAIN MSHR' : i \in Int /\ i + 1 \in DOMAIN MSHR /\ MSHR'[i] = MSHR[i + 1]
      BY <1>0, <2>2
    <3>2. \A i, j \in DOMAIN MSHR' : MSHR'[i].v = MSHR'[j].v => i = j
      <4>. SUFFICES ASSUME NEW i \in DOMAIN MSHR', NEW j \in DOMAIN MSHR',
                           MSHR'[i].v = MSHR'[j].v
                    PROVE  i = j
        OBVIOUS
      <4>1. i + 1 = j + 1
        BY <3>1 DEF AskedInv, Placed
      <4>. QED
        BY <3>1, <4>1
    <3>. QED
      BY <2>1, <3>1, <3>2 DEF AskedInv, Placed
  <2>. QED
    BY <2>5, <2>6, <2>7 DEF AskedInv
<1>5. CASE Descend
  <2>1. CASE UNCHANGED MSHR
    BY <1>5, <2>1 DEF AskedInv, AskedOnce, Placed, Descend
  <2>2. CASE MSHR' = MovedDown(MSHR[1])
    <3>. DEFINE d == Descended(MSHR[1])
                n == Len(MSHR)
    <3>1. MSHR # <<>> /\ MSHR' = Append(Tail(MSHR), d) /\ UNCHANGED <<RQ, asked>>
      BY <1>5, <2>2 DEF MovedDown, Descend, FillReady
    <3>2. d \in WALK /\ d.v = MSHR[1].v
      BY <1>5, DescendedWalk
    <3>. HIDE DEF d
    <3>3. /\ DOMAIN MSHR = 1 .. n /\ n \in Nat /\ n > 0
          /\ MSHR'[n] = d
          /\ \A i \in DOMAIN MSHR : i # n => i + 1 \in DOMAIN MSHR /\ MSHR'[i] = MSHR[i + 1]
      BY <1>0, <3>1, Shifted
    <3>4. DOMAIN MSHR' = DOMAIN MSHR /\ Len(MSHR') = n
      BY <1>0, <3>1, <3>2
    <3>. HIDE DEF n
    <3>5. 1 \in DOMAIN MSHR /\ \A i \in DOMAIN MSHR : i \in Int
      BY <3>3
    <3>6. ASSUME NEW i \in DOMAIN MSHR, NEW j \in DOMAIN MSHR, MSHR'[i].v = MSHR'[j].v
          PROVE  i = j
      <4>1. \A k \in DOMAIN MSHR : k # n => k + 1 # 1
        BY <3>3
      <4>2. CASE i # n /\ j # n
        <5>1. i + 1 = j + 1
          BY <3>3, <3>6, <4>2 DEF AskedInv, Placed
        <5>. QED
          BY <3>5, <5>1
      <4>3. CASE i = n /\ j # n
        <5>1. j + 1 = 1
          BY <3>2, <3>3, <3>5, <3>6, <4>3 DEF AskedInv, Placed
        <5>. QED
          BY <4>1, <4>3, <5>1
      <4>4. CASE i # n /\ j = n
        <5>1. i + 1 = 1
          BY <3>2, <3>3, <3>5, <3>6, <4>4 DEF AskedInv, Placed
        <5>. QED
          BY <4>1, <4>4, <5>1
      <4>. QED
        BY <4>2, <4>3, <4>4
    <3>7. {MSHR'[i].v : i \in DOMAIN MSHR} = {MSHR[i].v : i \in DOMAIN MSHR}
      <4>1. ASSUME NEW i \in DOMAIN MSHR
            PROVE  \E j \in DOMAIN MSHR : MSHR'[i].v = MSHR[j].v
        BY <3>2, <3>3, <3>5
      <4>2. ASSUME NEW i \in DOMAIN MSHR
            PROVE  \E j \in DOMAIN MSHR : MSHR'[j].v = MSHR[i].v
        <5>1. CASE i = 1
          <6>1. n \in DOMAIN MSHR /\ MSHR'[n].v = MSHR[i].v
            BY <3>2, <3>3, <5>1
          <6>. QED
            BY <6>1
        <5>2. CASE i # 1
          <6>1. i - 1 \in DOMAIN MSHR /\ i - 1 # n /\ (i - 1) + 1 = i
            BY <3>3, <5>2
          <6>. QED
            BY <3>3, <6>1
        <5>. QED
          BY <5>1, <5>2
      <4>3. \A i \in DOMAIN MSHR : MSHR'[i].v \in {MSHR[j].v : j \in DOMAIN MSHR}
        BY <4>1
      <4>4. \A i \in DOMAIN MSHR : MSHR[i].v \in {MSHR'[j].v : j \in DOMAIN MSHR}
        BY <4>2
      <4>. QED
        BY <4>3, <4>4
    <3>8. Len(MSHR') = Len(MSHR)
      BY <3>4 DEF n
    <3>. QED
      BY <3>1, <3>4, <3>6, <3>7, <3>8, Reordered
  <2>. QED
    BY <1>5, <2>1, <2>2 DEF Descend
<1>6. CASE handle_read
  <2>1. PICK s : MSHR' = Append(MSHR, [v |-> RQ[1].v, level |-> s.level,
                                       address |-> s.address, due |-> Never])
    BY <1>6 DEF handle_read
  <2>. DEFINE x == [v |-> RQ[1].v, level |-> s.level, address |-> s.address, due |-> Never]
              n == Len(MSHR)
              r == Len(RQ)
  <2>2. x.v = RQ[1].v /\ MSHR' = Append(MSHR, x)
    BY <2>1
  <2>3. RQ # <<>> /\ RQ' = Tail(RQ) /\ UNCHANGED asked
    BY <1>6 DEF handle_read
  <2>. HIDE DEF x
  <2>4. /\ DOMAIN MSHR' = 1 .. n + 1 /\ DOMAIN MSHR = 1 .. n /\ Len(MSHR') = n + 1
        /\ MSHR'[n + 1].v = RQ[1].v
        /\ \A i \in 1 .. n : MSHR'[i] = MSHR[i]
    BY <1>0, <2>2
  <2>5. /\ DOMAIN RQ' = 1 .. r - 1 /\ DOMAIN RQ = 1 .. r /\ Len(RQ') = r - 1 /\ r > 0
        /\ \A i \in 1 .. r - 1 : i + 1 \in DOMAIN RQ /\ RQ'[i] = RQ[i + 1]
    BY <1>0, <2>3
  <2>6. n \in Nat /\ r \in Nat
    BY <1>0
  <2>7. Cardinality(asked') = Len(RQ') + Len(MSHR')
    BY <2>3, <2>4, <2>5, <2>6 DEF AskedInv, AskedOnce
  <2>. HIDE DEF n, r
  <2>8. \A i \in DOMAIN MSHR' : (i \in DOMAIN MSHR /\ MSHR'[i] = MSHR[i]) \/ i = n + 1
    BY <2>4, <2>6
  <2>9. \A i \in DOMAIN RQ : i = 1 \/ (i - 1 \in DOMAIN RQ' /\ RQ'[i - 1] = RQ[i])
    <3>1. \A i \in DOMAIN RQ : i # 1 => i - 1 \in 1 .. r - 1 /\ (i - 1) + 1 = i
      BY <2>5, <2>6
    <3>. QED
      BY <2>5, <3>1
  <2>10. {RQ'[i].v : i \in DOMAIN RQ'} \cup {MSHR'[i].v : i \in DOMAIN MSHR'}
           = {RQ[i].v : i \in DOMAIN RQ} \cup {MSHR[i].v : i \in DOMAIN MSHR}
    <3>1. n + 1 \in DOMAIN MSHR' /\ 1 \in DOMAIN RQ /\ DOMAIN MSHR \subseteq DOMAIN MSHR'
      BY <2>4, <2>5, <2>6
    <3>. QED
      BY <2>4, <2>5, <2>8, <2>9, <3>1
  <2>11. Placed'
    <3>1. \A i \in DOMAIN RQ' : RQ'[i].v # RQ[1].v
      BY <2>5, <2>6 DEF AskedInv, Placed
    <3>2. ASSUME NEW i \in DOMAIN RQ', NEW j \in DOMAIN RQ', RQ'[i].v = RQ'[j].v
          PROVE  i = j
      <4>1. i + 1 = j + 1
        BY <2>5, <3>2 DEF AskedInv, Placed
      <4>. QED
        BY <2>5, <2>6, <4>1
    <3>3. \A i \in DOMAIN MSHR : MSHR[i].v # RQ[1].v
      BY <2>5, <2>6 DEF AskedInv, Placed
    <3>4. \A i, j \in DOMAIN MSHR' : MSHR'[i].v = MSHR'[j].v => i = j
      BY <2>4, <2>8, <3>3 DEF AskedInv, Placed
    <3>5. \A i \in DOMAIN RQ', j \in DOMAIN MSHR' : RQ'[i].v # MSHR'[j].v
      BY <2>4, <2>5, <2>8, <3>1 DEF AskedInv, Placed
    <3>. QED
      BY <3>2, <3>4, <3>5 DEF Placed
  <2>. QED
    BY <2>3, <2>7, <2>10, <2>11 DEF AskedInv, AskedOnce
<1>7. CASE \E v \in VPage : add_rq(v)
  <2>. PICK v \in VPage : add_rq(v)
    BY <1>7
  <2>. DEFINE x == [v |-> v, ready |-> FALSE]
              r == Len(RQ)
  <2>1. v \notin asked /\ RQ' = Append(RQ, x) /\ asked' = asked \cup {v} /\ UNCHANGED MSHR
    BY DEF add_rq
  <2>2. x.v = v
    OBVIOUS
  <2>. HIDE DEF x
  <2>3. /\ DOMAIN RQ' = 1 .. r + 1 /\ DOMAIN RQ = 1 .. r /\ Len(RQ') = r + 1
        /\ RQ'[r + 1].v = v /\ r \in Nat
        /\ \A i \in 1 .. r : RQ'[i] = RQ[i]
    BY <1>0, <2>1, <2>2
  <2>4. IsFiniteSet(asked') /\ Cardinality(asked') = Cardinality(asked) + 1
    BY <2>1, FS_AddElement DEF AskedInv
  <2>5. Cardinality(asked') = Len(RQ') + Len(MSHR')
    BY <1>0, <2>1, <2>3, <2>4 DEF AskedInv, AskedOnce
  <2>. HIDE DEF r
  <2>6. \A i \in DOMAIN RQ' : (i \in DOMAIN RQ /\ RQ'[i] = RQ[i]) \/ i = r + 1
    BY <2>3
  <2>7. asked' = {RQ'[i].v : i \in DOMAIN RQ'} \cup {MSHR'[i].v : i \in DOMAIN MSHR'}
    <3>1. r + 1 \in DOMAIN RQ' /\ DOMAIN RQ \subseteq DOMAIN RQ'
      BY <2>3
    <3>. QED
      BY <2>1, <2>3, <2>6, <3>1 DEF AskedInv, AskedOnce
  <2>8. Placed'
    <3>1. /\ \A i \in DOMAIN RQ : RQ[i].v # v
          /\ \A i \in DOMAIN MSHR : MSHR[i].v # v
      BY <2>1 DEF AskedInv, AskedOnce
    <3>. QED
      BY <2>1, <2>3, <2>6, <3>1 DEF AskedInv, Placed
  <2>. QED
    BY <2>4, <2>5, <2>7, <2>8 DEF AskedInv, AskedOnce
<1>8. CASE \/ Construct \/ BeginCycle \/ EndFill
           \/ \E v \in Touched : PrefetchTouches(v)
           \/ UNCHANGED ptwVars
  <2>1. UNCHANGED <<RQ, MSHR, asked>>
    BY <1>8 DEF Construct, BeginCycle, EndFill, PrefetchTouches, ptwVars, walker
  <2>. QED
    BY <2>1 DEF AskedInv, AskedOnce, Placed
<1>. QED
  BY <1>1, <1>2, <1>3, <1>4, <1>5, <1>6, <1>7, <1>8 DEF WalkerNext, Operate, handle_fill

(* Each translation the STLB asks for is in the walker once, so it gets one *)
(* answer (ptw.cc add_rq, handle_read, handle_fill).                        *)
THEOREM EachAskedOnce == WalkerSpec => []AskedOnce
<1>1. WalkerInit => AskedInv
  <2>. SUFFICES ASSUME WalkerInit PROVE AskedInv
    OBVIOUS
  <2>1. RQ = <<>> /\ MSHR = <<>> /\ asked = {}
    BY DEF WalkerInit
  <2>2. IsFiniteSet(asked) /\ Cardinality(asked) = 0 /\ Len(RQ) = 0 /\ Len(MSHR) = 0
        /\ DOMAIN RQ = {} /\ DOMAIN MSHR = {}
    BY <2>1, FS_EmptySet
  <2>. QED
    BY <2>1, <2>2 DEF AskedInv, AskedOnce, Placed
<1>2. AskedInv => AskedOnce
  BY DEF AskedInv
<1>. QED
  BY <1>1, <1>2, AskedStep, WalkerTyped, PTL DEF WalkerSpec

-----------------------------------------------------------------------------
(* The walks that skip levels.  A walk is vouched for when the tables of    *)
(* the levels above its own exist; a block of a paging-structure cache of   *)
(* level k is when some page of its region has its tables from level k up.  *)
Known(tables, v, k) == \A l \in k .. pt_levels - 1 : TableKey(cpu, v, l) \in DOMAIN tables

Vouched(P, k) == \A b \in P : \E w \in VPage : b.tag = region(w, k + 1) /\ Known(page_table, w, k)

TablesInv ==
  /\ TablesAboveMapped
  /\ Vouched(PSCL2, 1) /\ Vouched(PSCL3, 2) /\ Vouched(PSCL4, 3) /\ Vouched(PSCL5, 4)

(* A step never takes a table away.                                         *)
LEMMA TablesStay ==
  ASSUME WalkerTypeOK, [WalkerNext]_ptwVars
  PROVE  /\ \A k \in DOMAIN page_table : k \in DOMAIN page_table'
         /\ \A v, k : Known(page_table, v, k) => Known(page_table', v, k)
<1>1. \A k \in DOMAIN page_table : k \in DOMAIN page_table'
  <2>1. WalkerTypeOK /\ VMemTypeOK
    BY DEF WalkerTypeOK
  <2>2. \/ \E v \in VPage : va_to_pa(cpu, v)
        \/ \E v, level : get_pte_pa(cpu, v, level)
        \/ UNCHANGED page_table
    <3>1. CASE Fault
      <4>1. MSHR[1].v \in VPage
        BY <3>1, FirstWalk DEF Fault, FillReady
      <4>. QED
        BY <3>1, <4>1 DEF Fault
    <3>2. CASE Construct \/ \E v \in Touched : PrefetchTouches(v)
      BY <3>2, WalkerAssumption DEF Construct, PrefetchTouches
    <3>3. CASE \/ BeginCycle \/ Translated \/ Descend \/ EndFill \/ handle_read \/ EndCycle
               \/ \E v \in VPage : add_rq(v)
               \/ \E b \in DOMAIN lowerReads : return_data(b)
               \/ UNCHANGED ptwVars
      BY <3>3 DEF BeginCycle, Translated, Descend, EndFill, handle_read, EndCycle,
                  add_rq, return_data, ptwVars, vmem
    <3>. QED
      BY <3>1, <3>2, <3>3 DEF WalkerNext, Operate, handle_fill
  <2>3. CASE UNCHANGED page_table
    BY <2>3
  <2>4. CASE ~UNCHANGED page_table
    BY <2>1, <2>2, <2>4, FaultTypes, WalkerAssumption
  <2>. QED
    BY <2>3, <2>4
<1>2. ASSUME NEW v, NEW k, Known(page_table, v, k)
      PROVE  Known(page_table', v, k)
  BY <1>1, <1>2 DEF Known, TableMapped, TableKey, region
<1>. QED
  BY <1>1, <1>2

(* A cache that keeps some of its blocks, and perhaps a vouched new one, is *)
(* vouched for after the step.                                              *)
LEMMA VouchedStays ==
  ASSUME WalkerTypeOK, [WalkerNext]_ptwVars, NEW P, NEW k, Vouched(P, k)
  PROVE  \A b \in P : \E w \in VPage : b.tag = region(w, k + 1) /\ Known(page_table', w, k)
BY TablesStay DEF Vouched

LEMMA VouchedFill ==
  ASSUME WalkerTypeOK, [WalkerNext]_ptwVars, NEW P, NEW k, Vouched(P, k),
         NEW v \in VPage, Known(page_table, v, k), NEW u, NEW Q \in fill_cache(P, k, v, u)
  PROVE  \A b \in Q : \E w \in VPage : b.tag = region(w, k + 1) /\ Known(page_table', w, k)
<1>1. \A b \in P : \E w \in VPage : b.tag = region(w, k + 1) /\ Known(page_table', w, k)
  BY VouchedStays
<1>2. Known(page_table', v, k)
  BY TablesStay
<1>3. \A b \in Q : b \in P \/ b = [tag |-> region(v, k + 1), table |-> u]
  BY FilledCache
<1>. QED
  BY <1>1, <1>2, <1>3

(* The levels a walk skips when it starts.                                  *)
LEMMA WalkStartKnown ==
  ASSUME WalkerTypeOK, TablesInv, NEW v \in VPage, NEW s \in WalkStarts(v)
  PROVE  Known(page_table, v, s.level + 1)
<1>. DEFINE P    == <<PSCL2, PSCL3, PSCL4, PSCL5>>
            hits == {k \in 1 .. 4 : check_hit(P[k], k, v) # {}}
            low  == CHOOSE k \in hits : \A j \in hits : k <= j
<1>1. CASE hits = {}
  <2>1. s.level = pt_levels - 1
    BY <1>1 DEF WalkStarts
  <2>. QED
    BY <2>1, WalkerAssumption DEF Known, TableMapped
<1>2. CASE hits # {}
  <2>1. low \in hits /\ low \in 1 .. 4
    <3>1. \E k \in hits : \A j \in hits : k <= j
      BY <1>2
    <3>. QED
      BY <3>1
  <2>2. PICK b \in check_hit(P[low], low, v) :
          s = [address |-> splice(b.table, get_offset(v, low)), level |-> low - 1]
    BY <1>2 DEF WalkStarts
  <2>3. b \in P[low] /\ b.tag = region(v, low + 1)
    BY <2>2 DEF check_hit
  <2>4. s.level = low - 1
    BY <2>2
  <2>5. \A k \in 1 .. 4 : Vouched(P[k], k)
    BY DEF TablesInv
  <2>. HIDE DEF P, low
  <2>6. PICK w \in VPage : region(v, low + 1) = region(w, low + 1) /\ Known(page_table, w, low)
    BY <2>1, <2>3, <2>5 DEF Vouched
  <2>7. ASSUME NEW l \in low .. 4
        PROVE  region(v, l + 1) = region(w, l + 1)
    <3>1. \A k \in low + 1 .. 4 : v[k] = w[k]
      <4>1. \A k \in low + 1 .. 4 :
              region(v, low + 1)[k] = v[k] /\ region(w, low + 1)[k] = w[k]
        BY WalkerAssumption DEF region
      <4>. QED
        BY <2>6, <4>1
    <3>2. \A k \in l + 1 .. 4 : k \in low + 1 .. 4
      BY <2>1
    <3>. QED
      BY <3>1, <3>2, WalkerAssumption DEF region
  <2>8. \A l \in low .. 4 : TableMapped(cpu, v, l)
    BY <2>6, <2>7, WalkerAssumption DEF Known, TableMapped, TableKey
  <2>9. s.level + 1 = low
    BY <2>1, <2>4
  <2>. QED
    BY <2>8, <2>9, WalkerAssumption DEF Known, TableMapped
<1>. QED
  BY <1>1, <1>2

LEMMA TablesStep == WalkerTypeOK /\ TablesInv /\ [WalkerNext]_ptwVars => TablesInv'
<1>. SUFFICES ASSUME WalkerTypeOK, TablesInv, [WalkerNext]_ptwVars PROVE TablesInv'
  OBVIOUS
<1>0. MSHR \in Seq(WALK)
  BY DEF WalkerTypeOK
<1>1. \A i \in DOMAIN MSHR : Known(page_table', MSHR[i].v, MSHR[i].level + 1)
  BY TablesStay DEF TablesInv, TablesAboveMapped, Known, TableMapped
<1>2. ASSUME UNCHANGED <<PSCL5, PSCL4, PSCL3, PSCL2>>
      PROVE  /\ Vouched(PSCL2, 1)' /\ Vouched(PSCL3, 2)'
             /\ Vouched(PSCL4, 3)' /\ Vouched(PSCL5, 4)'
  BY <1>2, VouchedStays DEF TablesInv, Vouched
<1>3. ASSUME NEW m \in Seq(WALK), DOMAIN m = DOMAIN MSHR, MSHR' = Sorted(m),
             \A i \in DOMAIN MSHR : m[i].v = MSHR[i].v /\ m[i].level = MSHR[i].level
      PROVE  TablesAboveMapped'
  <2>1. /\ DOMAIN MSHR' = DOMAIN m
        /\ \A n \in DOMAIN m : \E i \in DOMAIN m : MSHR'[n] = m[i]
    <3>1. Len(Sorted(m)) = Len(m) /\ Sorted(m) \in Seq(WALK)
          /\ \A n \in DOMAIN m : \E i \in DOMAIN m : Sorted(m)[n] = m[i]
      BY WalksDated, SortedList
    <3>. QED
      BY <1>3, <3>1
  <2>2. \A i \in DOMAIN m : Known(page_table', m[i].v, m[i].level + 1)
    BY <1>1, <1>3
  <2>3. \A n \in DOMAIN MSHR' : Known(page_table', MSHR'[n].v, MSHR'[n].level + 1)
    BY <2>1, <2>2
  <2>. QED
    BY <2>3 DEF TablesAboveMapped, Known, TableMapped
<1>4. CASE Fault
  BY <1>2, <1>3, <1>4, FaultList DEF Fault, TablesInv, pscls
<1>5. CASE \E b \in DOMAIN lowerReads : return_data(b)
  <2>. PICK b \in DOMAIN lowerReads : return_data(b)
    BY <1>5
  <2>. QED
    BY <1>2, <1>3, WokenList DEF return_data, TablesInv, pscls
<1>6. CASE EndCycle
  <2>1. /\ DOMAIN MSHR' = DOMAIN MSHR
        /\ \A i \in DOMAIN MSHR : MSHR'[i].v = MSHR[i].v /\ MSHR'[i].level = MSHR[i].level
    BY <1>6, AgedWalks
  <2>2. TablesAboveMapped'
    BY <1>1, <2>1 DEF TablesAboveMapped, Known, TableMapped
  <2>. QED
    BY <1>2, <1>6, <2>2 DEF EndCycle, TablesInv, pscls
<1>7. CASE Translated
  <2>1. MSHR # <<>> /\ MSHR' = Tail(MSHR)
    BY <1>7 DEF Translated, FillReady
  <2>2. \A i \in DOMAIN MSHR' : i + 1 \in DOMAIN MSHR /\ MSHR'[i] = MSHR[i + 1]
    BY <1>0, <2>1, Shifted
  <2>3. TablesAboveMapped'
    BY <1>1, <2>2 DEF TablesAboveMapped, Known, TableMapped
  <2>. QED
    BY <1>2, <1>7, <2>3 DEF Translated, TablesInv, pscls
<1>8. CASE Descend
  <2>. DEFINE e == MSHR[1]
              d == Descended(e)
              n == Len(MSHR)
              t == page_table[TableKey(cpu, e.v, e.level)]
  <2>1. /\ MSHR # <<>> /\ TableMapped(cpu, e.v, e.level) /\ e.level > 0
        /\ FillsPscls(e.v, e.level)
        /\ MSHR' = MovedDown(e) \/ UNCHANGED MSHR
    BY <1>8 DEF Descend, FillReady
  <2>2. e.v \in VPage /\ e.level \in 0 .. 4 /\ 1 \in DOMAIN MSHR
    BY <1>0, <2>1, FirstWalk, Shifted
  <2>3. Known(page_table, e.v, e.level)
    <3>1. \A l \in e.level + 1 .. pt_levels - 1 : TableMapped(cpu, e.v, l)
      BY <2>2 DEF TablesInv, TablesAboveMapped
    <3>2. \A l \in e.level .. pt_levels - 1 : l = e.level \/ l \in e.level + 1 .. pt_levels - 1
      BY <2>2, WalkerAssumption
    <3>. QED
      BY <2>1, <3>1, <3>2 DEF Known, TableMapped
  <2>4. \A k \in e.level .. 4 : Known(page_table, e.v, k)
    BY <2>2, <2>3, WalkerAssumption DEF Known, TableMapped
  <2>5. /\ Vouched(PSCL2, 1)' /\ Vouched(PSCL3, 2)'
        /\ Vouched(PSCL4, 3)' /\ Vouched(PSCL5, 4)'
    <3>1. /\ PSCL5' = PSCL5 \/ (e.level = 4 /\ PSCL5' \in fill_cache(PSCL5, 4, e.v, t))
          /\ PSCL4' = PSCL4 \/ (e.level = 3 /\ PSCL4' \in fill_cache(PSCL4, 3, e.v, t))
          /\ PSCL3' = PSCL3 \/ (e.level = 1 /\ PSCL3' \in fill_cache(PSCL3, 2, e.v, t))
          /\ PSCL2' = PSCL2 \/ (e.level = 1 /\ PSCL2' \in fill_cache(PSCL2, 1, e.v, t))
      BY <2>1 DEF FillsPscls
    <3>2. /\ Vouched(PSCL2, 1) /\ Vouched(PSCL3, 2) /\ Vouched(PSCL4, 3) /\ Vouched(PSCL5, 4)
      BY DEF TablesInv
    <3>. HIDE DEF e, t
    <3>3. \A b \in PSCL5' : \E w \in VPage : b.tag = region(w, 4 + 1) /\ Known(page_table', w, 4)
      BY <2>2, <2>4, <3>1, <3>2, VouchedFill, VouchedStays
    <3>4. \A b \in PSCL4' : \E w \in VPage : b.tag = region(w, 3 + 1) /\ Known(page_table', w, 3)
      BY <2>2, <2>4, <3>1, <3>2, VouchedFill, VouchedStays
    <3>5. \A b \in PSCL3' : \E w \in VPage : b.tag = region(w, 2 + 1) /\ Known(page_table', w, 2)
      BY <2>2, <2>4, <3>1, <3>2, VouchedFill, VouchedStays
    <3>6. \A b \in PSCL2' : \E w \in VPage : b.tag = region(w, 1 + 1) /\ Known(page_table', w, 1)
      BY <2>2, <2>4, <3>1, <3>2, VouchedFill, VouchedStays
    <3>. QED
      BY <3>3, <3>4, <3>5, <3>6 DEF Vouched
  <2>6. TablesAboveMapped'
    <3>1. CASE UNCHANGED MSHR
      BY <1>1, <3>1 DEF TablesAboveMapped, Known, TableMapped
    <3>2. CASE MSHR' = MovedDown(e)
      <4>1. Known(page_table', d.v, d.level + 1)
        <5>1. d.v = e.v /\ d.level = e.level - 1
          BY <1>8, DescendedWalk
        <5>2. d.level + 1 = e.level
          BY <2>2, <5>1
        <5>3. Known(page_table, d.v, d.level + 1)
          BY <2>3, <5>1, <5>2
        <5>. QED
          BY <5>3, TablesStay
      <4>2. MSHR' = Append(Tail(MSHR), d)
        BY <3>2 DEF MovedDown
      <4>. HIDE DEF d
      <4>3. /\ DOMAIN MSHR' = DOMAIN MSHR
            /\ MSHR'[n] = d
            /\ \A i \in DOMAIN MSHR :
                 i # n => i + 1 \in DOMAIN MSHR /\ MSHR'[i] = MSHR[i + 1]
        BY <1>0, <2>1, <4>2, Shifted
      <4>4. \A i \in DOMAIN MSHR' : Known(page_table', MSHR'[i].v, MSHR'[i].level + 1)
        BY <1>1, <4>1, <4>3
      <4>. QED
        BY <4>4 DEF TablesAboveMapped, Known, TableMapped
    <3>. QED
      BY <2>1, <3>1, <3>2
  <2>. QED
    BY <2>5, <2>6 DEF TablesInv
<1>9. CASE handle_read
  <2>1. PICK s \in WalkStarts(RQ[1].v) :
          MSHR' = Append(MSHR, [v |-> RQ[1].v, level |-> s.level,
                                address |-> s.address, due |-> Never])
    BY <1>9 DEF handle_read
  <2>. DEFINE x == [v |-> RQ[1].v, level |-> s.level, address |-> s.address, due |-> Never]
              n == Len(MSHR)
  <2>2. RQ[1].v \in VPage
    <3>. DEFINE R == [v : VPage, ready : BOOLEAN]
    <3>1. RQ \in Seq(R) /\ \A r \in R : r.v \in VPage
      BY DEF WalkerTypeOK
    <3>2. RQ # <<>>
      BY <1>9 DEF handle_read
    <3>. HIDE DEF R
    <3>. QED
      BY <3>1, <3>2
  <2>3. Known(page_table', RQ[1].v, s.level + 1)
    BY <2>2, WalkStartKnown, TablesStay
  <2>4. x.v = RQ[1].v /\ x.level = s.level /\ MSHR' = Append(MSHR, x)
    BY <2>1
  <2>. HIDE DEF x
  <2>5. /\ DOMAIN MSHR' = 1 .. n + 1 /\ n \in Nat /\ DOMAIN MSHR = 1 .. n
        /\ MSHR'[n + 1] = x
        /\ \A i \in 1 .. n : MSHR'[i] = MSHR[i]
    BY <1>0, <2>4, Appended
  <2>. HIDE DEF n
  <2>6. \A i \in 1 .. n + 1 : i \in 1 .. n \/ i = n + 1
    BY <2>5
  <2>7. \A i \in DOMAIN MSHR' : Known(page_table', MSHR'[i].v, MSHR'[i].level + 1)
    BY <1>1, <2>3, <2>4, <2>5, <2>6
  <2>8. TablesAboveMapped'
    BY <2>7 DEF TablesAboveMapped, Known, TableMapped
  <2>. QED
    BY <1>2, <1>9, <2>8 DEF handle_read, TablesInv, pscls
<1>10. CASE \/ Construct \/ BeginCycle \/ EndFill
            \/ \E v \in VPage : add_rq(v)
            \/ \E v \in Touched : PrefetchTouches(v)
            \/ UNCHANGED ptwVars
  <2>1. UNCHANGED <<MSHR, PSCL5, PSCL4, PSCL3, PSCL2>>
    BY <1>10 DEF Construct, BeginCycle, EndFill, add_rq, PrefetchTouches, ptwVars, walker,
                 pscls
  <2>2. TablesAboveMapped'
    BY <1>1, <2>1 DEF TablesAboveMapped, Known, TableMapped
  <2>. QED
    BY <1>2, <2>1, <2>2 DEF TablesInv
<1>. QED
  BY <1>4, <1>5, <1>6, <1>7, <1>8, <1>9, <1>10 DEF WalkerNext, Operate, handle_fill

(* A paging-structure cache never sends a walk past a table that does not   *)
(* exist (ptw.cc check_hit, handle_read).                                   *)
THEOREM SkippedTablesExist == WalkerSpec => []TablesAboveMapped
<1>1. WalkerInit => TablesInv
  BY DEF WalkerInit, TablesInv, TablesAboveMapped, Vouched
<1>2. TablesInv => TablesAboveMapped
  BY DEF TablesInv
<1>. QED
  BY <1>1, <1>2, TablesStep, WalkerTyped, PTL DEF WalkerSpec

=============================================================================
