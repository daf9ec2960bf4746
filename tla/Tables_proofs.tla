---------------------------- MODULE Tables_proofs ----------------------------
(***************************************************************************)
(* Proofs about the tables that are kept beside the core and the caches:   *)
(* the replacement state of a set, for every associativity; the return     *)
(* address stack and the BTB, for every size, every set of branches and    *)
(* every hash; the stride prefetcher, for every table size and every       *)
(* pattern of accesses.                                                    *)
(***************************************************************************)
EXTENDS LruPolicy, Rrip, Btb, Stride, SequenceTheorems, WellFoundedInduction,
        NaturalsInduction, TLAPS

-----------------------------------------------------------------------------
(* The counters of lru.cc record recency exactly.  The inductive invariant *)
(* adds to CountersStacked that the blocks in use are a prefix of the set  *)
(* (nothing invalidates a block) and that the invalid ones have been aged  *)
(* once by each fill, which is what bounds their counters.                 *)


(* The blocks in use come first.                                           *)
Prefix == \A w \in Way : valid[w] => \A v \in 0 .. w - 1 : valid[v]

(* With w blocks in use every invalid counter is Unused + w.               *)
AgedByFills ==
    \A w \in Way : ~valid[w] /\ (\A v \in 0 .. w - 1 : valid[v])
                     => \A x \in Way : ~valid[x] => lru[x] = Unused + w

LruInv == LruTypeOK /\ NoTie /\ NoGap /\ InvalidAbove /\ Prefix /\ AgedByFills

LEMMA LruInitially == LruInit => LruInv
<1> SUFFICES ASSUME LruInit PROVE LruInv
  OBVIOUS
<1> USE LruAssumption DEF LruInit, Way
<1>1. LruTypeOK
  BY DEF LruTypeOK
<1>2. NoTie /\ NoGap /\ Prefix
  BY DEF NoTie, NoGap, Prefix
<1>3. InvalidAbove
  BY DEF InvalidAbove
<1>4. AgedByFills
  <2> SUFFICES ASSUME NEW w \in Way, \A v \in 0 .. w - 1 : valid[v]
               PROVE  w = 0
    BY DEF AgedByFills
  <2> QED
    BY 0 \in Way
<1> QED
  BY <1>1, <1>2, <1>3, <1>4 DEF LruInv

(* What an update does to each counter.                                    *)
LEMMA CountersAged ==
  ASSUME LruTypeOK, NEW way \in Way, update_replacement_state(way)
  PROVE  /\ lru' \in [Way -> Nat]
         /\ lru'[way] = 0
         /\ \A w \in Way \ {way} : /\ lru[w] <= lru[way] => lru'[w] = lru[w] + 1
                                   /\ lru[w] > lru[way] => lru'[w] = lru[w]
<1>1. \A w \in Way : lru[w] \in Nat
  BY DEF LruTypeOK
<1> QED
  BY <1>1 DEF update_replacement_state

LEMMA LruHitKeeps ==
  ASSUME LruInv, NEW way \in Way, Hit(way)
  PROVE  LruInv'
<1> USE DEF LruInv
<1>1. /\ valid' = valid /\ valid[way]
      /\ lru' \in [Way -> Nat]
      /\ lru'[way] = 0
      /\ \A w \in Way \ {way} : /\ lru[w] <= lru[way] => lru'[w] = lru[w] + 1
                                /\ lru[w] > lru[way] => lru'[w] = lru[w]
  BY CountersAged DEF Hit
<1>2. \A w \in Way : lru[w] \in Nat /\ valid[w] \in BOOLEAN
  BY DEF LruTypeOK
<1>3. \A w \in Way : ~valid[w] => lru'[w] = lru[w]
  BY <1>1, <1>2 DEF InvalidAbove
<1>4. LruTypeOK'
  BY <1>1 DEF LruTypeOK
<1>5. NoTie'
  BY <1>1, <1>2 DEF NoTie
<1>6. NoGap'
  <2> SUFFICES ASSUME NEW w \in Way, valid[w], NEW k \in 0 .. lru'[w] - 1
               PROVE  \E v \in Way : valid[v] /\ lru'[v] = k
    BY <1>1 DEF NoGap
  <2>0. k \in Nat /\ k < lru'[w] /\ w # way
    BY <1>1, <1>2
  <2>1. CASE k = 0
    BY <2>1, <1>1
  <2>2. CASE k > 0 /\ k <= lru[way]
    <3>1. k - 1 \in 0 .. lru[way] - 1
      BY <2>2, <2>0, <1>2
    <3>2. PICK v \in Way : valid[v] /\ lru[v] = k - 1
      BY <3>1, <1>1 DEF NoGap
    <3>3. v # way /\ lru[v] <= lru[way]
      BY <3>2, <2>0, <2>2, <1>2
    <3> QED
      BY <3>2, <3>3, <1>1, <2>0
  <2>3. CASE k > lru[way]
    <3>1. lru[w] > lru[way] /\ lru'[w] = lru[w]
      BY <2>3, <2>0, <1>1, <1>2 DEF NoTie
    <3>2. k \in 0 .. lru[w] - 1
      BY <3>1, <2>0, <1>2
    <3>3. PICK v \in Way : valid[v] /\ lru[v] = k
      BY <3>2 DEF NoGap
    <3> QED
      BY <3>3, <2>3, <1>1, <1>2
  <2> QED
    BY <2>0, <2>1, <2>2, <2>3, <1>2
<1>7. InvalidAbove'
  BY <1>1, <1>2, <1>3 DEF InvalidAbove, NoTie
<1>8. Prefix' /\ AgedByFills'
  BY <1>1, <1>3 DEF Prefix, AgedByFills, Way
<1> QED
  BY <1>4, <1>5, <1>6, <1>7, <1>8

LEMMA LruFillKeeps ==
  ASSUME LruInv, NEW way \in Way, Fill(way)
  PROVE  LruInv'
<1> USE DEF LruInv
<1>1. /\ lru' \in [Way -> Nat]
      /\ lru'[way] = 0
      /\ \A w \in Way \ {way} : /\ lru[w] <= lru[way] => lru'[w] = lru[w] + 1
                                /\ lru[w] > lru[way] => lru'[w] = lru[w]
  BY CountersAged DEF Fill
<1>2. \A w \in Way : lru[w] \in Nat /\ valid[w] \in BOOLEAN
  BY DEF LruTypeOK
<1>3. /\ valid' \in [Way -> BOOLEAN]
      /\ \A w \in Way : valid'[w] = (valid[w] \/ w = way)
  BY DEF Fill, LruTypeOK
<1>4. \A w \in Way : valid[w] => lru[w] <= lru[way]
  <2>1. CASE ValidWays = Way
    BY <2>1, <1>2 DEF Fill, FillWay, find_victim, NoOlderThan, ValidWays
  <2>2. CASE ValidWays # Way
    BY <2>2, <1>2 DEF Fill, FillWay, InvalidAbove
  <2> QED
    BY <2>1, <2>2
<1>5. LruTypeOK'
  BY <1>1, <1>3 DEF LruTypeOK
<1>6. NoTie'
  BY <1>1, <1>2, <1>3, <1>4 DEF NoTie
<1>7. NoGap'
  <2> SUFFICES ASSUME NEW w \in Way, valid'[w], NEW k \in 0 .. lru'[w] - 1
               PROVE  \E v \in Way : valid'[v] /\ lru'[v] = k
    BY DEF NoGap
  <2>0. k \in Nat /\ k < lru'[w] /\ w # way /\ valid[w] /\ lru'[w] = lru[w] + 1
    BY <1>1, <1>2, <1>3, <1>4
  <2>1. CASE k = 0
    BY <2>1, <1>1, <1>3
  <2>2. CASE k > 0
    <3>1. k - 1 \in 0 .. lru[w] - 1
      BY <2>2, <2>0, <1>2
    <3>2. PICK v \in Way : valid[v] /\ lru[v] = k - 1
      BY <3>1, <2>0 DEF NoGap
    <3>3. v # way
      <4>1. CASE v = way
        BY <4>1, <3>2, <2>0, <1>2, <1>4
      <4> QED
        BY <4>1
    <3> QED
      BY <3>2, <3>3, <1>1, <1>2, <1>3, <1>4, <2>0
  <2> QED
    BY <2>0, <2>1, <2>2
<1>8. CASE ValidWays = Way
  <2>1. \A w \in Way : valid'[w]
    BY <1>8, <1>3 DEF ValidWays
  <2>2. \A w \in Way : \A v \in 0 .. w - 1 : v \in Way
    BY LruAssumption DEF Way
  <2>3. InvalidAbove' /\ AgedByFills'
    BY <2>1 DEF InvalidAbove, AgedByFills
  <2>4. Prefix'
    BY <2>1, <2>2 DEF Prefix
  <2> QED
    BY <2>3, <2>4, <1>5, <1>6, <1>7
<1>9. CASE ValidWays # Way
  <2>1. ~valid[way] /\ \A v \in 0 .. way - 1 : valid[v]
    BY <1>9 DEF Fill, FillWay
  <2>2. \A x \in Way : ~valid[x] => lru[x] = Unused + way
    BY <2>1 DEF AgedByFills
  <2>3. \A x \in Way : ~valid'[x] => lru'[x] = Unused + way + 1
    BY <2>1, <2>2, <1>1, <1>2, <1>3
  <2>4. way + 1 <= NUM_WAY /\ way \in Nat
    BY LruAssumption DEF Way
  <2>5. InvalidAbove'
    BY <2>1, <2>2, <2>3, <2>4, <1>1, <1>2, <1>3, LruAssumption DEF InvalidAbove
  <2>6. Prefix'
    <3> SUFFICES ASSUME NEW w \in Way, valid'[w], NEW v \in 0 .. w - 1
                 PROVE  valid'[v]
      BY DEF Prefix
    <3>1. v \in Way
      BY LruAssumption DEF Way
    <3> QED
      BY <3>1, <2>1, <1>3 DEF Prefix
  <2>7. AgedByFills'
    <3> SUFFICES ASSUME NEW w \in Way, ~valid'[w],
                        \A v \in 0 .. w - 1 : valid'[v]
                 PROVE  w = way + 1
      <4>1. \A x \in Way : ~valid'[x] => lru'[x] = Unused + (way + 1)
        BY <2>3, <2>4, LruAssumption
      <4> QED
        BY <4>1 DEF AgedByFills
    <3>1. w # way /\ ~valid[w]
      BY <1>3
    <3>2. ~(w < way)
      BY <3>1, <2>1 DEF Way
    <3>3. ~(w > way + 1)
      <4> SUFFICES ASSUME w > way + 1 PROVE FALSE
        OBVIOUS
      <4>1. way + 1 \in 0 .. w - 1 /\ way + 1 \in Way /\ way \in 0 .. (way + 1) - 1
        BY <2>4, LruAssumption DEF Way
      <4>2. valid[way + 1]
        BY <4>1, <1>3, <2>4
      <4> QED
        BY <4>1, <4>2, <2>1 DEF Prefix
    <3> QED
      BY <3>1, <3>2, <3>3, LruAssumption DEF Way
  <2> QED
    BY <2>5, <2>6, <2>7, <1>5, <1>6, <1>7
<1> QED
  BY <1>8, <1>9

LEMMA LruStep == LruInv /\ [LruNext]_lruVars => LruInv'
<1> SUFFICES ASSUME LruInv, [LruNext]_lruVars PROVE LruInv'
  OBVIOUS
<1>1. ASSUME NEW way \in Way, Hit(way) PROVE LruInv'
  BY <1>1, LruHitKeeps
<1>2. ASSUME NEW way \in Way, Fill(way) PROVE LruInv'
  BY <1>2, LruFillKeeps
<1>3. CASE UNCHANGED lruVars
  BY <1>3 DEF lruVars, LruInv, LruTypeOK, NoTie, NoGap, InvalidAbove, Prefix,
              AgedByFills
<1> QED
  BY <1>1, <1>2, <1>3 DEF LruNext, WritebackHit

(* replacement/lru/lru.cc: the counters of a set have their types, the     *)
(* valid ones count 0, 1, 2, ... and the invalid ones stay above them and  *)
(* below Unused + NUM_WAY, whatever hits and fills the set has seen.       *)
THEOREM LruCountersStacked == LruSpec => [](LruTypeOK /\ CountersStacked)
<1>1. LruInv => LruTypeOK /\ CountersStacked
  BY DEF LruInv, CountersStacked
<1> QED
  BY <1>1, LruInitially, LruStep, PTL DEF LruSpec

-----------------------------------------------------------------------------
(* An update is a promotion of the recency order; what is valid after it   *)
(* is what was valid before and the way itself.                            *)
LEMMA UpdatePromotes ==
  ASSUME LruTypeOK, NoTie, NEW way \in Way, update_replacement_state(way),
         \A w \in Way : valid'[w] = (valid[w] \/ w = way),
         valid[way] \/ \A w \in Way : valid[w] => lru[w] < lru[way]
  PROVE  /\ ValidWays' = ValidWays \cup {way}
         /\ NewerPairs' = {p \in NewerPairs : p[1] # way /\ p[2] # way}
                             \cup ({way} \X (ValidWays \ {way}))
<1>1. /\ lru' \in [Way -> Nat]
      /\ lru'[way] = 0
      /\ \A w \in Way \ {way} : /\ lru[w] <= lru[way] => lru'[w] = lru[w] + 1
                                /\ lru[w] > lru[way] => lru'[w] = lru[w]
  BY CountersAged
<1>2. \A w \in Way : lru[w] \in Nat /\ valid[w] \in BOOLEAN
  BY DEF LruTypeOK
<1>3. ValidWays' = ValidWays \cup {way}
  BY <1>2 DEF ValidWays
<1>4. \A v \in Way : v \in ValidWays <=> valid[v]
  BY DEF ValidWays
<1>5. ASSUME NEW v \in Way \ {way}, NEW w \in Way \ {way}, valid[v], valid[w]
      PROVE  lru'[v] < lru'[w] <=> lru[v] < lru[w]
  BY <1>1, <1>2, <1>5 DEF NoTie
<1>6. ASSUME NEW v \in Way \ {way}, valid[v]
      PROVE  lru'[way] < lru'[v] /\ ~(lru'[v] < lru'[way])
  BY <1>1, <1>2, <1>6 DEF NoTie
<1> DEFINE New == {p \in NewerPairs : p[1] # way /\ p[2] # way}
                     \cup ({way} \X (ValidWays \ {way}))
<1>7. ASSUME NEW v, NEW w
      PROVE  <<v, w>> \in NewerPairs' <=> <<v, w>> \in New
  <2>1. <<v, w>> \in NewerPairs' <=>
           v \in ValidWays \cup {way} /\ w \in ValidWays \cup {way} /\ lru'[v] < lru'[w]
    BY <1>3 DEF NewerPairs
  <2>2. <<v, w>> \in New <=>
           \/ v \in ValidWays /\ w \in ValidWays /\ lru[v] < lru[w] /\ v # way /\ w # way
           \/ v = way /\ w \in ValidWays /\ w # way
    BY DEF NewerPairs
  <2>3. CASE v = way /\ w = way
    BY <2>1, <2>2, <2>3, <1>1
  <2>4. CASE v = way /\ w # way
    BY <2>1, <2>2, <2>4, <1>4, <1>6 DEF ValidWays
  <2>5. CASE v # way /\ w = way
    BY <2>1, <2>2, <2>5, <1>4, <1>6 DEF ValidWays
  <2>6. CASE v # way /\ w # way
    <3>1. v \in ValidWays /\ w \in ValidWays => (lru'[v] < lru'[w] <=> lru[v] < lru[w])
      BY <2>6, <1>4, <1>5 DEF ValidWays
    <3> QED
      BY <3>1, <2>1, <2>2, <2>6
  <2> QED
    BY <2>3, <2>4, <2>5, <2>6
<1>8. NewerPairs' \subseteq (ValidWays \cup {way}) \X (ValidWays \cup {way})
  BY <1>3 DEF NewerPairs
<1>9. New \subseteq (ValidWays \cup {way}) \X (ValidWays \cup {way})
  BY DEF NewerPairs
<1> HIDE DEF New
<1>10. NewerPairs' = New
  BY <1>7, <1>8, <1>9
<1> QED
  BY <1>3, <1>10 DEF New

(* The LRU policy implements the abstract one: in particular a fill of a   *)
(* full set evicts the way that every other has been used after.           *)
THEOREM LruImplementsRecency == LruSpec => EvictsLeastRecent
<1>1. LruInit => R!RecencyInit
  BY DEF LruInit, R!RecencyInit, NewerPairs, ValidWays
<1>2. ASSUME LruInv, NEW way \in Way, Hit(way) PROVE R!Touch(way)
  <2>1. \A w \in Way : valid'[w] = (valid[w] \/ w = way)
    BY <1>2 DEF Hit, LruInv, LruTypeOK
  <2>2. /\ ValidWays' = ValidWays \cup {way}
        /\ NewerPairs' = R!Promoted(way)
    BY <2>1, <1>2, UpdatePromotes DEF Hit, LruInv, R!Promoted
  <2>3. way \in ValidWays
    BY <1>2 DEF Hit, ValidWays
  <2> QED
    BY <2>2, <2>3 DEF R!Touch
<1>3. ASSUME LruInv, NEW way \in Way, Fill(way) PROVE R!Occupy(way)
  <2>1. \A w \in Way : valid'[w] = (valid[w] \/ w = way)
    BY <1>3 DEF Fill, LruInv, LruTypeOK
  <2>2. valid[way] \/ \A w \in Way : valid[w] => lru[w] < lru[way]
    BY <1>3 DEF LruInv, InvalidAbove
  <2>3. /\ ValidWays' = ValidWays \cup {way}
        /\ NewerPairs' = R!Promoted(way)
    BY <2>1, <2>2, <1>3, UpdatePromotes DEF Fill, LruInv, R!Promoted
  <2>4. CASE ValidWays = Way
    <3>1. \A v \in Way \ {way} : lru[v] < lru[way]
      BY <1>3, <2>4 DEF Fill, FillWay, find_victim, NoOlderThan, ValidWays, LruInv,
                        NoTie, LruTypeOK
    <3>2. R!Oldest(way)
      BY <3>1, <2>4 DEF R!Oldest, NewerPairs
    <3> QED
      BY <3>2, <2>3, <2>4 DEF R!Occupy
  <2>5. CASE ValidWays # Way
    <3>1. way \notin ValidWays
      BY <1>3, <2>5 DEF Fill, FillWay, ValidWays
    <3> QED
      BY <3>1, <2>3, <2>5 DEF R!Occupy
  <2> QED
    BY <2>4, <2>5
<1>4. LruInv /\ [LruNext]_lruVars => [R!RecencyNext]_R!recencyVars
  <2> SUFFICES ASSUME LruInv, [LruNext]_lruVars
               PROVE  [R!RecencyNext]_R!recencyVars
    OBVIOUS
  <2>1. CASE UNCHANGED lruVars
    BY <2>1 DEF lruVars, R!recencyVars, NewerPairs, ValidWays
  <2>2. ASSUME NEW way \in Way, Hit(way) PROVE R!RecencyNext
    BY <2>2, <1>2 DEF R!RecencyNext
  <2>3. ASSUME NEW way \in Way, Fill(way) PROVE R!RecencyNext
    BY <2>3, <1>3 DEF R!RecencyNext
  <2> QED
    BY <2>1, <2>2, <2>3 DEF LruNext, WritebackHit
<1> QED
  BY <1>1, <1>4, LruInitially, LruStep, PTL DEF LruSpec, R!RecencySpec, EvictsLeastRecent

-----------------------------------------------------------------------------
(* find_victim of the RRIP policies ends within maxRRPV rounds, for every  *)
(* maxRRPV and every width of the counter that leaves room for it.  What   *)
(* matters is that the blocks hidden by adjust_assoc are covered as well,  *)
(* since they come back with the counters they had.                        *)


(* Every set of numbers that is not empty has a least one.                 *)
LEMMA LeastNumber ==
    ASSUME NEW N, N \subseteq Nat, N # {}
    PROVE  \E n \in N : \A m \in N : n <= m
<1>1. PICK n \in N : \A m \in N : ~ (<<m, n>> \in OpToRel(<, Nat))
  BY NatLessThanWellFounded, WFMin, Zenon
<1>2. \A p \in Nat \X Nat : p[1] < p[2] => p \in OpToRel(<, Nat)
  BY Zenon DEF OpToRel
<1>3. ASSUME NEW m \in N PROVE n <= m
  <2>1. m \in Nat /\ n \in Nat /\ ~(m < n)
    BY <1>1, <1>2
  <2> QED BY <2>1
<1> QED BY <1>3

(* Counters up to twice maxRRPV do not wrap.                               *)
LEMMA SmallModulo ==
    ASSUME NEW n \in Nat \ {0}, NEW a \in 0 .. n - 1
    PROVE  a % n = a /\ (a + n) % n = a
OBVIOUS

-----------------------------------------------------------------------------
(* The number of rounds is the least after which a counter is at maxRRPV;  *)
(* there is one, as the counters wrap.                                     *)
LEMMA RoundsLeast ==
    ASSUME RripTypeOK
    PROVE  /\ Rounds \in 0 .. CounterRange - 1
           /\ Stops(Rounds)
           /\ \A j \in 0 .. Rounds - 1 : ~Stops(j)
<1> USE RripAssumption
<1> DEFINE Enough == {k \in 0 .. CounterRange - 1 : Stops(k)}
<1>1. Enough # {}
  <2>1. 0 \in InForce /\ rrpv[0] \in 0 .. CounterRange - 1
    BY DEF RripTypeOK, InForce, BlockWay
  <2> DEFINE k == IF rrpv[0] <= maxRRPV THEN maxRRPV - rrpv[0]
                  ELSE maxRRPV + CounterRange - rrpv[0]
  <2>2. k \in 0 .. CounterRange - 1
    BY <2>1
  <2>3. rrpv[0] + k = maxRRPV \/ rrpv[0] + k = maxRRPV + CounterRange
    BY <2>1
  <2>4. (rrpv[0] + k) % CounterRange = maxRRPV
    BY <2>3, SmallModulo, CounterRange \in Nat \ {0}, maxRRPV \in 0 .. CounterRange - 1
  <2> QED BY <2>1, <2>2, <2>4 DEF Stops, Aged
<1>2. PICK k \in Enough : \A j \in Enough : k <= j
  <2> HIDE DEF Enough
  <2>1. Enough \subseteq Nat
    BY DEF Enough
  <2> QED BY <1>1, <2>1, LeastNumber
<1>3. k \in 0 .. CounterRange - 1 /\ Stops(k) /\ \A j \in 0 .. k - 1 : ~Stops(j)
  BY <1>2
<1> QED BY <1>3 DEF Rounds

-----------------------------------------------------------------------------
(* Every filled block is within maxRRPV, hidden or not.                    *)
CountersSet ==
    kind # "drrip_sampled" => \A w \in filled : rrpv[w] <= maxRRPV

RripInv == RripTypeOK /\ CountersSet

(* A set of filled blocks needs maxRRPV rounds at most, and none of them   *)
(* is aged past maxRRPV by that.                                           *)
LEMMA FullSetAges ==
    ASSUME RripInv, kind # "drrip_sampled", InForce \subseteq filled
    PROVE  /\ Rounds <= maxRRPV
           /\ \A v \in InForce : Aged(v, Rounds) \in 0 .. maxRRPV
<1> USE RripAssumption DEF RripInv
<1>1. /\ Rounds \in 0 .. CounterRange - 1
      /\ \A j \in 0 .. Rounds - 1 : ~Stops(j)
  BY RoundsLeast
<1>2. ASSUME NEW v \in InForce
      PROVE  rrpv[v] + Rounds <= maxRRPV /\ rrpv[v] \in Nat
  <2>1. rrpv[v] \in 0 .. maxRRPV
    BY DEF InForce, BlockWay, RripTypeOK, CountersSet
  <2> DEFINE j == maxRRPV - rrpv[v]
  <2>2. j \in Nat /\ rrpv[v] + j = maxRRPV
    BY <2>1
  <2>3. maxRRPV % CounterRange = maxRRPV
    BY SmallModulo, CounterRange \in Nat \ {0}, maxRRPV \in 0 .. CounterRange - 1
  <2>4. Stops(j)
    BY <2>2, <2>3 DEF Stops, Aged
  <2>5. j \notin 0 .. Rounds - 1
    BY <1>1, <2>4
  <2> QED BY <1>1, <2>1, <2>2, <2>5
<1>3. ASSUME NEW v \in InForce PROVE Aged(v, Rounds) \in 0 .. maxRRPV
  <2>1. rrpv[v] + Rounds \in 0 .. CounterRange - 1 /\ rrpv[v] + Rounds <= maxRRPV
    BY <1>1, <1>2
  <2>2. Aged(v, Rounds) = rrpv[v] + Rounds
    BY <2>1, SmallModulo, CounterRange \in Nat \ {0} DEF Aged
  <2> QED BY <2>1, <2>2
<1>4. 0 \in InForce
  BY DEF InForce, RripTypeOK
<1> QED BY <1>1, <1>2, <1>3, <1>4

LEMMA RripStepKeeps ==
    ASSUME RripInv, [RripNext]_rripVars PROVE RripInv'
<1> USE RripAssumption DEF RripInv
<1>1. ASSUME NEW w \in BlockWay, NEW type \in AccessType, RripHit(w, type)
      PROVE  RripInv'
  <2>1. w \in filled /\ rrpv' = [rrpv EXCEPT ![w] = HitValue(type, @)]
        /\ UNCHANGED <<kind, filled, current_assoc>>
    BY <1>1 DEF RripHit
  <2>2. /\ HitValue(type, rrpv[w]) \in 0 .. CounterRange - 1
        /\ kind # "drrip_sampled" => HitValue(type, rrpv[w]) <= maxRRPV
    BY <2>1 DEF HitValue, RripTypeOK, CountersSet
  <2> QED BY <2>1, <2>2 DEF RripTypeOK, CountersSet
<1>2. ASSUME NEW w \in BlockWay, NEW type \in AccessType, RripFill(w, type)
      PROVE  RripInv'
  <2>1. filled' = filled \cup {w} /\ UNCHANGED <<kind, current_assoc>>
    BY <1>2 DEF RripFill
  <2>2. CASE InForce \subseteq filled
    <3>1. PICK value \in FillValues(type, maxRRPV) :
              rrpv' = [v \in BlockWay |-> IF v = w THEN value
                                          ELSE IF v \in InForce THEN Aged(v, Rounds)
                                          ELSE rrpv[v]]
      BY <1>2, <2>2 DEF RripFill
    <3>2. value \in 0 .. maxRRPV
      BY DEF FillValues
    <3>3. \A v \in InForce : Aged(v, Rounds) \in 0 .. CounterRange - 1
      <4>1. Rounds \in Nat
        BY RoundsLeast
      <4>2. \A v \in InForce : rrpv[v] \in Nat
        <5> SUFFICES ASSUME NEW v \in InForce PROVE rrpv[v] \in Nat
          OBVIOUS
        <5>1. v \in BlockWay
          BY RripAssumption DEF InForce, BlockWay, RripTypeOK
        <5> QED BY <5>1 DEF RripTypeOK
      <4>3. CounterRange \in Nat \ {0}
        OBVIOUS
      <4>4. \A n \in Nat : n % CounterRange \in 0 .. CounterRange - 1
        BY <4>3
      <4> QED BY <4>1, <4>2, <4>4 DEF Aged
    <3>4. RripTypeOK'
      BY <2>1, <3>1, <3>2, <3>3 DEF RripTypeOK
    <3>5. CountersSet'
      <4> SUFFICES ASSUME kind' # "drrip_sampled", NEW v \in filled'
                   PROVE  rrpv'[v] <= maxRRPV
        BY DEF CountersSet
      <4>1. v \in BlockWay
        BY <2>1 DEF RripTypeOK
      <4>2. CASE v = w
        BY <3>1, <3>2, <4>1, <4>2
      <4>3. CASE v # w /\ v \in InForce
        BY <2>1, <2>2, <3>1, <4>1, <4>3, FullSetAges
      <4>4. CASE v # w /\ v \notin InForce
        BY <2>1, <3>1, <4>1, <4>4 DEF CountersSet
      <4> QED BY <4>2, <4>3, <4>4
    <3> QED BY <3>4, <3>5
  <2>3. CASE ~(InForce \subseteq filled)
    <3>1. PICK value \in FillValues(type, rrpv[w]) : rrpv' = [rrpv EXCEPT ![w] = value]
      BY <1>2, <2>3 DEF RripFill
    <3>2. value \in 0 .. CounterRange - 1 /\ (kind # "drrip_sampled" => value <= maxRRPV)
      BY DEF FillValues, RripTypeOK
    <3> QED BY <2>1, <3>1, <3>2 DEF RripTypeOK, CountersSet
  <2> QED BY <2>2, <2>3
<1>3. CASE adjust_assoc
  BY <1>3 DEF adjust_assoc, RripTypeOK, CountersSet
<1>4. CASE UNCHANGED rripVars
  BY <1>4 DEF rripVars, RripTypeOK, CountersSet
<1> QED BY <1>1, <1>2, <1>3, <1>4 DEF RripNext

LEMMA RripInvariant == RripSpec => []RripInv
<1>1. RripInit => RripInv
  <2> SUFFICES ASSUME RripInit PROVE RripInv
    OBVIOUS
  <2>1. NeverSet \in 0 .. CounterRange - 1
    BY RripAssumption DEF NeverSet
  <2> QED BY <2>1, RripAssumption DEF RripInit, RripInv, RripTypeOK, CountersSet
<1> QED BY <1>1, RripStepKeeps, PTL DEF RripSpec

THEOREM RripTypeInvariant == RripSpec => []RripTypeOK
BY RripInvariant, PTL DEF RripInv

(* The loop of find_victim ends within maxRRPV rounds in every full set,   *)
(* whatever happened to it, except in the sampler sets whose fills set no  *)
(* counter (drrip's update_replacement_state).                             *)
THEOREM FindVictimEnds == RripSpec => []VictimWithinReach
<1>1. RripInv => VictimWithinReach
  BY FullSetAges DEF VictimWithinReach
<1> QED BY <1>1, RripInvariant, PTL

-----------------------------------------------------------------------------
(* The ring.                                                               *)
RingOK ==
    /\ basic_btb_ras \in [Slot -> CallIp \cup {0}]
    /\ basic_btb_ras_index \in Slot

(* Of the assumptions, what the arithmetic of the ring needs.              *)
LEMMA RingSize == RAS_SIZE \in Nat \ {0}
BY BtbAssumption

(* The slot so many places below the top is one of the ring's.             *)
LEMMA BelowIsSlot ==
    ASSUME RingOK, NEW k \in 0 .. RAS_SIZE - 1
    PROVE  Below(k) \in Slot
BY RingSize DEF RingOK, Below, Slot

(* A push moves every call one place down; the one at the bottom goes.     *)
LEMMA PushShifts ==
    ASSUME RingOK, NEW ip \in CallIp, push_basic_btb_ras(ip)
    PROVE  /\ RingOK'
           /\ \A k \in 1 .. RAS_SIZE :
                 basic_btb_ras'[Below(k - 1)'] =
                     IF k = 1 THEN ip ELSE basic_btb_ras[Below(k - 2)]
<1> USE RingSize
<1>1. RingOK'
  BY DEF RingOK, push_basic_btb_ras, Slot
<1>2. ASSUME NEW k \in 1 .. RAS_SIZE
      PROVE  basic_btb_ras'[Below(k - 1)'] =
                 IF k = 1 THEN ip ELSE basic_btb_ras[Below(k - 2)]
  <2>1. CASE k = 1
    BY <2>1 DEF RingOK, push_basic_btb_ras, Slot, Below
  <2>2. CASE k > 1
    <3>1. Below(k - 1)' = Below(k - 2)
      BY <2>2 DEF RingOK, push_basic_btb_ras, Slot, Below
    <3>2. Below(k - 2) \in Slot /\ Below(k - 2) # basic_btb_ras_index'
      BY <2>2 DEF RingOK, push_basic_btb_ras, Slot, Below
    <3>3. /\ basic_btb_ras \in [Slot -> CallIp \cup {0}] /\ k # 1
          /\ basic_btb_ras' = [basic_btb_ras EXCEPT ![basic_btb_ras_index'] = ip]
      BY <2>2 DEF RingOK, push_basic_btb_ras
    <3> HIDE DEF Below
    <3> QED BY <3>1, <3>2, <3>3, Zenon
  <2> QED BY <2>1, <2>2
<1> QED BY <1>1, <1>2

(* A pop moves every call one place up; an empty place comes from below.   *)
LEMMA PopShifts ==
    ASSUME RingOK, pop_basic_btb_ras
    PROVE  /\ RingOK'
           /\ \A k \in 1 .. RAS_SIZE :
                 basic_btb_ras'[Below(k - 1)'] =
                     IF k = RAS_SIZE THEN 0 ELSE basic_btb_ras[Below(k)]
<1> USE RingSize
<1>1. RingOK'
  BY DEF RingOK, pop_basic_btb_ras, Slot
<1>2. ASSUME NEW k \in 1 .. RAS_SIZE
      PROVE  basic_btb_ras'[Below(k - 1)'] =
                 IF k = RAS_SIZE THEN 0 ELSE basic_btb_ras[Below(k)]
  <2>1. CASE k = RAS_SIZE
    <3>1. Below(k - 1)' = basic_btb_ras_index
      BY <2>1 DEF RingOK, pop_basic_btb_ras, Slot, Below
    <3> QED BY <2>1, <3>1 DEF RingOK, pop_basic_btb_ras
  <2>2. CASE k < RAS_SIZE
    <3>1. Below(k - 1)' = Below(k)
      BY <2>2 DEF RingOK, pop_basic_btb_ras, Slot, Below
    <3>2. Below(k) \in Slot /\ Below(k) # basic_btb_ras_index
      BY <2>2 DEF RingOK, Slot, Below
    <3> QED BY <2>2, <3>1, <3>2 DEF RingOK, pop_basic_btb_ras
  <2> QED BY <2>1, <2>2
<1> QED BY <1>1, <1>2

(* What a step does to the ring: nothing, a push or a pop.                 *)
LEMMA RingSteps ==
    ASSUME [BtbNext]_btbVars
    PROVE  \/ UNCHANGED rasVars
           \/ \E ip \in CallIp : push_basic_btb_ras(ip)
           \/ pop_basic_btb_ras
<1>1. CASE Return
  BY <1>1 DEF Return, Returned
<1>2. CASE ReturnToElsewhere
  BY <1>2 DEF ReturnToElsewhere, Returned
<1>3. ASSUME NEW ip \in CallIp, Call(ip)
      PROVE  push_basic_btb_ras(ip)
  BY <1>3 DEF Call
<1>4. ASSUME NEW ip \in ConditionalIp, Conditional(ip)
      PROVE  UNCHANGED rasVars
  BY <1>4 DEF Conditional
<1>5. ASSUME NEW ip \in BranchIp \ (CallIp \cup ConditionalIp), Jump(ip)
      PROVE  UNCHANGED rasVars
  BY <1>5 DEF Jump
<1>6. CASE UNCHANGED btbVars
  BY <1>6 DEF btbVars
<1> QED BY <1>1, <1>2, <1>3, <1>4, <1>5, <1>6 DEF BtbNext

LEMMA RingOKInvariant == BtbSpec => []RingOK
<1>1. BtbInit => RingOK
  BY BtbAssumption DEF BtbInit, RingOK, Slot
<1>2. RingOK /\ [BtbNext]_btbVars => RingOK'
  <2> SUFFICES ASSUME RingOK, [BtbNext]_btbVars PROVE RingOK'
    OBVIOUS
  <2>1. CASE UNCHANGED rasVars
    BY <2>1 DEF rasVars, RingOK
  <2> QED BY <2>1, RingSteps, PushShifts, PopShifts
<1> QED BY <1>1, <1>2, PTL DEF BtbSpec

LEMMA RingRefines ==
    ASSUME RingOK, [BtbNext]_btbVars
    PROVE  [S!StackNext]_([k \in 1 .. RAS_SIZE |-> basic_btb_ras[Below(k - 1)]])
<1> USE BtbAssumption
<1>1. CASE UNCHANGED rasVars
  BY <1>1 DEF rasVars, Below
<1>2. ASSUME NEW ip \in CallIp, push_basic_btb_ras(ip)
      PROVE  S!PushCall(ip)
  <2>1. \A k \in 1 .. RAS_SIZE :
           /\ k # 1 => k - 1 \in 1 .. RAS_SIZE /\ (k - 1) - 1 = k - 2
           /\ basic_btb_ras'[Below(k - 1)'] =
                  IF k = 1 THEN ip ELSE basic_btb_ras[Below((k - 1) - 1)]
    BY <1>2, PushShifts
  <2> QED BY <2>1 DEF S!PushCall
<1>3. ASSUME pop_basic_btb_ras PROVE S!PopCall
  <2>1. \A k \in 1 .. RAS_SIZE :
           /\ k # RAS_SIZE => k + 1 \in 1 .. RAS_SIZE /\ (k + 1) - 1 = k
           /\ basic_btb_ras'[Below(k - 1)'] =
                  IF k = RAS_SIZE THEN 0 ELSE basic_btb_ras[Below((k + 1) - 1)]
    BY <1>3, PopShifts
  <2> QED BY <2>1 DEF S!PopCall
<1> QED BY <1>1, <1>2, <1>3, RingSteps DEF S!StackNext

(* The ring of any size, with an index that wraps both ways, slots that    *)
(* are zeroed when they are popped and no count of what it holds           *)
(* (push_basic_btb_ras, pop_basic_btb_ras), is the stack of ReturnStack.   *)
THEOREM RingImplementsReturnStack == BtbSpec => ImplementsReturnStack
<1>1. BtbInit => S!StackInit
  BY BtbAssumption DEF BtbInit, S!StackInit, Below, Slot
<1> QED BY <1>1, RingOKInvariant, RingRefines, PTL
        DEF BtbSpec, ImplementsReturnStack, S!StackSpec

-----------------------------------------------------------------------------
(* The program's calls, what of them is in the ring, and the sizes known.  *)
SizesOK ==
    /\ basic_btb_call_instr_sizes \in [Tracker -> 0 .. 10]
    /\ callers \in Seq(CallIp)
    /\ kept \in 0 .. RAS_SIZE
    /\ kept <= Len(callers)
    /\ known \in [Tracker -> CallIp \cup {0}]

RingHolds ==
    \A k \in 1 .. RAS_SIZE :
        basic_btb_ras[Below(k - 1)] = IF k <= kept THEN callers[k] ELSE 0

(* A size is right for the call its tracker was last set for.              *)
SizesKnown ==
    \A t \in Tracker :
        known[t] # 0 => basic_btb_call_instr_sizes[t] = CallSize[known[t]]

ReturnInv == RingOK /\ SizesOK /\ RingHolds /\ SizesKnown

LEMMA PeekIsNewest ==
    ASSUME RingOK, SizesOK, RingHolds
    PROVE  peek_basic_btb_ras = IF kept > 0 THEN Head(callers) ELSE 0
<1>1. 1 \in 1 .. RAS_SIZE /\ Below(1 - 1) = basic_btb_ras_index
  BY BtbAssumption DEF RingOK, Slot, Below
<1>2. 1 <= kept <=> kept > 0
  BY DEF SizesOK
<1>3. kept > 0 => Head(callers) = callers[1]
  BY DEF SizesOK
<1> QED BY <1>1, <1>2, <1>3 DEF RingHolds, peek_basic_btb_ras

(* The size measured is that of the call popped, or none is: a target that *)
(* belongs to another call is too far from what was popped.                *)
LEMMA ReturnMeasures ==
    ASSUME RingOK, SizesOK, RingHolds, callers # <<>>
    PROVE  LET c == Head(callers)
           IN  /\ c \in CallIp /\ c # 0 /\ CallSize[c] \in 1 .. 10
               /\ Recalibrated(peek_basic_btb_ras, c + CallSize[c]) =
                      IF kept > 0
                      THEN [basic_btb_call_instr_sizes EXCEPT ![tracker_of[c]] = CallSize[c]]
                      ELSE basic_btb_call_instr_sizes
<1> DEFINE c == Head(callers)
<1>1. c \in CallIp
  BY DEF SizesOK
<1>2. c \in Nat \ {0} /\ CallSize[c] \in 1 .. 10 /\ c + CallSize[c] > 10
  BY <1>1, BtbAssumption
<1>3. CASE kept > 0
  <2>1. peek_basic_btb_ras = c
    BY <1>3, PeekIsNewest
  <2>2. basic_btb_abs_addr_dist(c, c + CallSize[c]) = CallSize[c]
    BY <1>2 DEF basic_btb_abs_addr_dist
  <2>3. Recalibrated(c, c + CallSize[c]) =
            [basic_btb_call_instr_sizes EXCEPT ![tracker_of[c]] = CallSize[c]]
    <3> DEFINE target == c + CallSize[c]
    <3>1. basic_btb_abs_addr_dist(c, target) = CallSize[c] /\ CallSize[c] <= 10
      BY <1>2, <2>2
    <3> HIDE DEF c, target
    <3>2. Recalibrated(c, target) =
              [basic_btb_call_instr_sizes EXCEPT ![tracker_of[c]] = CallSize[c]]
      BY <3>1, Zenon DEF Recalibrated
    <3> QED BY <3>2 DEF target
  <2> QED BY <1>1, <1>2, <1>3, <2>1, <2>3
<1>4. CASE ~(kept > 0)
  <2>1. peek_basic_btb_ras = 0
    BY <1>4, PeekIsNewest
  <2>2. ~(basic_btb_abs_addr_dist(0, c + CallSize[c]) <= 10)
    BY <1>2 DEF basic_btb_abs_addr_dist
  <2> QED BY <1>1, <1>2, <1>4, <2>1, <2>2 DEF Recalibrated
<1> QED BY <1>3, <1>4

LEMMA ReturnKeeps ==
    ASSUME ReturnInv, Return PROVE ReturnInv'
<1> USE BtbAssumption DEF ReturnInv
<1> DEFINE c == Head(callers)
<1>1. /\ callers # <<>> /\ pop_basic_btb_ras /\ callers' = Tail(callers)
      /\ basic_btb_call_instr_sizes' = Recalibrated(peek_basic_btb_ras, c + CallSize[c])
      /\ kept' = IF kept > 0 THEN kept - 1 ELSE 0
      /\ known' = IF kept > 0 THEN [known EXCEPT ![tracker_of[c]] = c] ELSE known
  BY DEF Return, Returned
<1>2. /\ c \in CallIp /\ c # 0 /\ CallSize[c] \in 1 .. 10
      /\ basic_btb_call_instr_sizes' =
             IF kept > 0 THEN [basic_btb_call_instr_sizes EXCEPT ![tracker_of[c]] = CallSize[c]]
             ELSE basic_btb_call_instr_sizes
  BY <1>1, ReturnMeasures
<1>3. tracker_of[c] \in Tracker
  BY <1>2 DEF Tracker
<1>4. RingOK'
  BY <1>1, PopShifts
<1>5. /\ callers' \in Seq(CallIp) /\ Len(callers') = Len(callers) - 1
      /\ \A k \in 1 .. Len(callers) - 1 : callers'[k] = callers[k + 1]
  BY <1>1, HeadTailProperties DEF SizesOK
<1>6. SizesOK'
  <2>1. basic_btb_call_instr_sizes' \in [Tracker -> 0 .. 10]
    <3>1. basic_btb_call_instr_sizes \in [Tracker -> 0 .. 10]
      BY Zenon DEF SizesOK
    <3>2. \A n \in 1 .. 10 : n \in 0 .. 10
      OBVIOUS
    <3>3. PICK size \in 0 .. 10 : size = CallSize[c]
      BY <1>2, <3>2, Zenon
    <3>4. PICK r \in Tracker : r = tracker_of[c]
      BY <1>3, Zenon
    <3>5. [basic_btb_call_instr_sizes EXCEPT ![r] = size] \in [Tracker -> 0 .. 10]
      BY <3>1, Zenon
    <3> QED BY <1>2, <3>1, <3>3, <3>4, <3>5, Zenon
  <2>2. kept' \in 0 .. RAS_SIZE /\ kept' <= Len(callers')
    BY <1>1, <1>5 DEF SizesOK
  <2>3. known' \in [Tracker -> CallIp \cup {0}]
    BY <1>1, <1>2, <1>3 DEF SizesOK
  <2> QED BY <1>5, <2>1, <2>2, <2>3 DEF SizesOK, Tracker
<1>7. RingHolds'
  <2> SUFFICES ASSUME NEW k \in 1 .. RAS_SIZE
               PROVE  basic_btb_ras'[Below(k - 1)'] = IF k <= kept' THEN callers'[k] ELSE 0
    BY DEF RingHolds
  <2>1. basic_btb_ras'[Below(k - 1)'] =
            IF k = RAS_SIZE THEN 0 ELSE basic_btb_ras[Below(k)]
    BY <1>1, PopShifts
  <2>2. CASE k = RAS_SIZE
    BY <1>1, <2>1, <2>2 DEF SizesOK
  <2>3. CASE k # RAS_SIZE
    <3>1. k + 1 \in 1 .. RAS_SIZE /\ (k + 1) - 1 = k
      BY <2>3
    <3>2. basic_btb_ras[Below(k)] = IF k + 1 <= kept THEN callers[k + 1] ELSE 0
      BY <3>1 DEF RingHolds
    <3>3. k + 1 <= kept <=> k <= kept'
      <4>1. kept \in Nat /\ k \in Nat /\ k >= 1
        BY DEF SizesOK
      <4>2. kept' = IF kept > 0 THEN kept - 1 ELSE 0
        BY <1>1
      <4> QED BY <4>1, <4>2
    <3>4. k <= kept' => callers'[k] = callers[k + 1]
      <4>1. k <= kept' => k \in 1 .. Len(callers) - 1
        BY <1>1, <3>1, <3>3 DEF SizesOK
      <4> QED BY <1>5, <4>1, Zenon
    <3> QED BY <2>1, <2>3, <3>2, <3>3, <3>4
  <2> QED BY <2>2, <2>3
<1>8. SizesKnown'
  BY <1>1, <1>2, <1>3 DEF SizesKnown, SizesOK, Tracker
<1> QED BY <1>4, <1>6, <1>7, <1>8

LEMMA ReturnToElsewhereKeeps ==
    ASSUME ReturnInv, ReturnToElsewhere PROVE ReturnInv'
<1> USE BtbAssumption DEF ReturnInv
<1>1. /\ pop_basic_btb_ras /\ callers = <<>>
      /\ UNCHANGED <<callers, kept, known>>
      /\ basic_btb_call_instr_sizes' = Recalibrated(peek_basic_btb_ras, Elsewhere)
  BY DEF ReturnToElsewhere, Returned, stackVars
<1>2. kept = 0
  BY <1>1 DEF SizesOK
<1>3. UNCHANGED basic_btb_call_instr_sizes
  <2>1. peek_basic_btb_ras = 0
    BY <1>2, PeekIsNewest
  <2>2. Elsewhere \in Nat /\ Elsewhere > 10
    OBVIOUS
  <2>3. ~(basic_btb_abs_addr_dist(0, Elsewhere) <= 10)
    BY <2>2 DEF basic_btb_abs_addr_dist
  <2> QED BY <1>1, <2>1, <2>3 DEF Recalibrated
<1>4. RingOK'
  BY <1>1, PopShifts
<1>5. RingHolds'
  <2> SUFFICES ASSUME NEW k \in 1 .. RAS_SIZE
               PROVE  basic_btb_ras'[Below(k - 1)'] = 0
    BY <1>1, <1>2 DEF RingHolds
  <2>1. basic_btb_ras'[Below(k - 1)'] =
            IF k = RAS_SIZE THEN 0 ELSE basic_btb_ras[Below(k)]
    BY <1>1, PopShifts
  <2>2. k # RAS_SIZE => k + 1 \in 1 .. RAS_SIZE /\ (k + 1) - 1 = k /\ ~(k + 1 <= kept)
    BY <1>2
  <2>3. k # RAS_SIZE => basic_btb_ras[Below(k)] = 0
    BY <2>2 DEF RingHolds
  <2> QED BY <2>1, <2>3
<1> QED BY <1>1, <1>3, <1>4, <1>5 DEF SizesOK, SizesKnown, Tracker

LEMMA CallKeeps ==
    ASSUME ReturnInv, NEW ip \in CallIp, Call(ip) PROVE ReturnInv'
<1> USE BtbAssumption DEF ReturnInv
<1>1. /\ push_basic_btb_ras(ip) /\ callers' = <<ip>> \o callers
      /\ kept' = IF kept < RAS_SIZE THEN kept + 1 ELSE kept
      /\ UNCHANGED <<basic_btb_call_instr_sizes, known>>
  BY DEF Call, returnVars
<1>2. /\ callers' \in Seq(CallIp) /\ Len(callers') = Len(callers) + 1
      /\ callers'[1] = ip
      /\ \A k \in 2 .. Len(callers) + 1 : callers'[k] = callers[k - 1]
  BY <1>1 DEF SizesOK
<1>3. RingOK'
  BY <1>1, PushShifts
<1>4. SizesOK'
  <2>1. kept' \in 0 .. RAS_SIZE /\ kept' <= Len(callers')
    BY <1>1, <1>2 DEF SizesOK
  <2> QED BY <1>1, <1>2, <2>1 DEF SizesOK, Tracker
<1>5. RingHolds'
  <2> SUFFICES ASSUME NEW k \in 1 .. RAS_SIZE
               PROVE  basic_btb_ras'[Below(k - 1)'] = IF k <= kept' THEN callers'[k] ELSE 0
    BY DEF RingHolds
  <2>1. basic_btb_ras'[Below(k - 1)'] = IF k = 1 THEN ip ELSE basic_btb_ras[Below(k - 2)]
    BY <1>1, PushShifts
  <2>2. CASE k = 1
    BY <1>1, <1>2, <2>1, <2>2 DEF SizesOK
  <2>3. CASE k # 1
    <3>1. k - 1 \in 1 .. RAS_SIZE /\ (k - 1) - 1 = k - 2
      BY <2>3
    <3>2. basic_btb_ras[Below(k - 2)] = IF k - 1 <= kept THEN callers[k - 1] ELSE 0
      BY <3>1 DEF RingHolds
    <3>3. k - 1 <= kept <=> k <= kept'
      BY <1>1 DEF SizesOK
    <3>4. k <= kept' => callers'[k] = callers[k - 1]
      BY <1>1, <1>2, <2>3 DEF SizesOK
    <3> QED BY <2>1, <2>3, <3>2, <3>3, <3>4
  <2> QED BY <2>2, <2>3
<1> QED BY <1>1, <1>3, <1>4, <1>5 DEF SizesKnown, Tracker

LEMMA ReturnInvariant == BtbSpec => []ReturnInv
<1>1. BtbInit => ReturnInv
  <2> SUFFICES ASSUME BtbInit PROVE ReturnInv
    OBVIOUS
  <2>1. RingOK /\ SizesOK
    BY BtbAssumption DEF BtbInit, RingOK, SizesOK, Slot
  <2>2. RingHolds
    <3>1. kept = 0 /\ \A k \in 1 .. RAS_SIZE : k - 1 \in 0 .. RAS_SIZE - 1
      BY BtbAssumption DEF BtbInit
    <3> QED BY <2>1, <3>1, BelowIsSlot DEF BtbInit, RingHolds
  <2>3. SizesKnown
    BY DEF BtbInit, SizesKnown
  <2> QED BY <2>1, <2>2, <2>3 DEF ReturnInv
<1>2. ReturnInv /\ [BtbNext]_btbVars => ReturnInv'
  <2> SUFFICES ASSUME ReturnInv, [BtbNext]_btbVars PROVE ReturnInv'
    OBVIOUS
  <2>1. CASE UNCHANGED <<rasVars, returnVars, stackVars>>
    BY <2>1 DEF rasVars, returnVars, stackVars, ReturnInv, RingOK, SizesOK, RingHolds,
                SizesKnown, Below
  <2>2. ASSUME NEW ip \in ConditionalIp, Conditional(ip)
        PROVE  UNCHANGED <<rasVars, returnVars, stackVars>>
    BY <2>2 DEF Conditional
  <2>3. ASSUME NEW ip \in BranchIp \ (CallIp \cup ConditionalIp), Jump(ip)
        PROVE  UNCHANGED <<rasVars, returnVars, stackVars>>
    BY <2>3 DEF Jump
  <2>4. CASE UNCHANGED btbVars
    BY <2>1, <2>4 DEF btbVars
  <2> QED BY <2>1, <2>2, <2>3, <2>4, ReturnKeeps, ReturnToElsewhereKeeps, CallKeeps DEF BtbNext
<1> QED BY <1>1, <1>2, PTL DEF BtbSpec

(* A return whose call the ring still holds, and whose size the tracker    *)
(* was last set for, is predicted to go where it goes (btb_prediction),    *)
(* for any nesting of calls and returns and any size of the ring.          *)
THEOREM ReturnsArePredicted == BtbSpec => []ReturnPredicted
<1>1. ReturnInv => ReturnPredicted
  <2> SUFFICES ASSUME ReturnInv, kept > 0, known[tracker_of[Head(callers)]] = Head(callers)
               PROVE  ReturnPrediction = Head(callers) + CallSize[Head(callers)]
    BY DEF ReturnPredicted
  <2>1. Head(callers) \in CallIp
    BY DEF ReturnInv, SizesOK
  <2>2. Head(callers) # 0 /\ tracker_of[Head(callers)] \in Tracker
    BY <2>1, BtbAssumption DEF Tracker
  <2>3. peek_basic_btb_ras = Head(callers)
    BY PeekIsNewest DEF ReturnInv
  <2> QED BY <2>2, <2>3 DEF ReturnInv, SizesKnown, ReturnPrediction
<1> QED BY <1>1, ReturnInvariant, PTL

-----------------------------------------------------------------------------
(* The table: no branch has two entries, which is why the one that is      *)
(* found is the one that was changed last.                                 *)
TableOK ==
    /\ basic_btb \in [BtbWay -> [ip_tag : DirectIp \cup {0}, target : Goal \cup {0},
                                 always_taken : BOOLEAN, lru : Nat]]
    /\ basic_btb_lru_counter \in Nat
    /\ outcome \in [DirectIp -> Goal \cup {0}]
    /\ \A v, w \in BtbWay :
          basic_btb[v].ip_tag = basic_btb[w].ip_tag /\ v # w => basic_btb[v].ip_tag = 0

TableInv == TableOK /\ KnowsLastOutcome

LEMMA UseTableKeeps ==
    ASSUME TableInv, NEW ip \in DirectIp, NEW target \in Goal \cup {0}, UseTable(ip, target)
    PROVE  TableInv'
<1> USE BtbAssumption DEF TableInv
<1>1. outcome' = [outcome EXCEPT ![ip] = target] /\ outcome' \in [DirectIp -> Goal \cup {0}]
  BY DEF UseTable, TableOK
<1>2. ip # 0 /\ 0 \notin DirectIp /\ 0 \notin Goal
  BY DEF DirectIp
<1>3. CASE Hits(ip) = {} /\ target = 0
  <2>1. UNCHANGED <<basic_btb, basic_btb_lru_counter>>
    BY <1>3 DEF UseTable
  <2>2. \A w \in BtbWay : basic_btb[w].ip_tag # ip
    BY <1>3 DEF Hits
  <2>3. KnowsLastOutcome'
    BY <1>1, <2>1, <2>2 DEF TableOK, KnowsLastOutcome, BtbWay
  <2> QED BY <1>1, <2>1, <2>3 DEF TableOK, BtbWay
<1>4. CASE ~(Hits(ip) = {} /\ target = 0)
  <2>1. basic_btb_lru_counter' \in Nat
    BY <1>4 DEF UseTable, TableOK
  <2>2. PICK w \in BtbWay :
            IF Hits(ip) = {}
            THEN basic_btb' = [basic_btb EXCEPT ![w] = Allocated(ip, target)]
            ELSE w \in Hits(ip) /\ basic_btb' = [basic_btb EXCEPT ![w] = Changed(w, target)]
    BY <1>4 DEF UseTable
  <2> DEFINE entry == [ip_tag : DirectIp \cup {0}, target : Goal \cup {0},
                       always_taken : BOOLEAN, lru : Nat]
  <2>3. PICK e \in entry :
            /\ basic_btb' = [basic_btb EXCEPT ![w] = e]
            /\ e.ip_tag = ip /\ e.target = target
            /\ e.always_taken => target # 0
    <3>1. CASE Hits(ip) = {}
      <4>1. Allocated(ip, target) \in entry /\ Allocated(ip, target).ip_tag = ip
            /\ Allocated(ip, target).target = target
        BY DEF Allocated, TableOK
      <4> QED BY <1>4, <2>2, <3>1, <4>1
    <3>2. CASE Hits(ip) # {}
      <4>1. basic_btb[w] \in entry /\ basic_btb[w].ip_tag = ip
        BY <2>2, <3>2 DEF TableOK, Hits
      <4>2. /\ Changed(w, target) \in entry
            /\ Changed(w, target).ip_tag = ip /\ Changed(w, target).target = target
            /\ Changed(w, target).always_taken => target # 0
        BY <4>1 DEF Changed, TableOK
      <4> QED BY <2>2, <3>2, <4>2
    <3> QED BY <3>1, <3>2
  <2>4. \A v \in BtbWay : v # w => basic_btb[v].ip_tag # ip
    BY <1>2, <2>2 DEF Hits, TableOK
  <2>5. /\ basic_btb' \in [BtbWay -> entry]
        /\ \A v \in BtbWay : basic_btb'[v] = IF v = w THEN e ELSE basic_btb[v]
    BY <2>3 DEF TableOK
  <2>6. TableOK'
    BY <1>1, <2>1, <2>3, <2>4, <2>5 DEF TableOK, BtbWay, DirectIp
  <2>7. KnowsLastOutcome'
    <3> SUFFICES ASSUME NEW v \in BtbWay, basic_btb'[v].ip_tag # 0
                 PROVE  /\ basic_btb'[v].target = outcome'[basic_btb'[v].ip_tag]
                        /\ basic_btb'[v].always_taken => basic_btb'[v].target # 0
      BY DEF KnowsLastOutcome, BtbWay
    <3>1. CASE v = w
      BY <1>1, <2>3, <2>5, <3>1 DEF TableOK
    <3>2. CASE v # w
      BY <1>1, <2>4, <2>5, <3>2 DEF TableOK, KnowsLastOutcome
    <3> QED BY <3>1, <3>2
  <2> QED BY <2>6, <2>7
<1> QED BY <1>3, <1>4

LEMMA TableSteps ==
    ASSUME [BtbNext]_btbVars
    PROVE  \/ UNCHANGED tableVars
           \/ \E ip \in DirectIp, target \in Goal \cup {0} : UseTable(ip, target)
<1> USE BtbAssumption
<1>1. ASSUME NEW ip \in CallIp, Call(ip)
      PROVE  UNCHANGED tableVars \/ \E target \in Goal : ip \in DirectIp /\ UseTable(ip, target)
  BY <1>1 DEF Call, DirectIp
<1>2. ASSUME NEW ip \in ConditionalIp, Conditional(ip)
      PROVE  ip \in DirectIp /\ \E target \in Goal \cup {0} : UseTable(ip, target)
  BY <1>2 DEF Conditional, DirectIp
<1>3. ASSUME NEW ip \in BranchIp \ (CallIp \cup ConditionalIp), Jump(ip)
      PROVE  UNCHANGED tableVars \/ \E target \in Goal : ip \in DirectIp /\ UseTable(ip, target)
  BY <1>3 DEF Jump, DirectIp
<1>4. CASE Return \/ ReturnToElsewhere
  BY <1>4 DEF Return, ReturnToElsewhere, Returned
<1>5. CASE UNCHANGED btbVars
  BY <1>5 DEF btbVars
<1> QED BY <1>1, <1>2, <1>3, <1>4, <1>5 DEF BtbNext

LEMMA TableInvariant == BtbSpec => []TableInv
<1>1. BtbInit => TableInv
  BY BtbAssumption DEF BtbInit, TableInv, TableOK, KnowsLastOutcome, BtbWay
<1>2. TableInv /\ [BtbNext]_btbVars => TableInv'
  <2> SUFFICES ASSUME TableInv, [BtbNext]_btbVars PROVE TableInv'
    OBVIOUS
  <2>1. CASE UNCHANGED tableVars
    BY <2>1 DEF tableVars, TableInv, TableOK, KnowsLastOutcome
  <2> QED BY <2>1, TableSteps, UseTableKeeps
<1> QED BY <1>1, <1>2, PTL DEF BtbSpec

(* Whatever the number of ways and the branches that compete for them, an  *)
(* entry says what its branch did last (update_btb).                       *)
THEOREM LastOutcomeKnown == BtbSpec => []KnowsLastOutcome
BY TableInvariant, PTL DEF TableInv

-----------------------------------------------------------------------------
(* What is left of the types of the BTB: the history, the indirect table   *)
(* and the bounds of the counter and of the open calls.                    *)
IndirectOK ==
    /\ basic_btb_conditional_history \in Histories
    /\ basic_btb_indirect \in [IndirectEntry -> Goal \cup {0}]

UsesOK ==
    /\ basic_btb_lru_counter <= MaxUses
    /\ \A w \in BtbWay : basic_btb[w].lru \in 0 .. MaxUses

DepthOK == Len(callers) <= MaxDepth

LEMMA IndirectStep ==
    ASSUME IndirectOK, [BtbNext]_btbVars PROVE IndirectOK'
<1>1. CASE UNCHANGED indirectVars
  BY <1>1 DEF IndirectOK, indirectVars, Histories, IndirectEntry
<1>2. ASSUME NEW ip, NEW target \in Goal, UseIndirect(ip, target),
             UNCHANGED basic_btb_conditional_history
      PROVE  IndirectOK'
  <2>1. basic_btb_indirect' \in [IndirectEntry -> Goal \cup {0}]
    BY <1>2 DEF IndirectOK, UseIndirect
  <2> QED BY <1>2, <2>1 DEF IndirectOK, Histories, IndirectEntry
<1>3. ASSUME NEW ip \in CallIp, Call(ip) PROVE IndirectOK'
  BY <1>1, <1>2, <1>3 DEF Call, indirectVars
<1>4. ASSUME NEW ip \in BranchIp \ (CallIp \cup ConditionalIp), Jump(ip) PROVE IndirectOK'
  BY <1>1, <1>2, <1>4 DEF Jump, indirectVars
<1>5. ASSUME NEW ip \in ConditionalIp, Conditional(ip) PROVE IndirectOK'
  <2>1. PICK bit \in {0, 1} :
            basic_btb_conditional_history' =
                (2 * basic_btb_conditional_history + bit) % 2 ^ HISTORY
    BY <1>5 DEF Conditional
  <2>2. PICK m \in Nat \ {0} : m = 2 ^ HISTORY
    BY BtbAssumption
  <2>3. \A h \in Nat : (2 * h + bit) % m \in 0 .. m - 1
    BY <2>2
  <2>4. basic_btb_conditional_history \in Nat
    BY <2>2 DEF IndirectOK, Histories
  <2>5. basic_btb_conditional_history' \in Histories
    BY <2>1, <2>2, <2>3, <2>4 DEF Histories
  <2>6. UNCHANGED basic_btb_indirect
    BY <1>5 DEF Conditional
  <2> QED BY <2>5, <2>6 DEF IndirectOK, Histories, IndirectEntry
<1>6. CASE Return \/ ReturnToElsewhere
  BY <1>1, <1>6 DEF Return, ReturnToElsewhere, Returned
<1>7. CASE UNCHANGED btbVars
  BY <1>1, <1>7 DEF btbVars
<1> QED BY <1>3, <1>4, <1>5, <1>6, <1>7 DEF BtbNext

LEMMA UsesStep ==
    ASSUME TableInv, UsesOK, [BtbNext]_btbVars PROVE UsesOK'
<1> USE BtbAssumption
<1>1. CASE UNCHANGED tableVars
  BY <1>1 DEF tableVars, UsesOK, BtbWay
<1>2. ASSUME NEW ip, NEW target, UseTable(ip, target) PROVE UsesOK'
  <2>1. CASE UNCHANGED <<basic_btb, basic_btb_lru_counter>>
    BY <2>1 DEF UsesOK, BtbWay
  <2>2. CASE ~UNCHANGED <<basic_btb, basic_btb_lru_counter>>
    <3>1. PICK w \in BtbWay :
              /\ basic_btb_lru_counter < MaxUses
              /\ basic_btb_lru_counter' = basic_btb_lru_counter + 1
              /\ \/ basic_btb' = [basic_btb EXCEPT ![w] = Allocated(ip, target)]
                 \/ basic_btb' = [basic_btb EXCEPT ![w] = Changed(w, target)]
      BY <1>2, <2>2 DEF UseTable
    <3>2. PICK e : basic_btb' = [basic_btb EXCEPT ![w] = e] /\ e.lru = basic_btb_lru_counter
      <4>1. Allocated(ip, target).lru = basic_btb_lru_counter
        BY DEF Allocated
      <4>2. Changed(w, target).lru = basic_btb_lru_counter
        BY DEF Changed, TableInv, TableOK
      <4> QED BY <3>1, <4>1, <4>2, Zenon
    <3>3. basic_btb_lru_counter \in 0 .. MaxUses /\ basic_btb_lru_counter' <= MaxUses
      BY <3>1 DEF TableInv, TableOK
    <3>4. DOMAIN basic_btb = BtbWay
      BY DEF TableInv, TableOK
    <3>5. \A v \in BtbWay : basic_btb'[v] = IF v = w THEN e ELSE basic_btb[v]
      BY <3>2, <3>4, Zenon
    <3>6. \A v \in BtbWay : basic_btb'[v].lru \in 0 .. MaxUses
      BY <3>2, <3>3, <3>5 DEF UsesOK
    <3> QED BY <3>3, <3>6 DEF UsesOK, BtbWay
  <2> QED BY <2>1, <2>2
<1> QED BY <1>1, <1>2, TableSteps

LEMMA DepthStep ==
    ASSUME ReturnInv, DepthOK, [BtbNext]_btbVars PROVE DepthOK'
<1> USE BtbAssumption DEF DepthOK
<1>1. CASE UNCHANGED stackVars
  BY <1>1 DEF stackVars
<1>2. ASSUME NEW ip \in CallIp, Call(ip) PROVE DepthOK'
  <2>1. callers \in Seq(CallIp) /\ Len(callers) < MaxDepth /\ callers' = <<ip>> \o callers
    BY <1>2 DEF Call, ReturnInv, SizesOK
  <2> QED BY <2>1
<1>3. CASE Return
  <2>1. callers \in Seq(CallIp) /\ callers # <<>> /\ callers' = Tail(callers)
    BY <1>3 DEF Return, ReturnInv, SizesOK
  <2> QED BY <2>1
<1>4. ASSUME NEW ip, Conditional(ip) \/ Jump(ip) PROVE UNCHANGED stackVars
  BY <1>4 DEF Conditional, Jump
<1>5. CASE ReturnToElsewhere \/ UNCHANGED btbVars
  BY <1>1, <1>5 DEF ReturnToElsewhere, btbVars
<1> QED BY <1>1, <1>2, <1>3, <1>4, <1>5 DEF BtbNext

(* Every variable of the BTB has its type: the ring and its index, the     *)
(* sizes, the history, the indirect table, the entries of the BTB proper   *)
(* and its counter (initialize_btb, update_btb).                           *)
THEOREM BtbTypeInvariant == BtbSpec => []BtbTypeOK
<1>1. BtbInit => IndirectOK /\ UsesOK /\ DepthOK
  BY BtbAssumption DEF BtbInit, IndirectOK, UsesOK, DepthOK, Histories
<1>2. /\ ReturnInv /\ TableInv /\ IndirectOK /\ UsesOK /\ DepthOK
      /\ [BtbNext]_btbVars
      => (IndirectOK /\ UsesOK /\ DepthOK)'
  BY IndirectStep, UsesStep, DepthStep
<1>3. ReturnInv /\ TableInv /\ IndirectOK /\ UsesOK /\ DepthOK => BtbTypeOK
  <2> SUFFICES ASSUME ReturnInv, TableInv, IndirectOK, UsesOK, DepthOK PROVE BtbTypeOK
    OBVIOUS
  <2>1. basic_btb \in [BtbWay -> BtbEntry]
    BY DEF TableInv, TableOK, UsesOK, BtbEntry
  <2>2. basic_btb_lru_counter \in 0 .. MaxUses
    BY BtbAssumption DEF TableInv, TableOK, UsesOK
  <2> QED BY <2>1, <2>2
          DEF BtbTypeOK, ReturnInv, RingOK, SizesOK, TableInv, TableOK, IndirectOK, DepthOK
<1> QED BY <1>1, <1>2, <1>3, ReturnInvariant, TableInvariant, PTL DEF BtbSpec

-----------------------------------------------------------------------------
(* The stride prefetcher.  An entry is its instruction's as long as no     *)
(* other takes it, and an instruction has one at most.  The confidence     *)
(* counts: with 2 its instruction has moved by the stride once, with 3     *)
(* twice, whatever stride was left in the entry by another.                *)
Entry == [ip : LoadIp \cup {NoIp}, last_addr : Int, stride : Int, conf : 0 .. SP_CONF_MAX,
          rplc_bits : 0 .. IPT_NUM - 1]

TableTyped ==
    /\ ipt \in [Index -> Entry]
    /\ lastOf \in Addr[Watched] \cup {0}
    /\ strides \in [Distances -> 0 .. 2]

OwnEntryOnly ==
    \A i, j \in Index : ipt[i].ip = Watched /\ ipt[j].ip = Watched => i = j

EntryKnows(i) ==
    /\ lastOf # 0 /\ ipt[i].last_addr = lastOf
    /\ ipt[i].conf >= 2 => ipt[i].stride \in Distances /\ strides[ipt[i].stride] >= 1
    /\ ipt[i].conf = 3 => strides[ipt[i].stride] = 2

StrideInv ==
    /\ TableTyped
    /\ OwnEntryOnly
    /\ \A i \in Index : ipt[i].ip = Watched => EntryKnows(i)
    /\ AsksAfterTwo

(* Making an entry the most recent changes nothing but the order.          *)
LEMMA OrderKeepsEntries ==
    ASSUME NEW t \in [Index -> Entry], NEW i \in Index
    PROVE  /\ MostRecent(t, i) \in [Index -> Entry]
           /\ \A j \in Index : /\ MostRecent(t, i)[j].ip = t[j].ip
                               /\ MostRecent(t, i)[j].last_addr = t[j].last_addr
                               /\ MostRecent(t, i)[j].stride = t[j].stride
                               /\ MostRecent(t, i)[j].conf = t[j].conf
<1> USE StrideAssumption DEF Entry
<1>1. ASSUME NEW j \in Index
      PROVE  /\ MostRecent(t, i)[j] \in Entry
             /\ MostRecent(t, i)[j].ip = t[j].ip
             /\ MostRecent(t, i)[j].last_addr = t[j].last_addr
             /\ MostRecent(t, i)[j].stride = t[j].stride
             /\ MostRecent(t, i)[j].conf = t[j].conf
  <2>1. t[j] \in Entry /\ t[i] \in Entry
    OBVIOUS
  <2>2. IPT_NUM - 1 \in 0 .. IPT_NUM - 1
    OBVIOUS
  <2>3. t[j].rplc_bits > t[i].rplc_bits => t[j].rplc_bits - 1 \in 0 .. IPT_NUM - 1
    BY <2>1
  <2> QED BY <2>1, <2>2, <2>3 DEF MostRecent
<1> QED BY <1>1 DEF MostRecent

(* How far Watched has moved is one of the distances counted.              *)
LEMMA MovesCounted ==
    ASSUME TableTyped, NEW addr \in Addr[Watched], Observed(Watched, addr)
    PROVE  /\ lastOf' = addr /\ addr # 0
           /\ strides' \in [Distances -> 0 .. 2]
           /\ \A d \in Distances : strides[d] <= strides'[d]
           /\ lastOf # 0 => /\ addr - lastOf \in Distances
                            /\ strides'[addr - lastOf] =
                                  IF strides[addr - lastOf] = 2 THEN 2 ELSE strides[addr - lastOf] + 1
<1>1. /\ lastOf' = addr
      /\ strides' = IF lastOf = 0 THEN strides
                    ELSE [strides EXCEPT ![addr - lastOf] = IF @ = 2 THEN 2 ELSE @ + 1]
  BY DEF Observed
<1>2. addr \in Nat \ {0}
  BY StrideAssumption
<1>3. lastOf # 0 => addr - lastOf \in Distances
  BY DEF TableTyped, Distances
<1> QED BY <1>1, <1>2, <1>3 DEF TableTyped

(* What an access of another instruction leaves as it was.                 *)
LEMMA OthersKeepWatched ==
    ASSUME StrideInv, NEW ip \in LoadIp, ip # Watched, NEW addr \in Int, UNCHANGED <<lastOf, strides>>,
           NEW i \in Index, NEW e \in Entry, e.ip = ip,
           ipt' = MostRecent([ipt EXCEPT ![i] = e], i),
           \A r \in asked_lines' : r.ip = ip
    PROVE  StrideInv'
<1> DEFINE t == [ipt EXCEPT ![i] = e]
<1>1. t \in [Index -> Entry] /\ ipt \in [Index -> Entry]
  BY DEF StrideInv, TableTyped
<1>2. /\ ipt' \in [Index -> Entry]
      /\ \A j \in Index : /\ ipt'[j].ip = t[j].ip /\ ipt'[j].last_addr = t[j].last_addr
                          /\ ipt'[j].stride = t[j].stride /\ ipt'[j].conf = t[j].conf
  BY <1>1, OrderKeepsEntries
<1>3. \A j \in Index : ipt'[j].ip = Watched => t[j] = ipt[j] /\ ipt[j].ip = Watched
  BY <1>1, <1>2
<1>4. OwnEntryOnly'
  BY <1>3 DEF OwnEntryOnly, StrideInv
<1>5. \A j \in Index : ipt'[j].ip = Watched => EntryKnows(j)'
  <2> SUFFICES ASSUME NEW j \in Index, ipt'[j].ip = Watched PROVE EntryKnows(j)'
    OBVIOUS
  <2>1. EntryKnows(j) /\ t[j] = ipt[j]
    BY <1>3 DEF StrideInv
  <2>2. /\ ipt'[j].last_addr = ipt[j].last_addr /\ ipt'[j].stride = ipt[j].stride
        /\ ipt'[j].conf = ipt[j].conf
    BY <1>2, <2>1
  <2> QED BY <2>1, <2>2 DEF EntryKnows
<1>6. TableTyped'
  BY <1>2 DEF StrideInv, TableTyped
<1>7. AsksAfterTwo'
  BY DEF AsksAfterTwo
<1> QED BY <1>4, <1>5, <1>6, <1>7 DEF StrideInv

(* What its own access makes of the entry of Watched.                      *)
LEMMA WatchedEntered ==
    ASSUME StrideInv, NEW addr \in Addr[Watched], Observed(Watched, addr),
           NEW i \in Index, NEW e \in Entry, e.ip = Watched,
           \A j \in Index : ipt[j].ip = Watched => j = i,
           e.last_addr = addr,
           e.conf >= 2 => e.stride \in Distances /\ strides'[e.stride] >= 1,
           e.conf = 3 => strides'[e.stride] = 2,
           ipt' = MostRecent([ipt EXCEPT ![i] = e], i),
           AsksAfterTwo'
    PROVE  StrideInv'
<1> DEFINE t == [ipt EXCEPT ![i] = e]
<1>1. t \in [Index -> Entry] /\ ipt \in [Index -> Entry] /\ t[i] = e
  BY DEF StrideInv, TableTyped
<1>2. /\ ipt' \in [Index -> Entry]
      /\ \A j \in Index : /\ ipt'[j].ip = t[j].ip /\ ipt'[j].last_addr = t[j].last_addr
                          /\ ipt'[j].stride = t[j].stride /\ ipt'[j].conf = t[j].conf
  <2>1. PICK u : u = [ipt EXCEPT ![i] = e]
    OBVIOUS
  <2>2. u \in [Index -> Entry] /\ ipt' = MostRecent(u, i)
    BY <1>1, <2>1, Zenon
  <2>3. PICK v : v = MostRecent(u, i)
    OBVIOUS
  <2>4. /\ v \in [Index -> Entry]
        /\ \A j \in Index : /\ v[j].ip = u[j].ip /\ v[j].last_addr = u[j].last_addr
                            /\ v[j].stride = u[j].stride /\ v[j].conf = u[j].conf
    <3>1. u \in [Index -> Entry] /\ i \in Index
      BY <2>2, Zenon
    <3>2. /\ MostRecent(u, i) \in [Index -> Entry]
          /\ \A j \in Index : /\ MostRecent(u, i)[j].ip = u[j].ip
                              /\ MostRecent(u, i)[j].last_addr = u[j].last_addr
                              /\ MostRecent(u, i)[j].stride = u[j].stride
                              /\ MostRecent(u, i)[j].conf = u[j].conf
      BY <3>1, OrderKeepsEntries, Zenon
    <3> QED BY <2>3, <3>2, Zenon
  <2>5. ipt' = v
    BY <2>2, <2>3, Zenon
  <2>6. t = u
    BY <2>1, Zenon
  <2> HIDE DEF t
  <2> QED BY <2>4, <2>5, <2>6
<1>3. \A j \in Index : ipt'[j].ip = Watched => j = i
  BY <1>1, <1>2
<1>4. OwnEntryOnly'
  BY <1>3 DEF OwnEntryOnly
<1>5. lastOf' = addr /\ addr # 0 /\ strides' \in [Distances -> 0 .. 2]
  BY MovesCounted DEF StrideInv
<1>6. \A j \in Index : ipt'[j].ip = Watched => EntryKnows(j)'
  <2> SUFFICES ASSUME NEW j \in Index, ipt'[j].ip = Watched PROVE EntryKnows(j)'
    OBVIOUS
  <2>1. /\ ipt'[j].last_addr = e.last_addr /\ ipt'[j].stride = e.stride
        /\ ipt'[j].conf = e.conf
    BY <1>1, <1>2, <1>3
  <2>2. Distances' = Distances
    BY DEF Distances
  <2> QED BY <1>5, <2>1, <2>2 DEF EntryKnows
<1>7. TableTyped'
  <2>1. Distances' = Distances
    BY DEF Distances
  <2> QED BY <1>2, <1>5, <2>1 DEF TableTyped
<1> QED BY <1>4, <1>6, <1>7 DEF StrideInv

LEMMA StrideHitKeeps ==
    ASSUME StrideInv, NEW ip \in LoadIp, NEW addr \in Addr[ip], StrideHit(ip, addr),
           Observed(ip, addr)
    PROVE  StrideInv'
<1> USE StrideAssumption
<1>0. addr \in Nat \ {0} /\ ipt \in [Index -> Entry]
  BY DEF StrideInv, TableTyped
<1>1. PICK i \in HitIndex(ip) :
         LET e == ipt[i]
             new_stride == addr - e.last_addr
             trained == [e EXCEPT !.last_addr = addr,
                                  !.conf = update_conf(new_stride, e.stride, e.conf),
                                  !.stride = IF e.conf <= 1 THEN new_stride ELSE @]
         IN  /\ asked_lines' = IF trigger_prefetch(e, new_stride) THEN Asked(ip, addr, e.stride) ELSE {}
             /\ ipt' = MostRecent([ipt EXCEPT ![i] = IF new_stride = 0 THEN e ELSE trained], i)
  BY DEF StrideHit
<1>2. PICK e : e = ipt[i]
  OBVIOUS
<1>3. i \in Index /\ e \in Entry /\ e.conf # 0 /\ e.ip = ip
  BY <1>0, <1>1, <1>2 DEF HitIndex
<1>4. PICK s \in Int : s = addr - e.last_addr
  BY <1>0, <1>3 DEF Entry
<1> DEFINE c == update_conf(s, e.stride, e.conf)
           trained == [e EXCEPT !.last_addr = addr, !.conf = c,
                                !.stride = IF e.conf <= 1 THEN s ELSE @]
<1>5. PICK f : f = IF s = 0 THEN e ELSE trained
  OBVIOUS
<1>6. /\ asked_lines' = IF trigger_prefetch(e, s) THEN Asked(ip, addr, e.stride) ELSE {}
      /\ ipt' = MostRecent([ipt EXCEPT ![i] = f], i)
  BY <1>1, <1>2, <1>4, <1>5
<1>7. c \in 0 .. 3
  BY <1>3 DEF update_conf, Entry
<1>8. f \in Entry /\ f.ip = ip /\ f.last_addr = addr
  <2>1. trained \in Entry /\ trained.ip = ip /\ trained.last_addr = addr
    <3>1. PICK z \in Int : z = IF e.conf <= 1 THEN s ELSE e.stride
      BY <1>3, <1>4 DEF Entry
    <3> HIDE DEF c
    <3>2. trained = [e EXCEPT !.last_addr = addr, !.conf = c, !.stride = z]
      BY <1>3, <3>1 DEF Entry
    <3> HIDE DEF trained
    <3>3. c \in 0 .. SP_CONF_MAX /\ addr \in Int
      BY <1>0, <1>7
    <3> HIDE DEF Index, Distances
    <3>4. trained = [ip |-> e.ip, last_addr |-> addr, stride |-> z, conf |-> c,
                     rplc_bits |-> e.rplc_bits]
      BY <1>3, <3>2 DEF Entry
    <3>5. e.ip \in LoadIp \cup {NoIp} /\ e.rplc_bits \in 0 .. IPT_NUM - 1
      BY <1>3 DEF Entry
    <3> QED BY <1>3, <3>3, <3>4, <3>5 DEF Entry
  <2>2. s = 0 => e.last_addr = addr
    BY <1>0, <1>3, <1>4 DEF Entry
  <2> QED BY <1>3, <1>5, <2>1, <2>2
<1>9. \A r \in asked_lines' : r \in Asked(ip, addr, e.stride) /\ trigger_prefetch(e, s)
  BY <1>6
<1>10. \A r \in asked_lines' : r.ip = ip
  BY <1>9 DEF Asked
<1>11. CASE ip # Watched
  <2>1. UNCHANGED <<lastOf, strides>>
    BY <1>11 DEF Observed
  <2> QED BY <1>0, <1>3, <1>6, <1>8, <1>10, <1>11, <2>1, OthersKeepWatched
<1>12. CASE ip = Watched
  <2>1. /\ lastOf # 0 /\ e.last_addr = lastOf
        /\ e.conf >= 2 => e.stride \in Distances /\ strides[e.stride] >= 1
        /\ e.conf = 3 => strides[e.stride] = 2
    BY <1>2, <1>3, <1>12 DEF StrideInv, EntryKnows
  <2>2. /\ lastOf' = addr /\ strides \in [Distances -> 0 .. 2] /\ strides' \in [Distances -> 0 .. 2]
        /\ \A d \in Distances : strides[d] <= strides'[d]
        /\ s \in Distances
        /\ strides'[s] = IF strides[s] = 2 THEN 2 ELSE strides[s] + 1
    BY <1>4, <1>12, <2>1, MovesCounted DEF StrideInv, TableTyped
  <2>3. strides'[s] >= 1
    BY <2>2
  <2>4. /\ f.conf >= 2 => f.stride \in Distances /\ strides'[f.stride] >= 1
        /\ f.conf = 3 => strides'[f.stride] = 2
    <3>1. CASE s = 0
      BY <1>5, <2>1, <2>2, <3>1
    <3>2. CASE s # 0
      <4>1. f.conf = c /\ f.stride = IF e.conf <= 1 THEN s ELSE e.stride
        BY <1>3, <1>5, <3>2 DEF Entry
      <4>2. e.conf \in 1 .. 3
        BY <1>3 DEF Entry
      <4>3. CASE e.conf = 1
        <5>1. c = IF s = e.stride THEN 2 ELSE 0
          BY <3>2, <4>3 DEF update_conf
        <5> QED BY <2>2, <2>3, <4>1, <4>3, <5>1
      <4>4. CASE e.conf = 2
        <5>1. c = IF s = e.stride THEN 3 ELSE 1
          BY <3>2, <4>4 DEF update_conf
        <5> QED BY <2>1, <2>2, <4>1, <4>4, <5>1
      <4>5. CASE e.conf = 3
        <5>1. f.stride = e.stride /\ strides[e.stride] = 2 /\ e.stride \in Distances
          BY <2>1, <4>1, <4>5
        <5>2. strides[e.stride] <= strides'[e.stride] /\ strides'[e.stride] \in 0 .. 2
          BY <2>2, <5>1
        <5> QED BY <5>1, <5>2
      <4> QED BY <4>2, <4>3, <4>4, <4>5
    <3> QED BY <3>1, <3>2
  <2>5. AsksAfterTwo'
    <3> SUFFICES ASSUME NEW r \in asked_lines'
                 PROVE  \E d \in Distances : strides'[d] = 2 /\ r \in Asked(Watched, lastOf', d)
      BY DEF AsksAfterTwo, Asked, Distances
    <3>1. r \in Asked(Watched, lastOf', e.stride) /\ trigger_prefetch(e, s)
      BY <1>9, <1>12, <2>2
    <3>2. e.stride \in Distances /\ strides'[e.stride] = 2
      <4>1. e.conf \in 2 .. 3 /\ (e.stride = s \/ e.conf = 3)
        BY <1>3, <3>1 DEF trigger_prefetch, Entry
      <4>2. e.stride \in Distances /\ strides[e.stride] \in 1 .. 2
        BY <2>1, <2>2, <4>1
      <4>3. strides[e.stride] <= strides'[e.stride] /\ strides'[e.stride] \in 0 .. 2
        BY <2>2, <4>2
      <4>4. CASE e.conf = 3
        BY <2>1, <4>2, <4>3, <4>4
      <4>5. CASE e.stride = s
        BY <2>2, <4>2, <4>5
      <4> QED BY <4>1, <4>2, <4>4, <4>5
    <3> QED BY <3>1, <3>2
  <2>6. \A j \in Index : ipt[j].ip = Watched => j = i
    BY <1>2, <1>3, <1>12 DEF StrideInv, OwnEntryOnly
  <2> QED BY <1>3, <1>6, <1>8, <1>12, <2>4, <2>5, <2>6, WatchedEntered
<1> QED BY <1>11, <1>12

LEMMA StrideMissKeeps ==
    ASSUME StrideInv, NEW ip \in LoadIp, NEW addr \in Addr[ip], StrideMiss(ip, addr),
           Observed(ip, addr)
    PROVE  StrideInv'
<1> USE StrideAssumption
<1>0. addr \in Nat \ {0} /\ ipt \in [Index -> Entry]
  BY DEF StrideInv, TableTyped
<1>1. PICK i \in Replaceable(ip) :
         ipt' = MostRecent([ipt EXCEPT ![i].ip = ip, ![i].last_addr = addr, ![i].conf = 1], i)
  BY DEF StrideMiss
<1>2. i \in Index /\ \A j \in Index : ipt[j].ip = ip => ipt[i].ip = ip
  BY <1>1 DEF Replaceable
<1>3. PICK e : e = [ipt[i] EXCEPT !.ip = ip, !.last_addr = addr, !.conf = 1]
  OBVIOUS
<1>4. e \in Entry /\ e.ip = ip /\ e.last_addr = addr /\ e.conf = 1
  <2>1. 1 \in 0 .. SP_CONF_MAX /\ ipt[i] \in Entry
    BY <1>0, <1>2
  <2>2. PICK o \in Entry : o = ipt[i]
    BY <2>1
  <2>3. e = [ip |-> ip, last_addr |-> addr, stride |-> o.stride, conf |-> 1,
             rplc_bits |-> o.rplc_bits]
    BY <1>3, <2>2 DEF Entry
  <2>4. o.stride \in Int /\ o.rplc_bits \in 0 .. IPT_NUM - 1
    BY <2>2 DEF Entry
  <2> QED BY <1>0, <2>1, <2>3, <2>4 DEF Entry
<1>5. ipt' = MostRecent([ipt EXCEPT ![i] = e], i)
  BY <1>0, <1>1, <1>2, <1>3 DEF Entry
<1>6. asked_lines' = {}
  BY DEF StrideMiss
<1>7. CASE ip # Watched
  <2>1. UNCHANGED <<lastOf, strides>>
    BY <1>7 DEF Observed
  <2>2. addr \in Int /\ \A r \in asked_lines' : r.ip = ip
    BY <1>0, <1>6
  <2> QED BY <1>2, <1>4, <1>5, <1>7, <2>1, <2>2, OthersKeepWatched
<1>8. CASE ip = Watched
  <2>1. \A j \in Index : ipt[j].ip = Watched => j = i
    BY <1>2, <1>8 DEF StrideInv, OwnEntryOnly
  <2>2. AsksAfterTwo'
    BY <1>6 DEF AsksAfterTwo
  <2> QED BY <1>2, <1>4, <1>5, <1>8, <2>1, <2>2, WatchedEntered
<1> QED BY <1>7, <1>8

LEMMA StrideInvariant == StrideSpec => []StrideInv
<1>1. StrideInit => StrideInv
  <2> SUFFICES ASSUME StrideInit PROVE StrideInv
    OBVIOUS
  <2>1. /\ ipt \in [Index -> Entry] /\ \A i \in Index : ipt[i].ip = NoIp
    BY StrideAssumption DEF StrideInit, Entry, Index
  <2>2. lastOf = 0 /\ strides \in [Distances -> 0 .. 2] /\ asked_lines = {}
    BY DEF StrideInit
  <2> QED BY <2>1, <2>2, StrideAssumption DEF StrideInv, TableTyped, OwnEntryOnly, AsksAfterTwo
<1>2. StrideInv /\ [StrideNext]_strideVars => StrideInv'
  <2> SUFFICES ASSUME StrideInv, [StrideNext]_strideVars PROVE StrideInv'
    OBVIOUS
  <2>1. ASSUME NEW ip \in LoadIp, NEW addr \in Addr[ip], prefetcher_cache_operate(ip, addr)
        PROVE  StrideInv'
    BY <2>1, StrideHitKeeps, StrideMissKeeps DEF prefetcher_cache_operate
  <2>2. CASE UNCHANGED strideVars
    BY <2>2 DEF strideVars, StrideInv, TableTyped, OwnEntryOnly, EntryKnows, AsksAfterTwo
  <2> QED BY <2>1, <2>2 DEF StrideNext
<1> QED BY <1>1, <1>2, PTL DEF StrideSpec

(* The stride prefetcher asks for a line only at a distance that is a      *)
(* multiple of a stride this instruction has made twice                    *)
(* (prefetcher_cache_operate, update_conf), for every table size and every *)
(* access pattern.                                                         *)
THEOREM StrideAsksAfterTwo == StrideSpec => []AsksAfterTwo
BY StrideInvariant, PTL DEF StrideInv

(* The entries stay entries: confidence and replacement bits in range.     *)
THEOREM StrideTypeInvariant == StrideSpec => []StrideTypeOK
<1>1. StrideInv => StrideTypeOK
  BY DEF StrideInv, TableTyped, StrideTypeOK, Entry
<1> QED BY <1>1, StrideInvariant, PTL
=============================================================================
