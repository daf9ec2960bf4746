------------------------------ MODULE LruPolicy ------------------------------
(***************************************************************************)
(* One set of a cache under the LRU replacement policy                     *)
(* (replacement/lru/lru.cc), with the choice of the way to fill that       *)
(* CACHE::handle_fill makes around it.  The associativity in force         *)
(* (current_assoc) is the whole set: the prefetchers that shrink it while  *)
(* the set is in use are not part of this module.                          *)
(*                                                                         *)
(* The counter of a block never used starts at half of the uint32_t range; *)
(* it is aged with the others, so it is not the same for all invalid       *)
(* blocks at all times, only larger than that of any block in use.         *)
(***************************************************************************)
EXTENDS Integers

CONSTANTS
    NUM_WAY,            \* associativity
    Unused              \* BLOCK::lru before the first use

ASSUME LruAssumption == NUM_WAY \in Nat \ {0} /\ Unused \in Nat /\ NUM_WAY <= Unused

VARIABLES
    valid,              \* block[..].valid
    lru                 \* block[..].lru, 0 for the most recently used

lruVars == <<valid, lru>>

Way == 0 .. NUM_WAY - 1

ValidWays == {w \in Way : valid[w]}

LruTypeOK == valid \in [Way -> BOOLEAN] /\ lru \in [Way -> Nat]

LruInit ==
    /\ valid = [w \in Way |-> FALSE]
    /\ lru = [w \in Way |-> Unused]

AgeTheOlder(way) ==   \* mutant: >= for <=
    lru' = [w \in Way |-> IF w = way THEN 0
                          ELSE IF lru[w] >= lru[way] THEN lru[w] + 1 ELSE lru[w]]

AgeAll(way) ==   \* mutant: x.lru is not compared with hit_lru
    lru' = [w \in Way |-> IF w = way THEN 0 ELSE lru[w] + 1]

(* update_replacement_state: what was no older than the way used ages by   *)
(* one, and the way becomes the youngest.                                  *)
update_replacement_state(way) ==
    lru' = [w \in Way |-> IF w = way THEN 0
                          ELSE IF lru[w] <= lru[way] THEN lru[w] + 1 ELSE lru[w]]

(* lru_comparator: an invalid block is older than anything.                *)
NoOlderThan(v, w) == ~valid[w] \/ (valid[v] /\ lru[v] <= lru[w])

(* find_victim: std::max_element, asked only when every way is valid.      *)
find_victim(way) == \A v \in Way : NoOlderThan(v, way)

(* handle_fill fills the first invalid way before it asks for a victim.    *)
FillWay(way) ==
    IF ValidWays = Way
    THEN find_victim(way)
    ELSE ~valid[way] /\ \A v \in 0 .. way - 1 : valid[v]

(* A hit of any type but WRITEBACK; a write-back hit updates nothing.      *)
Hit(way) ==
    /\ valid[way]
    /\ update_replacement_state(way)
    /\ UNCHANGED valid

WritebackHit(way) ==
    /\ valid[way]
    /\ UNCHANGED lruVars

(* A fill: filllike_miss writes the block, then updates the policy with    *)
(* hit == 0, of a write-back as well.                                      *)
Fill(way) ==
    /\ FillWay(way)
    /\ valid' = [valid EXCEPT ![way] = TRUE]
    /\ update_replacement_state(way)

LruNext == \E way \in Way : Hit(way) \/ WritebackHit(way) \/ Fill(way)

LruSpec == LruInit /\ [][LruNext]_lruVars

-----------------------------------------------------------------------------
(* The recency order the counters stand for.                               *)
NewerPairs == {p \in ValidWays \X ValidWays : lru[p[1]] < lru[p[2]]}

R == INSTANCE Recency WITH Way <- Way, inUse <- ValidWays, newer <- NewerPairs

(* The counters of lru.cc are an exact record of recency: the block that   *)
(* find_victim names is the one used longest ago, at every fill.           *)
EvictsLeastRecent == R!RecencySpec

(* No two valid blocks tie.                                                *)
NoTie == \A v, w \in Way : valid[v] /\ valid[w] /\ v # w => lru[v] # lru[w]

(* The valid blocks count 0, 1, 2, ... without gap.                        *)
NoGap == \A w \in Way : valid[w] => \A k \in 0 .. lru[w] - 1 :
                            \E v \in Way : valid[v] /\ lru[v] = k

(* Every invalid block is above them, and within the width of its counter. *)
InvalidAbove ==
    \A w \in Way : ~valid[w] =>
        /\ lru[w] <= Unused + NUM_WAY
        /\ \A v \in Way : valid[v] => lru[v] < lru[w]

(* std::max_element never has a choice to make and uint32_t never wraps,   *)
(* although the counters of invalid blocks are aged by every fill.         *)
CountersStacked == NoTie /\ NoGap /\ InvalidAbove
=============================================================================
