-------------------------------- MODULE Rrip --------------------------------
(***************************************************************************)
(* One set of a cache under SRRIP, DRRIP or SHiP (replacement/srrip,       *)
(* drrip, ship), with the choice of the way that CACHE makes around it and *)
(* the changes of its associativity.  The three policies share             *)
(* find_victim, a loop that ages the set until a counter equals maxRRPV,   *)
(* and differ in what a fill sets the counter to.                          *)
(*                                                                         *)
(* Which of the two values DRRIP's duel and SHiP's table choose is left    *)
(* open.  Of the sampler sets of a core, DRRIP gives a policy to the first *)
(* two only; a demand that fills a block of another one does not set its   *)
(* counter.                                                                *)
(***************************************************************************)
EXTENDS Integers

CONSTANTS
    SetWays,            \* NUM_WAY
    maxRRPV,
    CounterRange,       \* 2^32, BLOCK::lru is a uint32_t
    SetKind             \* {"srrip", "ship", "drrip", "drrip_sampled"}

ASSUME RripAssumption ==
    /\ {SetWays, maxRRPV} \subseteq Nat \ {0}
    /\ CounterRange \in Nat /\ CounterRange > 2 * maxRRPV + 2
    /\ SetKind \subseteq {"srrip", "ship", "drrip", "drrip_sampled"}

VARIABLES
    kind,               \* of the set
    filled,             \* block[..].valid
    rrpv,               \* block[..].lru, "hijacked"
    current_assoc

rripVars == <<kind, filled, rrpv, current_assoc>>

BlockWay == 0 .. SetWays - 1
InForce == 0 .. current_assoc - 1

(* BLOCK::lru before initialize_replacement, which only SRRIP's changes.   *)
NeverSet == CounterRange \div 2 - 1

RripInit ==
    /\ kind \in SetKind
    /\ filled = {}
    /\ rrpv = [w \in BlockWay |-> IF kind = "srrip" THEN maxRRPV ELSE NeverSet]
    /\ current_assoc = SetWays

(* The counter after k rounds of the loop: a uint32_t wraps.               *)
Aged(w, k) == (rrpv[w] + k) % CounterRange

(* How many rounds it takes.                                               *)
Stops(k) == \E w \in InForce : Aged(w, k) = maxRRPV
Rounds == CHOOSE k \in 0 .. CounterRange - 1 : Stops(k) /\ \A j \in 0 .. k - 1 : ~Stops(j)

(* The first block at maxRRPV then.                                        *)
IsVictim(w) ==
    /\ w \in InForce /\ Aged(w, Rounds) = maxRRPV
    /\ \A v \in 0 .. w - 1 : Aged(v, Rounds) # maxRRPV

FillKeeps(type, old) ==   \* mutant: the write-back's return comes before its counter
    IF type = "WRITEBACK" THEN {old} ELSE {maxRRPV - 1}

(* What update_replacement_state may set a filled block's counter to; old  *)
(* is what it is now.                                                      *)
FillValues(type, old) ==
    IF kind = "srrip" \/ type = "WRITEBACK" THEN {maxRRPV - 1}
    ELSE IF kind = "drrip_sampled" THEN {old}
    ELSE {maxRRPV - 1, maxRRPV}

(* A hit: DRRIP treats a write-back as a fill, SHiP does nothing for it.   *)
HitValue(type, old) ==
    IF type # "WRITEBACK" \/ kind = "srrip" THEN 0
    ELSE IF kind = "ship" THEN old ELSE maxRRPV - 1

AccessType == {"LOAD", "WRITEBACK"}

RripHit(w, type) ==
    /\ w \in InForce \cap filled
    /\ rrpv' = [rrpv EXCEPT ![w] = HitValue(type, @)]
    /\ UNCHANGED <<kind, filled, current_assoc>>

(* The first invalid way; without one, find_victim ages the set.           *)
RripFill(w, type) ==
    /\ IF InForce \subseteq filled
       THEN /\ IsVictim(w)
            /\ \E value \in FillValues(type, maxRRPV) :
                  rrpv' = [v \in BlockWay |-> IF v = w THEN value
                                              ELSE IF v \in InForce THEN Aged(v, Rounds)
                                              ELSE rrpv[v]]
       ELSE /\ w \in InForce \ filled
            /\ 0 .. w - 1 \subseteq filled
            /\ \E value \in FillValues(type, rrpv[w]) : rrpv' = [rrpv EXCEPT ![w] = value]
    /\ filled' = filled \cup {w}
    /\ UNCHANGED <<kind, current_assoc>>

(* adjust_assoc: blocks are hidden as they are, and come back as they are. *)
adjust_assoc ==
    /\ current_assoc' \in 1 .. SetWays
    /\ UNCHANGED <<kind, filled, rrpv>>

RripNext ==
    \/ \E w \in BlockWay, type \in AccessType : RripHit(w, type) \/ RripFill(w, type)
    \/ adjust_assoc

RripSpec == RripInit /\ [][RripNext]_rripVars

-----------------------------------------------------------------------------
RripTypeOK ==
    /\ kind \in SetKind
    /\ filled \subseteq BlockWay
    /\ rrpv \in [BlockWay -> 0 .. CounterRange - 1]
    /\ current_assoc \in 1 .. SetWays

(* The loop of find_victim has no bound of its own and would run through   *)
(* the whole range of a uint32_t for counters above maxRRPV, which is what *)
(* BLOCK::lru starts with under DRRIP and SHiP.  It stops within maxRRPV   *)
(* rounds, whatever has been hit, filled, written back, hidden and brought *)
(* back before; the sampler sets DRRIP forgets are the exception.          *)
VictimWithinReach ==
    kind # "drrip_sampled" /\ InForce \subseteq filled => Rounds <= maxRRPV
=============================================================================
