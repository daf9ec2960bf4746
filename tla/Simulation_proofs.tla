-------------------------- MODULE Simulation_proofs --------------------------
(***************************************************************************)
(* Proofs about Simulation, for any number of cores, retire width, length  *)
(* of the warm-up and of the simulation, frequency of DRAM and size of the *)
(* Meta-RQ: cores are measured alike, DRAM keeps its frequency, and no     *)
(* answer of DRAMSim3 is lost or made twice.  And about TraceReader, for   *)
(* every trace the main loop may read.                                     *)
(***************************************************************************)
EXTENDS Simulation, TraceReader, FiniteSetTheorems, SequenceTheorems, TLAPS

-----------------------------------------------------------------------------
(* DRAM's clock.  What it is ahead by is exactly leap_operation, and that  *)
(* is never negative.                                                      *)
LeapIsLead ==
    /\ leap \in 0 .. ScaleNum - 1
    /\ lag \in Int /\ lag + leap = 0

LEMMA LeapInvariant == SimulationSpec => []LeapIsLead
<1> USE SimulationAssumption
<1>1. SimulationInit => LeapIsLead
  <2>1. SimulationInit => leap = 0 /\ lag = 0
    BY DEF SimulationInit
  <2>2. ScaleNum \in Nat /\ ScaleNum >= 1
    BY ScaleDen \in Nat \ {0}
  <2> QED BY <2>1, <2>2 DEF LeapIsLead
<1>2. LeapIsLead /\ [SimulationNext]_simVars => LeapIsLead'
  <2> SUFFICES ASSUME LeapIsLead, [SimulationNext]_simVars PROVE LeapIsLead'
    OBVIOUS
  <2>1. CASE UNCHANGED clockVars
    BY <2>1 DEF clockVars, LeapIsLead
  <2>2. CASE DramSkips
    BY <2>2 DEF DramSkips, LeapDone, Skipped, LeapIsLead
  <2>3. CASE DramOperates
    BY <2>3 DEF DramOperates, LeapDone, Operated, LeapIsLead
  <2>4. ASSUME NEW c \in Core, RetireSome(c) \/ LookAt(c)
        PROVE  UNCHANGED clockVars
    BY <2>4 DEF RetireSome, LookAt
  <2>5. CASE LlcReads \/ LlcReadsNothing \/ EndStep
    BY <2>1, <2>5 DEF LlcReads, LlcReadsNothing, EndStep
  <2>6. CASE UNCHANGED simVars
    BY <2>1, <2>6 DEF simVars
  <2> QED BY <2>1, <2>2, <2>3, <2>4, <2>5, <2>6 DEF SimulationNext
<1> QED BY <1>1, <1>2, PTL DEF SimulationSpec

(* After any number of steps DRAM has run as often as its scale says, give *)
(* or take one (operable::_operate), for every scale from 1 on.            *)
THEOREM DramKeepsFrequency == SimulationSpec => []KeepsFrequency
<1>1. LeapIsLead => KeepsFrequency
  BY SimulationAssumption DEF LeapIsLead, KeepsFrequency
<1> QED BY <1>1, LeapInvariant, PTL

-----------------------------------------------------------------------------
(* The Meta-RQ: every transaction has its packet in exactly one place.     *)
RqOK ==
    /\ RQ \in [1 .. DRAM_RQ_SIZE -> Block \cup {NoBlock}]
    /\ transactions \subseteq Block
    /\ owed = [b \in Block |-> IF b \in transactions THEN 1 ELSE 0]
    /\ \A b \in Block : b \in transactions <=> \E i \in 1 .. DRAM_RQ_SIZE : RQ[i] = b
    /\ \A i, j \in 1 .. DRAM_RQ_SIZE : RQ[i] = RQ[j] /\ RQ[i] # NoBlock => i = j

LEMMA AddKeepsRq ==
    ASSUME RqOK, NEW b \in Block, owed[b] = 0, add_rq(b)
    PROVE  RqOK'
<1> USE SimulationAssumption
<1>1. CASE Fastforward
  BY <1>1 DEF add_rq, dramVars, RqOK
<1>2. CASE ~Fastforward
  <2>1. PICK i \in 1 .. DRAM_RQ_SIZE : RQ[i] = NoBlock /\ RQ' = [RQ EXCEPT ![i] = b]
    BY <1>2 DEF add_rq, Valid, RqOK
  <2>2. transactions' = transactions \cup {b} /\ owed' = [owed EXCEPT ![b] = @ + 1]
    BY <1>2 DEF add_rq
  <2>3. b \notin transactions /\ \A j \in 1 .. DRAM_RQ_SIZE : RQ[j] # b
    BY DEF RqOK
  <2>4. owed' = [c \in Block |-> IF c \in transactions' THEN 1 ELSE 0]
    BY <2>2, <2>3 DEF RqOK
  <2>5. RQ' \in [1 .. DRAM_RQ_SIZE -> Block \cup {NoBlock}] /\ transactions' \subseteq Block
    BY <2>1, <2>2 DEF RqOK
  <2>6. \A c \in Block : c \in transactions' <=> \E j \in 1 .. DRAM_RQ_SIZE : RQ'[j] = c
    BY <2>1, <2>2 DEF RqOK
  <2>7. \A j, k \in 1 .. DRAM_RQ_SIZE : RQ'[j] = RQ'[k] /\ RQ'[j] # NoBlock => j = k
    BY <2>1, <2>3 DEF RqOK
  <2> QED BY <2>4, <2>5, <2>6, <2>7 DEF RqOK
<1> QED BY <1>1, <1>2

LEMMA CallBackKeepsRq ==
    ASSUME RqOK, NEW b \in transactions, transactions' = transactions \ {b}, ReadCallBack(b)
    PROVE  RqOK'
<1> USE SimulationAssumption
<1>1. b \in Block /\ b # NoBlock
  BY DEF RqOK
<1>2. PICK k \in 1 .. DRAM_RQ_SIZE : RQ[k] = b
  BY <1>1 DEF RqOK
<1>3. b \in {RQ[i] : i \in Valid}
  BY <1>1, <1>2 DEF Valid, RqOK
<1>4. PICK i \in 1 .. DRAM_RQ_SIZE : RQ[i] = b /\ RQ' = [RQ EXCEPT ![i] = NoBlock]
  BY <1>3 DEF ReadCallBack, Valid, RqOK
<1>5. owed' = [owed EXCEPT ![b] = @ - 1]
  BY <1>3 DEF ReadCallBack
<1>6. owed' = [c \in Block |-> IF c \in transactions' THEN 1 ELSE 0]
  BY <1>1, <1>5 DEF RqOK
<1>7. RQ' \in [1 .. DRAM_RQ_SIZE -> Block \cup {NoBlock}] /\ transactions' \subseteq Block
  BY <1>4 DEF RqOK
<1>8. \A j \in 1 .. DRAM_RQ_SIZE : RQ'[j] = IF j = i THEN NoBlock ELSE RQ[j]
  BY <1>4 DEF RqOK
<1>9. \A c \in Block : c \in transactions' <=> \E j \in 1 .. DRAM_RQ_SIZE : RQ'[j] = c
  <2> SUFFICES ASSUME NEW c \in Block
               PROVE  c \in transactions' <=> \E j \in 1 .. DRAM_RQ_SIZE : RQ'[j] = c
    OBVIOUS
  <2>1. CASE c = b
    <3>1. \A j \in 1 .. DRAM_RQ_SIZE : RQ'[j] # b
      BY <1>1, <1>4, <1>8 DEF RqOK
    <3> QED BY <2>1, <3>1
  <2>2. CASE c # b
    <3>1. \A j \in 1 .. DRAM_RQ_SIZE : RQ'[j] = c <=> RQ[j] = c
      BY <1>4, <1>8, <2>2
    <3> QED BY <2>2, <3>1 DEF RqOK
  <2> QED BY <2>1, <2>2
<1>10. \A j, m \in 1 .. DRAM_RQ_SIZE : RQ'[j] = RQ'[m] /\ RQ'[j] # NoBlock => j = m
  BY <1>8 DEF RqOK
<1> QED BY <1>6, <1>7, <1>9, <1>10 DEF RqOK

LEMMA RqInvariant == SimulationSpec => []RqOK
<1> USE SimulationAssumption
<1>1. SimulationInit => RqOK
  BY DEF SimulationInit, RqOK
<1>2. RqOK /\ [SimulationNext]_simVars => RqOK'
  <2> SUFFICES ASSUME RqOK, [SimulationNext]_simVars PROVE RqOK'
    OBVIOUS
  <2>1. CASE UNCHANGED dramVars
    BY <2>1 DEF dramVars, RqOK
  <2>2. CASE LlcReads
    BY <2>2, AddKeepsRq DEF LlcReads
  <2>3. CASE DramOperates
    BY <2>1, <2>3, CallBackKeepsRq DEF DramOperates
  <2>4. ASSUME NEW c \in Core, RetireSome(c) \/ LookAt(c)
        PROVE  UNCHANGED dramVars
    BY <2>4 DEF RetireSome, LookAt
  <2>5. CASE LlcReadsNothing \/ DramSkips \/ EndStep
    BY <2>1, <2>5 DEF LlcReadsNothing, DramSkips, EndStep
  <2>6. CASE UNCHANGED simVars
    BY <2>1, <2>6 DEF simVars
  <2> QED BY <2>1, <2>2, <2>3, <2>4, <2>5, <2>6 DEF SimulationNext
<1> QED BY <1>1, <1>2, PTL DEF SimulationSpec

(* The Meta-RQ of any size holds a packet for each read DRAMSim3 has not   *)
(* answered, and for nothing else: add_rq finds a place whenever           *)
(* get_occupancy promised one, and ReadCallBack finds the packet.          *)
THEOREM MetaRqIsExact == SimulationSpec => []MetaRqExact
<1>1. RqOK => MetaRqExact
  <2> SUFFICES ASSUME RqOK PROVE MetaRqExact
    OBVIOUS
  <2>1. Valid \subseteq 1 .. DRAM_RQ_SIZE /\ \A i \in 1 .. DRAM_RQ_SIZE : i \in Valid <=> RQ[i] # NoBlock
    BY DEF Valid, RqOK
  <2>2. Cardinality(Valid) <= DRAM_RQ_SIZE
    <3>1. 1 \in Int /\ DRAM_RQ_SIZE \in Int /\ DRAM_RQ_SIZE - 1 + 1 = DRAM_RQ_SIZE
          /\ ~(1 > DRAM_RQ_SIZE)
      BY SimulationAssumption
    <3>2. IsFiniteSet(1 .. DRAM_RQ_SIZE) /\ Cardinality(1 .. DRAM_RQ_SIZE) = DRAM_RQ_SIZE
      BY <3>1, FS_Interval
    <3> QED BY <2>1, <3>2, FS_Subset
  <2>3. ASSUME NEW b \in Block
        PROVE  owed[b] = Cardinality({i \in Valid : RQ[i] = b})
    <3>1. CASE b \in transactions
      <4>1. PICK k \in 1 .. DRAM_RQ_SIZE : RQ[k] = b
        BY <3>1 DEF RqOK
      <4>2. {i \in Valid : RQ[i] = b} = {k}
        BY <2>1, <4>1, SimulationAssumption DEF RqOK
      <4> QED BY <3>1, <4>2, FS_Singleton DEF RqOK
    <3>2. CASE b \notin transactions
      <4>1. {i \in Valid : RQ[i] = b} = {}
        BY <2>1, <3>2 DEF RqOK
      <4> QED BY <3>2, <4>1, FS_EmptySet DEF RqOK
    <3> QED BY <3>1, <3>2
  <2> QED BY <2>2, <2>3 DEF MetaRqExact, RqOK
<1> QED BY <1>1, RqInvariant, PTL

-----------------------------------------------------------------------------
(* The measured stretch.  all_warmup_complete counts the warm cores and    *)
(* one more when all are; before that nothing is measured.                 *)
LoopOK ==
    /\ looking \in 0 .. NUM_CPUS
    /\ toOperate \subseteq Operable
    /\ num_retired \in [Core -> Nat]
    /\ begin_sim_instr \in [Core -> Nat]
    /\ finish_sim_instr \in [Core -> Nat \cup {NotYet}]
    /\ warmup_complete \subseteq Core
    /\ simulation_complete \subseteq Core

WarmCounted ==
    all_warmup_complete = IF warmup_complete = Core THEN NUM_CPUS + 1
                          ELSE Cardinality(warmup_complete)

WarmRetired ==
    /\ \A c \in warmup_complete : num_retired[c] > warmup_instructions
    /\ \A c \in Core :
          IF warmup_complete = Core
          THEN begin_sim_instr[c] > warmup_instructions /\ begin_sim_instr[c] <= num_retired[c]
          ELSE begin_sim_instr[c] = 0

(* Core c may have retired in this step without having been looked at.     *)
Unseen(c) == IF looking = NUM_CPUS THEN c \notin toOperate ELSE looking <= c

(* A core that has not finished lacks instructions, but for those.         *)
NotDone ==
    warmup_complete = Core =>
        \A c \in Core \ simulation_complete :
            num_retired[c] < begin_sim_instr[c] + simulation_instructions
                                 + (IF Unseen(c) THEN RETIRE_WIDTH ELSE 0)

FinishOK ==
    \A c \in Core : finish_sim_instr[c] # NotYet =>
        finish_sim_instr[c] \in simulation_instructions .. simulation_instructions + RETIRE_WIDTH - 1

MeasureInv == LoopOK /\ WarmCounted /\ WarmRetired /\ NotDone /\ FinishOK

LEMMA CoresCounted ==
    /\ IsFiniteSet(Core) /\ Cardinality(Core) = NUM_CPUS
    /\ \A S \in SUBSET Core : /\ IsFiniteSet(S) /\ Cardinality(S) \in Nat
                              /\ Cardinality(S) <= NUM_CPUS
                              /\ Cardinality(S) = NUM_CPUS => S = Core
<1>1. 0 \in Int /\ NUM_CPUS - 1 \in Int /\ ~(0 > NUM_CPUS - 1)
      /\ (NUM_CPUS - 1) - 0 + 1 = NUM_CPUS
  BY SimulationAssumption
<1>2. IsFiniteSet(Core) /\ Cardinality(Core) = NUM_CPUS
  BY <1>1, FS_Interval DEF Core
<1>3. ASSUME NEW S \in SUBSET Core
      PROVE  /\ IsFiniteSet(S) /\ Cardinality(S) \in Nat
             /\ Cardinality(S) <= NUM_CPUS
             /\ Cardinality(S) = NUM_CPUS => S = Core
  BY <1>2, FS_Subset, FS_CardinalityType
<1> QED BY <1>2, <1>3

LEMMA RetireKeepsMeasure ==
    ASSUME MeasureInv, NEW c \in Core, RetireSome(c) PROVE MeasureInv'
<1> USE SimulationAssumption DEF MeasureInv
<1>1. /\ looking = NUM_CPUS /\ looking' = NUM_CPUS
      /\ c \in toOperate /\ toOperate' = toOperate \ {c}
      /\ UNCHANGED <<warmup_complete, all_warmup_complete, begin_sim_instr, finish_sim_instr,
                     simulation_complete>>
  BY DEF RetireSome, Turn
<1>2. PICK n \in 0 .. RETIRE_WIDTH : num_retired' = [num_retired EXCEPT ![c] = @ + n]
  BY DEF RetireSome
<1>3. /\ \A d \in Core : num_retired'[d] = IF d = c THEN num_retired[d] + n ELSE num_retired[d]
      /\ \A d \in Core : num_retired[d] \in Nat
  BY <1>2 DEF LoopOK
<1>4. LoopOK'
  BY <1>1, <1>2 DEF LoopOK
<1>5. WarmRetired'
  BY <1>1, <1>3 DEF LoopOK, WarmRetired
<1>6. NotDone'
  <2> SUFFICES ASSUME warmup_complete = Core, NEW d \in Core \ simulation_complete
               PROVE  num_retired'[d] < begin_sim_instr[d] + simulation_instructions
                                            + (IF d \notin toOperate' THEN RETIRE_WIDTH ELSE 0)
    BY <1>1 DEF NotDone, Unseen
  <2>1. num_retired[d] < begin_sim_instr[d] + simulation_instructions
                             + (IF d \notin toOperate THEN RETIRE_WIDTH ELSE 0)
    BY <1>1 DEF NotDone, Unseen
  <2>2. begin_sim_instr[d] \in Nat
    BY DEF LoopOK
  <2>3. CASE d = c
    BY <1>1, <1>3, <2>1, <2>2, <2>3
  <2>4. CASE d # c
    BY <1>1, <1>3, <2>1, <2>4
  <2> QED BY <2>3, <2>4
<1> QED BY <1>1, <1>4, <1>5, <1>6 DEF WarmCounted, FinishOK

(* The turns of the LLC and DRAM, and the end of the step.                 *)
LEMMA OthersKeepMeasure ==
    ASSUME MeasureInv, NEW op \in {LLC, DRAM}, Turn(op) \/ EndStep, UNCHANGED loopVars
    PROVE  MeasureInv'
<1> USE SimulationAssumption DEF MeasureInv, loopVars
<1>1. op \notin Core /\ Core = 0 .. NUM_CPUS - 1
  BY DEF LLC, DRAM, Core
<1>2. LoopOK'
  BY DEF LoopOK, Turn, EndStep
<1>3. \A c \in Core : Unseen(c) => Unseen(c)'
  BY <1>1 DEF Turn, EndStep, Unseen
<1>4. \A c \in Core : Unseen(c)' => Unseen(c)
  BY <1>1 DEF Turn, EndStep, Unseen
<1>5. NotDone'
  BY <1>3, <1>4 DEF NotDone
<1> QED BY <1>2, <1>5 DEF WarmCounted, WarmRetired, FinishOK

LEMMA LookKeepsMeasure ==
    ASSUME MeasureInv, NEW c \in Core, LookAt(c) PROVE MeasureInv'
<1> USE SimulationAssumption DEF MeasureInv
<1> DEFINE warmed == IF Warm(c) THEN all_warmup_complete + 1 ELSE all_warmup_complete
           done == /\ all_warmup_complete' > NUM_CPUS
                   /\ c \notin simulation_complete
                   /\ num_retired[c] >= begin_sim_instr'[c] + simulation_instructions
<1>1. /\ looking = c /\ looking' = c + 1
      /\ toOperate' = IF c = NUM_CPUS - 1 THEN Operable ELSE toOperate
      /\ warmup_complete' = IF Warm(c) THEN warmup_complete \cup {c} ELSE warmup_complete
      /\ all_warmup_complete' = IF warmed = NUM_CPUS THEN warmed + 1 ELSE warmed
      /\ begin_sim_instr' = IF warmed = NUM_CPUS THEN num_retired ELSE begin_sim_instr
      /\ num_retired' = num_retired
  BY DEF LookAt, Passed, finish_warmup
<1>2. IF done
      THEN /\ simulation_complete' = simulation_complete \cup {c}
           /\ finish_sim_instr' = [finish_sim_instr EXCEPT ![c] = num_retired[c] - begin_sim_instr'[c]]
      ELSE UNCHANGED <<simulation_complete, finish_sim_instr>>
  BY DEF LookAt
<1>3. c \in 0 .. NUM_CPUS - 1 /\ Core = 0 .. NUM_CPUS - 1 /\ Core # {}
  BY DEF Core
<1>4. num_retired \in [Core -> Nat] /\ warmup_complete \subseteq Core
  BY DEF LoopOK
(* How the count and the set of warm cores go together.                    *)
<1>5. /\ WarmCounted'
      /\ warmed = NUM_CPUS <=> warmup_complete # Core /\ warmup_complete' = Core
      /\ warmup_complete = Core => warmup_complete' = Core
      /\ warmup_complete' \subseteq Core
      /\ all_warmup_complete' > NUM_CPUS <=> warmup_complete' = Core
  <2>1. /\ Cardinality(warmup_complete) \in Nat /\ IsFiniteSet(warmup_complete)
        /\ Cardinality(warmup_complete) <= NUM_CPUS
        /\ Cardinality(warmup_complete) = NUM_CPUS => warmup_complete = Core
    BY <1>4, CoresCounted
  <2>2. CASE Warm(c)
    <3>1. c \notin warmup_complete
      BY <2>2 DEF Warm
    <3>2. warmup_complete' = warmup_complete \cup {c} /\ warmup_complete' \in SUBSET Core
      BY <1>1, <1>4, <2>2
    <3>3. Cardinality(warmup_complete') = Cardinality(warmup_complete) + 1
      BY <2>1, <3>1, <3>2, FS_AddElement
    <3>4. /\ Cardinality(warmup_complete') <= NUM_CPUS
          /\ Cardinality(warmup_complete') = NUM_CPUS <=> warmup_complete' = Core
      BY <3>2, CoresCounted
    <3>5. warmup_complete # Core /\ all_warmup_complete = Cardinality(warmup_complete)
      BY <3>1 DEF WarmCounted
    <3>6. warmed = Cardinality(warmup_complete')
      BY <2>2, <3>3, <3>5
    <3> QED BY <1>1, <2>1, <3>2, <3>3, <3>4, <3>5, <3>6 DEF WarmCounted
  <2>3. CASE ~Warm(c)
    <3>1. warmup_complete' = warmup_complete /\ warmed = all_warmup_complete
      BY <1>1, <2>3
    <3>2. warmed # NUM_CPUS
      BY <2>1, <3>1 DEF WarmCounted
    <3>3. all_warmup_complete' = all_warmup_complete
      BY <1>1, <3>1, <3>2
    <3>4. all_warmup_complete > NUM_CPUS <=> warmup_complete = Core
      BY <2>1 DEF WarmCounted
    <3> QED BY <1>4, <3>1, <3>2, <3>3, <3>4 DEF WarmCounted
  <2> QED BY <2>2, <2>3
<1>6. WarmRetired'
  <2>1. \A d \in warmup_complete' : num_retired[d] > warmup_instructions
    BY <1>1 DEF WarmRetired, Warm
  <2>2. CASE warmed = NUM_CPUS
    <3> HIDE DEF warmed
    <3>1. begin_sim_instr' = num_retired /\ warmup_complete' = Core
      BY <1>1, <1>5, <2>2
    <3>2. \A d \in Core : num_retired[d] <= num_retired[d]
      BY <1>4
    <3> QED BY <1>1, <2>1, <3>1, <3>2 DEF WarmRetired
  <2>3. CASE warmed # NUM_CPUS
    <3> HIDE DEF warmed
    <3>1. begin_sim_instr' = begin_sim_instr /\ (warmup_complete' = Core <=> warmup_complete = Core)
      BY <1>1, <1>5, <2>3
    <3> QED BY <1>1, <2>1, <3>1 DEF WarmRetired
  <2> QED BY <2>2, <2>3
(* Before it is looked at, the core lacks instructions but for one retire. *)
<1>7. /\ begin_sim_instr' \in [Core -> Nat]
      /\ warmup_complete' = Core =>
            \A d \in Core \ simulation_complete :
                num_retired[d] < begin_sim_instr'[d] + simulation_instructions
                                     + (IF d >= c THEN RETIRE_WIDTH ELSE 0)
  <2>1. CASE warmed = NUM_CPUS
    <3> HIDE DEF warmed
    <3>1. begin_sim_instr' = num_retired
      BY <1>1, <2>1
    <3> QED BY <1>4, <3>1
  <2>2. CASE warmed # NUM_CPUS
    <3> HIDE DEF warmed
    <3>1. begin_sim_instr' = begin_sim_instr /\ begin_sim_instr \in [Core -> Nat]
      BY <1>1, <2>2 DEF LoopOK
    <3>2. \A d \in Core : Unseen(d) <=> d >= c
      BY <1>1, <1>3 DEF Unseen
    <3>3. warmup_complete' = Core => warmup_complete = Core
      BY <1>5, <2>2
    <3> QED BY <3>1, <3>2, <3>3 DEF NotDone
  <2> QED BY <2>1, <2>2
<1>8. all_warmup_complete' > NUM_CPUS <=> warmup_complete' = Core
  BY <1>5
<1>9. \A d \in Core : Unseen(d)' => d > c
  BY <1>1, <1>3 DEF Unseen, Operable
<1>10. \A d \in Core : d > c => Unseen(d)'
  BY <1>1, <1>3 DEF Unseen
<1>11. NotDone'
  <2> SUFFICES ASSUME warmup_complete' = Core, NEW d \in Core \ simulation_complete'
               PROVE  num_retired[d] < begin_sim_instr'[d] + simulation_instructions
                                           + (IF Unseen(d)' THEN RETIRE_WIDTH ELSE 0)
    BY <1>1 DEF NotDone
  <2>1. d \notin simulation_complete
    BY <1>2
  <2>2. num_retired[d] \in Nat /\ begin_sim_instr'[d] \in Nat /\ d \in Int /\ c \in Int
    BY <1>3, <1>4, <1>7
  <2>3. CASE d = c
    <3>1. ~done
      BY <1>2, <2>3
    <3>2. num_retired[d] < begin_sim_instr'[d] + simulation_instructions
      BY <1>8, <2>1, <2>2, <2>3, <3>1
    <3> QED BY <2>2, <3>2
  <2>4. CASE d # c
    <3>1. num_retired[d] < begin_sim_instr'[d] + simulation_instructions
                               + (IF d >= c THEN RETIRE_WIDTH ELSE 0)
      BY <1>7, <2>1
    <3>2. d >= c <=> Unseen(d)'
      BY <1>9, <1>10, <2>2, <2>4
    <3> QED BY <3>1, <3>2
  <2> QED BY <2>3, <2>4
<1>12. finish_sim_instr' \in [Core -> Nat \cup {NotYet}] /\ FinishOK'
  <2>1. CASE done
    <3>1. /\ num_retired[c] < begin_sim_instr'[c] + simulation_instructions + RETIRE_WIDTH
          /\ num_retired[c] >= begin_sim_instr'[c] + simulation_instructions
          /\ num_retired[c] \in Nat /\ begin_sim_instr'[c] \in Nat
      BY <1>3, <1>4, <1>7, <1>8, <2>1
    <3> DEFINE n == num_retired[c] - begin_sim_instr'[c]
    <3>2. n \in simulation_instructions .. simulation_instructions + RETIRE_WIDTH - 1 /\ n \in Nat
      BY <3>1
    <3>3. finish_sim_instr' = [finish_sim_instr EXCEPT ![c] = n]
      BY <1>2, <2>1
    <3> HIDE DEF n
    <3> QED BY <3>2, <3>3 DEF LoopOK, FinishOK
  <2>2. CASE ~done
    BY <1>2, <2>2 DEF LoopOK, FinishOK
  <2> QED BY <2>1, <2>2
<1>13. LoopOK'
  <2>1. looking' \in 0 .. NUM_CPUS /\ toOperate' \subseteq Operable
    <3>1. looking' \in 0 .. NUM_CPUS
      <4>1. looking' = c + 1 /\ c \in 0 .. NUM_CPUS - 1
        BY <1>1, <1>3, Zenon
      <4>2. NUM_CPUS \in Nat
        BY SimulationAssumption
      <4>3. c + 1 \in 0 .. NUM_CPUS
        BY <4>1, <4>2
      <4> QED BY <4>1, <4>3, Zenon
    <3>2. toOperate' = Operable \/ toOperate' = toOperate
      BY <1>1
    <3> QED BY <3>1, <3>2 DEF LoopOK
  <2>2. simulation_complete' \subseteq Core
    BY <1>2 DEF LoopOK
  <2> QED BY <1>1, <1>4, <1>5, <1>7, <1>12, <2>1, <2>2 DEF LoopOK
<1> QED BY <1>5, <1>6, <1>11, <1>12, <1>13

LEMMA MeasureInvariant == SimulationSpec => []MeasureInv
<1> USE SimulationAssumption
<1>1. SimulationInit => MeasureInv
  <2> SUFFICES ASSUME SimulationInit PROVE MeasureInv
    OBVIOUS
  <2>1. 0 \in Core
    BY NUM_CPUS \in Nat \ {0} DEF Core
  <2>2. LoopOK
    BY DEF SimulationInit, LoopOK
  <2>3. WarmCounted /\ WarmRetired /\ NotDone /\ FinishOK
    BY <2>1, FS_EmptySet DEF SimulationInit, WarmCounted, WarmRetired, NotDone, FinishOK
  <2> QED BY <2>2, <2>3 DEF MeasureInv
<1>2. MeasureInv /\ [SimulationNext]_simVars => MeasureInv'
  <2> SUFFICES ASSUME MeasureInv, [SimulationNext]_simVars PROVE MeasureInv'
    OBVIOUS
  <2>1. CASE LlcReads \/ LlcReadsNothing
    BY <2>1, OthersKeepMeasure DEF LlcReads, LlcReadsNothing
  <2>2. CASE DramSkips \/ DramOperates
    BY <2>2, OthersKeepMeasure DEF DramSkips, DramOperates
  <2>3. CASE EndStep
    <3>1. UNCHANGED loopVars
      BY <2>3 DEF EndStep
    <3> QED BY <2>3, <3>1, OthersKeepMeasure
  <2>4. CASE UNCHANGED simVars
    BY <2>4 DEF simVars, loopVars, MeasureInv, LoopOK, WarmCounted, WarmRetired, NotDone,
                Unseen, FinishOK
  <2> QED BY <2>1, <2>2, <2>3, <2>4, RetireKeepsMeasure, LookKeepsMeasure DEF SimulationNext
<1> QED BY <1>1, <1>2, PTL DEF SimulationSpec

(* Every core is measured from one moment at which all are warm, and for   *)
(* its instructions and less than one retire more, although the loop looks *)
(* at the cores one by one and some finish their warm-up, or their         *)
(* measurement, much later than others (main.cc).                          *)
THEOREM CoresMeasuredAlike == SimulationSpec => []MeasuredAlike
<1>1. MeasureInv => MeasuredAlike
  <2> SUFFICES ASSUME MeasureInv, NEW c \in Core
               PROVE  /\ begin_sim_instr[c] # 0 => warmup_complete = Core
                      /\ all_warmup_complete > NUM_CPUS => begin_sim_instr[c] > warmup_instructions
                      /\ finish_sim_instr[c] # NotYet =>
                            finish_sim_instr[c] \in
                                simulation_instructions .. simulation_instructions + RETIRE_WIDTH - 1
    BY DEF MeasuredAlike
  <2>1. all_warmup_complete > NUM_CPUS => warmup_complete = Core
    BY CoresCounted, SimulationAssumption DEF MeasureInv, LoopOK, WarmCounted
  <2> QED BY <2>1 DEF MeasureInv, WarmRetired, FinishOK
<1> QED BY <1>1, MeasureInvariant, PTL

-----------------------------------------------------------------------------
(* The trace.  What get() handed out last names the record it has read     *)
(* since, which it hands out next.                                         *)
Instruction == [ip : Record \cup {0}, branch_target : Record \cup {0}]

TraceInv ==
    /\ trace_file \in Seq(Record) /\ Len(trace_file) > 0
    /\ position \in 0 .. Len(trace_file)
    /\ last_instr \in Instruction
    /\ handed_out \in Seq(Instruction) /\ Len(handed_out) <= 2
    /\ initialized <=> handed_out # <<>>
    /\ handed_out # <<>> => handed_out[Len(handed_out)].branch_target = last_instr.ip
    /\ TargetIsNext

LEMMA GetKeeps ==
    ASSUME TraceInv, get PROVE TraceInv'
<1> USE DEF TraceInv
<1>1. PICK ip : ip = trace_file[NextPosition]
  OBVIOUS
<1>2. NextPosition \in 1 .. Len(trace_file) /\ ip \in Record
  BY <1>1 DEF NextPosition
<1>3. PICK read : read = [ip |-> ip, branch_target |-> 0]
  OBVIOUS
<1>4. PICK old : old = IF initialized THEN last_instr ELSE read
  OBVIOUS
<1>5. PICK retval : retval = [old EXCEPT !.branch_target = ip]
  OBVIOUS
<1>6. /\ position' = NextPosition /\ initialized' = TRUE /\ last_instr' = read
      /\ handed_out' = IF handed_out = <<>> THEN <<retval>>
                       ELSE <<handed_out[Len(handed_out)], retval>>
      /\ trace_file' = trace_file
  BY <1>1, <1>3, <1>4, <1>5, Zenon DEF get, Completed
<1>7. read \in Instruction /\ read.ip = ip
  BY <1>2, <1>3 DEF Instruction
<1>8. old \in Instruction
  BY <1>4, <1>7
<1>9. retval = [ip |-> old.ip, branch_target |-> ip]
  BY <1>5, <1>8 DEF Instruction
<1>10. retval \in Instruction /\ retval.branch_target = ip /\ retval.ip = old.ip
  BY <1>2, <1>8, <1>9 DEF Instruction
<1>11. CASE handed_out = <<>>
  <2>1. handed_out' = <<retval>>
    BY <1>6, <1>11
  <2>2. handed_out' \in Seq(Instruction) /\ Len(handed_out') = 1 /\ handed_out'[1] = retval
        /\ handed_out' # <<>>
    BY <1>10, <2>1
  <2> QED BY <1>2, <1>6, <1>7, <1>10, <2>2 DEF TargetIsNext
<1>12. CASE handed_out # <<>>
  <2>1. PICK x : x = handed_out[Len(handed_out)]
    OBVIOUS
  <2>2. Len(handed_out) \in 1 .. 2 /\ x \in Instruction
    <3>1. handed_out \in Seq(Instruction) /\ Len(handed_out) \in Nat /\ Len(handed_out) # 0
      BY <1>12, LenProperties, EmptySeq
    <3>2. Len(handed_out) \in 1 .. Len(handed_out)
      BY <3>1
    <3>3. handed_out \in [1 .. Len(handed_out) -> Instruction]
      BY <3>1, LenProperties
    <3>4. x \in Instruction
      BY <2>1, <3>2, <3>3
    <3>5. Len(handed_out) \in 1 .. 2
      <4>1. PICK k \in Nat : k = Len(handed_out)
        BY <3>1, Zenon
      <4>2. k <= 2 /\ k # 0
        BY <3>1, <4>1, Zenon
      <4>3. k \in 1 .. 2
        BY <4>2 DEF TraceInv
      <4> QED BY <4>1, <4>3, Zenon
    <3> QED BY <3>4, <3>5
  <2>3. handed_out' = <<x, retval>>
    BY <1>6, <1>12, <2>1
  <2>4. /\ handed_out' \in Seq(Instruction) /\ Len(handed_out') = 2 /\ handed_out' # <<>>
        /\ handed_out'[1] = x /\ handed_out'[2] = retval
    BY <1>10, <2>2, <2>3
  <2>5. x.branch_target = last_instr.ip /\ old = last_instr
    BY <1>4, <1>12, <2>1
  <2> QED BY <1>2, <1>6, <1>7, <1>10, <2>4, <2>5 DEF TargetIsNext
<1> QED BY <1>11, <1>12

LEMMA TraceInvariant == TraceReaderSpec => []TraceInv
<1>1. TraceReaderInit => TraceInv
  <2> SUFFICES ASSUME TraceReaderInit PROVE TraceInv
    OBVIOUS
  <2>1. PICK n \in 1 .. MaxTraceLength : trace_file \in [1 .. n -> Record]
    BY DEF TraceReaderInit
  <2>2. n \in Nat /\ n > 0
    BY <2>1, TraceReaderAssumption
  <2>3. trace_file \in Seq(Record) /\ Len(trace_file) = n
    BY <2>1, <2>2, SeqDef, LenProperties
  <2> QED BY <2>2, <2>3 DEF TraceReaderInit, TraceInv, Instruction, TargetIsNext
<1>2. TraceInv /\ [get]_traceVars => TraceInv'
  <2> SUFFICES ASSUME TraceInv, UNCHANGED traceVars PROVE TraceInv'
    BY GetKeeps
  <2> QED BY DEF traceVars, TraceInv, TargetIsNext
<1> QED BY <1>1, <1>2, PTL DEF TraceReaderSpec

(* Every instruction get() hands out has the address of the next one for   *)
(* its target, across the end of every trace (tracereader.cc).             *)
THEOREM TargetsAreNext == TraceReaderSpec => []TargetIsNext
BY TraceInvariant, PTL DEF TraceInv
=============================================================================
