----------------------------- MODULE Simulation -----------------------------
(***************************************************************************)
(* The main loop (main.cc): every operable takes a step, some skip it to   *)
(* run at a lower frequency (operable.h), and then each core is looked at: *)
(* has it warmed up, have all, has it run the instructions to measure.     *)
(* Until all cores are warm, DRAM (dramsim3_wrapper.hpp) answers a read    *)
(* before add_rq returns; after that it keeps the packet in a RQ of its    *)
(* own, the Meta-RQ, and finds it again by its address when DRAMSim3,      *)
(* which is outside the repository, calls back.                            *)
(*                                                                         *)
(* The operables are the cores, the LLC and DRAM, of which only DRAM has   *)
(* its own frequency.  Within a step they run in any order: std::sort      *)
(* orders them by leap_operation only.  A core retires any number of       *)
(* instructions its width allows.                                          *)
(***************************************************************************)
EXTENDS Integers, FiniteSets

CONSTANTS
    NUM_CPUS,
    RETIRE_WIDTH,
    warmup_instructions, simulation_instructions,
    MaxAhead,           \* bounds: how far a core may be ahead of another,
    MaxRetired,         \* and where its count stops
    ScaleNum, ScaleDen, \* DRAM runs every ScaleNum / ScaleDen steps
    Block, NoBlock,     \* blocks the LLC reads, and the address of an empty PACKET
    DRAM_RQ_SIZE        \* places of the Meta-RQ

ASSUME SimulationAssumption ==
    /\ {NUM_CPUS, RETIRE_WIDTH, DRAM_RQ_SIZE, ScaleDen, simulation_instructions,
        MaxAhead, MaxRetired} \subseteq Nat \ {0}
    /\ warmup_instructions \in Nat
    /\ ScaleNum \in Nat /\ ScaleNum >= ScaleDen
    /\ NoBlock \notin Block

VARIABLES
    looking,            \* the core the loop looks at next; NUM_CPUS while
                        \* the operables take their step
    toOperate,          \* operables that have not had this step
    num_retired,
    warmup_complete, all_warmup_complete,
    begin_sim_instr, finish_sim_instr, simulation_complete,
    leap,               \* leap_operation of DRAM, in units of 1 / ScaleDen
    lag,                \* history, in the same unit: the steps taken, less
                        \* ScaleNum / ScaleDen for each in which DRAM ran
    RQ,                 \* the Meta-RQ: what is in each place
    transactions,       \* reads DRAMSim3 has accepted and not called back
    owed                \* history: [b |-> answers the LLC waits for]

loopVars == <<num_retired, warmup_complete, all_warmup_complete, begin_sim_instr,
              finish_sim_instr, simulation_complete>>
dramVars == <<RQ, transactions, owed>>
clockVars == <<leap, lag>>
simVars == <<looking, toOperate, loopVars, dramVars, clockVars>>

Core == 0 .. NUM_CPUS - 1
LLC == NUM_CPUS
DRAM == NUM_CPUS + 1
Operable == Core \cup {LLC, DRAM}
NotYet == -1

SimulationInit ==
    /\ looking = NUM_CPUS /\ toOperate = Operable
    /\ num_retired = [c \in Core |-> 0]
    /\ warmup_complete = {} /\ all_warmup_complete = 0
    /\ begin_sim_instr = [c \in Core |-> 0]
    /\ finish_sim_instr = [c \in Core |-> NotYet]
    /\ simulation_complete = {}
    /\ leap = 0 /\ lag = 0
    /\ RQ = [i \in 1 .. DRAM_RQ_SIZE |-> NoBlock]
    /\ transactions = {}
    /\ owed = [b \in Block |-> 0]

Running == simulation_complete # Core

Turn(op) ==
    /\ looking = NUM_CPUS /\ Running
    /\ op \in toOperate
    /\ toOperate' = toOperate \ {op}
    /\ UNCHANGED looking

-----------------------------------------------------------------------------
(* O3_CPU::operate, as far as retire_rob counts.                           *)
RetireSome(c) ==
    /\ Turn(c)
    /\ \E n \in 0 .. RETIRE_WIDTH :
          /\ num_retired[c] + n <= MaxRetired
          /\ \A d \in Core : num_retired[c] + n <= num_retired[d] + MaxAhead
          /\ num_retired' = [num_retired EXCEPT ![c] = @ + n]
    /\ UNCHANGED <<warmup_complete, all_warmup_complete, begin_sim_instr, finish_sim_instr,
                   simulation_complete, dramVars, clockVars>>

Valid == {i \in DOMAIN RQ : RQ[i] # NoBlock}

(* What DRAM answers to add_rq: at once during the warm-up, else later.    *)
Fastforward == all_warmup_complete <= NUM_CPUS

(* get_occupancy(1): DRAMSim3 may be unable to take the block now.         *)
get_occupancy(willAccept) == IF willAccept THEN Cardinality(Valid) ELSE DRAM_RQ_SIZE

(* add_rq finds a place that is not valid and keeps the packet there.      *)
add_rq(b) ==
    IF Fastforward
    THEN UNCHANGED dramVars
    ELSE /\ \E i \in DOMAIN RQ \ Valid :
               /\ \A j \in 1 .. i - 1 : j \in Valid
               /\ RQ' = [RQ EXCEPT ![i] = b]
         /\ transactions' = transactions \cup {b}
         /\ owed' = [owed EXCEPT ![b] = @ + 1]

(* The LLC reads a block its MSHR does not hold already, when the          *)
(* occupancy says there is room.                                           *)
LlcReads ==
    /\ Turn(LLC)
    /\ \E b \in Block, willAccept \in BOOLEAN :
          /\ owed[b] = 0
          /\ get_occupancy(willAccept) # DRAM_RQ_SIZE
          /\ add_rq(b)
    /\ UNCHANGED <<loopVars, clockVars>>

LlcReadsNothing ==
    /\ Turn(LLC)
    /\ UNCHANGED <<loopVars, dramVars, clockVars>>

KeepsPlace(b) ==   \* mutant: the place is not emptied
    owed' = [owed EXCEPT ![b] = @ - 1] /\ UNCHANGED RQ

(* ReadCallBack: the first place with the block answers everybody in its   *)
(* to_return and is emptied; without one the answer is lost.               *)
ReadCallBack(b) ==
    IF b \in {RQ[i] : i \in Valid}
    THEN \E i \in Valid :
            /\ RQ[i] = b /\ \A j \in 1 .. i - 1 : RQ[j] # b
            /\ RQ' = [RQ EXCEPT ![i] = NoBlock]
            /\ owed' = [owed EXCEPT ![b] = @ - 1]
    ELSE UNCHANGED <<RQ, owed>>

(* _operate: a step is skipped while leap_operation is 1 or more.          *)
LeapDone == leap < ScaleDen

LeapForgets ==   \* mutant: leap_operation is set to zero, not lowered
    /\ leap' = 0
    /\ lag' = lag + ScaleDen

Skipped ==
    /\ leap' = leap - ScaleDen
    /\ lag' = lag + ScaleDen

Operated ==
    /\ leap' = leap + (ScaleNum - ScaleDen)
    /\ lag' = lag + ScaleDen - ScaleNum

DramSkips ==
    /\ Turn(DRAM) /\ ~LeapDone
    /\ Skipped
    /\ UNCHANGED <<loopVars, dramVars>>

(* ClockTick of DRAMSim3 calls back for one transaction or none.           *)
DramOperates ==
    /\ Turn(DRAM) /\ LeapDone
    /\ Operated
    /\ \/ UNCHANGED dramVars
       \/ \E b \in transactions :
             /\ transactions' = transactions \ {b}
             /\ ReadCallBack(b)
    /\ UNCHANGED loopVars

-----------------------------------------------------------------------------
EndStep ==
    /\ looking = NUM_CPUS /\ toOperate = {}
    /\ looking' = 0
    /\ UNCHANGED <<toOperate, loopVars, dramVars, clockVars>>

(* Core c has just warmed up.                                              *)
Warm(c) == c \notin warmup_complete /\ num_retired[c] > warmup_instructions

ForgetsOthers ==   \* mutant: only the cores not warm before begin anew
    begin_sim_instr' = [c \in Core |->
        IF c \in warmup_complete THEN begin_sim_instr[c] ELSE num_retired[c]]

(* finish_warmup: every core is measured from here.                        *)
finish_warmup == begin_sim_instr' = num_retired

CountsOnce(warmed) == warmed   \* mutant: no second increment

(* The counter passes NUM_CPUS in the step it reaches it.                  *)
Passed(warmed) == IF warmed = NUM_CPUS THEN warmed + 1 ELSE warmed

(* The rest of the loop's body for core c.                                 *)
LookAt(c) ==
    /\ looking = c
    /\ LET warmed == IF Warm(c) THEN all_warmup_complete + 1 ELSE all_warmup_complete
           done == /\ all_warmup_complete' > NUM_CPUS
                   /\ c \notin simulation_complete
                   /\ num_retired[c] >= begin_sim_instr'[c] + simulation_instructions
       IN  /\ warmup_complete' = IF Warm(c) THEN warmup_complete \cup {c} ELSE warmup_complete
           /\ all_warmup_complete' = Passed(warmed)
           /\ IF warmed = NUM_CPUS THEN finish_warmup ELSE UNCHANGED begin_sim_instr
           /\ IF done
              THEN /\ simulation_complete' = simulation_complete \cup {c}
                   /\ finish_sim_instr' =
                        [finish_sim_instr EXCEPT ![c] = num_retired[c] - begin_sim_instr'[c]]
              ELSE UNCHANGED <<simulation_complete, finish_sim_instr>>
    /\ looking' = c + 1
    /\ toOperate' = IF c = NUM_CPUS - 1 THEN Operable ELSE toOperate
    /\ UNCHANGED <<num_retired, dramVars, clockVars>>

SimulationNext ==
    \/ \E c \in Core : RetireSome(c)
    \/ LlcReads \/ LlcReadsNothing
    \/ DramSkips \/ DramOperates
    \/ EndStep
    \/ \E c \in Core : LookAt(c)

SimulationSpec == SimulationInit /\ [][SimulationNext]_simVars

(* The loop runs on, and no core stops retiring (OooCpu: every instruction *)
(* retires).                                                               *)
SimulationFairness ==
    /\ WF_simVars(SimulationNext)
    /\ \A c \in Core : SF_simVars(RetireSome(c) /\ num_retired'[c] > num_retired[c])

FairSimulation == SimulationSpec /\ SimulationFairness

-----------------------------------------------------------------------------
(* The reads DRAMSim3 owes, the packets in the Meta-RQ and the answers the *)
(* LLC waits for are the same blocks, one packet and one answer each: no   *)
(* callback is skipped for want of its packet, no assertion of add_rq      *)
(* fails, and the switch at the end of the warm-up loses nothing and       *)
(* answers nothing twice.                                                  *)
MetaRqExact ==
    /\ \A b \in Block : owed[b] = Cardinality({i \in Valid : RQ[i] = b})
    /\ \A b \in Block : owed[b] = (IF b \in transactions THEN 1 ELSE 0)
    /\ Cardinality(Valid) <= DRAM_RQ_SIZE

(* Every core is measured over the same stretch of the simulation: from    *)
(* one moment at which all were warm, to the first step in which it has    *)
(* its instructions, so it overshoots by less than the width of a retire.  *)
MeasuredAlike ==
    \A c \in Core :
        /\ begin_sim_instr[c] # 0 => warmup_complete = Core
        /\ all_warmup_complete > NUM_CPUS => begin_sim_instr[c] > warmup_instructions
        /\ finish_sim_instr[c] # NotYet =>
              finish_sim_instr[c] \in
                  simulation_instructions .. simulation_instructions + RETIRE_WIDTH - 1

(* DRAM keeps to its frequency for ever: after any number of steps it has  *)
(* run as often as its scale says, give or take one, although the only     *)
(* thing remembered is leap_operation.                                     *)
KeepsFrequency == lag \in - ScaleNum .. ScaleNum

(* The program ends: all cores get their instructions measured.            *)
SimulationEnds == <>(simulation_complete = Core)
=============================================================================
