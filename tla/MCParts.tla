------------------------------ MODULE MCParts ------------------------------
(* The parts of the simulator that are modelled each on its own, side by   *)
(* side: the initial state names one of them (part) and the others stand   *)
(* still.  Their properties hold of a part that stands still if they hold  *)
(* of its initial states, except liveness, which is asked of part only.    *)
EXTENDS LruPolicy, Rrip, DelayQueue, Simulation, Btb, Stride, TraceReader

CONSTANTS i1, i2, i3

VARIABLES
  part,
  walker_pc, walker_budget, walker_RQ, walker_MSHR, walker_lowerReads, asked,
  vpage_to_ppage_map, page_table, next_pte_page, ppage_free_list,
  PSCL5, PSCL4, PSCL3, PSCL2, CR3_addr

(* Three pages, tables of two entries: Zero and Near have all tables in     *)
(* common that a walk reads, Zero and Far all but the lowest.               *)
IndicesOf(i, j) == [k \in 0 .. 4 |-> IF k = 2 THEN i ELSE IF k = 0 THEN j ELSE 0]
Zero  == IndicesOf(0, 0)
Far   == IndicesOf(1, 0)
Near  == IndicesOf(0, 1)
Pages == {Zero, Far, Near}

OneWay   == [k \in 1 .. 4 |-> 1]
Shuffled == <<3, 8, 1, 11, 5, 9, 2, 7, 10, 4, 6, 12>>

Walker == INSTANCE PageTableWalker WITH
  pc <- walker_pc, budget <- walker_budget, RQ <- walker_RQ,
  MSHR <- walker_MSHR, lowerReads <- walker_lowerReads,
  Cpu <- {0}, cpu <- 0,
  VPage <- Pages, Touched <- {},
  Radix <- 2, pt_levels <- 5, UnitsPerPage <- 4,
  Shuffle <- Shuffled,
  RQ_SIZE <- 1, MSHR_SIZE <- 2, MAX_READ <- 1, MAX_FILL <- 1,
  NUM_SET <- OneWay, NUM_WAY <- OneWay,
  minor_fault_penalty <- 1, PtesPerBlock <- 2, LowerRoom <- 1

walkerVars == <<walker_pc, walker_budget, walker_RQ, walker_MSHR,
                walker_lowerReads, asked, vpage_to_ppage_map,
                page_table, next_pte_page, ppage_free_list,
                PSCL5, PSCL4, PSCL3, PSCL2, CR3_addr>>

partVars == <<part, lruVars, rripVars, ringVars, simVars, btbVars, strideVars, traceVars,
              walkerVars>>

Part == {"lru", "rrip", "delay_queue", "simulation", "btb", "stride", "trace", "walker"}

(* A part that stands still is in one of its initial states, the same for  *)
(* every behaviour of another part.                                        *)
PartsInit ==
    /\ part \in Part
    /\ LruInit /\ RripInit /\ DelayQueueInit
    /\ SimulationInit /\ BtbInit /\ StrideInit /\ TraceReaderInit /\ Walker!WalkerInit
    /\ part # "rrip" => kind = "srrip"
    /\ part # "trace" => trace_file = <<1>>

OthersIdle(own) ==
    /\ own # "lru" => UNCHANGED lruVars
    /\ own # "rrip" => UNCHANGED rripVars
    /\ own # "delay_queue" => UNCHANGED ringVars
    /\ own # "simulation" => UNCHANGED simVars
    /\ own # "btb" => UNCHANGED btbVars
    /\ own # "stride" => UNCHANGED strideVars
    /\ own # "trace" => UNCHANGED traceVars
    /\ own # "walker" => UNCHANGED walkerVars
    /\ UNCHANGED part

PartsNext ==
    \/ part = "lru" /\ LruNext /\ OthersIdle("lru")
    \/ part = "rrip" /\ RripNext /\ OthersIdle("rrip")
    \/ part = "delay_queue" /\ DelayQueueNext /\ OthersIdle("delay_queue")
    \/ part = "simulation" /\ SimulationNext /\ OthersIdle("simulation")
    \/ part = "btb" /\ BtbNext /\ OthersIdle("btb")
    \/ part = "stride" /\ StrideNext /\ OthersIdle("stride")
    \/ part = "trace" /\ get /\ OthersIdle("trace")
    \/ part = "walker" /\ Walker!WalkerNext /\ OthersIdle("walker")

(* SimulationFairness when the main loop is the part, WalkerFairness when   *)
(* the walker is.  A behaviour has one part, so that fairness of a pair is  *)
(* fairness of the part's own: A of the main loop, B of the walker.         *)
Own(A, B) ==
    \/ part = "simulation" /\ A /\ UNCHANGED walkerVars
    \/ part = "walker" /\ B /\ UNCHANGED simVars

twoVars == <<simVars, walkerVars>>

RetiresMore(c) == RetireSome(c) /\ num_retired'[c] > num_retired[c]

PartsFairness ==
    /\ WF_twoVars(Own(SimulationNext, Walker!Construct \/ Walker!Operate))
    /\ SF_twoVars(Own(RetiresMore(0), Walker!FirstAnswered))
    /\ SF_twoVars(Own(RetiresMore(1), Walker!handle_read))
    /\ SF_twoVars(Own(FALSE, Walker!Descend /\ walker_MSHR' # walker_MSHR))

PartsSpec == PartsInit /\ [][PartsNext]_partVars /\ PartsFairness

-----------------------------------------------------------------------------
(* SimulationEnds of Simulation: all cores get their instructions measured *)
(* and the program ends, whenever the main loop is the part.               *)
SimulationLive == <>(part = "simulation" => simulation_complete = Core)

(* EveryWalkEnds of PageTableWalker: the walker gives every translation it  *)
(* is asked for, through refused reads, faults and replies for other walks. *)
EveryWalkEnds == Walker!EveryWalkEnds

-----------------------------------------------------------------------------
(* Values of the .cfg.                                                      *)
SizeOf == [ip \in CallIp |-> IF ip = 10 THEN 2 ELSE 5]
TrackerOf == [ip \in CallIp \cup {0} |-> IF ip = 0 THEN 0 ELSE 1]
HashOf == [ip \in IndirectIp |-> [h \in 0 .. 1 |-> h]]

AddrOf == [ip \in LoadIp |-> IF ip = i3 THEN {1} ELSE {1, 2}]
=============================================================================
