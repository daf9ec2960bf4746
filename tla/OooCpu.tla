-------------------------------- MODULE OooCpu --------------------------------
(***************************************************************************)
(* The back end of an O3_CPU (src/ooo_cpu.cc), from dispatch to retirement: *)
(* the reorder buffer, register and memory dependences, the load and store *)
(* queues, store-to-load forwarding, and the requests to DTLB and L1D.     *)
(* O3_CPU::operate runs its handlers in a fixed order once per cycle, each *)
(* a loop limited by a width; pc names the handler that runs, and one      *)
(* action is one iteration of its loop.  Between two cycles the caches     *)
(* answer what they were asked, after any delay and in any order, and any  *)
(* of their queues may refuse a request (-2).                              *)
(*                                                                         *)
(* Instructions are those of a LoongArch trace: at most one load and one   *)
(* store each (an atomic has both).  A register or an address is a name;   *)
(* an instruction is its position in the program, which is any sequence    *)
(* over Instruction of at most MaxInstr.  The front end is external: it    *)
(* supplies an instruction or it does not.  Cycles are kept relative to    *)
(* current_cycle; statistics and the prefetchers' hooks are left out.      *)
(***************************************************************************)
EXTENDS Integers, Sequences, FiniteSets

CONSTANTS
    Instruction,        \* [src, dst : sets of registers, load, store : address or None]
    Register, Addr, None,
    MaxInstr,           \* bound: length of the program
    ROB_SIZE, LQ_SIZE, SQ_SIZE, SCHEDULER_SIZE,
    DISPATCH_WIDTH, EXEC_WIDTH, LQ_WIDTH, SQ_WIDTH, RETIRE_WIDTH,
    MAX_READ,           \* of DTLB and L1D: packets taken from a bus per cycle
    EXEC_LATENCY

ASSUME CpuAssumption ==
    /\ Instruction \subseteq [src : SUBSET Register, dst : SUBSET Register,
                              load : Addr \cup {None}, store : Addr \cup {None}]
    /\ None \notin Addr /\ None \notin Nat
    /\ {MaxInstr, ROB_SIZE, LQ_SIZE, SQ_SIZE, SCHEDULER_SIZE, DISPATCH_WIDTH, EXEC_WIDTH,
        LQ_WIDTH, SQ_WIDTH, RETIRE_WIDTH, MAX_READ, EXEC_LATENCY} \subseteq Nat

VARIABLES
    pc, budget,         \* handler that runs; iterations it has left
    scan,               \* schedule_memory_instruction: last instruction visited
    prog, head,         \* instructions dispatched so far; the ROB is head .. Len(prog)
    inst,               \* what the ROB keeps of each of them
    ready_to_execute, STA,
    LQ, SQ,
    RTL0, RTL1, RTS0, RTS1,
    inflight_reg_executions, inflight_mem_executions,
    asked,              \* requests DTLB and L1D have not answered
    DTLB_bus, L1D_bus,  \* PROCESSED of each bus
    mem                 \* the last store to each address that reached the L1D

lsq      == <<LQ, SQ, RTL0, RTL1, RTS0, RTS1, STA>>
inflight == <<inflight_reg_executions, inflight_mem_executions>>
caches   == <<asked, DTLB_bus, L1D_bus>>
rob      == <<prog, head>>
cpuVars  == <<pc, budget, scan, rob, inst, ready_to_execute, lsq, inflight, caches, mem>>

-----------------------------------------------------------------------------
(* The handlers in the order O3_CPU::operate calls them; operate_lsq and   *)
(* handle_memory_return are several loops.                                 *)
Handler == <<"retire", "complete", "execute", "schedule", "dtlb", "l1d",
             "store0", "store1", "load0", "load1", "memory", "dispatch", "idle">>

Following(h) == CHOOSE g \in {Handler[k + 1] : k \in {k \in 1 .. 12 : Handler[k] = h}} : TRUE

Width(h, left) ==
    CASE h = "retire"               -> RETIRE_WIDTH
      [] h = "complete"             -> IF inflight_reg_executions + inflight_mem_executions > 0
                                       THEN EXEC_WIDTH ELSE 0
      [] h = "execute"              -> EXEC_WIDTH
      [] h \in {"dtlb", "l1d"}      -> MAX_READ
      [] h = "store0"               -> SQ_WIDTH
      [] h = "load0"                -> LQ_WIDTH
      [] h \in {"store1", "load1"}  -> left     \* they share a counter
      [] h = "dispatch"             -> DISPATCH_WIDTH
      [] OTHER                      -> 0        \* a scan, limited by the window

Goto(h) == pc' = h /\ budget' = Width(h, budget) /\ scan' = 0

Spend == pc' = pc /\ budget' = budget - 1 /\ UNCHANGED scan

-----------------------------------------------------------------------------
(* 0, INFLIGHT and COMPLETED of scheduled, executed, translated, fetched.  *)
Progress == {"no", "INFLIGHT", "COMPLETED"}

NewInst(i) ==
    [scheduled |-> "no", executed |-> "no",
     num_mem_ops |-> (IF i.load = None THEN 0 ELSE 1) + (IF i.store = None THEN 0 ELSE 1),
     num_reg_dependent |-> 0,
     registers_instrs_depend_on_me |-> <<>>, memory_instrs_depend_on_me |-> <<>>,
     source_added |-> FALSE, destination_added |-> FALSE,
     lq_index |-> 0, sq_index |-> 0,
     due |-> 0,         \* event_cycle - current_cycle of an executing instruction
     got |-> None]      \* history: the store whose data the load got, 0 for none

EmptyLoad  == [id |-> 0, producer |-> 0, translated |-> "no", fetched |-> "no"]
EmptyStore == [id |-> 0, translated |-> "no", fetched |-> "no"]

InROB     == head .. Len(prog)
is_memory(i) == prog[i].load # None \/ prog[i].store # None

Largest(S)  == CHOOSE i \in S : \A j \in S : j <= i
Smallest(S) == CHOOSE i \in S : \A j \in S : i <= j

FreeLoads  == {l \in 1 .. LQ_SIZE : LQ[l].id = 0}
FreeStores == {s \in 1 .. SQ_SIZE : SQ[s].id = 0}

(* The scans visit an instruction while fewer than SCHEDULER_SIZE before   *)
(* it have not begun to execute.                                           *)
InWindow(i) ==
    Cardinality({j \in head .. i - 1 : inst[j].executed = "no"}) < SCHEDULER_SIZE

CpuInit ==
    /\ pc = "idle" /\ budget = 0 /\ scan = 0
    /\ prog = <<>> /\ head = 1 /\ inst = <<>>
    /\ ready_to_execute = <<>> /\ STA = <<>>
    /\ LQ = [l \in 1 .. LQ_SIZE |-> EmptyLoad]
    /\ SQ = [s \in 1 .. SQ_SIZE |-> EmptyStore]
    /\ RTL0 = <<>> /\ RTL1 = <<>> /\ RTS0 = <<>> /\ RTS1 = <<>>
    /\ inflight_reg_executions = 0 /\ inflight_mem_executions = 0
    /\ asked = {} /\ DTLB_bus = <<>> /\ L1D_bus = <<>>
    /\ mem = [a \in Addr |-> 0]

-----------------------------------------------------------------------------
(* retire_rob: the oldest instruction leaves when it has executed; its     *)
(* store goes to the write queue of the L1D, and if that is full           *)
(* retirement is over for the cycle.                                       *)
MayRetire == budget > 0 /\ head <= Len(prog) /\ inst[head].executed = "COMPLETED"

RetireStore ==
    /\ prog[head].store # None
    /\ mem' = [mem EXCEPT ![prog[head].store] = head]
    /\ SQ' = [SQ EXCEPT ![inst[head].sq_index] = EmptyStore]

retire_rob ==
    /\ pc = "retire" /\ MayRetire
    /\ \/ RetireStore
       \/ prog[head].store = None /\ UNCHANGED <<mem, SQ>>
    /\ head' = head + 1
    /\ Spend
    /\ UNCHANGED <<prog, inst, ready_to_execute, LQ, RTL0, RTL1, RTS0, RTS1, STA,
                   inflight, caches>>

RetireRefused ==
    /\ pc = "retire" /\ MayRetire /\ prog[head].store # None
    /\ Goto("complete")
    /\ UNCHANGED <<rob, inst, ready_to_execute, lsq, inflight, caches, mem>>

-----------------------------------------------------------------------------
(* complete_inflight_instruction; Width gates it by the two counters.      *)
Completable ==
    {i \in InROB : /\ inst[i].executed = "INFLIGHT" /\ inst[i].due = 0
                   /\ inst[i].num_mem_ops = 0}

MayComplete == budget > 0 /\ Completable # {}

Wakes(d) == inst[d].num_reg_dependent = 1

(* The dependents that may execute now, in the order they were added.  A   *)
(* memory instruction is left to schedule_memory_instruction.              *)
Woken(deps) ==
    LET W == {k \in DOMAIN deps : Wakes(deps[k]) /\ ~is_memory(deps[k])}
    IN  [n \in 1 .. Cardinality(W) |->
            deps[CHOOSE k \in W : Cardinality({m \in W : m <= k}) = n]]

(* do_complete_execution, and the dependents that become ready.            *)
complete_inflight_instruction ==
    /\ pc = "complete" /\ MayComplete
    /\ LET i    == Smallest(Completable)
           deps == inst[i].registers_instrs_depend_on_me
       IN  /\ inst' = [j \in DOMAIN inst |->
                         IF j = i THEN [inst[i] EXCEPT !.executed = "COMPLETED"]
                         ELSE IF \E k \in DOMAIN deps : deps[k] = j
                         THEN [inst[j] EXCEPT !.num_reg_dependent = @ - 1,
                                 !.scheduled = IF ~Wakes(j) THEN @
                                               ELSE IF is_memory(j) THEN "INFLIGHT"
                                               ELSE "COMPLETED"]
                         ELSE inst[j]]
           /\ ready_to_execute' = ready_to_execute \o Woken(deps)
           /\ IF is_memory(i)
              THEN /\ inflight_mem_executions' = inflight_mem_executions - 1
                   /\ UNCHANGED inflight_reg_executions
              ELSE /\ inflight_reg_executions' = inflight_reg_executions - 1
                   /\ UNCHANGED inflight_mem_executions
    /\ Spend
    /\ UNCHANGED <<rob, lsq, caches, mem>>

-----------------------------------------------------------------------------
execute_instruction ==
    /\ pc = "execute" /\ budget > 0 /\ ready_to_execute # <<>>
    /\ inst' = [inst EXCEPT ![Head(ready_to_execute)].executed = "INFLIGHT",
                            ![Head(ready_to_execute)].due = EXEC_LATENCY]
    /\ ready_to_execute' = Tail(ready_to_execute)
    /\ inflight_reg_executions' = inflight_reg_executions + 1
    /\ Spend
    /\ UNCHANGED <<rob, lsq, inflight_mem_executions, caches, mem>>

-----------------------------------------------------------------------------
(* do_scheduling: an instruction depends on the nearest older one that     *)
(* writes a source register and has not executed, once for all the         *)
(* registers that one writes.                                              *)
NotBegunWriters(i, r) ==   \* mutant: one that executes counts as executed
    {j \in head .. i - 1 : r \in prog[j].dst /\ inst[j].executed = "no"}

Writers(i, r) == {j \in head .. i - 1 : r \in prog[j].dst /\ inst[j].executed # "COMPLETED"}

Producers(i) == {Largest(Writers(i, r)) : r \in {r \in prog[i].src : Writers(i, r) # {}}}

Unscheduled == {i \in InROB : inst[i].scheduled = "no" /\ InWindow(i)}

schedule_instruction ==
    /\ pc = "schedule" /\ Unscheduled # {}
    /\ LET i == Smallest(Unscheduled)
           P == Producers(i)
       IN  /\ inst' = [j \in DOMAIN inst |->
                         IF j = i
                         THEN [inst[i] EXCEPT
                                 !.num_reg_dependent = @ + Cardinality(P),
                                 !.scheduled = IF is_memory(i) THEN "INFLIGHT" ELSE "COMPLETED"]
                         ELSE IF j \in P
                         THEN [inst[j] EXCEPT !.registers_instrs_depend_on_me = Append(@, i)]
                         ELSE inst[j]]
           /\ ready_to_execute' = IF P = {} /\ ~is_memory(i)
                                  THEN Append(ready_to_execute, i)
                                  ELSE ready_to_execute
    /\ UNCHANGED <<pc, budget, scan, rob, lsq, inflight, caches, mem>>

-----------------------------------------------------------------------------
(* What one instruction loses when one of its memory operations is done, a *)
(* load getting its data, and the counter that lets                        *)
(* complete_inflight_instruction run.                                      *)
Done(rec) == [rec EXCEPT !.num_mem_ops = @ - 1]
Loaded(rec, store) == [rec EXCEPT !.num_mem_ops = @ - 1, !.got = store]

CountedAlways(S) == Cardinality(S)   \* mutant: not only when the last one is done

CountedEarly(S) ==   \* mutant: tested before the operation is subtracted
    Cardinality({i \in S : inst[i].num_mem_ops = 0})

NowDone(S) == Cardinality({i \in S : inst[i].num_mem_ops = 1})

(* handle_memory_return: the DTLB's answers first, then the L1D's.  A      *)
(* translated store may execute, a translated load goes to the L1D.        *)
ReturnDTLB ==
    /\ pc = "dtlb" /\ budget > 0 /\ DTLB_bus # <<>>
    /\ LET k == Head(DTLB_bus).slot
       IN  IF Head(DTLB_bus).queue = "SQ"
           THEN /\ SQ' = [SQ EXCEPT ![k].translated = "COMPLETED"]
                /\ RTS1' = Append(RTS1, k)
                /\ UNCHANGED <<LQ, RTL1>>
           ELSE /\ LQ' = [LQ EXCEPT ![k].translated = "COMPLETED"]
                /\ RTL1' = Append(RTL1, k)
                /\ UNCHANGED <<SQ, RTS1>>
    /\ DTLB_bus' = Tail(DTLB_bus)
    /\ Spend
    /\ UNCHANGED <<rob, inst, ready_to_execute, RTL0, RTS0, STA, inflight, asked, L1D_bus, mem>>

ReturnL1D ==
    /\ pc = "l1d" /\ budget > 0 /\ L1D_bus # <<>>
    /\ LET l == Head(L1D_bus).slot
           i == LQ[l].id
       IN  /\ inst' = [inst EXCEPT ![i] = Loaded(inst[i], mem[prog[i].load])]
           /\ inflight_mem_executions' = inflight_mem_executions + NowDone({i})
           /\ LQ' = [LQ EXCEPT ![l] = EmptyLoad]
    /\ L1D_bus' = Tail(L1D_bus)
    /\ Spend
    /\ UNCHANGED <<rob, ready_to_execute, SQ, RTL0, RTL1, RTS0, RTS1, STA,
                   inflight_reg_executions, asked, DTLB_bus, mem>>

-----------------------------------------------------------------------------
(* operate_lsq.  A request a cache refuses ends its loop.                  *)
Request(q, k, to) == [queue |-> q, slot |-> k, to |-> to]

do_translate_store ==
    /\ pc = "store0" /\ budget > 0 /\ RTS0 # <<>>
    /\ asked' = asked \cup {Request("SQ", Head(RTS0), "DTLB")}
    /\ SQ' = [SQ EXCEPT ![Head(RTS0)].translated = "INFLIGHT"]
    /\ RTS0' = Tail(RTS0)
    /\ Spend
    /\ UNCHANGED <<rob, inst, ready_to_execute, LQ, RTL0, RTL1, RTS1, STA, inflight,
                   DTLB_bus, L1D_bus, mem>>

FreedFirst(loads) ==   \* mutant: the loop stops after one load
    [l \in 1 .. LQ_SIZE |-> IF loads # {} /\ inst[Smallest(loads)].lq_index = l
                            THEN EmptyLoad ELSE LQ[l]]

Freed(loads) ==
    [l \in 1 .. LQ_SIZE |-> IF \E j \in loads : inst[j].lq_index = l THEN EmptyLoad ELSE LQ[l]]

(* execute_store: the store's own operation is done, and every load that   *)
(* waits for it in the load queue is forwarded (do_sq_forward_to_lq).      *)
execute_store ==
    /\ pc = "store1" /\ budget > 0 /\ RTS1 # <<>>
    /\ LET s     == Head(RTS1)
           i     == SQ[s].id
           deps  == inst[i].memory_instrs_depend_on_me
           loads == {deps[k] : k \in DOMAIN deps}
       IN  /\ SQ' = [SQ EXCEPT ![s].fetched = "COMPLETED"]
           /\ inst' = [j \in DOMAIN inst |->
                         IF j = i THEN Done(inst[i])
                         ELSE IF j \in loads THEN Loaded(inst[j], i)
                         ELSE inst[j]]
           /\ LQ' = Freed(loads)
           /\ inflight_mem_executions' = inflight_mem_executions + NowDone({i} \cup loads)
    /\ RTS1' = Tail(RTS1)
    /\ Spend
    /\ UNCHANGED <<rob, ready_to_execute, RTL0, RTL1, RTS0, STA,
                   inflight_reg_executions, caches, mem>>

do_translate_load ==
    /\ pc = "load0" /\ budget > 0 /\ RTL0 # <<>>
    /\ asked' = asked \cup {Request("LQ", Head(RTL0), "DTLB")}
    /\ LQ' = [LQ EXCEPT ![Head(RTL0)].translated = "INFLIGHT"]
    /\ RTL0' = Tail(RTL0)
    /\ Spend
    /\ UNCHANGED <<rob, inst, ready_to_execute, SQ, RTL1, RTS0, RTS1, STA, inflight,
                   DTLB_bus, L1D_bus, mem>>

execute_load ==
    /\ pc = "load1" /\ budget > 0 /\ RTL1 # <<>>
    /\ asked' = asked \cup {Request("LQ", Head(RTL1), "L1D")}
    /\ LQ' = [LQ EXCEPT ![Head(RTL1)].fetched = "INFLIGHT"]
    /\ RTL1' = Tail(RTL1)
    /\ Spend
    /\ UNCHANGED <<rob, inst, ready_to_execute, SQ, RTL0, RTS0, RTS1, STA, inflight,
                   DTLB_bus, L1D_bus, mem>>

Refuse ==
    /\ budget > 0
    /\ \/ pc = "store0" /\ RTS0 # <<>> /\ Goto("store1")
       \/ pc = "load0" /\ RTL0 # <<>> /\ Goto("load1")
       \/ pc = "load1" /\ RTL1 # <<>> /\ Goto("memory")
    /\ UNCHANGED <<rob, inst, ready_to_execute, lsq, inflight, caches, mem>>

-----------------------------------------------------------------------------
(* schedule_memory_instruction.                                            *)
OldestWriter(i) ==   \* mutant: the search starts at the wrong end
    LET W == {j \in head .. i - 1 : prog[j].store = prog[i].load}
    IN  IF W = {} THEN 0 ELSE Smallest(W)

(* instr_mem_will_produce: the nearest older store in the ROB to the       *)
(* address of the load, 0 if there is none.                                *)
NearestWriter(i) ==
    LET W == {j \in head .. i - 1 : prog[j].store = prog[i].load}
    IN  IF W = {} THEN 0 ELSE Largest(W)

(* sq_will_forward.                                                        *)
HasData(p) == \E s \in 1 .. SQ_SIZE : SQ[s].id = p /\ SQ[s].fetched = "COMPLETED"

(* add_load_queue: a load without an older store to its address asks for   *)
(* its translation; another waits for the store, or takes its data at once *)
(* and leaves the queue again.                                             *)
MayAddLoad(i) == prog[i].load # None /\ ~inst[i].source_added /\ FreeLoads # {}

add_load_queue(i, p, l) ==
    /\ LQ' = IF p # 0 /\ HasData(p) THEN LQ
             ELSE [LQ EXCEPT ![l] = [EmptyLoad EXCEPT
                     !.id = i, !.producer = p,
                     !.translated = IF p = 0 THEN "no" ELSE "INFLIGHT"]]
    /\ RTL0' = IF p = 0 THEN Append(RTL0, l) ELSE RTL0

(* add_store_queue, for the oldest store that is not in the queue.         *)
MayAddStore(i) ==
    /\ prog[i].store # None /\ ~inst[i].destination_added
    /\ FreeStores # {} /\ Head(STA) = i

add_store_queue(i, s) ==
    /\ SQ' = [SQ EXCEPT ![s] = [EmptyStore EXCEPT !.id = i]]
    /\ RTS0' = Append(RTS0, s)
    /\ STA' = Tail(STA)

(* do_memory_scheduling.                                                   *)
Schedulable ==
    {i \in InROB : /\ i > scan /\ is_memory(i) /\ InWindow(i)
                   /\ inst[i].scheduled = "INFLIGHT" /\ inst[i].num_reg_dependent = 0}

schedule_memory_instruction ==
    /\ pc = "memory" /\ Schedulable # {}
    /\ LET i     == Smallest(Schedulable)
           load  == MayAddLoad(i)
           store == MayAddStore(i)
           p     == IF load THEN NearestWriter(i) ELSE 0
           given == p # 0 /\ HasData(p)
           l     == Smallest(FreeLoads)
           s     == Smallest(FreeStores)
           rec   == [inst[i] EXCEPT
                       !.source_added      = @ \/ load,
                       !.lq_index          = IF load THEN l ELSE @,
                       !.destination_added = @ \/ store,
                       !.sq_index          = IF store THEN s ELSE @,
                       !.num_mem_ops       = IF given THEN @ - 1 ELSE @,
                       !.got               = IF given THEN p ELSE @]
           all   == /\ prog[i].load # None => rec.source_added
                    /\ prog[i].store # None => rec.destination_added
       IN  /\ IF load THEN add_load_queue(i, p, l) ELSE UNCHANGED <<LQ, RTL0>>
           /\ IF store THEN add_store_queue(i, s) ELSE UNCHANGED <<SQ, RTS0, STA>>
           /\ inst' = [j \in DOMAIN inst |->
                         IF j = i
                         THEN [rec EXCEPT
                                 !.scheduled = IF all THEN "COMPLETED" ELSE @,
                                 !.executed  = IF all /\ @ = "no" THEN "INFLIGHT" ELSE @]
                         ELSE IF j = p
                         THEN [inst[j] EXCEPT !.memory_instrs_depend_on_me = Append(@, i)]
                         ELSE inst[j]]
           /\ inflight_mem_executions' =
                 inflight_mem_executions + IF given THEN NowDone({i}) ELSE 0
           /\ scan' = i
    /\ UNCHANGED <<pc, budget, rob, ready_to_execute, RTL1, RTS1, inflight_reg_executions,
                   caches, mem>>

-----------------------------------------------------------------------------
(* dispatch_instruction: the front end has an instruction ready.  STA also *)
(* holds the stores still in the front end, behind those in the ROB.       *)
dispatch_instruction(i) ==
    /\ pc = "dispatch" /\ budget > 0
    /\ Cardinality(InROB) < ROB_SIZE /\ Len(prog) < MaxInstr
    /\ prog' = Append(prog, i)
    /\ inst' = Append(inst, NewInst(i))
    /\ STA' = IF i.store # None THEN Append(STA, Len(prog) + 1) ELSE STA
    /\ Spend
    /\ UNCHANGED <<head, ready_to_execute, LQ, SQ, RTL0, RTL1, RTS0, RTS1, inflight,
                   caches, mem>>

DispatchEnds ==
    /\ pc = "dispatch"
    /\ Goto("idle")
    /\ inst' = [i \in DOMAIN inst |-> [inst[i] EXCEPT !.due = IF @ > 0 THEN @ - 1 ELSE 0]]
    /\ UNCHANGED <<rob, ready_to_execute, lsq, inflight, caches, mem>>

-----------------------------------------------------------------------------
(* A loop whose condition fails gives way to the next handler.             *)
Over ==
    \/ pc = "retire" /\ ~MayRetire
    \/ pc = "complete" /\ ~MayComplete
    \/ pc = "execute" /\ (budget = 0 \/ ready_to_execute = <<>>)
    \/ pc = "schedule" /\ Unscheduled = {}
    \/ pc = "dtlb" /\ (budget = 0 \/ DTLB_bus = <<>>)
    \/ pc = "l1d" /\ (budget = 0 \/ L1D_bus = <<>>)
    \/ pc = "store0" /\ (budget = 0 \/ RTS0 = <<>>)
    \/ pc = "store1" /\ (budget = 0 \/ RTS1 = <<>>)
    \/ pc = "load0" /\ (budget = 0 \/ RTL0 = <<>>)
    \/ pc = "load1" /\ (budget = 0 \/ RTL1 = <<>>)
    \/ pc = "memory" /\ Schedulable = {}

NextHandler ==
    /\ Over
    /\ Goto(Following(pc))
    /\ UNCHANGED <<rob, inst, ready_to_execute, lsq, inflight, caches, mem>>

(* Between two cycles of the core.  A bus holds ROB_SIZE answers.          *)
Answer(r) ==
    /\ pc = "idle" /\ r \in asked
    /\ asked' = asked \ {r}
    /\ IF r.to = "DTLB"
       THEN DTLB_bus' = Append(DTLB_bus, r) /\ UNCHANGED L1D_bus
       ELSE L1D_bus' = Append(L1D_bus, r) /\ UNCHANGED DTLB_bus
    /\ UNCHANGED <<pc, budget, scan, rob, inst, ready_to_execute, lsq, inflight, mem>>

BeginCycle ==
    /\ pc = "idle"
    /\ Goto("retire")
    /\ UNCHANGED <<rob, inst, ready_to_execute, lsq, inflight, caches, mem>>

Operate ==
    \/ retire_rob \/ complete_inflight_instruction \/ execute_instruction
    \/ schedule_instruction \/ ReturnDTLB \/ ReturnL1D
    \/ do_translate_store \/ execute_store \/ do_translate_load \/ execute_load
    \/ schedule_memory_instruction \/ DispatchEnds \/ NextHandler

CpuNext ==
    \/ Operate \/ BeginCycle \/ RetireRefused \/ Refuse
    \/ \E i \in Instruction : dispatch_instruction(i)
    \/ \E r \in asked : Answer(r)

CpuSpec == CpuInit /\ [][CpuNext]_cpuVars

(* The simulator runs cycle after cycle, requests are answered, and a full *)
(* queue of a cache does not refuse for ever.  Each of these happens a     *)
(* bounded number of times to a program of MaxInstr instructions, so one   *)
(* fairness for all of them says that none is put off for ever.  The front *)
(* end owes nothing.                                                       *)
Served ==
    \/ retire_rob \/ do_translate_store \/ do_translate_load \/ execute_load
    \/ \E r \in asked : Answer(r)

CpuFairSpec ==
    /\ CpuSpec
    /\ WF_cpuVars(Operate \/ BeginCycle \/ RetireRefused \/ Refuse)
    /\ SF_cpuVars(Served)

-----------------------------------------------------------------------------
Times(q, x) == Cardinality({k \in DOMAIN q : q[k] = x})

Sent(queue, k) ==
    Cardinality({r \in asked : r.queue = queue /\ r.slot = k})
    + Cardinality({n \in DOMAIN DTLB_bus : DTLB_bus[n].queue = queue /\ DTLB_bus[n].slot = k})
    + Cardinality({n \in DOMAIN L1D_bus : L1D_bus[n].queue = queue /\ L1D_bus[n].slot = k})

(* A load that waits for a store of the ROB that will hand it its data.    *)
WaitsForStore(l) ==
    /\ LQ[l].id # 0 /\ LQ[l].producer \in InROB
    /\ ~HasData(LQ[l].producer)
    /\ Times(inst[LQ[l].producer].memory_instrs_depend_on_me, LQ[l].id) = 1

(* Queues, packets and instructions refer to slots of the load and store   *)
(* queue, and slots are emptied and used again.  An occupied slot belongs  *)
(* to the instruction of the ROB that refers to it and is on its way in    *)
(* exactly one place; nothing refers to an empty one.  So no answer is for *)
(* a load that has left its slot, none completes a load twice, none is     *)
(* missing, and the assertion of execute_store on producer_id holds.       *)
SlotsTracked ==
    /\ \A l \in 1 .. LQ_SIZE :
         /\ Times(RTL0, l) + Times(RTL1, l) + Sent("LQ", l)
              + (IF WaitsForStore(l) THEN 1 ELSE 0)
            = IF LQ[l].id # 0 THEN 1 ELSE 0
         /\ LQ[l].id # 0 => LQ[l].id \in InROB /\ inst[LQ[l].id].lq_index = l
    /\ \A s \in 1 .. SQ_SIZE :
         /\ Times(RTS0, s) + Times(RTS1, s) + Sent("SQ", s)
              + (IF SQ[s].fetched = "COMPLETED" THEN 1 ELSE 0)
            = IF SQ[s].id # 0 THEN 1 ELSE 0
         /\ SQ[s].id # 0 => SQ[s].id \in InROB /\ inst[SQ[s].id].sq_index = s

(* num_mem_ops is what is left of an instruction's memory operations, and  *)
(* the two counters that gate complete_inflight_instruction, raised by     *)
(* five handlers, are the numbers of instructions it has yet to complete:  *)
(* one too few and the core would stop.                                    *)
CountersExact ==
    /\ \A i \in InROB :
         inst[i].num_mem_ops =
             (IF prog[i].load # None /\ inst[i].got = None THEN 1 ELSE 0)
           + (IF prog[i].store # None /\ ~HasData(i) THEN 1 ELSE 0)
    /\ inflight_mem_executions = Cardinality({i \in InROB :
           is_memory(i) /\ inst[i].num_mem_ops = 0 /\ inst[i].executed # "COMPLETED"})
    /\ inflight_reg_executions = Cardinality({i \in InROB :
           ~is_memory(i) /\ inst[i].executed = "INFLIGHT"})

(* The last store before instruction i to the address it loads.            *)
LastStore(i) ==
    LET W == {j \in 1 .. i - 1 : prog[j].store = prog[i].load}
    IN  IF W = {} THEN 0 ELSE Largest(W)

(* Out of order, forwarded or from the cache, with stores that wait to     *)
(* retire and stores the write queue refuses: a load gets the data of the  *)
(* last store before it in the program.                                    *)
LoadsSeeLastStore ==
    \A i \in DOMAIN prog : inst[i].got # None => inst[i].got = LastStore(i)

(* Registers are renamed: an instruction begins, in an execution unit or   *)
(* in the load and store queues, only when the last writer before it of    *)
(* each register it reads has executed, and it is handed to an execution   *)
(* unit once.                                                              *)
Begun(i) ==
    \/ inst[i].executed # "no" \/ inst[i].source_added \/ inst[i].destination_added
    \/ Times(ready_to_execute, i) > 0

OperandsReady ==
    /\ \A i \in InROB : Begun(i) =>
         \A reg \in prog[i].src :
             LET W == {j \in 1 .. i - 1 : reg \in prog[j].dst}
             IN  W # {} => inst[Largest(W)].executed = "COMPLETED"
    /\ \A k \in DOMAIN ready_to_execute :
         LET i == ready_to_execute[k]
         IN  inst[i].executed = "no" /\ Times(ready_to_execute, i) = 1

(* Every instruction dispatched retires: the exception the core throws     *)
(* when the oldest one has not moved for DEADLOCK_CYCLE cycles is never    *)
(* thrown.                                                                 *)
EveryInstructionRetires ==
    \A i \in 1 .. MaxInstr : Len(prog) >= i ~> head > i
=============================================================================
