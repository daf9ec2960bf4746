# A verification project for ChampSim-LA

This directory holds TLA+ modules that model the simulator in `src/` and `inc/`,
TLC configurations that check small instances of them, and TLAPS proofs that
hold for every value of the constants. The program is a trace-driven,
cycle-level simulator of out-of-order cores, caches, address translation and
DRAM. It is one thread: what is concurrent is the simulated hardware. Components
advance one after another in each cycle, call each other's `add_rq`, `add_wq`,
`add_pq` and `return_data` in the middle of a handler, refuse calls when a queue
is full, and answer each other any number of cycles later. A mistake there
shows up as a lost reply, a slot completed twice, a stuck queue, or simply wrong
numbers; with no tests in the repository, nothing else looks for it.

## 1. Inventory

| Part | Source | State | Operations | What makes it correct |
|---|---|---|---|---|
| Cache: L1I, L1D, L2, LLC and three TLBs are one class | `src/cache.cc`, `inc/cache.h`, `inc/block.h` | RQ, WQ, PQ, VAPQ (delay queues), MSHR (ordered list), blocks, `current_assoc`, budgets | called from above: `add_rq`, `add_wq`, `add_pq`, `prefetch_line`; from below: `return_data`; each cycle: `handle_fill`, `handle_writeback`, `handle_read`, `va_translate_prefetches`, `handle_prefetch` | each request is answered, and once; one MSHR entry per line, in order of return; no write-back lost |
| Replacement | `replacement/*` | `BLOCK::lru` per way | `find_victim`, `update_replacement_state` | the victim is the policy's victim |
| Virtual memory | `src/vmem.cc` | page map, page-table map, next table page, free list | `va_to_pa`, `get_pte_pa` | physical memory is never given out twice |
| Page table walker | `src/ptw.cc` | RQ, MSHR (walks), four paging structure caches, CR3 | `add_rq`, `return_data`, `handle_fill`, `handle_read` | one translation per question, through its own tables |
| Core, back end | `src/ooo_cpu.cc` 829-1619 | ROB, LQ, SQ, four ready lists, STA, two in-flight counters, four buses | the handlers of `operate` from `retire_rob` to `dispatch_instruction` | dependences, memory order, each slot answered once, all instructions retire |
| Core, front end | `src/ooo_cpu.cc` 78-828 | IFETCH/DECODE/DISPATCH buffers, DIB, fetch stall | `check_dib`, `translate_fetch`, `fetch_instruction`, `promote_to_decode`, `decode_instruction` | instructions in order, each translated and fetched once |
| Queues | `inc/delay_queue.hpp`, `inc/circular_buffer.hpp` | ring, delays | push, pop, `operate` | FIFO; ready in order |
| Main loop | `src/main.cc` 715-798, `inc/operable.h` | sorted operables, leap counters, warm-up and completion flags | one step of every operable | every component runs for ever; warm-up ends once |
| DRAM | `inc/dramsim3_wrapper.hpp` (`src/dram_controller.cc` is compiled but never instantiated) | RQ of the wrapper | `add_rq`, `add_wq`, `ReadCallBack` | each read called back once |
| Trace, memory and register images, decoder | `src/tracereader.cc`, `src/memory_data.cc`, `src/regfile.cc`, `loongarch/` | file, byte image | read | input |
| Prefetchers, branch predictors, BTB | `prefetcher/`, `branch/`, `btb/` | private tables | hooks called by caches and core | heuristics: every outcome is allowed |
| Generator, scripts | `config.sh`, `scripts/`, ... | - | - | values of the constants |

How they interact: a core asks ITLB, DTLB, L1I and L1D through a `CacheBus` and
finds the answers in the bus's `PROCESSED` ring; a cache asks the next one and is
answered by `return_data`; the STLB asks the walker, which reads table entries
through the L1D; LLC misses go to DRAM. The answer may come before `add_rq`
returns (a hit in the write queue, or DRAM during warm-up), and any `add_*` may
return -2. Prefetchers run inside the cache's handlers and touch virtual memory.

The hard behaviours are therefore ordering and merging of replies, refused calls
in the middle of a handler, reuse of slots that others still refer to, progress
when every queue is bounded, and boundary arithmetic (page table placement, LRU
counters). `hazards` in `PROJECT.json` lists forty places, each with its line
and the properties that watch it, or why none does yet.

## 2. Modules

| Module | Models |
|---|---|
| `Cache` | one cache of any level; producers and the level below are its environment |
| `VirtualMemory` | the two maps, the table allocator, the free list |
| `PageTableWalker` | extends `VirtualMemory` with the walker of one cpu |
| `Recency` | abstract: a set of ways in order of use, which forgets the oldest |
| `LruPolicy` | `lru.cc` on one set; implements `Recency` |
| `Rrip` | `srrip.cc`, `drrip.cc`, `ship.cc` on one set whose associativity changes |
| `Dib` | one set of the decoded instruction buffer, kept by `lru_updater` and `lru_comparator` of `util.h` |
| `OooCpu` | the back end of one core |
| `FrontEnd` | the front end of one core, from `init_instruction` to dispatch |
| `ReadyFifo` | abstract: a queue whose first members become ready, in order, when their delays have passed |
| `DelayQueue` | `delay_queue.hpp`, two rings of `circular_buffer.hpp`; implements `ReadyFifo` |
| `Simulation` | the loop of `main()`, the leap counter of `operable`, the DRAMSim3 wrapper |
| `ReturnStack` | abstract: the calls not returned from, of which the oldest are forgotten |
| `Btb` | `basic_btb.cc`: return stack, call sizes, indirect table, one set of the table; implements `ReturnStack` |
| `Stride` | `stride.cc` |
| `TraceReader` | `tracereader.cc`: reading one record ahead |
| `MCParts` | the parts `LruPolicy`, `Rrip`, `DelayQueue`, `Simulation`, `Btb`, `Stride`, `TraceReader` and a walker side by side, one of them moving in each behaviour |
| other `MC*` | instances for TLC: constants, small functions and symmetry |
| `*_proofs` | theorems about the module of that name; `Tables_proofs` about `LruPolicy`, `Rrip`, `Btb` and `Stride`; `Simulation_proofs` about `TraceReader` too |

Conventions. `operate()` of a component is a sequence of loops, each with a
budget. `pc` names the loop that runs, `budget` what it has left, and one action
is one iteration, so whatever the environment may do between two cycles happens
when `pc = "idle"` (or, for answers of the level below that come inside a call,
as part of the iteration). A guard of the model is the loop's condition; a `-2`
from another component is a choice the environment makes, with the code's way
out of the loop as an action of its own. Cycle numbers are kept relative to
`current_cycle`, so that states repeat and liveness can be checked.

*Cache.* `RQ`, `WQ`, `PQ`, `VAPQ`, `MSHR`, `block` and `current_assoc` are the
code's. A packet keeps its address, type, fill level ("here" or "above") and
`rets`, the list that stands for `to_return` and the three `*_depend_on_me`
lists, which travel together. `outstanding` is what producers wait for;
`lowerReads` and `lowerWQ` are what the level below owes and holds. Constants make
an instance an L1D (whole-address match in the write queue, virtual prefetches,
stores as RFO packets that read the line first), an L2 or LLC (write-backs,
`current_assoc` changed by a metadata prefetcher) or a TLB or L1I (only read).
Replacement is any way of a full set.

*VirtualMemory, PageTableWalker.* A virtual page is its five table indices, a
physical page a number, and a table takes one of `UnitsPerPage` = PAGE_SIZE /
page_size units of a page: 4 in `champsim_config.json` (16384 and 4096), 1 in the
default of `config.sh`. A walk is an MSHR entry; its address is the table entry it
reads; reads of one block are answered one by one or together. A prefetcher of
the same cpu may map pages at any moment.

*LruPolicy, Recency.* `Recency` knows which ways are in use and which was used
after which; a fill of a full set must take the way that is newer than none.
`LruPolicy` has `valid` and `lru` per way; the refinement mapping makes v newer
than w when its counter is smaller. `Dib` keeps the recency order as a history
variable next to the counters instead, because there the mapping does not exist.

*OooCpu.* Instructions are LoongArch ones: register names, at most one load and
one store address each. The ROB is `head .. Len(prog)`; `inst` keeps what
`ooo_model_instr` does, `LQ` and `SQ` their entries, `asked` and the two buses the
requests on their way, tagged with the slot that waits. Two history variables
carry the meaning of data: `mem`, the last store to each address that reached the
L1D, and `got`, the store whose data a load got. Packets that DTLB and L1D merge
come back as consecutive answers. Addresses are equal or unrelated, as in the
code, whose search compares start addresses.

*Rrip.* A fill writes one of the values the policy may write (DRRIP's duel and
SHiP's table choose; the choice is left open), a hit writes 0, and a set may
belong to DRRIP's sampler, of whose sets only the first two of each kind are
ever given a value. A search for a victim is `Rounds`, the least number of
agings after which a counter is at maxRRPV, in arithmetic modulo the counter's
range.

*FrontEnd.* Instructions are numbers 1 .. `read` of a trace, and the buffers are
ranges of them: IFETCH_BUFFER is `promoted + 1 .. read`, DECODE_BUFFER
`decoded + 1 .. promoted`, and so on to the ROB, because all of these queues
are FIFO. What is kept of an instruction in IFETCH_BUFFER is `translated`,
`fetched` and whether its address was translated. Requests name places of the ring, not
instructions: `Holds` finds what is in a place now, which is what a late reply does.
`arrived` is a history variable, the replies that came while an instruction was in the buffer.
When a branch is found out is given by its kind: a direct one by `decode_instruction`,
an indirect one by `do_complete_execution`.

*DelayQueue, ReadyFifo.* Both rings have `sz + 1` places, `head` and `tail`
wrap, and iterators are compared by the distance `circular_buffer.hpp`
computes, `_end_ready` included, which is an index that outlives the push and pop
around it. `ReadyFifo` is a sequence with a delay for each member; `Cache` and
`PageTableWalker` use that abstract form.

*Simulation.* One turn operates every component once, in an order that depends
on nothing the model keeps, so the order is left open. A core retires up to RETIRE_WIDTH
instructions; DRAM runs or skips as `leap_operation` says, kept as a fraction of
ScaleNum and ScaleDen; then main() looks at the cores one by one for warm-up and
completion. DRAMSim3 itself is the environment.

*Btb, ReturnStack.* The return stack is the ring with its index and zeroed slots.
The size of a call is learned per tracker, and calls may share one. A history
variable keeps which trackers' sizes are right, another the last outcome of each branch.

*Stride.* The table with its confidence, stride and replacement bits; lines are
addresses. `strides` counts, as history, how often the watched instruction made each
distance in a row.

*TraceReader.* `get()` returns the record it read last and completes it with the address of
the one it reads now, and starts again at the end of the file.

## 3. Runs

| Run | Expect | Shows |
|---|---|---|
| `cache_l2` | pass | types, `OneEntryPerLine`, `MshrInOrder`, `LowerOwesExactly`, `RepliesOwed`, `WritesReachBelow`, `ReturnIsKept` on an L2 |
| `cache_l1d` | pass | `RepliesOwed`, `NoDuplicateLine` where two words share a line, stores allocate and prefetches are virtual |
| `cache_live` | pass | `EveryRequestAnswered` with dirty victims, a full queue below and a changing associativity |
| `ptw_walks` | pass | memory and walker: `PagesDisjoint`, `FreeListIsFree`, `AskedOnce`, `WaitingIsRead`, `WalksInOrder`, `TablesAboveMapped` |
| `cpu_backend` | pass | `SlotsTracked`, `CountersExact`, `LoadsSeeLastStore`, `OperandsReady`, `EveryInstructionRetires` |
| `front_end` | pass | `WaitersAreAsked`: who is marked as waiting is named by a request or a reply on its way, but for the lost fetch (section 5); `FetchedForReal`: nothing is decoded that was not translated and fetched; `StallHasCause`; `EveryInstructionDispatched`: every instruction is dispatched, but for the lost fetch |
| `parts` | pass | the eight parts of `MCParts`, each against its own promises (below) |
| `ptw_pscl3` | violation | `WalkReadsOwnTable`: PSCL3 is filled with tables of the wrong level |
| `vmem_free_list` | violation | `FreeListIsFree` fails when a table fills a page: the second table is allocated in a page of the free list |
| `dib_victim` | violation | `VictimIsLeastRecent` fails for the generic functors |
| `cpu_lq_deadlock` | violation | `EveryInstructionRetires` fails with a full load queue |
| `delay_queue` | violation | `OnlyReadyReleased` fails when members of one queue have several latencies |

What `parts` asks of each part:

| Part | Promises |
|---|---|
| `lru` | `CountersStacked`; `EvictsLeastRecent`: `LruPolicy` implements `Recency` |
| `rrip` | `VictimWithinReach`: the search for a victim ends within maxRRPV rounds, also after the associativity has changed |
| `delay_queue` | `ImplementsReadyFifo`, with one latency for all members (proved for more, section 4) |
| `simulation` | `MetaRqExact`: the Meta-RQ is what DRAMSim3 owes; `MeasuredAlike`: all cores are measured from one moment; `KeepsFrequency`; `SimulationLive`: the run ends |
| `btb` | `ImplementsReturnStack`; `ReturnPredicted`; `KnowsLastOutcome` |
| `stride` | `AsksAfterTwo`: a prefetch repeats a distance made at least twice |
| `trace` | `TargetIsNext`: a target is the address of the next instruction, also across the end of the trace |
| `walker` | `EveryWalkEnds`: every translation asked for is given, with three pages and an L1D that may refuse any read for a while |

The initial state chooses the part that moves. Parts that stand still are in a fixed
initial state and only stutter, so a behaviour of one part is a behaviour of that part's
own specification, and the states add up instead of multiplying.

Every property of a passing run has a mutant in `PROJECT.json`: a plausible slip
in one definition (an entry inserted after the call instead of before, a swap or
sort left out, an off-by-one, the wrong end of a search) that the run detects.

Bounds, and why they are enough.

- Caches: two lines (three addresses on two lines for the L1D), one set, one or two ways,
  queues of one packet, an MSHR of two, two requesters, a write queue below of one. Lines
  interact only through MSHR places, ways and queue room, and with these sizes
  every one of them is contended: the MSHR fills, an entry is overtaken by
  another, two requesters merge in RQ and MSHR, the victim is dirty and its
  write-back refused. Latencies of one or two cycles let packets wait behind each
  other; longer ones only stretch that. Requesters are symmetric (no liveness is
  checked under symmetry). In `cache_l1d` both lines fit, so a copy made twice stays to be
  seen; victims are the subject of `cache_l2` and `cache_live`.
- Walker: two pages that share all but the lower tables (three for liveness, two of
  them in the lowest table), an MSHR of two, one-way paging structure caches so
  that they evict, a fault penalty of one cycle, four units to a page, a free list of
  twelve pages: more than two pages and their tables can use, so the undefined case
  of an empty list is not met.
- Core, back end: programs of up to three instructions, over one register and one address, of
  five kinds (arithmetic, load, load through a register, store, atomic); ROB of
  three, window of two, LQ of two, SQ of one, widths of one (dispatch two). Three
  instructions make a store, a load that needs it and a third that holds a slot
  either needs. Slots are reused: two loads, an SQ of one. For the deadlock, four
  instructions and an LQ of one, which is the smallest case.
- Core, front end: five traces of five instructions with two pages, three lines and branches
  of every kind, and one of six instructions of one page; IFETCH_BUFFER of two, so places are used
  three times while replies are late; DECODE, DISPATCH and ROB of one, so each of them fills; a DIB
  of one way, so that windows come and go; three requests at a time below. The sixth trace is the shortest
  we know in which the lost fetch of section 5 happens and stops the core, so
  `EveryInstructionDispatched` is asked where its exception occurs.
- LRU: a set of six. RRIP: three ways and counters in a range of 16, where the code has
  2^32, which only makes wrapping more likely. Delay queue: size three, so four
  places and every position of head and tail.
- Main loop: two cores, warm-up of one instruction, measurement of two, two retired per turn,
  so that one core is warm, or done, before the other, and overshoots; DRAM at
  2/5 of the clock; a Meta-RQ of one and two lines, so that it refuses.
- BTB: a ring of three and nesting of five, so that it overflows and underflows; calls that
  share a tracker; two ways and four branches. Stride: two entries, three instructions. Trace:
  every trace of up to three records.

Fairness. The main loop calls every component for ever, so each component's own
steps are weakly fair. DRAMSim3 answers every read and empties its write queue,
and each level passes that upwards, so answers are fair, and strongly so where a
handler's turn comes and goes: a call refused in one cycle is tried again the next
and meets room now and then, because the queue it needs is emptied by a component
that keeps running. In `OooCpu` one strong fairness covers all these
(`Served`), which says the same there since each happens a bounded number of times in a
program of bounded length. Producers owe nothing: no property of a cache or of the back end
rests on a request being made. `FrontEndFairness` adds that the trace is read
on (`init_instruction` runs in every turn), that a branch which is executed is found out, and that
the ROB retires what it holds now and then. `SimulationFairness` says that the loop runs and that each core
retires something again and again, which is what the back end's
`EveryInstructionRetires` gives. In `MCParts` the
conditions of the main loop and of the walker are joined pairwise by `Own`: a behaviour has one moving
part, the actions of the other are never enabled, and so fairness of the disjunction
is fairness of the one that can happen; fewer, larger conditions keep the check of liveness small.

## 4. Proofs

TLAPS checks these for every value of the constants that meets the modules'
assumptions (`CacheAssumption`, `VirtualMemoryAssumption`, `WalkerAssumption`,
`LruAssumption`, `RripAssumption`, `BtbAssumption`, `SimulationAssumption`,
`FrontEndAssumption`, `CpuAssumption`: sizes are naturals, functions have their types, the free list
has no duplicates, counters have room for maxRRPV, no branch is at an address so low that a
call's size would reach below 0). Every safety invariant, action property and refinement that a passing
run checks is a theorem. Some theorems have a hypothesis on the constants besides, and each is what the code gives
some of its instances:

| Theorem | Hypothesis | Where it holds |
|---|---|---|
| `CacheWritesReachBelow` | `WqTypes \subseteq {"WRITEBACK"}` | L2 and LLC, which are written back to; not the L1D, whose stores merge into a load's entry and leave the line clean |
| `CacheNoDuplicateLine` | `WqTypes \subseteq {"RFO"}`, `Assocs \subseteq {NUM_WAY}` | L1I, the TLBs and L1D: nothing is written back to them and no prefetcher takes their ways; not L2 and LLC, where a write-back may make a second copy |
| `VMemInvariance`, `MemoryIsPartitioned`, `FreeStaysFree` and the walker's `WalkerPartitionsMemory` | `UnitsPerPage > 1` | `champsim_config.json`; the default of `config.sh` is the finding |
| `DelayQueueImplementsReadyFifo`, `ReadyOnlyReleased` | `InOrder`: all members wait equally long, or none longer than a cycle | RQ, WQ, PQ, VAPQ, the walker's RQ and DISPATCH_BUFFER by the first; DECODE_BUFFER by the second with the `decode_latency` of 1 of the shipped configurations; with more it is the finding |

*`Cache_proofs`.* `TypeOK`, `OneEntryPerLine`, `MshrInOrder`, `LowerOwesExactly`
and the action property `ReturnIsKept`. None of the three MSHR invariants is
inductive alone. `return_data` may swap only because there is an unreturned entry
for the line (`LowerOwesExactly`) and exactly one (`OneEntryPerLine`); the swap keeps
the order only if the list was ordered (`MshrInOrder`); a fill removes the first
entry and leaves the level below owing exactly the rest only if it is the only one for its
line. So `GoodMshr` states all three of a pair (MSHR, lowerReads), five lemmas show that
appending, returning, replacing, removing and ageing keep it, and
`IInv == TypeOK /\ DirtyIsValid /\ GoodMshr(MSHR, lowerReads)` is preserved action by action.

`RepliesOwed`, of every cache: `OwedOnce` says for one requester and one line that each of RQ, PQ and MSHR names the
requester at most once (`Single`), that no two of them do, and that one does exactly when the requester waits. A
queue changes in three ways only: its packets move or age (`SamePackets`), one is taken in, as a new
element or by merging, or the first one leaves; each has a lemma about `Has` and `Single`, and a handler
is a combination of them. The three places must be stated together: a read that misses moves a packet from RQ to the
MSHR, and would count as a lost reply for one and a reply out of nothing for the other.

`WritesReachBelow` of an L2 or LLC: what sits in the write queue is a write-back with nobody to return to (`WqKnown`),
so a handler that takes it out writes it into a block, which is dirty then, and a dirty block leaves only by
a fill that hands it down. `NoDuplicateLine` of a cache nothing is written back to: with the whole
associativity always in force (`AllWays`) a line gets a way only by a fill, which is of the MSHR's one entry for
it, and that entry was made when no way held the line (`OneEntryPerLine` again).

*`VirtualMemory_proofs`.* `PagesDisjoint` and `FreeListIsFree` under
`UnitsPerPage > 1`. The strengthening is `ListUnused`, which adds to `FreeListIsFree` that the unit
reserved for the next table (`next_pte_page`) is in no page of the list, and `NextStartsPage`: after the constructor and after
every table the next table's unit is the first of a page taken off the free list, because a
table leaves `next_pte_page` in the middle of a page and the inverted test of
`vmem.cc:69` then takes a fresh one. With one unit to a page the test is never
true, which is the finding of `vmem_free_list`.

*`PageTableWalker_proofs`.* `WalkerTypeOK`; that the walker implements
`VirtualMemory` (each step is one of its faults or a stutter), from which it
inherits `PagesDisjoint` and `FreeListIsFree`; `WalksInOrder`, from a lemma that
`Sorted` is a stable permutation in order; `WaitingIsRead`; `AskedOnce`, strengthened by the
place of each asked page (in RQ or on one walk, never two), which survives every
reordering of the list; `TablesAboveMapped`, strengthened by what a
paging structure cache vouches for: the tables above the level it holds exist for
every page of its tag, and a table once mapped stays mapped.

*`Tables_proofs`.* `CountersStacked`, and `EvictsLeastRecent`: `LruPolicy`
implements `Recency` for every associativity. `Prefix` (valid ways come first) and `AgedByFills`
(an invalid counter has been raised exactly once by each fill) make the
bound on the counters of invalid blocks inductive. `VictimWithinReach` of `Rrip` needs
`CountersSet`: a valid block's counter is at most maxRRPV whether or not the
associativity of the moment shows it, because blocks come back with the counter they had.

`ImplementsReturnStack` of `Btb`: the newest `kept` calls are in the ring, walking
back from the index (`RingHolds`), for every size of the ring. `ReturnPredicted` adds `SizesKnown`, what a tracker
holds is the size of the call last returned from. `KnowsLastOutcome` from
`TableOK`, in which no branch has two entries. `BtbTypeOK` types every variable; that the ways hold
addresses and targets of branches follows from an entry being written only for the branch that is updated.

`AsksAfterTwo` of `Stride`: the instruction that is watched has one entry at most (`OwnEntryOnly`), which has the
address of its last access, and whose stride it has made at least once when the confidence is 2 and
twice when it is 3 (`EntryKnows`); the entry may be evicted and made again, and other instructions only reorder the table.

*`FrontEnd_proofs`.* `FrontEndTypeOK`, `StallHasCause`, `FetchedForReal`, `WaitersAreAsked`. The inductive
invariant has six parts that lean on each other: `CountersOK`, the order of the
buffers' ends and their sizes; `DataOK`, the types of the instructions and the DIB; `RestOK`, the types of the buses, the
budgets and the history (a packet is asked only with places of the ring, `AcceptedFits`); `StallOK`; and `TrustOK`, for
`FetchedForReal`: every window in the DIB holds an instruction that was decoded (`DibDecoded`), a reply in
`PROCESSED` counts as arrived for every instruction now in the buffer (`BusArrived`: it came while the
instruction was there, or was waiting when it was read), and what is marked completed has either been
decoded before or seen its reply (`MarksTrue`). `AskedOK` is for `WaitersAreAsked`: an instruction has an
address only since its page came back, is fetched only with an address, and while it waits a packet, asked or come back,
names its place. No packet that names a place is lost while the instruction is in it (`Kept`): a packet is taken in whole,
and `handle_memory_return` drops waiters only from its front, marking each one that is still there for the page or line. A reply that names a place which is used again does no
harm because `handle_memory_return` compares page or line.

*`Simulation_proofs`.* `KeepsFrequency` from `LeapIsLead` (the leap counter is what DRAM is
behind, in units of 1 / ScaleDen); `MetaRqExact` from `RqOK`; `MeasuredAlike` from
`MeasureInv`, whose parts say what each core's counters are before all are warm, between that and the
core's end, and after it. `TargetIsNext` of `TraceReader` from `TraceInv`: what was handed out last already names, as
its target, the record that has been read since and is handed out next.

*`DelayQueue_proofs`.* `ImplementsReadyFifo`: for every size, and whatever is pushed and popped, the two rings are
`ReadyFifo`. `PlaceOf` and `PlaceAt` say that `circ_inc` and the iterators' distance are inverses of each other; `Pushed`,
`Popped` and `DelaysLowered` what the operations do to the i-th member counted from the head, wherever the head is. The invariant
`RingsFit`: the rings turn together, no delay exceeds every latency, with one latency the delays ascend, and what is in front
of `end_ready` has waited out its delay. The binary search needs delays that ascend (`PartitionPoint`): with one latency they
do, and with latencies of 0 and 1 all are 0 by the time it runs, whatever their order was before. The
search is a recursive function, of which TLA+ says something only when a function that satisfies the recursion
exists: `BisectDefined` shows that by taking the least length for which there would be none, and `PartitionPoint` takes
the least length whose search would fail.

*`OooCpu_proofs`.* `SlotsTracked`, `CountersExact`, `LoadsSeeLastStore` and `OperandsReady`, for
every program, every size of the queues, every width and every order of answers. The invariant
`CpuInv` has four parts. `RobOK` and `QueuesOK` are the types. `RegInv` is the registers:
`num_reg_dependent` is the number of older instructions that name this one and have not executed
(`DepsCounted`), and the last writer of each source has executed or is one of them (`DepsHeld`), so
an instruction whose count is zero has its operands. `MemInv` is the memory. A load queue entry has a request
under way and no older store to its address in the ROB, or names the nearest one, which has yet to hand its
data out and has the load in its list (`LoadSlots`); the converse for the store's list (`MemDepsOK`); what
is in `mem` is the last retired store (`MemOK`). The invariant needs both directions: a store
that executes frees the entries of exactly its list, and a load that leaves its entry must be in no other. A load that
found no older store in the ROB still finds none when its data comes, since only younger
instructions are dispatched after it and retirement moves `head` past older ones only. The lemmas come in layers: what
one handler does to the fields of `inst` (`…Effect`), to the places that name slots (`TokensBy…`), and what
follows for each part of the invariant (`RegBy…`, `MemBy…`, `InflightBy…`).

Only model-checked: liveness (fairness and ENABLED are out of the prover's reach), which is `EveryRequestAnswered`,
`EveryWalkEnds`, `EveryInstructionRetires`, `EveryInstructionDispatched` and `SimulationLive`. The library's induction theorems, which
take an operator, cannot be used with these provers; where an argument is by induction it is made with
the least number for which the claim would fail (`LeastNumber`). `Sorted` and the folds are
treated through their definitions by rank. `FrontEndTypeOK`, `RripTypeOK`, `BtbTypeOK` and `StrideTypeOK` are
proved and in no run.

## 5. Findings

1. `vmem.cc:69` tests the boundary the wrong way round. With page_size =
   PAGE_SIZE (the default, and `champsim_config_8C.json`) page tables are placed in pages
   still on the free list: the run allocates two tables, and the second is in such a page.
   With four tables to a page the same test wastes three quarters of each page, but memory stays disjoint.
2. `ptw.cc:134` fills PSCL3 under PSCL2's condition, so walks of other pages of the
   region read a table that is not theirs.
3. `util.h:126` resets every element whose counter equals the used one's; all start equal,
   so DIB and paging structure caches do not evict the least recently used entry.
4. `ooo_cpu.cc:1002` lets younger loads fill the load queue while they wait for a store that
   depends on an older load: the core deadlocks.
5. `delay_queue.hpp:177` finds the end of the ready members by binary search, which assumes that
   delays are ordered. `promote_to_decode` pushes into DECODE_BUFFER with two latencies (0 for
   instructions from the DIB), and a member that is not ready is handed out, before its delay has passed.

One more may be a deadlock, and is not filed as a finding because only a model with a free memory shows it. The front
end can lose a fetch. A reply of the ITLB that was left behind when DIB hits moved the buffer on may
translate an instruction out of turn, one that took the place it names; the group of that instruction is translated
again, and if the L1I answers before the ITLB does, `handle_memory_return` (`ooo_cpu.cc:1476`) passes the
instruction over because it is not translated: it stays marked as waiting for an answer that has come.
When it reaches the front of IFETCH_BUFFER and its window is not in the DIB the core stands still, and the check of
`ooo_cpu.cc:523-525` stops the run. `FrontEnd` reaches this (`FetchLost`, `FrontLost`) in six instructions, because its ITLB and L1I answer each
request on its own and in any order. It takes several requests for one page that are answered apart from each
other while the places they name are used again, and an L1I that is faster than one of them. In the simulator the ITLB merges requests for a page
while they wait in its RQ or MSHR, and answers hits in order after a latency of 1 against the L1I's 4; whether some configuration
can still get there is a question about `FrontEnd` composed with two `Cache`s, which is left for later. So `WaitersAreAsked` and
`EveryInstructionDispatched` except exactly this case (the front instruction's answers have both come, and one was dropped), and nothing else:
without the exception TLC refutes both in the run `front_end`.

Visible in the models or met while reading, but contradicting nothing the code says:

- a store that merges into a load's MSHR entry leaves the line clean; a write-back that
  arrives while the line is fetched makes two copies in a set; blocks outside a
  shrunk `current_assoc` come back stale;
- DRRIP's sampler sets beyond the first two of each kind never write `lru` on a fill: their blocks keep
  half of the uint32_t range, and `find_victim` ages them some two billion times. `Rrip`
  has such sets (`drrip_sampled`), and `VictimWithinReach` says what it does for all others;
- SHiP's sampler windows start at a number that is not multiplied by the number of ways, so they overlap;
- the BTB's first allocation gets stamp 0, which an empty way also has, so it may be replaced while
  ways are empty; a conditional branch that is not taken writes target 0;
- `circular_buffer.hpp:226` returns the ring's size less the difference, also for a negative distance across the
  wrap; `check_dib` takes a minimum with such a distance;
- `memory_data.cc:106`: a word store keeps bits of the old content above 32; no user depends on it;
- `wait_rob_empty` is one global for all cores, but is never set, as WARMUP_INST is 0.

## 6. Not modelled

Packet data, statistics and printing; METADATA packets (`OFFCHIP_METADATA` is
off); LLC bypass (no shipped policy returns it); `invalidate_entry` and
`MEMORY_CONTROLLER` (never used: the generator emits `DRAMSim3_DRAM`); x86 instructions with several memory operands
and `wait_rob_empty`; partially overlapping accesses (the code does not see them
either); memory and register images (byte arrays whose only readers are prefetchers);
direction predictors and the prefetchers other than `stride` (tables of saturating counters of which
any outcome is allowed, so that there is nothing to be wrong about beyond what
`Cache` lets a prefetcher do; `tage-sc-l` is third-party code); scripts and the generator.
More than half of the implementation's lines, 21 700 of 43 000, are the LoongArch decoder: generated tables and
printers taken from another project, with no state. Most of the rest that is not modelled are the
prefetchers' and predictors' tables.

A full simulator is the composition of
the modules through their environments: what `Cache` assumes of its producers
(one request per line and requester in flight) is what `Cache`, `PageTableWalker`
and `OooCpu` guarantee below (`OneEntryPerLine`, `AskedOnce`, `SlotsTracked`), and what
they all assume of the level below (every read answered once, in any order) is what
`RepliesOwed` and `EveryRequestAnswered` give above. `OooCpu` takes instructions in order from
`FrontEnd`, which assumes of the ROB only that it retires; `Simulation` assumes of a core that it retires. DRAM
answers each read once by `MetaRqExact`, which needs one read per line of the LLC: `OneEntryPerLine`.
That argument is on paper.

One answer is not among those the walker's L1D gives: one from inside `add_rq`. `CACHE::add_rq` returns data
at once when its write queue holds the block (`cache.cc:592-601`), which would be before the walk is in the walker's MSHR
(`ptw.cc:79`), so the answer would find nobody. It needs a block of a page table in the L1D's write queue; what is written there are
data of the program, which share no page with a table when memory is partitioned (`PagesDisjoint`, proved with several
tables to a page; with one table to a page it is the first finding that could lead here).

## 7. What could follow

1. `Hierarchy`: two caches composed, the lower one in the place of the environment of the upper
   one; the environment as an abstract service of requests and replies that `Cache` implements.
2. The producers' side of `Cache` (one request per line and requester in flight) as a theorem of `PageTableWalker` and
   `OooCpu` against that environment.
3. `FrontEnd` composed with an ITLB and an L1I of `Cache`, which decides whether a configuration can lose a fetch (section 5).
4. A changing associativity under LRU.
