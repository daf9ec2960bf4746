-------------------------- MODULE PageTableWalker --------------------------
(***************************************************************************)
(* The PageTableWalker of one cpu (src/ptw.cc).  The STLB above asks for   *)
(* the translation of a page with add_rq; the walker reads one table entry *)
(* per level through the L1D below it, starting at the lowest level one of *)
(* its four paging-structure caches knows, and takes the page faults of    *)
(* VirtualMemory on the way.  operate() is handle_fill, handle_read, then  *)
(* RQ.operate(); pc names the loop that runs and one action is one         *)
(* iteration of it.                                                        *)
(*                                                                         *)
(* Cycle numbers are kept relative to current_cycle.  A paging-structure   *)
(* cache keeps the region and the table each of its blocks stands for, and *)
(* may evict any block of a full set.  The reply of the L1D is modelled    *)
(* without its data; statistics are left out.                              *)
(***************************************************************************)
EXTENDS VirtualMemory, FiniteSets

CONSTANTS
  cpu,
  Touched,               \* pages a virtual prefetcher of this cpu may touch
  RQ_SIZE, MSHR_SIZE, MAX_READ, MAX_FILL,
  NUM_SET, NUM_WAY,      \* of the paging-structure cache of each level
  minor_fault_penalty,
  PtesPerBlock,          \* BLOCK_SIZE / PTE_BYTES
  LowerRoom              \* reads of a block the L1D holds at a time

VARIABLES
  pc,           \* "construct", "idle", "fill" or "read"
  budget,       \* fill_ or reads_this_cycle
  RQ, MSHR,
  PSCL5, PSCL4, PSCL3, PSCL2,
  CR3_addr,     \* the table of the top level
  asked,        \* the STLB's side: pages it waits for
  lowerReads    \* the L1D's side: block -> reads it has not answered

pscls   == <<PSCL5, PSCL4, PSCL3, PSCL2>>
walker  == <<pc, budget, RQ, MSHR, pscls, CR3_addr, asked, lowerReads>>
ptwVars == <<vmem, walker>>

Never == minor_fault_penalty + 1   \* numeric_limits<uint64_t>::max()

Zero == [k \in 0 .. pt_levels - 1 |-> 0]   \* the page of address 0

ASSUME WalkerAssumption ==
  /\ cpu \in Cpu /\ Zero \in VPage /\ Touched \subseteq VPage /\ pt_levels = 5
  /\ RQ_SIZE \in Nat /\ MSHR_SIZE \in Nat
  /\ MAX_READ \in Nat \ {0} /\ MAX_FILL \in Nat \ {0}
  /\ NUM_SET \in [1 .. 4 -> Nat \ {0}] /\ NUM_WAY \in [1 .. 4 -> Nat \ {0}]
  /\ minor_fault_penalty \in Nat \ {0} /\ PtesPerBlock \in Nat \ {0}
  /\ LowerRoom \in Nat \ {0}

-----------------------------------------------------------------------------
(* The address of an entry of a table, and the block it is in.  Splicing at *)
(* LOG2_PAGE_SIZE replaces the unit in the page together with the offset.   *)
Pte(u, offset)    == [page |-> u.page, unit |-> u.unit, offset |-> offset]
splice(u, offset) == Pte(Unit(u.page), offset)
block_of(a)       == <<a.page, a.unit, a.offset \div PtesPerBlock>>

PteOf(v, level) == Pte(page_table[TableKey(cpu, v, level)], get_offset(v, level))

(* Paging-structure caches: check_hit and fill_cache.                       *)
CoarserHit(P, level, v) ==   \* mutant: one level too many is shifted out
  {b \in P : \A k \in level + 2 .. pt_levels - 1 : b.tag[k] = v[k]}

check_hit(P, level, v) == {b \in P : b.tag = region(v, level + 1)}

set_idx(v, level) ==   \* the low bits of vaddr >> shamt(level + 1)
  IF level + 1 < pt_levels THEN v[level + 1] % NUM_SET[level] ELSE 0

fill_cache(P, level, v, u) ==
  LET b   == [tag |-> region(v, level + 1), table |-> u]
      set == {x \in P : set_idx(x.tag, level) = set_idx(v, level)}
  IN  {(P \ X) \cup {b} : X \in {X \in {{}} \cup {{x} : x \in set} :
          Cardinality((set \ X) \cup {b}) <= NUM_WAY[level]}}

(* Where a walk starts: at the root, or below the last of the caches asked  *)
(* that hits.                                                               *)
WalkStarts(v) ==
  LET P    == <<PSCL2, PSCL3, PSCL4, PSCL5>>
      hits == {k \in 1 .. 4 : check_hit(P[k], k, v) # {}}
      low  == CHOOSE k \in hits : \A j \in hits : k <= j
  IN  IF hits = {}
      THEN {[address |-> splice(CR3_addr, get_offset(v, pt_levels - 1)),
             level |-> pt_levels - 1]}
      ELSE {[address |-> splice(b.table, get_offset(v, low)), level |-> low - 1] :
              b \in check_hit(P[low], low, v)}

(* std::list::sort by event_cycle, which is stable.                         *)
Rank(m, i) == Cardinality({j \in DOMAIN m : \/ m[j].due < m[i].due
                                            \/ m[j].due = m[i].due /\ j <= i})
Unsorted(m) == m   \* mutant
Sorted(m) == [n \in DOMAIN m |-> m[CHOOSE i \in DOMAIN m : Rank(m, i) = n]]

(* The L1D: it may have no room (add_rq returns -2); reads of one block may *)
(* be answered one by one or, when it merges them, several at a time.       *)
(* It never answers before add_rq returns: for that the block must be in    *)
(* its WQ (cache.cc:592), and only stores to data go there, never in the    *)
(* same page as a table (PagesDisjoint).                                    *)
Pending(b)  == IF b \in DOMAIN lowerReads THEN lowerReads[b] ELSE 0
lower_add_rq(a) ==
  /\ Pending(block_of(a)) < LowerRoom
  /\ lowerReads' = Extend(lowerReads, block_of(a), Pending(block_of(a)) + 1)

-----------------------------------------------------------------------------
WalkerInit ==
  /\ VMemInit
  /\ pc = "construct" /\ budget = 0
  /\ RQ = <<>> /\ MSHR = <<>>
  /\ PSCL5 = {} /\ PSCL4 = {} /\ PSCL3 = {} /\ PSCL2 = {}
  /\ CR3_addr = next_pte_page
  /\ asked = {} /\ lowerReads = <<>>

(* The constructor takes the root table from get_pte_pa.                    *)
Construct ==
  /\ pc = "construct"
  /\ get_pte_pa(cpu, Zero, pt_levels)
  /\ CR3_addr' = next_pte_page
  /\ pc' = "idle"
  /\ UNCHANGED <<budget, RQ, MSHR, pscls, asked, lowerReads>>

RoomOffByOne == Len(RQ) <= RQ_SIZE   \* mutant
RoomInRQ     == Len(RQ) < RQ_SIZE

(* add_rq: the STLB never asks twice for a page it waits for, which the     *)
(* assertion "Duplicate request should not be sent" relies on.              *)
add_rq(v) ==
  /\ pc = "idle"
  /\ v \notin asked
  /\ RoomInRQ
  /\ RQ' = Append(RQ, [v |-> v, ready |-> FALSE])
  /\ asked' = asked \cup {v}
  /\ UNCHANGED <<vmem, pc, budget, MSHR, pscls, CR3_addr, lowerReads>>

(* return_data: every entry whose address is in the block is woken, the one *)
(* that waits out a fault as well.                                          *)
WakeFirst(b) ==   \* mutant: only the first entry is woken
  LET S == {i \in DOMAIN MSHR : block_of(MSHR[i].address) = b}
  IN  [i \in DOMAIN MSHR |->
         IF i \in S /\ \A j \in S : i <= j THEN [MSHR[i] EXCEPT !.due = 0] ELSE MSHR[i]]

Woken(b) ==
  [i \in DOMAIN MSHR |->
     IF block_of(MSHR[i].address) = b THEN [MSHR[i] EXCEPT !.due = 0] ELSE MSHR[i]]

return_data(b) ==
  /\ pc = "idle"
  /\ b \in DOMAIN lowerReads
  /\ \E left \in 0 .. lowerReads[b] - 1 :
       lowerReads' = [x \in IF left = 0 THEN DOMAIN lowerReads \ {b}
                                        ELSE DOMAIN lowerReads |->
                        IF x = b THEN left ELSE lowerReads[x]]
  /\ MSHR' = Sorted(Woken(b))
  /\ UNCHANGED <<vmem, pc, budget, RQ, pscls, CR3_addr, asked>>

(* A virtual prefetcher of the same cpu touches a page before any walk does.*)
PrefetchTouches(v) ==
  /\ pc = "idle"
  /\ va_to_pa(cpu, v)
  /\ UNCHANGED walker

-----------------------------------------------------------------------------
BeginCycle ==
  /\ pc = "idle"
  /\ pc' = "fill" /\ budget' = MAX_FILL
  /\ UNCHANGED <<vmem, RQ, MSHR, pscls, CR3_addr, asked, lowerReads>>

(* handle_fill looks at MSHR.front() alone.                                 *)
FillReady == budget > 0 /\ MSHR # <<>> /\ MSHR[1].due <= 0

(* A fault keeps the entry for minor_fault_penalty cycles; the lookup is    *)
(* then made again, and finds the mapping.                                  *)
Fault ==
  LET e == MSHR[1]
  IN  /\ pc = "fill" /\ FillReady
      /\ IF e.level = 0 THEN va_to_pa(cpu, e.v) ELSE get_pte_pa(cpu, e.v, e.level)
      /\ MSHR' = Sorted([MSHR EXCEPT ![1].due = minor_fault_penalty])
      /\ budget' = budget - 1
      /\ UNCHANGED <<pc, RQ, pscls, CR3_addr, asked, lowerReads>>

(* The walk is over: the STLB gets its answer.                              *)
Translated ==
  LET e == MSHR[1]
  IN  /\ pc = "fill" /\ FillReady
      /\ e.level = 0 /\ Mapped(cpu, e.v)
      /\ asked' = asked \ {e.v}
      /\ MSHR' = Tail(MSHR)
      /\ budget' = budget - 1
      /\ UNCHANGED <<vmem, pc, RQ, pscls, CR3_addr, lowerReads>>

(* A walk for v that has read its entry of level l fills the cache of that  *)
(* level; that of level 2 is filled together with that of level 1.          *)
FillsPscls(v, l) ==
  LET table == page_table[TableKey(cpu, v, l)]
  IN  /\ PSCL5' \in IF l = 4 THEN fill_cache(PSCL5, 4, v, table) ELSE {PSCL5}
      /\ PSCL4' \in IF l = 3 THEN fill_cache(PSCL4, 3, v, table) ELSE {PSCL4}
      /\ PSCL3' \in IF l = 1 THEN fill_cache(PSCL3, 2, v, table) ELSE {PSCL3}
      /\ PSCL2' \in IF l = 1 THEN fill_cache(PSCL2, 1, v, table) ELSE {PSCL2}

(* The walk goes one level down.  When the L1D refuses the read the entry   *)
(* stays at the front and the same is tried again.                          *)
DescendKeepsAddress(e) == [e EXCEPT !.level = @ - 1, !.due = Never]   \* mutant

Descended(e) ==
  [e EXCEPT !.address = PteOf(e.v, e.level), !.level = @ - 1, !.due = Never]

CopiedDown(e) == Append(MSHR, Descended(e))   \* mutant: insert for splice
MovedDown(e)  == Append(Tail(MSHR), Descended(e))

Descend ==
  LET e == MSHR[1]
  IN  /\ pc = "fill" /\ FillReady
      /\ e.level > 0 /\ TableMapped(cpu, e.v, e.level)
      /\ FillsPscls(e.v, e.level)
      /\ \/ /\ lower_add_rq(PteOf(e.v, e.level))
            /\ MSHR' = MovedDown(e)
         \/ UNCHANGED <<MSHR, lowerReads>>
      /\ budget' = budget - 1
      /\ UNCHANGED <<vmem, pc, RQ, CR3_addr, asked>>

handle_fill == Fault \/ Translated \/ Descend

EndFill ==
  /\ pc = "fill" /\ ~FillReady
  /\ pc' = "read" /\ budget' = MAX_READ
  /\ UNCHANGED <<vmem, RQ, MSHR, pscls, CR3_addr, asked, lowerReads>>

handle_read ==
  LET v == RQ[1].v
  IN  /\ pc = "read" /\ budget > 0
      /\ RQ # <<>> /\ RQ[1].ready /\ Len(MSHR) < MSHR_SIZE
      /\ \E s \in WalkStarts(v) :
           /\ lower_add_rq(s.address)
           /\ MSHR' = Append(MSHR, [v |-> v, level |-> s.level,
                                    address |-> s.address, due |-> Never])
      /\ RQ' = Tail(RQ)
      /\ budget' = budget - 1
      /\ UNCHANGED <<vmem, pc, pscls, CR3_addr, asked>>

(* The loop of handle_read is over, if only because the L1D refuses; RQ and *)
(* current_cycle advance.                                                   *)
EndCycle ==
  /\ pc = "read"
  /\ pc' = "idle" /\ budget' = 0
  /\ RQ' = [i \in DOMAIN RQ |-> [RQ[i] EXCEPT !.ready = TRUE]]
  /\ MSHR' = [i \in DOMAIN MSHR |->
                [MSHR[i] EXCEPT !.due = IF @ \in {-1, Never} THEN @ ELSE @ - 1]]
  /\ UNCHANGED <<vmem, pscls, CR3_addr, asked, lowerReads>>

-----------------------------------------------------------------------------
Operate == BeginCycle \/ handle_fill \/ EndFill \/ handle_read \/ EndCycle

WalkerNext ==
  \/ Construct
  \/ Operate
  \/ \E v \in VPage : add_rq(v)
  \/ \E v \in Touched : PrefetchTouches(v)
  \/ \E b \in DOMAIN lowerReads : return_data(b)

WalkerSpec == WalkerInit /\ [][WalkerNext]_ptwVars

(* The read that the first of the waiting walks waits for is answered.      *)
FirstAnswered ==
  \E i \in DOMAIN MSHR :
    /\ MSHR[i].due = Never
    /\ \A j \in 1 .. i - 1 : MSHR[j].due # Never
    /\ return_data(block_of(MSHR[i].address))

(* The main loop operates the walker for ever; the L1D answers every read,  *)
(* and does not refuse the same read for ever.                              *)
WalkerFairness ==
  /\ WF_ptwVars(Construct)
  /\ WF_ptwVars(Operate)
  /\ SF_ptwVars(handle_read)
  /\ SF_ptwVars(Descend /\ MSHR' # MSHR)
  /\ SF_ptwVars(FirstAnswered)

FairWalkerSpec == WalkerSpec /\ WalkerFairness

-----------------------------------------------------------------------------
UNIT == [page : Nat, unit : Nat]
WALK == [v : VPage, level : 0 .. 4, due : -1 .. Never,
         address : [page : Nat, unit : Nat, offset : 0 .. Radix - 1]]
PSCL(level) == SUBSET [tag : {region(v, level + 1) : v \in VPage}, table : UNIT]

WalkerTypeOK ==
  /\ VMemTypeOK
  /\ pc \in {"construct", "idle", "fill", "read"} /\ budget \in Nat
  /\ RQ \in Seq([v : VPage, ready : BOOLEAN]) /\ Len(RQ) <= RQ_SIZE
  /\ MSHR \in Seq(WALK) /\ Len(MSHR) <= MSHR_SIZE
  /\ PSCL5 \in PSCL(4) /\ PSCL4 \in PSCL(3) /\ PSCL3 \in PSCL(2) /\ PSCL2 \in PSCL(1)
  /\ CR3_addr \in UNIT
  /\ asked \subseteq VPage
  /\ lowerReads \in [DOMAIN lowerReads -> 1 .. LowerRoom]

(* A page the STLB waits for is in one place, once: in RQ or on one walk;   *)
(* and no walk is for a page nobody waits for.  The STLB therefore gets one *)
(* answer for each question.                                                *)
AskedOnce ==
  /\ asked = {RQ[i].v : i \in DOMAIN RQ} \cup {MSHR[i].v : i \in DOMAIN MSHR}
  /\ Cardinality(asked) = Len(RQ) + Len(MSHR)

(* A walk that waits has a read of its block in the L1D: the replies other  *)
(* walks were given, one reply for several reads, and an answer that comes  *)
(* after the walk was woken by another never leave a walk without one.      *)
(* An answer inside add_rq, before the walk is in MSHR to be woken, would:  *)
(* see lower_add_rq.                                                        *)
WaitingIsRead ==
  \A i \in DOMAIN MSHR :
    MSHR[i].due = Never => block_of(MSHR[i].address) \in DOMAIN lowerReads

(* handle_fill looks at MSHR.front() alone, so no walk that is due may be   *)
(* behind one that is not.                                                  *)
WalksInOrder ==
  \A i, j \in DOMAIN MSHR : i < j => MSHR[i].due <= MSHR[j].due

(* A walk skips the levels a paging-structure cache vouches for, so the     *)
(* tables of those levels must exist: whatever a cache holds and wherever a *)
(* walk started, every table above the walk's level is mapped.              *)
TablesAboveMapped ==
  \A i \in DOMAIN MSHR :
    \A l \in MSHR[i].level + 1 .. pt_levels - 1 : TableMapped(cpu, MSHR[i].v, l)

(* A walk reads the entry for its own page: the address it waits for lies   *)
(* in the table get_pte_pa gives for its page at the level above.           *)
WalkReadsOwnTable ==
  \A i \in DOMAIN MSHR :
    LET e == MSHR[i]
    IN  e.level < pt_levels - 1 => /\ TableMapped(cpu, e.v, e.level + 1)
                                   /\ e.address = PteOf(e.v, e.level + 1)

(* Every translation asked for is given: the STLB waits for none for ever.  *)
EveryWalkEnds == \A v \in VPage : []<>(v \notin asked)

=============================================================================
