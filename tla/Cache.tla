------------------------------- MODULE Cache -------------------------------
(***************************************************************************)
(* One CACHE of the hierarchy (src/cache.cc): an L1, an L2, the LLC or a   *)
(* TLB, which are all instances of the same class.  The cache is driven    *)
(* from outside in two ways: producers above it call add_rq, add_wq and    *)
(* add_pq between its cycles, and the level below calls return_data        *)
(* between its cycles.  Its own cycle, CACHE::operate, is a sequence of    *)
(* handlers, each a loop limited by a per-cycle budget; pc names the       *)
(* handler that runs, and one action is one iteration of its loop.         *)
(*                                                                         *)
(* Abstractions.  Packet data, statistics and the prefetcher's own tables  *)
(* are left out: a prefetcher may ask for any line at any moment, and a    *)
(* replacement policy may choose any way of a full set.  Cycle numbers are *)
(* kept relative to current_cycle (field due).  to_return and the lists of *)
(* load-queue, store-queue and ROB entries that depend on a packet travel  *)
(* together and are one list, rets.  METADATA packets exist only in builds *)
(* that define OFFCHIP_METADATA, which inc/prefetch.h does not.            *)
(***************************************************************************)
EXTENDS Naturals, Sequences, FiniteSets

CONSTANTS
  Addr,              \* byte addresses the producers use
  Line,              \* cache lines
  line_of,           \* Addr -> Line: address >> OFFSET_BITS
  NoAddr,            \* what an invalid block holds
  Index,             \* indices of the sets of the cache
  index_of,          \* Line -> Index: get_set
  NUM_WAY,
  Assocs,            \* the values the metadata prefetchers give current_assoc
  Requester,         \* who can be named in to_return
  RqTypes, PqTypes,  \* the packet types that arrive through add_rq, add_pq
  demand_level,      \* fill_level of the packets that arrive through add_rq
  WqTypes,           \* ... and through add_wq
  Prefetchable,      \* what this cache's own prefetcher may ask for
  va_to_pa,          \* Prefetchable -> Addr: vmem.va_to_pa, for virtual_prefetch
  RQ_SIZE, WQ_SIZE, PQ_SIZE, MSHR_SIZE,
  HIT_LATENCY, FILL_LATENCY, VA_PREFETCH_TRANSLATION_LATENCY,
  MAX_READ, MAX_WRITE,
  match_offset_bits, \* write queue compares whole addresses (the L1D)
  virtual_prefetch, packet_can_merge,
  is_L1D,            \* NAME contains "L1D"
  LowerWqSize        \* room in the write queue of the level below

VARIABLES
  pc,             \* the handler of operate() that runs, or "idle"
  budget,         \* writes_ or reads_available_this_cycle
  RQ, WQ, PQ, VAPQ,
  MSHR,
  block,
  current_assoc,
  outstanding,    \* the producers' side: the replies they wait for
  lowerReads,     \* the level below: reads of each line it has not returned
  lowerWQ         \* the level below: lines in its write queue

queues == <<RQ, WQ, PQ, VAPQ>>
lower  == <<lowerReads, lowerWQ>>
vars   == <<pc, budget, queues, MSHR, block, current_assoc, outstanding, lower>>

-----------------------------------------------------------------------------
Type  == {"LOAD", "RFO", "PREFETCH", "WRITEBACK", "TRANSLATION"}
Level == {"here", "above"}    \* fill_level: this cache's, or one nearer the core

(* event_cycle of an MSHR entry that the level below has not returned:      *)
(* numeric_limits<uint64_t>::max(), greater than every cycle.               *)
Never == FILL_LATENCY + 1

Longest == IF HIT_LATENCY > VA_PREFETCH_TRANSLATION_LATENCY
           THEN HIT_LATENCY ELSE VA_PREFETCH_TRANSLATION_LATENCY

(* due: in a queue the cycles until the packet is ready, in the MSHR        *)
(* event_cycle - current_cycle, no less than 0.                             *)
PACKET == [address : Addr, type : Type, level : Level,
           rets : Seq(Requester), due : 0 .. Longest]
ENTRY  == [address : Addr, type : Type, level : Level,
           rets : Seq(Requester), due : 0 .. Never]
BLOCK  == [address : Addr \cup {NoAddr}, dirty : BOOLEAN]

ASSUME CacheAssumption ==
  /\ line_of \in [Addr -> Line] /\ index_of \in [Line -> Index]
  /\ NoAddr \notin Addr /\ va_to_pa \in [Prefetchable -> Addr]
  /\ IsFiniteSet(Line)
  /\ NUM_WAY \in Nat \ {0} /\ Assocs \subseteq 1 .. NUM_WAY
  /\ RqTypes \subseteq Type /\ PqTypes \subseteq Type /\ WqTypes \subseteq Type
  /\ demand_level \in Level
  /\ RQ_SIZE \in Nat /\ WQ_SIZE \in Nat /\ PQ_SIZE \in Nat /\ MSHR_SIZE \in Nat
  /\ HIT_LATENCY \in Nat \ {0} /\ FILL_LATENCY \in Nat \ {0}
  /\ VA_PREFETCH_TRANSLATION_LATENCY \in Nat \ {0}
  /\ MAX_READ \in Nat \ {0} /\ MAX_WRITE \in Nat \ {0}
  /\ {match_offset_bits, virtual_prefetch, packet_can_merge, is_L1D} \subseteq BOOLEAN
  /\ LowerWqSize \in Nat \ {0}

-----------------------------------------------------------------------------
(* Addresses, and the elements of a queue or of the MSHR that match one.    *)
eq_addr(a, b)  == line_of[a] = line_of[b]
wq_match(a, b) == IF match_offset_bits THEN a = b ELSE eq_addr(a, b)
MatchingAddress(q, a) == {i \in DOMAIN q : q[i].address = a}   \* mutant
Matching(q, a) == {i \in DOMAIN q : eq_addr(q[i].address, a)}
First(S)       == CHOOSE i \in S : \A j \in S : i <= j

(* delay_queue: only packets whose delay has run out are ready; they are    *)
(* served in order.  operate() ages every packet.                           *)
has_ready(q) == q # <<>> /\ q[1].due = 0
Aged(q) == [i \in DOMAIN q |-> [q[i] EXCEPT !.due = IF @ > 0 THEN @ - 1 ELSE 0]]

(* packet_dep_merge: append, then std::unique, which only drops an element  *)
(* equal to its neighbour.  Both lists come from earlier merges, so equal   *)
(* neighbours can only meet where the two lists join.                       *)
KeepDest(dest, src) == IF dest # <<>> THEN dest ELSE src   \* mutant
packet_dep_merge(dest, src) ==
  IF dest # <<>> /\ src # <<>> /\ dest[Len(dest)] = src[1]
  THEN dest \o Tail(src)
  ELSE dest \o src

min_level(x, y) == IF "above" \in {x, y} THEN "above" ELSE "here"

NewPacket(a, t, lv, rs, d) ==
  [address |-> a, type |-> t, level |-> lv, rets |-> rs, due |-> d]

(* The replies that return_data(packet) gives to everyone in to_return.     *)
Answers(p) == {<<p.rets[k], line_of[p.address]>> : k \in DOMAIN p.rets}

(* get_way: the ways that hold the line of an address.                      *)
HitWays(a) ==
  {w \in 1 .. current_assoc :
     LET b == block[index_of[line_of[a]]][w]
     IN  b.address # NoAddr /\ eq_addr(b.address, a)}

(* The way a new line goes to: the first invalid one, or the choice of the  *)
(* replacement policy when the set is full.                                 *)
VictimWays(s) ==
  LET invalid == {w \in 1 .. current_assoc : block[s][w].address = NoAddr}
  IN  IF invalid # {} THEN {First(invalid)} ELSE 1 .. current_assoc

-----------------------------------------------------------------------------
Init ==
  /\ pc = "idle" /\ budget = 0
  /\ RQ = <<>> /\ WQ = <<>> /\ PQ = <<>> /\ VAPQ = <<>>
  /\ MSHR = <<>>
  /\ block = [s \in Index |-> [w \in 1 .. NUM_WAY |->
                [address |-> NoAddr, dirty |-> FALSE]]]
  /\ current_assoc = NUM_WAY
  /\ outstanding = {}
  /\ lowerReads = [l \in Line |-> 0] /\ lowerWQ = {}

-----------------------------------------------------------------------------
(* Calls from above, between the cycles of this cache.  A producer has at   *)
(* most one request for a line in flight: an upper cache holds an MSHR      *)
(* entry for it, a load or a store asks once.  When add_rq or add_pq finds  *)
(* the line in the write queue it answers before it returns (-1), and when  *)
(* the queue is full it refuses (-2): neither leaves a trace here.          *)
WriteQueued(a) == \E i \in DOMAIN WQ : wq_match(WQ[i].address, a)

add_rq(r, a, t) ==
  LET dup == Matching(RQ, a)
  IN  /\ pc = "idle"
      /\ <<r, line_of[a]>> \notin outstanding
      /\ ~WriteQueued(a)
      /\ IF dup # {} /\ packet_can_merge
         THEN RQ' = [RQ EXCEPT ![First(dup)].rets = packet_dep_merge(@, <<r>>)]
         ELSE /\ Len(RQ) < RQ_SIZE
              /\ RQ' = Append(RQ, NewPacket(a, t, demand_level, <<r>>, HIT_LATENCY))
      /\ outstanding' = outstanding \cup {<<r, line_of[a]>>}
      /\ UNCHANGED <<pc, budget, WQ, PQ, VAPQ, MSHR, block, current_assoc, lower>>

add_wq(a, t) ==
  /\ pc = "idle"
  /\ ~WriteQueued(a)          \* otherwise merged: the queue does not change
  /\ Len(WQ) < WQ_SIZE
  /\ WQ' = Append(WQ, NewPacket(a, t, "here", <<>>, HIT_LATENCY))
  /\ UNCHANGED <<pc, budget, RQ, PQ, VAPQ, MSHR, block, current_assoc,
                 outstanding, lower>>

EnterFullPQ(p) ==   \* mutant: no test for a full PQ
  PQ' = IF Matching(PQ, p.address) # {} THEN PQ ELSE Append(PQ, [p EXCEPT !.due = HIT_LATENCY])

(* add_pq once the write queue has been searched: merge, or push if there   *)
(* is room.                                                                 *)
EnterPQ(p) ==
  LET dup == Matching(PQ, p.address)
      i   == First(dup)
  IN  IF dup # {}
      THEN PQ' = [PQ EXCEPT ![i].level = min_level(@, p.level),
                            ![i].rets = packet_dep_merge(@, p.rets)]
      ELSE /\ Len(PQ) < PQ_SIZE
           /\ PQ' = Append(PQ, [p EXCEPT !.due = HIT_LATENCY])

add_pq(r, a, t) ==
  /\ pc = "idle"
  /\ <<r, line_of[a]>> \notin outstanding
  /\ ~WriteQueued(a)
  /\ EnterPQ(NewPacket(a, t, "above", <<r>>, 0))
  /\ outstanding' = outstanding \cup {<<r, line_of[a]>>}
  /\ UNCHANGED <<pc, budget, RQ, WQ, VAPQ, MSHR, block, current_assoc, lower>>

(* prefetch_line for this level, called by the prefetcher: from its hooks   *)
(* in the handlers or at the end of a cycle.  Nobody waits for the line.    *)
prefetch_line(v) ==
  /\ IF virtual_prefetch
     THEN /\ Len(VAPQ) < PQ_SIZE
          /\ VAPQ' = Append(VAPQ, [target |-> v,
                                   due |-> VA_PREFETCH_TRANSLATION_LATENCY])
          /\ UNCHANGED PQ
     ELSE /\ ~WriteQueued(va_to_pa[v])
          /\ EnterPQ(NewPacket(va_to_pa[v], "PREFETCH", "here", <<>>, 0))
          /\ UNCHANGED VAPQ
  /\ UNCHANGED <<pc, budget, RQ, WQ, MSHR, block, current_assoc, outstanding, lower>>

(* adjust_assoc: a metadata prefetcher takes ways of the cache or gives     *)
(* them back; the blocks in them stay as they are.                          *)
adjust_assoc(n) ==
  /\ pc = "idle" /\ n # current_assoc
  /\ current_assoc' = n
  /\ UNCHANGED <<pc, budget, queues, MSHR, block, outstanding, lower>>

-----------------------------------------------------------------------------
(* The level below: one of its queues may have no room when it is asked     *)
(* (the handlers then give up until the next cycle), it answers a read of a *)
(* line that waits in its write queue before add_rq returns, and the other  *)
(* reads later, in any order.                                               *)
Swap(m, i, j) == [m EXCEPT ![i] = m[j], ![j] = m[i]]

FirstUnreturned(m) == First({i \in DOMAIN m : m[i].due = Never})

(* return_data on the entry at place i: it becomes the last of the returned *)
(* entries.                                                                 *)
ReturnedInPlace(m, i) == [m EXCEPT ![i].due = FILL_LATENCY]   \* mutant: no swap

Returned(m, i) ==
  [Swap(m, i, FirstUnreturned(m)) EXCEPT
     ![FirstUnreturned(m)].due = FILL_LATENCY]

return_data(l) ==
  LET found == {i \in DOMAIN MSHR : line_of[MSHR[i].address] = l}
  IN  /\ pc = "idle"
      /\ lowerReads[l] > 0
      /\ MSHR' = Returned(MSHR, First(found))
      /\ lowerReads' = [lowerReads EXCEPT ![l] = @ - 1]
      /\ UNCHANGED <<pc, budget, queues, block, current_assoc, outstanding, lowerWQ>>

LowerDrain(l) ==
  /\ pc = "idle" /\ l \in lowerWQ
  /\ lowerWQ' = lowerWQ \ {l}
  /\ UNCHANGED <<pc, budget, queues, MSHR, block, current_assoc, outstanding,
                 lowerReads>>

-----------------------------------------------------------------------------
(* readlike_miss(p) when it succeeds.  Either an entry for the line is in   *)
(* flight and takes p in, a prefetch being replaced by p unless p is one of *)
(* this cache's own prefetches; or an entry is allocated and the line is    *)
(* asked for below.                                                         *)
MergeForgetsReturn(p, i) ==   \* mutant: the replacement loses event_cycle
  LET merged == packet_dep_merge(MSHR[i].rets, p.rets)
  IN  MSHR' = [MSHR EXCEPT ![i] =
                 IF @.type = "PREFETCH"
                 THEN [p EXCEPT !.due = Never, !.rets = merged]
                 ELSE [@ EXCEPT !.rets = merged]]

MergeMiss(p, i) ==
  LET e      == MSHR[i]
      merged == packet_dep_merge(e.rets, p.rets)
      own    == p.type = "PREFETCH" /\ p.level = "here"
  IN  MSHR' = [MSHR EXCEPT ![i] =
                 IF e.type = "PREFETCH" /\ ~own
                 THEN [p EXCEPT !.due = e.due, !.rets = merged]
                 ELSE [e EXCEPT !.level = min_level(@, p.level), !.rets = merged]]

AllocateAfterAsking(p) ==   \* mutant: an answer given at once finds no entry
  LET l == line_of[p.address]
  IN  /\ Len(MSHR) < MSHR_SIZE
      /\ MSHR' = Append(MSHR, [p EXCEPT !.due = Never])
      /\ lowerReads' = [lowerReads EXCEPT ![l] = IF l \in lowerWQ THEN @ ELSE @ + 1]

AllocateMiss(p) ==
  LET m == Append(MSHR, [p EXCEPT !.due = Never])
      l == line_of[p.address]
  IN  /\ Len(MSHR) < MSHR_SIZE
      /\ IF l \in lowerWQ
         THEN MSHR' = Returned(m, Len(m)) /\ UNCHANGED lowerReads
         ELSE MSHR' = m /\ lowerReads' = [lowerReads EXCEPT ![l] = @ + 1]

MissWithoutSearch(p) == AllocateMiss(p)   \* mutant

readlike_miss(p) ==
  LET found == Matching(MSHR, p.address)
  IN  IF found # {}
      THEN MergeMiss(p, First(found)) /\ UNCHANGED lowerReads
      ELSE AllocateMiss(p)

(* readlike_miss returns false when it would have to allocate: the MSHR is  *)
(* full or the queue below is.                                              *)
MissMayStall(p) == Matching(MSHR, p.address) = {}

(* filllike_miss(p) into way w: a dirty victim goes to the write queue      *)
(* below first, and the fill fails when that queue is full.                 *)
StoresOnly(p) == p.type = "RFO" /\ p.rets = <<>>   \* mutant of Dirties
Dirties(p) == p.type = "WRITEBACK" \/ (p.type = "RFO" /\ p.rets = <<>>)

CanEvict(b) ==
  b.dirty => \/ line_of[b.address] \in lowerWQ
             \/ Cardinality(lowerWQ) < LowerWqSize

filllike_miss(p, s, w) ==
  LET victim == block[s][w]
  IN  /\ CanEvict(victim)
      /\ lowerWQ' = lowerWQ \cup IF victim.dirty THEN {line_of[victim.address]} ELSE {}
      /\ block' = [block EXCEPT ![s][w] = [address |-> p.address, dirty |-> Dirties(p)]]

FillMayStall(p) ==
  LET s == index_of[line_of[p.address]]
  IN  \E w \in VictimWays(s) : ~CanEvict(block[s][w])

-----------------------------------------------------------------------------
(* The cycle: operate_writes, then operate_reads.                           *)
BeginCycle ==
  /\ pc = "idle"
  /\ pc' = "fill" /\ budget' = MAX_WRITE
  /\ UNCHANGED <<queues, MSHR, block, current_assoc, outstanding, lower>>

(* handle_fill only ever looks at the first MSHR entry.                     *)
FillReady == budget > 0 /\ MSHR # <<>> /\ MSHR[1].due = 0

handle_fill ==
  LET p == MSHR[1]
      s == index_of[line_of[p.address]]
  IN  /\ pc = "fill" /\ FillReady
      /\ \E w \in VictimWays(s) : filllike_miss(p, s, w)
      /\ outstanding' = outstanding \ Answers(p)
      /\ MSHR' = Tail(MSHR)
      /\ budget' = budget - 1
      /\ UNCHANGED <<pc, queues, current_assoc, lowerReads>>

EndFill ==
  /\ pc = "fill"
  /\ FillReady => FillMayStall(MSHR[1])
  /\ pc' = "writeback"
  /\ UNCHANGED <<budget, queues, MSHR, block, current_assoc, outstanding, lower>>

WriteReady == budget > 0 /\ has_ready(WQ)

(* Only a store of the core (an RFO nobody waits for) reads the line first. *)
ReadsFirst(p) == p.type = "RFO" /\ p.rets = <<>>

handle_writeback ==
  LET p == WQ[1]
      s == index_of[line_of[p.address]]
      W == HitWays(p.address)
  IN  /\ pc = "writeback" /\ WriteReady
      /\ \/ /\ W # {}
            /\ block' = [block EXCEPT ![s][First(W)].dirty = TRUE]
            /\ UNCHANGED <<MSHR, lower>>
         \/ /\ W = {} /\ ReadsFirst(p)
            /\ readlike_miss(p)
            /\ UNCHANGED <<block, lowerWQ>>
         \/ /\ W = {} /\ ~ReadsFirst(p)
            /\ \E w \in VictimWays(s) : filllike_miss(p, s, w)
            /\ UNCHANGED <<MSHR, lowerReads>>
      /\ WQ' = Tail(WQ)
      /\ budget' = budget - 1
      /\ UNCHANGED <<pc, RQ, PQ, VAPQ, current_assoc, outstanding>>

EndWrites ==
  LET p == WQ[1]
  IN  /\ pc = "writeback"
      /\ WriteReady => /\ HitWays(p.address) = {}
                       /\ IF ReadsFirst(p) THEN MissMayStall(p) ELSE FillMayStall(p)
      /\ pc' = "read" /\ budget' = MAX_READ
      /\ WQ' = Aged(WQ)
      /\ UNCHANGED <<RQ, PQ, VAPQ, MSHR, block, current_assoc, outstanding, lower>>

(* handle_read and handle_prefetch serve the head of their queue: a hit     *)
(* answers whoever waits for it, a miss goes to the MSHR.                   *)
ServeRead(p) ==
  \/ /\ HitWays(p.address) # {}
     /\ outstanding' = outstanding \ Answers(p)
     /\ UNCHANGED <<MSHR, lowerReads>>
  \/ /\ HitWays(p.address) = {}
     /\ readlike_miss(p)
     /\ UNCHANGED outstanding

handle_read ==
  /\ pc = "read" /\ budget > 0 /\ has_ready(RQ)
  /\ ServeRead(RQ[1])
  /\ RQ' = Tail(RQ)
  /\ budget' = budget - 1
  /\ UNCHANGED <<pc, WQ, PQ, VAPQ, block, current_assoc, lowerWQ>>

ReadsOver(q) ==
  budget > 0 /\ has_ready(q) => HitWays(q[1].address) = {} /\ MissMayStall(q[1])

(* va_translate_prefetches: at most one prefetch, and it leaves the VAPQ    *)
(* unless the PQ has no room for it.                                        *)
Translated ==
  LET a == va_to_pa[VAPQ[1].target]
  IN  IF WriteQueued(a)
      THEN VAPQ' = Tail(VAPQ) /\ UNCHANGED PQ
      ELSE \/ /\ EnterPQ(NewPacket(a, "PREFETCH", "here", <<>>, 0))
              /\ VAPQ' = Tail(VAPQ)
           \/ /\ Matching(PQ, a) = {} /\ Len(PQ) = PQ_SIZE
              /\ UNCHANGED <<PQ, VAPQ>>

va_translate_prefetches ==
  /\ pc = "read"
  /\ ReadsOver(RQ)
  /\ IF has_ready(VAPQ) THEN Translated ELSE UNCHANGED <<PQ, VAPQ>>
  /\ pc' = "prefetch"
  /\ budget' = IF is_L1D THEN 1 ELSE budget
  /\ UNCHANGED <<RQ, WQ, MSHR, block, current_assoc, outstanding, lower>>

handle_prefetch ==
  /\ pc = "prefetch" /\ budget > 0 /\ has_ready(PQ)
  /\ ServeRead(PQ[1])
  /\ PQ' = Tail(PQ)
  /\ budget' = budget - 1
  /\ UNCHANGED <<pc, RQ, WQ, VAPQ, block, current_assoc, lowerWQ>>

(* The queues age and current_cycle advances.                               *)
EndCycle ==
  /\ pc = "prefetch"
  /\ ReadsOver(PQ)
  /\ pc' = "idle" /\ budget' = 0
  /\ RQ' = Aged(RQ) /\ PQ' = Aged(PQ) /\ VAPQ' = Aged(VAPQ)
  /\ MSHR' = [i \in DOMAIN MSHR |->
                [MSHR[i] EXCEPT !.due = IF @ \in {0, Never} THEN @ ELSE @ - 1]]
  /\ UNCHANGED <<WQ, block, current_assoc, outstanding, lower>>

-----------------------------------------------------------------------------
Operate ==
  \/ BeginCycle \/ handle_fill \/ EndFill \/ handle_writeback \/ EndWrites
  \/ handle_read \/ va_translate_prefetches \/ handle_prefetch \/ EndCycle

Above ==
  \/ \E r \in Requester, a \in Addr, t \in RqTypes : add_rq(r, a, t)
  \/ \E a \in Addr, t \in WqTypes : add_wq(a, t)
  \/ \E r \in Requester, a \in Addr, t \in PqTypes : add_pq(r, a, t)
  \/ \E v \in Prefetchable : prefetch_line(v)
  \/ \E n \in Assocs : adjust_assoc(n)

Below == \E l \in Line : return_data(l) \/ LowerDrain(l)

Next == Operate \/ Above \/ Below

Spec == Init /\ [][Next]_vars

(* The main loop operates every component for ever; the level below answers *)
(* every read and keeps emptying its write queue, so a handler that gives   *)
(* up and is tried again every cycle finds room there now and then.         *)
(* Producers owe nothing.                                                   *)
Fairness ==
  /\ WF_vars(Operate)
  /\ \A l \in Line : SF_vars(return_data(l))
  /\ SF_vars(\E l \in Line : LowerDrain(l))
  /\ SF_vars(handle_fill) /\ SF_vars(handle_read)

FairSpec == Spec /\ Fairness

-----------------------------------------------------------------------------
TypeOK ==
  /\ pc \in {"idle", "fill", "writeback", "read", "prefetch"}
  /\ budget \in Nat
  /\ RQ \in Seq(PACKET) /\ WQ \in Seq(PACKET) /\ PQ \in Seq(PACKET)
  /\ VAPQ \in Seq([target : Prefetchable, due : 0 .. Longest])
  /\ MSHR \in Seq(ENTRY)
  /\ Len(RQ) <= RQ_SIZE /\ Len(WQ) <= WQ_SIZE /\ Len(PQ) <= PQ_SIZE
  /\ Len(VAPQ) <= PQ_SIZE /\ Len(MSHR) <= MSHR_SIZE
  /\ block \in [Index -> [1 .. NUM_WAY -> BLOCK]]
  /\ current_assoc \in 1 .. NUM_WAY
  /\ outstanding \subseteq Requester \X Line
  /\ lowerReads \in [Line -> Nat]
  /\ lowerWQ \subseteq Line

(* The MSHR holds at most one entry for a line: readlike_miss searches it   *)
(* before it allocates, but the entries are moved, replaced and refilled by *)
(* other handlers in between.                                               *)
OneEntryPerLine ==
  \A i, j \in DOMAIN MSHR : eq_addr(MSHR[i].address, MSHR[j].address) => i = j

(* handle_fill looks at MSHR.begin() alone, so an entry that is due must    *)
(* never wait behind one that is not: the entries stay ordered by the cycle *)
(* they are due, those not yet returned last, through every swap of         *)
(* return_data and every replacement of readlike_miss.                      *)
MshrInOrder ==
  \A i, j \in DOMAIN MSHR : i < j => MSHR[i].due <= MSHR[j].due

(* The level below owes one answer for each line that waits in the MSHR and *)
(* none for any other, so the assertion of return_data ("cannot find a      *)
(* matching entry") cannot fail, no entry is answered twice, and no entry   *)
(* waits for an answer that was never asked for.                            *)
Waits(m, l) == \E i \in DOMAIN m : m[i].due = Never /\ line_of[m[i].address] = l

LowerOwesExactly ==
  \A l \in Line : lowerReads[l] = IF Waits(MSHR, l) THEN 1 ELSE 0

(* How often requester r is listed for line l in a queue or in the MSHR.    *)
Listed(q, r, l) ==
  UNION {{<<i, k>> : k \in {k \in DOMAIN q[i].rets : q[i].rets[k] = r}} :
           i \in {i \in DOMAIN q : line_of[q[i].address] = l}}

(* No reply is lost and none is given twice: a requester that waits for a   *)
(* line is listed exactly once, and one that does not wait is not listed,   *)
(* through forwarding, merging in two queues and the MSHR, the replacement  *)
(* of a prefetch by a demand, hits and fills.                               *)
RepliesOwed ==
  \A r \in Requester, l \in Line :
    Cardinality(Listed(RQ, r, l)) + Cardinality(Listed(PQ, r, l))
      + Cardinality(Listed(MSHR, r, l))
    = IF <<r, l>> \in outstanding THEN 1 ELSE 0

(* A cache nothing is written back to (an L1I, a TLB, an L1D, whose stores  *)
(* read the line first) holds a line once, and never holds a line it is     *)
(* still fetching.                                                          *)
NoDuplicateLine ==
  /\ \A s \in Index : \A v, w \in 1 .. NUM_WAY :
       /\ block[s][v].address # NoAddr /\ block[s][w].address # NoAddr
       /\ eq_addr(block[s][v].address, block[s][w].address)
       => v = w
  /\ \A i \in DOMAIN MSHR : HitWays(MSHR[i].address) = {}

(* A line a producer has written back is still to be written below while it *)
(* waits in the write queue or a block of it is dirty.                      *)
Unwritten(l) ==
  \/ \E i \in DOMAIN WQ : line_of[WQ[i].address] = l
  \/ \E s \in Index, w \in 1 .. NUM_WAY :
       block[s][w].dirty /\ line_of[block[s][w].address] = l

(* A write is never dropped: a line stops being unwritten only in a step    *)
(* that leaves it in the write queue below.  (For caches written to by      *)
(* write-backs; a store of the core may lose its mark, see README.)         *)
WritesReachBelow ==
  [][\A l \in Line : Unwritten(l) /\ ~Unwritten(l)' => l \in lowerWQ']_vars

(* "in case request is already returned, we should keep event_cycle": a     *)
(* line that has come back is never made to wait longer, and is not dropped *)
(* before it is in the cache, whatever merges into or replaces its entry.   *)
BackBy(m, a, d) == \E i \in DOMAIN m : eq_addr(m[i].address, a) /\ m[i].due <= d

ReturnIsKept ==
  [][\A a \in Addr, d \in 0 .. FILL_LATENCY :
       BackBy(MSHR, a, d) => BackBy(MSHR', a, d) \/ HitWays(a)' # {}]_vars

(* Whoever asks through add_rq is answered: no reply is owed for ever.  (In *)
(* this form of P ~> ~P all requests are checked on one graph.)             *)
EveryRequestAnswered ==
  \A r \in Requester, l \in Line : []<>(<<r, l>> \notin outstanding)

=============================================================================
