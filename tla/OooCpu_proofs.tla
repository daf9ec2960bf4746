----------------------------- MODULE OooCpu_proofs -----------------------------
(***************************************************************************)
(* The back end of a core for every program, every size of its queues and  *)
(* every width.  The invariant has three layers: the types; the register   *)
(* dependences, which give OperandsReady; and the memory operations, slots *)
(* and counters, which give SlotsTracked, CountersExact and                *)
(* LoadsSeeLastStore.                                                      *)
(***************************************************************************)
EXTENDS OooCpu, FiniteSetTheorems, WellFoundedInduction, NaturalsInduction, TLAPS

-----------------------------------------------------------------------------
(* Counting in sequences.                                                  *)
CountIn(q, S) == Cardinality({k \in DOMAIN q : q[k] \in S})

LEMMA SeqFinite ==
    ASSUME NEW T, NEW q \in Seq(T), NEW S
    PROVE  /\ DOMAIN q = 1 .. Len(q) /\ Len(q) \in Nat
           /\ IsFiniteSet({k \in DOMAIN q : q[k] \in S})
           /\ CountIn(q, S) \in Nat
<1> DEFINE D == {k \in DOMAIN q : q[k] \in S}
<1>1. DOMAIN q = 1 .. Len(q) /\ Len(q) \in Nat
  OBVIOUS
<1>2. IsFiniteSet(1 .. Len(q))
  BY <1>1, FS_Interval
<1>3. IsFiniteSet(D)
  BY <1>1, <1>2, FS_Subset
<1>4. Cardinality(D) \in Nat
  BY <1>3, FS_CardinalityType
<1> QED BY <1>1, <1>3, <1>4 DEF CountIn

LEMMA CountEmpty ==
    ASSUME NEW S PROVE CountIn(<<>>, S) = 0
<1>1. {k \in DOMAIN <<>> : <<>>[k] \in S} = {}
  OBVIOUS
<1> QED BY <1>1, FS_EmptySet DEF CountIn

LEMMA CountAppend ==
    ASSUME NEW T, NEW q \in Seq(T), NEW x \in T, NEW S
    PROVE  CountIn(Append(q, x), S) = CountIn(q, S) + (IF x \in S THEN 1 ELSE 0)
<1> DEFINE D == {k \in DOMAIN q : q[k] \in S}
           n == Len(q) + 1
<1>1. IsFiniteSet(D) /\ DOMAIN q = 1 .. Len(q) /\ Len(q) \in Nat /\ Cardinality(D) \in Nat
  BY SeqFinite DEF CountIn
<1>2. DOMAIN Append(q, x) = 1 .. n /\ Append(q, x)[n] = x
      /\ \A k \in 1 .. Len(q) : Append(q, x)[k] = q[k]
  OBVIOUS
<1>3. n \notin D
  BY <1>1
<1>4. {k \in DOMAIN Append(q, x) : Append(q, x)[k] \in S} = IF x \in S THEN D \cup {n} ELSE D
  BY <1>1, <1>2
<1>5. Cardinality(D \cup {n}) = Cardinality(D) + 1
  BY <1>1, <1>3, FS_AddElement
<1>6. /\ CountIn(q, S) = Cardinality(D)
      /\ CountIn(Append(q, x), S) = Cardinality(IF x \in S THEN D \cup {n} ELSE D)
  BY <1>4 DEF CountIn
<1> HIDE DEF D
<1> QED BY <1>1, <1>5, <1>6

LEMMA CountTail ==
    ASSUME NEW T, NEW q \in Seq(T), q # <<>>, NEW S
    PROVE  CountIn(q, S) = CountIn(Tail(q), S) + (IF Head(q) \in S THEN 1 ELSE 0)
<1> DEFINE D == {k \in DOMAIN q : q[k] \in S}
           R == {k \in DOMAIN Tail(q) : Tail(q)[k] \in S}
           E == {k \in D : k > 1}
           f == [k \in R |-> k + 1]
<1>1. /\ Tail(q) \in Seq(T) /\ Len(q) \in Nat /\ Len(q) >= 1 /\ Len(Tail(q)) = Len(q) - 1
      /\ \A k \in 1 .. Len(q) - 1 : Tail(q)[k] = q[k + 1]
      /\ Head(q) = q[1]
  OBVIOUS
<1>2. /\ IsFiniteSet(D) /\ DOMAIN q = 1 .. Len(q)
      /\ IsFiniteSet(R) /\ DOMAIN Tail(q) = 1 .. Len(q) - 1
      /\ Cardinality(R) \in Nat
  BY <1>1, SeqFinite DEF CountIn
<1>3. f \in [R -> E]
  BY <1>1, <1>2
<1>4. \A k, m \in R : f[k] = f[m] => k = m
  BY <1>2
<1>5. \A k \in E : k - 1 \in R /\ f[k - 1] = k
  BY <1>1, <1>2
<1>6. f \in Bijection(R, E)
  BY <1>3, <1>4, <1>5 DEF Bijection, Injection, Surjection, IsInjective
<1>7. ExistsBijection(R, E)
  BY <1>6 DEF ExistsBijection
<1>8. IsFiniteSet(E) /\ Cardinality(E) = Cardinality(R)
  BY <1>2, <1>7, FS_Bijection
<1>9. D = IF Head(q) \in S THEN E \cup {1} ELSE E
  BY <1>1, <1>2
<1>10. 1 \notin E
  OBVIOUS
<1>11. /\ CountIn(q, S) = Cardinality(IF Head(q) \in S THEN E \cup {1} ELSE E)
       /\ CountIn(Tail(q), S) = Cardinality(R)
  BY <1>9 DEF CountIn
<1> HIDE DEF D, R, E
<1>12. Cardinality(E \cup {1}) = Cardinality(E) + 1
  BY <1>8, <1>10, FS_AddElement
<1> QED BY <1>2, <1>8, <1>11, <1>12

LEMMA CountOnce ==
    ASSUME NEW T, NEW q \in Seq(T), NEW x
    PROVE  /\ CountIn(q, {x}) > 0 <=> \E k \in DOMAIN q : q[k] = x
           /\ \A k \in DOMAIN q : q[k] = x /\ (\A m \in DOMAIN q : q[m] = x => m = k)
                 => CountIn(q, {x}) = 1
<1> DEFINE D == {k \in DOMAIN q : q[k] \in {x}}
<1>1. IsFiniteSet(D) /\ Cardinality(D) \in Nat /\ Cardinality(D) = CountIn(q, {x})
  BY SeqFinite DEF CountIn
<1>2. Cardinality(D) = 0 <=> D = {}
  BY <1>1, FS_EmptySet
<1>3. \A k \in DOMAIN q : q[k] = x /\ (\A m \in DOMAIN q : q[m] = x => m = k) => D = {k}
  OBVIOUS
<1>4. \A k : Cardinality({k}) = 1
  BY FS_Singleton
<1>5. D # {} <=> \E k \in DOMAIN q : q[k] = x
  OBVIOUS
<1> HIDE DEF D
<1>6. CountIn(q, {x}) > 0 <=> D # {}
  BY <1>1, <1>2
<1> QED BY <1>1, <1>3, <1>4, <1>5, <1>6

LEMMA TimesIsCount ==
    ASSUME NEW q, NEW x PROVE Times(q, x) = CountIn(q, {x})
<1>1. {k \in DOMAIN q : q[k] = x} = {k \in DOMAIN q : q[k] \in {x}}
  OBVIOUS
<1> QED BY <1>1 DEF Times, CountIn

-----------------------------------------------------------------------------
(* The least and the greatest of a set of numbers.                         *)
LEMMA SmallestIs ==
    ASSUME NEW S \in SUBSET Nat, S # {}
    PROVE  Smallest(S) \in S /\ \A j \in S : Smallest(S) <= j
<1>1. PICK n \in S : \A m \in S : ~ (<<m, n>> \in OpToRel(<, Nat))
  BY NatLessThanWellFounded, WFMin, Zenon
<1>2. \A q \in Nat \X Nat : q[1] < q[2] => q \in OpToRel(<, Nat)
  BY Zenon DEF OpToRel
<1>3. ASSUME NEW m \in S PROVE n <= m
  <2>1. m \in Nat /\ n \in Nat /\ ~(m < n)
    BY <1>1, <1>2
  <2> QED BY <2>1
<1>4. \E k \in S : \A j \in S : k <= j
  BY <1>3
<1> QED BY <1>4 DEF Smallest

LEMMA LargestIs ==
    ASSUME NEW n \in Nat, NEW S \in SUBSET (1 .. n), S # {}
    PROVE  Largest(S) \in S /\ \A j \in S : j <= Largest(S)
<1> DEFINE D == {n - s : s \in S}
<1>1. D \in SUBSET Nat /\ D # {}
  <2>1. \A s \in S : n - s \in Nat
    OBVIOUS
  <2> QED BY <2>1
<1>2. PICK d \in D : \A e \in D : d <= e
  BY <1>1, SmallestIs
<1>3. PICK k \in S : d = n - k
  OBVIOUS
<1>4. \A j \in S : j <= k
  <2> SUFFICES ASSUME NEW j \in S PROVE j <= k
    OBVIOUS
  <2>1. n - k <= n - j
    BY <1>2, <1>3
  <2> QED BY <2>1
<1>5. \E m \in S : \A j \in S : j <= m
  BY <1>4
<1> QED BY <1>5 DEF Largest

(* There is only one greatest element.                                     *)
LEMMA LargestUnique ==
    ASSUME NEW n \in Nat, NEW S \in SUBSET (1 .. n), NEW k \in S, \A j \in S : j <= k
    PROVE  Largest(S) = k
<1>1. Largest(S) \in S /\ k <= Largest(S)
  BY LargestIs
<1>2. Largest(S) <= k /\ Largest(S) \in 1 .. n /\ k \in 1 .. n
  BY <1>1
<1> HIDE DEF Largest
<1> QED BY <1>1, <1>2

-----------------------------------------------------------------------------
(* The sequence of the members of a set of numbers in order, as Woken      *)
(* makes it: each place holds a member, and no two the same.               *)
LEMMA OrderedMembers ==
    ASSUME NEW n \in Nat, NEW W \in SUBSET (1 .. n)
    PROVE  LET at(i) == CHOOSE k \in W : Cardinality({m \in W : m <= k}) = i
           IN  /\ Cardinality(W) \in Nat
               /\ \A i \in 1 .. Cardinality(W) : at(i) \in W
               /\ \A i, j \in 1 .. Cardinality(W) : at(i) = at(j) => i = j
<1> DEFINE upto(k) == {m \in W : m <= k}
           rank == [k \in W |-> Cardinality(upto(k))]
           at(i) == CHOOSE k \in W : Cardinality({m \in W : m <= k}) = i
<1>1. IsFiniteSet(W) /\ Cardinality(W) \in Nat
  <2>1. IsFiniteSet(1 .. n)
    BY FS_Interval
  <2>2. IsFiniteSet(W)
    BY <2>1, FS_Subset
  <2> QED BY <2>2, FS_CardinalityType
<1>2. ASSUME NEW k \in W
      PROVE  /\ IsFiniteSet(upto(k)) /\ Cardinality(upto(k)) \in 1 .. Cardinality(W)
  <2>1. upto(k) \in SUBSET W /\ k \in upto(k)
    OBVIOUS
  <2>2. IsFiniteSet(upto(k)) /\ Cardinality(upto(k)) <= Cardinality(W)
    BY <1>1, <2>1, FS_Subset
  <2>3. Cardinality(upto(k)) \in Nat /\ Cardinality(upto(k)) # 0
    BY <2>1, <2>2, FS_EmptySet, FS_CardinalityType
  <2> QED BY <1>1, <2>2, <2>3
<1>3. ASSUME NEW k \in W, NEW j \in W, k < j
      PROVE  Cardinality(upto(k)) < Cardinality(upto(j))
  <2>1. upto(k) \in SUBSET upto(j)
    <3>1. \A x \in W : x <= k => x <= j
      BY <1>3
    <3> QED BY <3>1
  <2>2. j \in upto(j) /\ j \notin upto(k)
    BY <1>3
  <2>3. /\ Cardinality(upto(k)) <= Cardinality(upto(j))
        /\ Cardinality(upto(k)) # Cardinality(upto(j))
    BY <1>2, <2>1, <2>2, FS_Subset
  <2>4. Cardinality(upto(k)) \in Nat /\ Cardinality(upto(j)) \in Nat
    BY <1>1, <1>2
  <2> QED BY <2>3, <2>4
<1>4. rank \in [W -> 1 .. Cardinality(W)]
  BY <1>2
<1>5. \A k, m \in W : rank[k] = rank[m] => k = m
  <2> SUFFICES ASSUME NEW k \in W, NEW m \in W, k # m PROVE rank[k] # rank[m]
    OBVIOUS
  <2>1. k < m \/ m < k
    OBVIOUS
  <2>2. rank[k] \in Nat /\ rank[m] \in Nat
    BY <1>1, <1>4
  <2>3. rank[k] < rank[m] \/ rank[m] < rank[k]
    BY <1>3, <2>1
  <2> QED BY <2>2, <2>3
<1>6. rank \in Injection(W, 1 .. Cardinality(W))
  BY <1>4, <1>5 DEF Injection, IsInjective
<1>7. IsFiniteSet(1 .. Cardinality(W)) /\ Cardinality(1 .. Cardinality(W)) = Cardinality(W)
  BY <1>1, FS_Interval
<1>8. rank \in Surjection(W, 1 .. Cardinality(W))
  BY <1>1, <1>6, <1>7, FS_Injection
<1>9. \A i \in 1 .. Cardinality(W) : \E k \in W : Cardinality({m \in W : m <= k}) = i
  BY <1>8 DEF Surjection
<1>10. \A i \in 1 .. Cardinality(W) :
           at(i) \in W /\ Cardinality({m \in W : m <= at(i)}) = i
  BY <1>9
<1> HIDE DEF at
<1>11. \A i, j \in 1 .. Cardinality(W) : at(i) = at(j) => i = j
  BY <1>10
<1> QED BY <1>1, <1>10, <1>11 DEF at

(* Every place of Woken is one of the dependents that wait for nothing     *)
(* else, and no two are the same if none of the dependents are.            *)
LEMMA WokenOnce ==
    ASSUME NEW deps \in Seq(Nat)
    PROVE  LET W == {k \in DOMAIN deps : Wakes(deps[k]) /\ ~is_memory(deps[k])}
           IN  /\ Woken(deps) \in Seq(Nat)
               /\ \A i \in DOMAIN Woken(deps) : \E k \in W : Woken(deps)[i] = deps[k]
               /\ (\A k, m \in DOMAIN deps : deps[k] = deps[m] => k = m)
                    => \A i, j \in DOMAIN Woken(deps) :
                           Woken(deps)[i] = Woken(deps)[j] => i = j
<1> DEFINE W == {k \in DOMAIN deps : Wakes(deps[k]) /\ ~is_memory(deps[k])}
           n == Cardinality(W)
           at(i) == CHOOSE k \in W : Cardinality({m \in W : m <= k}) = i
<1>1. W \in SUBSET (1 .. Len(deps)) /\ Len(deps) \in Nat /\ DOMAIN deps = 1 .. Len(deps)
  OBVIOUS
<1>2. Woken(deps) = [i \in 1 .. n |-> deps[at(i)]]
  BY DEF Woken
<1> HIDE DEF W
<1>3. n \in Nat /\ (\A i \in 1 .. n : at(i) \in W)
      /\ \A i, j \in 1 .. n : at(i) = at(j) => i = j
  BY <1>1, OrderedMembers
<1> HIDE DEF at, n
<1>4. \A i \in 1 .. n : at(i) \in DOMAIN deps /\ deps[at(i)] \in Nat
  <2>1. \A k \in DOMAIN deps : deps[k] \in Nat
    OBVIOUS
  <2> QED BY <1>1, <1>3, <2>1
<1>5. Woken(deps) \in Seq(Nat) /\ DOMAIN Woken(deps) = 1 .. n
  BY <1>2, <1>3, <1>4
<1>6. \A i \in 1 .. n : Woken(deps)[i] = deps[at(i)]
  BY <1>2
<1> QED BY <1>3, <1>4, <1>5, <1>6 DEF W

-----------------------------------------------------------------------------
(* The invariant.                                                          *)
InstRec ==
    [scheduled : Progress, executed : Progress, num_mem_ops : Int, num_reg_dependent : Int,
     registers_instrs_depend_on_me : Seq(Nat), memory_instrs_depend_on_me : Seq(Nat),
     source_added : BOOLEAN, destination_added : BOOLEAN,
     lq_index : Nat, sq_index : Nat, due : Nat, got : Nat \cup {None}]

LoadEntry == [id : Nat, producer : Nat, translated : Progress, fetched : Progress]
StoreEntry == [id : Nat, translated : Progress, fetched : Progress]

Load == 1 .. LQ_SIZE
Store == 1 .. SQ_SIZE

LoadPacket == [queue : {"LQ"}, slot : Load, to : {"DTLB", "L1D"}]
StorePacket == [queue : {"SQ"}, slot : Store, to : {"DTLB"}]
Packet == LoadPacket \cup StorePacket

RobOK ==
    /\ prog \in Seq(Instruction) /\ inst \in Seq(InstRec) /\ Len(inst) = Len(prog)
    /\ head \in 1 .. Len(prog) + 1
    /\ ready_to_execute \in Seq(Nat)
    /\ inflight_reg_executions \in Int /\ inflight_mem_executions \in Int
    /\ mem \in [Addr -> Nat]

QueuesOK ==
    /\ LQ \in [Load -> LoadEntry] /\ SQ \in [Store -> StoreEntry]
    /\ RTL0 \in Seq(Load) /\ RTL1 \in Seq(Load)
    /\ RTS0 \in Seq(Store) /\ RTS1 \in Seq(Store)
    /\ asked \subseteq Packet /\ IsFiniteSet(asked)
    /\ DTLB_bus \in Seq(Packet) /\ L1D_bus \in Seq(LoadPacket)
    /\ \A q \in asked : q.to = "L1D" => q \in LoadPacket

-----------------------------------------------------------------------------
(* Registers.                                                              *)
Deps(i) == inst[i].registers_instrs_depend_on_me
Names(i, j) == \E k \in DOMAIN Deps(i) : Deps(i)[k] = j

(* The instructions j waits for.                                           *)
Pending(j) == {i \in 1 .. j - 1 : inst[i].executed # "COMPLETED" /\ Names(i, j)}
Older(j, reg) == {i \in 1 .. j - 1 : reg \in prog[i].dst}

RetiredDone == \A i \in 1 .. head - 1 : inst[i].executed = "COMPLETED"

DepsOK ==
    \A i \in 1 .. Len(prog) : \A k \in DOMAIN Deps(i) :
        /\ Deps(i)[k] \in i + 1 .. Len(prog)
        /\ inst[Deps(i)[k]].scheduled # "no"
        /\ \A m \in DOMAIN Deps(i) : Deps(i)[m] = Deps(i)[k] => m = k

DepsCounted ==
    \A j \in 1 .. Len(prog) : inst[j].num_reg_dependent = Cardinality(Pending(j))

DepsHeld ==
    \A j \in 1 .. Len(prog) : inst[j].scheduled # "no" =>
        \A reg \in prog[j].src : Older(j, reg) # {} =>
            \/ inst[Largest(Older(j, reg))].executed = "COMPLETED"
            \/ Largest(Older(j, reg)) \in Pending(j)

Ready(i) == \E k \in DOMAIN ready_to_execute : ready_to_execute[k] = i
Started(i) ==
    inst[i].executed # "no" \/ inst[i].source_added \/ inst[i].destination_added \/ Ready(i)

StartedReady ==
    \A i \in 1 .. Len(prog) : Started(i) =>
        inst[i].scheduled # "no" /\ inst[i].num_reg_dependent = 0

ReadyOnce ==
    \A k \in DOMAIN ready_to_execute :
        /\ ready_to_execute[k] \in 1 .. Len(prog)
        /\ ~is_memory(ready_to_execute[k])
        /\ inst[ready_to_execute[k]].executed = "no"
        /\ \A m \in DOMAIN ready_to_execute :
              ready_to_execute[m] = ready_to_execute[k] => m = k

RegInv == RetiredDone /\ DepsOK /\ DepsCounted /\ DepsHeld /\ StartedReady /\ ReadyOnce

-----------------------------------------------------------------------------
(* Memory.                                                                 *)
MemDeps(i) == inst[i].memory_instrs_depend_on_me
LoadToken(l) == Times(RTL0, l) + Times(RTL1, l) + Sent("LQ", l)
StoreToken(s) == Times(RTS0, s) + Times(RTS1, s) + Sent("SQ", s)

(* The load in slot l is on its way to the caches, as no store it needs is *)
(* in the ROB, or it waits for the store that will hand it its data.       *)
LoadSlot(l) ==
    LET i == LQ[l].id  p == LQ[l].producer
    IN  /\ i \in head .. Len(prog)
        /\ prog[i].load # None /\ inst[i].got = None
        /\ inst[i].source_added /\ inst[i].lq_index = l
        /\ IF p = 0
           THEN /\ LoadToken(l) = 1
                /\ \A j \in head .. i - 1 : prog[j].store # prog[i].load
           ELSE /\ LoadToken(l) = 0
                /\ p \in head .. i - 1 /\ prog[p].store = prog[i].load
                /\ \A j \in p + 1 .. i - 1 : prog[j].store # prog[i].load
                /\ ~HasData(p)
                /\ \E k \in DOMAIN MemDeps(p) : MemDeps(p)[k] = i

LoadSlots == \A l \in Load : IF LQ[l].id = 0 THEN LoadToken(l) = 0 ELSE LoadSlot(l)

StoreSlots ==
    \A s \in Store :
        /\ StoreToken(s) + (IF SQ[s].fetched = "COMPLETED" THEN 1 ELSE 0)
             = (IF SQ[s].id = 0 THEN 0 ELSE 1)
        /\ SQ[s].id # 0 =>
              LET i == SQ[s].id
              IN  /\ i \in head .. Len(prog) /\ prog[i].store # None
                  /\ inst[i].destination_added /\ inst[i].sq_index = s

(* Who waits for a store that has not handed its data out is in the queue. *)
MemDepsOK ==
    \A i \in head .. Len(prog) : ~HasData(i) =>
        \A k \in DOMAIN MemDeps(i) :
            LET j == MemDeps(i)[k]
            IN  /\ j \in i + 1 .. Len(prog) /\ inst[j].lq_index \in Load
                /\ LQ[inst[j].lq_index].id = j /\ LQ[inst[j].lq_index].producer = i
                /\ \A m \in DOMAIN MemDeps(i) : MemDeps(i)[m] = j => m = k

OpsCounted ==
    \A i \in head .. Len(prog) :
        /\ inst[i].num_mem_ops =
             (IF prog[i].load # None /\ inst[i].got = None THEN 1 ELSE 0)
           + (IF prog[i].store # None /\ ~HasData(i) THEN 1 ELSE 0)
        /\ ~inst[i].source_added => inst[i].got = None
        /\ inst[i].executed = "COMPLETED" => inst[i].num_mem_ops = 0

MemPending == {i \in InROB : is_memory(i) /\ inst[i].num_mem_ops = 0
                               /\ inst[i].executed # "COMPLETED"}
RegPending == {i \in InROB : ~is_memory(i) /\ inst[i].executed = "INFLIGHT"}
InflightOK ==
    /\ inflight_mem_executions = Cardinality(MemPending)
    /\ inflight_reg_executions = Cardinality(RegPending)

StoresTo(x, n) == {j \in 1 .. n : prog[j].store = x}
MemOK ==
    \A x \in Addr : mem[x] = IF StoresTo(x, head - 1) = {} THEN 0
                             ELSE Largest(StoresTo(x, head - 1))

GotOK == \A i \in 1 .. Len(prog) : inst[i].got # None => inst[i].got = LastStore(i)

MemInv == LoadSlots /\ StoreSlots /\ MemDepsOK /\ OpsCounted /\ InflightOK /\ MemOK /\ GotOK

-----------------------------------------------------------------------------
(* What the handlers do to the fields of inst.                             *)
SameWaits(j) ==
    /\ inst'[j].num_reg_dependent = inst[j].num_reg_dependent
    /\ inst'[j].registers_instrs_depend_on_me = inst[j].registers_instrs_depend_on_me

SameSlots(j) ==
    /\ inst'[j].source_added = inst[j].source_added
    /\ inst'[j].destination_added = inst[j].destination_added
    /\ inst'[j].lq_index = inst[j].lq_index
    /\ inst'[j].sq_index = inst[j].sq_index
    /\ inst'[j].memory_instrs_depend_on_me = inst[j].memory_instrs_depend_on_me

SameOps(j) ==
    /\ inst'[j].num_mem_ops = inst[j].num_mem_ops
    /\ inst'[j].got = inst[j].got

SameStage(j) ==
    /\ inst'[j].scheduled = inst[j].scheduled
    /\ inst'[j].executed = inst[j].executed

StillInst == inst' \in Seq(InstRec) /\ Len(inst') = Len(prog)

LEMMA InstTyped ==
    ASSUME RobOK
    PROVE  /\ Len(prog) \in Nat /\ DOMAIN prog = 1 .. Len(prog)
           /\ DOMAIN inst = 1 .. Len(prog)
           /\ \A j \in 1 .. Len(prog) : inst[j] \in InstRec /\ prog[j] \in Instruction
           /\ head \in Nat /\ head >= 1 /\ head <= Len(prog) + 1
BY DEF RobOK

LEMMA InstMade ==
    ASSUME RobOK, DOMAIN inst' = DOMAIN inst, inst' = [j \in DOMAIN inst |-> inst'[j]],
           \A j \in 1 .. Len(prog) : inst'[j] \in InstRec
    PROVE  StillInst
<1>1. inst' = [j \in 1 .. Len(prog) |-> inst'[j]]
  BY InstTyped
<1>2. \A f, n : n \in Nat /\ f \in [1 .. n -> InstRec] => f \in Seq(InstRec) /\ Len(f) = n
  OBVIOUS
<1>3. inst' \in [1 .. Len(prog) -> InstRec]
  BY <1>1
<1> QED BY <1>2, <1>3, InstTyped DEF StillInst

(* Records of instructions with some fields changed.                       *)
LEMMA Untouched ==
    ASSUME NEW j, inst'[j] = inst[j]
    PROVE  SameSlots(j) /\ SameOps(j) /\ SameStage(j) /\ SameWaits(j)
BY DEF SameSlots, SameOps, SameStage, SameWaits

(* do_complete_execution.                                                  *)
Completes(i) ==
    /\ i \in Completable
    /\ \A j \in 1 .. Len(prog) :
          /\ SameSlots(j) /\ SameOps(j)
          /\ inst'[j].registers_instrs_depend_on_me = inst[j].registers_instrs_depend_on_me
          /\ j # i => inst'[j].executed = inst[j].executed
          /\ Names(i, j) /\ j # i =>
                inst'[j].num_reg_dependent = inst[j].num_reg_dependent - 1
          /\ j = i \/ ~Names(i, j) => /\ inst'[j].num_reg_dependent = inst[j].num_reg_dependent
                                      /\ inst'[j].scheduled = inst[j].scheduled
          /\ inst'[j].scheduled # inst[j].scheduled => inst'[j].scheduled # "no"
    /\ inst'[i].executed = "COMPLETED"
    /\ ready_to_execute' = ready_to_execute \o Woken(Deps(i))

LEMMA CompleteEffect ==
    ASSUME RobOK, complete_inflight_instruction
    PROVE  StillInst /\ Completes(Smallest(Completable))
<1> DEFINE i == Smallest(Completable)
           deps == inst[i].registers_instrs_depend_on_me
           rec(j) == IF j = i THEN [inst[i] EXCEPT !.executed = "COMPLETED"]
                     ELSE IF \E k \in DOMAIN deps : deps[k] = j
                     THEN [inst[j] EXCEPT !.num_reg_dependent = @ - 1,
                             !.scheduled = IF ~Wakes(j) THEN @
                                           ELSE IF is_memory(j) THEN "INFLIGHT"
                                           ELSE "COMPLETED"]
                     ELSE inst[j]
<1>1. /\ inst' = [j \in DOMAIN inst |-> rec(j)]
      /\ ready_to_execute' = ready_to_execute \o Woken(deps)
      /\ Completable # {}
  BY DEF complete_inflight_instruction, MayComplete
<1>2. i \in Completable /\ i \in 1 .. Len(prog)
  <2>1. Completable \in SUBSET Nat /\ Completable \subseteq 1 .. Len(prog)
    BY InstTyped DEF Completable, InROB
  <2> QED BY <1>1, <2>1, SmallestIs
<1>3. \A j \in 1 .. Len(prog) : inst'[j] = rec(j)
  BY <1>1, InstTyped
<1> HIDE DEF i
<1>4. ASSUME NEW j \in 1 .. Len(prog)
      PROVE  /\ inst'[j] \in InstRec
             /\ SameSlots(j) /\ SameOps(j)
             /\ inst'[j].registers_instrs_depend_on_me = inst[j].registers_instrs_depend_on_me
             /\ j # i => inst'[j].executed = inst[j].executed
             /\ j = i => inst'[j].executed = "COMPLETED"
             /\ Names(i, j) /\ j # i =>
                   inst'[j].num_reg_dependent = inst[j].num_reg_dependent - 1
             /\ j = i \/ ~Names(i, j) =>
                   /\ inst'[j].num_reg_dependent = inst[j].num_reg_dependent
                   /\ inst'[j].scheduled = inst[j].scheduled
             /\ inst'[j].scheduled # inst[j].scheduled => inst'[j].scheduled # "no"
  <2>1. inst[j] \in InstRec /\ inst'[j] = rec(j)
    BY <1>3, InstTyped
  <2>2. /\ inst[j].scheduled \in Progress /\ inst[j].executed \in Progress
        /\ inst[j].num_reg_dependent \in Int /\ inst[j].due \in Nat
    BY <2>1 DEF InstRec
  <2>3. CASE j = i
    <3>1. inst'[j] = [inst[j] EXCEPT !.scheduled = inst[j].scheduled, !.executed = "COMPLETED",
                        !.due = inst[j].due, !.num_reg_dependent = inst[j].num_reg_dependent]
      BY <2>1, <2>3 DEF InstRec
    <3>2. "COMPLETED" \in Progress
      BY DEF Progress
    <3>3. /\ inst'[j] \in InstRec /\ SameSlots(j) /\ SameOps(j)
          /\ inst'[j].scheduled = inst[j].scheduled /\ inst'[j].executed = "COMPLETED"
          /\ inst'[j].num_reg_dependent = inst[j].num_reg_dependent
          /\ inst'[j].registers_instrs_depend_on_me = inst[j].registers_instrs_depend_on_me
      BY <2>1, <2>2, <3>1, <3>2 DEF InstRec, SameSlots, SameOps
    <3> QED BY <2>3, <3>3, Zenon
  <2>4. CASE j # i /\ Names(i, j)
    <3> DEFINE sch == IF ~Wakes(j) THEN inst[j].scheduled
                      ELSE IF is_memory(j) THEN "INFLIGHT" ELSE "COMPLETED"
    <3>1. inst'[j] = [inst[j] EXCEPT !.num_reg_dependent = @ - 1,
                             !.scheduled = IF ~Wakes(j) THEN @
                                           ELSE IF is_memory(j) THEN "INFLIGHT"
                                           ELSE "COMPLETED"]
      BY <2>1, <2>4 DEF Names, Deps
    <3>2. inst'[j] = [inst[j] EXCEPT !.scheduled = sch, !.executed = inst[j].executed,
                        !.due = inst[j].due, !.num_reg_dependent = inst[j].num_reg_dependent - 1]
      BY <2>1, <3>1 DEF InstRec
    <3>3. sch \in Progress /\ (sch # inst[j].scheduled => sch # "no")
      BY <2>2 DEF Progress
    <3>4. inst[j].num_reg_dependent - 1 \in Int
      BY <2>2
    <3> HIDE DEF sch
    <3>5. /\ inst'[j] \in InstRec /\ SameSlots(j) /\ SameOps(j)
          /\ inst'[j].scheduled = sch /\ inst'[j].executed = inst[j].executed
          /\ inst'[j].num_reg_dependent = inst[j].num_reg_dependent - 1
          /\ inst'[j].registers_instrs_depend_on_me = inst[j].registers_instrs_depend_on_me
      BY <2>1, <2>2, <3>2, <3>3, <3>4 DEF InstRec, SameSlots, SameOps
    <3> QED BY <2>4, <3>3, <3>5, Zenon
  <2>5. CASE j # i /\ ~Names(i, j)
    <3>1. inst'[j] = inst[j]
      BY <2>1, <2>5 DEF Names, Deps
    <3>2. SameSlots(j) /\ SameOps(j) /\ SameStage(j) /\ SameWaits(j)
      BY <3>1, Untouched
    <3> QED BY <2>1, <2>5, <3>1, <3>2, Zenon DEF SameStage, SameWaits
  <2> QED BY <2>3, <2>4, <2>5, Zenon
<1>5. StillInst
  BY <1>1, <1>4, InstMade
<1>6. Completes(i)
  BY <1>1, <1>2, <1>4, Zenon DEF Completes, Deps
<1> QED BY <1>2, <1>5, <1>6 DEF i

(* execute_instruction.                                                    *)
Executes(i) ==
    /\ ready_to_execute # <<>> /\ i = Head(ready_to_execute)
    /\ \A j \in 1 .. Len(prog) :
          /\ SameSlots(j) /\ SameOps(j) /\ SameWaits(j)
          /\ inst'[j].scheduled = inst[j].scheduled
          /\ j # i => inst'[j].executed = inst[j].executed
    /\ inst'[i].executed = "INFLIGHT"
    /\ ready_to_execute' = Tail(ready_to_execute)

LEMMA ExecuteEffect ==
    ASSUME RobOK, ReadyOnce, execute_instruction
    PROVE  StillInst /\ \E i \in 1 .. Len(prog) : Executes(i)
<1> DEFINE i == Head(ready_to_execute)
<1>1. /\ ready_to_execute # <<>> /\ ready_to_execute' = Tail(ready_to_execute)
      /\ inst' = [inst EXCEPT ![i].executed = "INFLIGHT", ![i].due = EXEC_LATENCY]
  BY DEF execute_instruction
<1>2. i \in 1 .. Len(prog)
  <2>1. 1 \in DOMAIN ready_to_execute /\ ready_to_execute[1] = i
    BY <1>1 DEF RobOK
  <2> QED BY <2>1 DEF ReadyOnce
<1> HIDE DEF i
<1>3. /\ DOMAIN inst' = DOMAIN inst /\ inst' = [j \in DOMAIN inst |-> inst'[j]]
      /\ inst'[i] = [inst[i] EXCEPT !.executed = "INFLIGHT", !.due = EXEC_LATENCY]
      /\ \A j \in 1 .. Len(prog) : j # i => inst'[j] = inst[j]
  BY <1>1, <1>2, InstTyped
<1>4. EXEC_LATENCY \in Nat /\ "INFLIGHT" \in Progress
  BY CpuAssumption DEF Progress
<1>5. /\ inst'[i] \in InstRec /\ SameSlots(i) /\ SameOps(i) /\ SameWaits(i)
      /\ inst'[i].scheduled = inst[i].scheduled /\ inst'[i].executed = "INFLIGHT"
  BY <1>2, <1>3, <1>4, InstTyped DEF InstRec, SameSlots, SameOps, SameWaits
<1>6. ASSUME NEW j \in 1 .. Len(prog)
      PROVE  /\ inst'[j] \in InstRec /\ SameSlots(j) /\ SameOps(j) /\ SameWaits(j)
             /\ inst'[j].scheduled = inst[j].scheduled
             /\ j # i => inst'[j].executed = inst[j].executed
  <2>1. CASE j = i
    BY <1>5, <2>1
  <2>2. CASE j # i
    <3>1. inst'[j] = inst[j] /\ inst[j] \in InstRec
      BY <1>3, <2>2, InstTyped
    <3> QED BY <3>1, Untouched DEF SameStage
  <2> QED BY <2>1, <2>2
<1>7. StillInst
  BY <1>3, <1>6, InstMade
<1>8. Executes(i)
  BY <1>1, <1>5, <1>6, Zenon DEF Executes, i
<1> QED BY <1>2, <1>7, <1>8

-----------------------------------------------------------------------------
(* do_scheduling.                                                          *)
LEMMA ProducersAre ==
    ASSUME RobOK, NEW i \in 1 .. Len(prog)
    PROVE  /\ IsFiniteSet(Producers(i)) /\ Cardinality(Producers(i)) \in Nat
           /\ Producers(i) \subseteq head .. i - 1
           /\ \A j \in Producers(i) : inst[j].executed # "COMPLETED"
           /\ \A reg \in prog[i].src :
                 Writers(i, reg) # {} => Largest(Writers(i, reg)) \in Producers(i)
<1>1. \A reg : Writers(i, reg) \in SUBSET (1 .. i - 1) /\ i - 1 \in Nat
  BY InstTyped DEF Writers
<1>2. \A reg : Writers(i, reg) # {} => Largest(Writers(i, reg)) \in Writers(i, reg)
  BY <1>1, LargestIs
<1>3. \A j \in Producers(i) : \E reg : j \in Writers(i, reg)
  BY <1>2 DEF Producers
<1>4. Producers(i) \subseteq head .. i - 1
  BY <1>3 DEF Writers
<1>5. \A j \in Producers(i) : inst[j].executed # "COMPLETED"
  BY <1>3 DEF Writers
<1>6. IsFiniteSet(head .. i - 1)
  BY InstTyped, FS_Interval
<1>7. IsFiniteSet(Producers(i))
  BY <1>4, <1>6, FS_Subset
<1>8. Cardinality(Producers(i)) \in Nat
  BY <1>7, FS_CardinalityType
<1>9. \A reg \in prog[i].src :
         Writers(i, reg) # {} => Largest(Writers(i, reg)) \in Producers(i)
  BY DEF Producers
<1> QED BY <1>4, <1>5, <1>7, <1>8, <1>9

Schedules(i) ==
    /\ i \in Unscheduled
    /\ \A j \in 1 .. Len(prog) :
          /\ SameSlots(j) /\ SameOps(j)
          /\ inst'[j].executed = inst[j].executed
          /\ j # i => /\ inst'[j].num_reg_dependent = inst[j].num_reg_dependent
                      /\ inst'[j].scheduled = inst[j].scheduled
          /\ j \notin Producers(i) => inst'[j].registers_instrs_depend_on_me = Deps(j)
          /\ j \in Producers(i) =>
                inst'[j].registers_instrs_depend_on_me = Append(Deps(j), i)
    /\ inst'[i].scheduled # "no"
    /\ inst'[i].num_reg_dependent = inst[i].num_reg_dependent + Cardinality(Producers(i))
    /\ ready_to_execute' = IF Producers(i) = {} /\ ~is_memory(i)
                           THEN Append(ready_to_execute, i) ELSE ready_to_execute

LEMMA ScheduleEffect ==
    ASSUME RobOK, schedule_instruction
    PROVE  StillInst /\ \E i \in Unscheduled : Schedules(i)
<1> DEFINE i == Smallest(Unscheduled)
           P == Producers(i)
           stage == IF is_memory(i) THEN "INFLIGHT" ELSE "COMPLETED"
           rec(j) == IF j = i
                     THEN [inst[i] EXCEPT !.num_reg_dependent = @ + Cardinality(P),
                                          !.scheduled = stage]
                     ELSE IF j \in P
                     THEN [inst[j] EXCEPT !.registers_instrs_depend_on_me = Append(@, i)]
                     ELSE inst[j]
<1>1. /\ inst' = [j \in DOMAIN inst |-> rec(j)]
      /\ ready_to_execute' = IF P = {} /\ ~is_memory(i)
                             THEN Append(ready_to_execute, i) ELSE ready_to_execute
      /\ Unscheduled # {}
  BY DEF schedule_instruction
<1>2. i \in Unscheduled /\ i \in 1 .. Len(prog)
  <2>1. Unscheduled \in SUBSET Nat /\ Unscheduled \subseteq 1 .. Len(prog)
    BY InstTyped DEF Unscheduled, InROB
  <2> QED BY <1>1, <2>1, SmallestIs
<1>3. \A j \in 1 .. Len(prog) : inst'[j] = rec(j)
  BY <1>1, InstTyped
<1>4. stage \in Progress /\ stage # "no"
  BY DEF Progress
<1> HIDE DEF i, stage
<1>5. i \notin P /\ Cardinality(P) \in Nat
  BY <1>2, ProducersAre
<1> HIDE DEF P
<1>6. /\ inst'[i] \in InstRec /\ SameSlots(i) /\ SameOps(i)
      /\ inst'[i].executed = inst[i].executed
      /\ inst'[i].scheduled = stage
      /\ inst'[i].num_reg_dependent = inst[i].num_reg_dependent + Cardinality(P)
      /\ inst'[i].registers_instrs_depend_on_me = Deps(i)
  <2>1. inst'[i] = [inst[i] EXCEPT !.num_reg_dependent = @ + Cardinality(P),
                                   !.scheduled = stage]
    BY <1>2, <1>3
  <2>2. inst[i] \in InstRec
    BY <1>2, InstTyped
  <2>3. inst[i].num_reg_dependent + Cardinality(P) \in Int
    BY <1>5, <2>2 DEF InstRec
  <2> QED BY <1>4, <2>1, <2>2, <2>3 DEF InstRec, SameSlots, SameOps, Deps
<1>7. ASSUME NEW j \in 1 .. Len(prog)
      PROVE  /\ inst'[j] \in InstRec /\ SameSlots(j) /\ SameOps(j)
             /\ inst'[j].executed = inst[j].executed
             /\ j # i => /\ inst'[j].num_reg_dependent = inst[j].num_reg_dependent
                         /\ inst'[j].scheduled = inst[j].scheduled
             /\ j \notin P => inst'[j].registers_instrs_depend_on_me = Deps(j)
             /\ j \in P => inst'[j].registers_instrs_depend_on_me = Append(Deps(j), i)
  <2>1. CASE j = i
    BY <1>5, <1>6, <2>1, Zenon
  <2>2. CASE j # i /\ j \in P
    <3>1. inst'[j] = [inst[j] EXCEPT !.registers_instrs_depend_on_me = Append(@, i)]
      BY <1>3, <2>2
    <3>2. inst[j] \in InstRec
      BY InstTyped
    <3>3. Append(inst[j].registers_instrs_depend_on_me, i) \in Seq(Nat)
      BY <1>2, <3>2 DEF InstRec
    <3>4. /\ inst'[j] \in InstRec /\ SameSlots(j) /\ SameOps(j)
          /\ inst'[j].executed = inst[j].executed
          /\ inst'[j].num_reg_dependent = inst[j].num_reg_dependent
          /\ inst'[j].scheduled = inst[j].scheduled
          /\ inst'[j].registers_instrs_depend_on_me = Append(Deps(j), i)
      BY <3>1, <3>2, <3>3 DEF InstRec, SameSlots, SameOps, Deps
    <3> QED BY <2>2, <3>4, Zenon
  <2>3. CASE j # i /\ j \notin P
    <3>1. inst'[j] = inst[j] /\ inst[j] \in InstRec
      BY <1>3, <2>3, InstTyped
    <3>2. SameSlots(j) /\ SameOps(j)
      BY <3>1, Untouched
    <3> QED BY <2>3, <3>1, <3>2, Zenon DEF Deps
  <2> QED BY <2>1, <2>2, <2>3, Zenon
<1>8. StillInst
  BY <1>1, <1>7, InstMade
<1>9. Schedules(i)
  BY <1>1, <1>2, <1>4, <1>6, <1>7, Zenon DEF Schedules, P
<1> QED BY <1>2, <1>8, <1>9

-----------------------------------------------------------------------------
(* RegInv is kept.                                                         *)
LEMMA PendingFinite ==
    ASSUME NEW j \in Nat
    PROVE  IsFiniteSet(Pending(j)) /\ Cardinality(Pending(j)) \in Nat
<1>1. IsFiniteSet(1 .. j - 1)
  BY FS_Interval
<1>2. Pending(j) \subseteq 1 .. j - 1
  BY DEF Pending
<1> QED BY <1>1, <1>2, FS_Subset, FS_CardinalityType

LEMMA OlderAre ==
    ASSUME RobOK, NEW j \in 1 .. Len(prog), NEW reg, Older(j, reg) # {}
    PROVE  /\ Largest(Older(j, reg)) \in 1 .. j - 1
           /\ Largest(Older(j, reg)) \in 1 .. Len(prog)
           /\ reg \in prog[Largest(Older(j, reg))].dst
           /\ \A k \in Older(j, reg) : k <= Largest(Older(j, reg))
<1>1. Older(j, reg) \in SUBSET (1 .. j - 1) /\ j - 1 \in Nat
  BY InstTyped DEF Older
<1>2. /\ Largest(Older(j, reg)) \in Older(j, reg)
      /\ \A k \in Older(j, reg) : k <= Largest(Older(j, reg))
  BY <1>1, LargestIs
<1> DEFINE m == Largest(Older(j, reg))
<1>3. /\ m \in 1 .. j - 1 /\ reg \in prog[m].dst
  BY <1>2 DEF Older
<1> HIDE DEF m
<1>4. m \in 1 .. Len(prog)
  BY <1>3, InstTyped
<1> QED BY <1>2, <1>3, <1>4 DEF m

(* Nothing happens but that instruction i, of those that may begin, enters *)
(* the memory queues; i is 0 if none does.                                 *)
OnlyMemory(i) ==
    /\ prog' = prog /\ head' = head /\ ready_to_execute' = ready_to_execute
    /\ \A j \in 1 .. Len(prog) :
          /\ SameWaits(j)
          /\ inst'[j].scheduled = "no" <=> inst[j].scheduled = "no"
          /\ inst'[j].executed = "COMPLETED" <=> inst[j].executed = "COMPLETED"
          /\ j # i => /\ inst'[j].executed = inst[j].executed
                      /\ inst'[j].source_added = inst[j].source_added
                      /\ inst'[j].destination_added = inst[j].destination_added
    /\ i \in 1 .. Len(prog) =>
          is_memory(i) /\ inst[i].scheduled # "no" /\ inst[i].num_reg_dependent = 0

LEMMA RegByMemory ==
    ASSUME RobOK, RegInv, NEW i, OnlyMemory(i)
    PROVE  RegInv'
<1>1. \A j \in 1 .. Len(prog) : Deps(j)' = Deps(j)
  BY DEF OnlyMemory, SameWaits, Deps
<1>2. \A j \in 1 .. Len(prog) : \A k : Names(j, k)' <=> Names(j, k)
  BY <1>1 DEF Names
<1>3. \A j \in 1 .. Len(prog) : Pending(j)' = Pending(j)
  <2> SUFFICES ASSUME NEW j \in 1 .. Len(prog) PROVE Pending(j)' = Pending(j)
    OBVIOUS
  <2>1. \A k \in 1 .. j - 1 : k \in 1 .. Len(prog)
    BY InstTyped
  <2>2. \A k \in 1 .. j - 1 : inst'[k].executed = "COMPLETED" <=> inst[k].executed = "COMPLETED"
    BY <2>1 DEF OnlyMemory
  <2> QED BY <1>2, <2>1, <2>2 DEF Pending
<1>4. \A j, reg : Older(j, reg)' = Older(j, reg)
  BY DEF OnlyMemory, Older
<1>5. RetiredDone'
  BY InstTyped DEF RegInv, RetiredDone, OnlyMemory
<1>6. DepsOK'
  BY <1>1 DEF RegInv, DepsOK, OnlyMemory
<1>7. DepsCounted'
  BY <1>3 DEF RegInv, DepsCounted, OnlyMemory, SameWaits
<1>8. DepsHeld'
  <2> SUFFICES ASSUME NEW j \in 1 .. Len(prog), inst'[j].scheduled # "no",
                      NEW reg \in prog[j].src, Older(j, reg) # {}
               PROVE  \/ inst'[Largest(Older(j, reg))].executed = "COMPLETED"
                      \/ Largest(Older(j, reg)) \in Pending(j)
    BY <1>3, <1>4 DEF DepsHeld, OnlyMemory
  <2>1. inst[j].scheduled # "no"
    BY DEF OnlyMemory
  <2>2. \/ inst[Largest(Older(j, reg))].executed = "COMPLETED"
        \/ Largest(Older(j, reg)) \in Pending(j)
    BY <2>1 DEF RegInv, DepsHeld
  <2>3. Largest(Older(j, reg)) \in 1 .. Len(prog)
    BY OlderAre
  <2> QED BY <2>2, <2>3 DEF OnlyMemory
<1>9. StartedReady'
  <2> SUFFICES ASSUME NEW j \in 1 .. Len(prog), Started(j)'
               PROVE  inst'[j].scheduled # "no" /\ inst'[j].num_reg_dependent = 0
    BY DEF StartedReady, OnlyMemory
  <2>1. j # i => Started(j)
    BY DEF OnlyMemory, Started, Ready
  <2>2. inst[j].scheduled # "no" /\ inst[j].num_reg_dependent = 0
    BY <2>1 DEF RegInv, StartedReady, OnlyMemory
  <2> QED BY <2>2 DEF OnlyMemory, SameWaits
<1>10. ReadyOnce'
  <2>1. \A j \in 1 .. Len(prog) : is_memory(j)' <=> is_memory(j)
    BY DEF OnlyMemory, is_memory
  <2> QED BY <2>1 DEF RegInv, ReadyOnce, OnlyMemory
<1> QED BY <1>5, <1>6, <1>7, <1>8, <1>9, <1>10 DEF RegInv

LEMMA RegByRetire ==
    ASSUME RobOK, RegInv, retire_rob
    PROVE  RegInv'
<1>1. /\ prog' = prog /\ inst' = inst /\ ready_to_execute' = ready_to_execute
      /\ head' = head + 1 /\ inst[head].executed = "COMPLETED"
  BY DEF retire_rob, MayRetire
<1>2. RetiredDone'
  <2>1. \A i \in 1 .. head' - 1 : i \in 1 .. head - 1 \/ i = head
    BY <1>1, InstTyped
  <2> QED BY <1>1, <2>1 DEF RegInv, RetiredDone
<1>3. DepsOK' /\ DepsCounted' /\ DepsHeld' /\ StartedReady' /\ ReadyOnce'
  <2>1. \A i : Deps(i)' = Deps(i)
    BY <1>1 DEF Deps
  <2>2. \A j : Pending(j)' = Pending(j)
    BY <1>1, <2>1 DEF Pending, Names
  <2>3. \A j, reg : Older(j, reg)' = Older(j, reg)
    BY <1>1 DEF Older
  <2>4. \A j : (Started(j)' <=> Started(j)) /\ (is_memory(j)' <=> is_memory(j))
    BY <1>1 DEF Started, Ready, is_memory
  <2>5. DepsOK'
    BY <1>1, <2>1 DEF RegInv, DepsOK
  <2>6. DepsCounted'
    BY <1>1, <2>2 DEF RegInv, DepsCounted
  <2>7. DepsHeld'
    BY <1>1, <2>2, <2>3 DEF RegInv, DepsHeld
  <2>8. StartedReady'
    BY <1>1, <2>4 DEF RegInv, StartedReady
  <2>9. ReadyOnce'
    BY <1>1, <2>4 DEF RegInv, ReadyOnce
  <2> QED BY <2>5, <2>6, <2>7, <2>8, <2>9
<1> QED BY <1>2, <1>3 DEF RegInv

LEMMA RegByExecute ==
    ASSUME RobOK, RegInv, prog' = prog, head' = head, NEW i \in 1 .. Len(prog), Executes(i)
    PROVE  RegInv'
<1>1. /\ 1 \in DOMAIN ready_to_execute /\ ready_to_execute[1] = i
      /\ ready_to_execute \in Seq(Nat)
  BY DEF Executes, RobOK
<1>2. inst[i].executed = "no" /\ Ready(i) /\ ~is_memory(i)
  BY <1>1 DEF RegInv, ReadyOnce, Ready
<1>3. /\ \A k \in DOMAIN ready_to_execute' :
             /\ k + 1 \in DOMAIN ready_to_execute
             /\ ready_to_execute'[k] = ready_to_execute[k + 1]
             /\ k # 0 /\ k \in Nat
      /\ DOMAIN ready_to_execute \subseteq Nat
  BY <1>1 DEF Executes
<1>4. \A j \in 1 .. Len(prog) : Deps(j)' = Deps(j)
  BY DEF Executes, SameWaits, Deps
<1>5. \A j \in 1 .. Len(prog) : \A k : Names(j, k)' <=> Names(j, k)
  BY <1>4 DEF Names
<1>6. \A j \in 1 .. Len(prog) :
         inst'[j].executed = "COMPLETED" <=> inst[j].executed = "COMPLETED"
  BY <1>2 DEF Executes
<1>7. \A j \in 1 .. Len(prog) : Pending(j)' = Pending(j)
  <2> SUFFICES ASSUME NEW j \in 1 .. Len(prog) PROVE Pending(j)' = Pending(j)
    OBVIOUS
  <2>1. \A k \in 1 .. j - 1 : k \in 1 .. Len(prog)
    BY InstTyped
  <2> QED BY <1>5, <1>6, <2>1 DEF Pending
<1>8. \A j, reg : Older(j, reg)' = Older(j, reg)
  BY DEF Older
<1>9. RetiredDone'
  BY <1>6, InstTyped DEF RegInv, RetiredDone
<1>10. DepsOK'
  BY <1>4 DEF RegInv, DepsOK, Executes
<1>11. DepsCounted'
  BY <1>7 DEF RegInv, DepsCounted, Executes, SameWaits
<1>12. DepsHeld'
  <2> SUFFICES ASSUME NEW j \in 1 .. Len(prog), inst'[j].scheduled # "no",
                      NEW reg \in prog[j].src, Older(j, reg) # {}
               PROVE  \/ inst'[Largest(Older(j, reg))].executed = "COMPLETED"
                      \/ Largest(Older(j, reg)) \in Pending(j)
    BY <1>7, <1>8 DEF DepsHeld
  <2>1. inst[j].scheduled # "no"
    BY DEF Executes
  <2>2. \/ inst[Largest(Older(j, reg))].executed = "COMPLETED"
        \/ Largest(Older(j, reg)) \in Pending(j)
    BY <2>1 DEF RegInv, DepsHeld
  <2>3. Largest(Older(j, reg)) \in 1 .. Len(prog)
    BY OlderAre
  <2> QED BY <1>6, <2>2, <2>3
<1>13. StartedReady'
  <2> SUFFICES ASSUME NEW j \in 1 .. Len(prog), Started(j)'
               PROVE  inst'[j].scheduled # "no" /\ inst'[j].num_reg_dependent = 0
    BY DEF StartedReady
  <2>1. Ready(j)' => Ready(j)
    BY <1>3 DEF Ready
  <2>2. Started(j)
    BY <1>2, <2>1 DEF Executes, SameSlots, Started
  <2>3. inst[j].scheduled # "no" /\ inst[j].num_reg_dependent = 0
    BY <2>2 DEF RegInv, StartedReady
  <2> QED BY <2>3 DEF Executes, SameWaits
<1>14. ReadyOnce'
  <2>1. \A j : is_memory(j)' <=> is_memory(j)
    BY DEF is_memory
  <2> SUFFICES ASSUME NEW k \in DOMAIN ready_to_execute'
               PROVE  /\ ready_to_execute'[k] \in 1 .. Len(prog)
                      /\ ~is_memory(ready_to_execute'[k])
                      /\ inst'[ready_to_execute'[k]].executed = "no"
                      /\ \A m \in DOMAIN ready_to_execute' :
                            ready_to_execute'[m] = ready_to_execute'[k] => m = k
    BY <2>1 DEF ReadyOnce
  <2>2. /\ ready_to_execute'[k] \in 1 .. Len(prog)
        /\ ~is_memory(ready_to_execute'[k])
        /\ inst[ready_to_execute'[k]].executed = "no"
        /\ \A m \in DOMAIN ready_to_execute :
              ready_to_execute[m] = ready_to_execute'[k] => m = k + 1
    BY <1>3 DEF RegInv, ReadyOnce
  <2>3. ready_to_execute'[k] # i
    BY <1>1, <1>3, <2>2
  <2>4. \A m \in DOMAIN ready_to_execute' :
           ready_to_execute'[m] = ready_to_execute'[k] => m = k
    BY <1>3, <2>2
  <2> QED BY <2>2, <2>3, <2>4 DEF Executes
<1> QED BY <1>9, <1>10, <1>11, <1>12, <1>13, <1>14 DEF RegInv


(* i is one of those j waits for, and it completes.                        *)
LEMMA PendingLess ==
    ASSUME RobOK, RegInv, prog' = prog, NEW i \in 1 .. Len(prog), Completes(i),
           NEW j \in 1 .. Len(prog)
    PROVE  /\ Names(i, j) => /\ i < j /\ inst[j].scheduled # "no"
                             /\ i \in Pending(j) /\ Pending(j)' = Pending(j) \ {i}
                             /\ inst[j].num_reg_dependent = Cardinality(Pending(j))
                             /\ inst[j].num_reg_dependent \in Nat \ {0}
                             /\ inst'[j].num_reg_dependent = inst[j].num_reg_dependent - 1
           /\ ~Names(i, j) => /\ Pending(j)' = Pending(j)
                              /\ inst'[j].num_reg_dependent = inst[j].num_reg_dependent
           /\ inst'[j].num_reg_dependent = Cardinality(Pending(j)')
<1>1. inst[i].executed = "INFLIGHT"
  BY DEF Completes, Completable
<1>2. Names(i, j) => i < j /\ inst[j].scheduled # "no"
  <2> SUFFICES ASSUME NEW k \in DOMAIN Deps(i), Deps(i)[k] = j
               PROVE  i < j /\ inst[j].scheduled # "no"
    BY DEF Names
  <2>1. j \in i + 1 .. Len(prog) /\ inst[j].scheduled # "no"
    BY DEF RegInv, DepsOK
  <2> QED BY <2>1
<1>3. Names(i, j) => i \in Pending(j)
  BY <1>1, <1>2 DEF Pending
<1>4. Pending(j)' = IF Names(i, j) THEN Pending(j) \ {i} ELSE Pending(j)
  <2>1. \A k \in 1 .. Len(prog) : Names(k, j)' <=> Names(k, j)
    BY DEF Completes, Names, Deps
  <2>2. \A k \in 1 .. j - 1 : k \in 1 .. Len(prog)
    BY InstTyped
  <2>3. \A k \in 1 .. j - 1 :
           inst'[k].executed # "COMPLETED" <=> inst[k].executed # "COMPLETED" /\ k # i
    BY <2>2 DEF Completes
  <2>4. \A k : k \in Pending(j)' <=> k \in 1 .. j - 1 /\ inst'[k].executed # "COMPLETED"
                                       /\ Names(k, j)
    BY <2>1, <2>2 DEF Pending
  <2>5. \A k : k \in Pending(j) <=> k \in 1 .. j - 1 /\ inst[k].executed # "COMPLETED"
                                       /\ Names(k, j)
    BY DEF Pending
  <2> QED BY <2>3, <2>4, <2>5
<1>5. inst[j].num_reg_dependent = Cardinality(Pending(j))
  BY DEF RegInv, DepsCounted
<1>6. IsFiniteSet(Pending(j)) /\ Cardinality(Pending(j)) \in Nat
  BY PendingFinite
<1>7. i \in Pending(j) => /\ Cardinality(Pending(j) \ {i}) = Cardinality(Pending(j)) - 1
                          /\ Cardinality(Pending(j)) # 0
  BY <1>6, FS_RemoveElement, FS_EmptySet
<1>8. /\ Names(i, j) => inst'[j].num_reg_dependent = inst[j].num_reg_dependent - 1
      /\ ~Names(i, j) => inst'[j].num_reg_dependent = inst[j].num_reg_dependent
  BY <1>2 DEF Completes
<1>9. CASE Names(i, j)
  <2>1. i \in Pending(j) /\ Pending(j)' = Pending(j) \ {i}
    BY <1>3, <1>4, <1>9
  <2>2. /\ inst[j].num_reg_dependent \in Nat \ {0}
        /\ inst'[j].num_reg_dependent = Cardinality(Pending(j)')
    BY <1>5, <1>6, <1>7, <1>8, <1>9, <2>1
  <2> QED BY <1>2, <1>5, <1>8, <1>9, <2>1, <2>2
<1>10. CASE ~Names(i, j)
  <2>1. Pending(j)' = Pending(j)
    BY <1>4, <1>10
  <2> QED BY <1>5, <1>8, <1>10, <2>1
<1> QED BY <1>9, <1>10

LEMMA DepsAreSeq ==
    ASSUME RobOK, NEW i \in 1 .. Len(prog)
    PROVE  Deps(i) \in Seq(Nat)
<1>1. inst[i] \in InstRec
  BY InstTyped
<1> QED BY <1>1 DEF InstRec, Deps

(* The woken wait for i alone, do not use memory, and are named once.      *)
LEMMA WokenAre ==
    ASSUME RobOK, RegInv, prog' = prog, NEW i \in 1 .. Len(prog), Completes(i)
    PROVE  LET new == Woken(Deps(i))
           IN  /\ new \in Seq(Nat)
               /\ \A k \in DOMAIN new :
                     /\ new[k] \in 1 .. Len(prog) /\ ~is_memory(new[k])
                     /\ Names(i, new[k]) /\ inst[new[k]].num_reg_dependent = 1
                     /\ \A m \in DOMAIN new : new[m] = new[k] => m = k
<1> DEFINE deps == Deps(i)
           new == Woken(deps)
           W == {k \in DOMAIN deps : Wakes(deps[k]) /\ ~is_memory(deps[k])}
<1>1. deps \in Seq(Nat)
  BY DepsAreSeq
<1>2. /\ new \in Seq(Nat)
      /\ \A k \in DOMAIN new : \E m \in W : new[k] = deps[m]
      /\ (\A k, m \in DOMAIN deps : deps[k] = deps[m] => k = m)
            => \A k, m \in DOMAIN new : new[k] = new[m] => k = m
  BY <1>1, WokenOnce
<1>3. \A k \in DOMAIN deps : deps[k] \in 1 .. Len(prog)
                             /\ \A m \in DOMAIN deps : deps[m] = deps[k] => m = k
  <2> SUFFICES ASSUME NEW k \in DOMAIN deps
               PROVE  /\ deps[k] \in 1 .. Len(prog)
                      /\ \A m \in DOMAIN deps : deps[m] = deps[k] => m = k
    OBVIOUS
  <2>1. /\ deps[k] \in i + 1 .. Len(prog)
        /\ \A m \in DOMAIN deps : deps[m] = deps[k] => m = k
    BY DEF RegInv, DepsOK
  <2> QED BY <2>1
<1>4. \A m \in W : /\ deps[m] \in 1 .. Len(prog) /\ ~is_memory(deps[m])
                   /\ Names(i, deps[m]) /\ inst[deps[m]].num_reg_dependent = 1
  BY <1>3 DEF Names, Wakes
<1> HIDE DEF W, new, deps
<1>5. \A k, m \in DOMAIN new : new[k] = new[m] => k = m
  BY <1>2, <1>3
<1> QED BY <1>2, <1>4, <1>5 DEF new, deps

LEMMA Joined ==
    ASSUME NEW T, NEW q \in Seq(T), NEW r \in Seq(T)
    PROVE  /\ q \o r \in Seq(T)
           /\ \A k \in DOMAIN (q \o r) :
                 \/ k \in DOMAIN q /\ (q \o r)[k] = q[k]
                 \/ k - Len(q) \in DOMAIN r /\ (q \o r)[k] = r[k - Len(q)] /\ k > Len(q)
           /\ \A k \in DOMAIN q : k \in Nat /\ k <= Len(q)
           /\ Len(q) \in Nat /\ DOMAIN (q \o r) \subseteq Nat
OBVIOUS

LEMMA RegByComplete ==
    ASSUME RobOK, RegInv, prog' = prog, head' = head, NEW i \in 1 .. Len(prog), Completes(i)
    PROVE  RegInv'
<1> DEFINE new == Woken(Deps(i))
<1>1. inst[i].executed = "INFLIGHT" /\ inst'[i].executed = "COMPLETED"
  BY DEF Completes, Completable
<1>2. \A j \in 1 .. Len(prog) : Deps(j)' = Deps(j)
  BY DEF Completes, Deps
<1>3. \A j \in 1 .. Len(prog) : inst[j].scheduled # "no" => inst'[j].scheduled # "no"
  BY DEF Completes
<1>4. \A j \in 1 .. Len(prog) : inst[j].executed = "COMPLETED" => inst'[j].executed = "COMPLETED"
  BY <1>1 DEF Completes
<1>5. /\ new \in Seq(Nat) /\ ready_to_execute \in Seq(Nat)
      /\ ready_to_execute' = ready_to_execute \o new
      /\ \A k \in DOMAIN new :
            /\ new[k] \in 1 .. Len(prog) /\ ~is_memory(new[k])
            /\ Names(i, new[k]) /\ inst[new[k]].num_reg_dependent = 1
            /\ \A m \in DOMAIN new : new[m] = new[k] => m = k
  BY WokenAre DEF Completes, RobOK
<1> HIDE DEF new
<1>6. /\ \A k \in DOMAIN ready_to_execute' :
            \/ k \in DOMAIN ready_to_execute /\ ready_to_execute'[k] = ready_to_execute[k]
            \/ /\ k - Len(ready_to_execute) \in DOMAIN new
               /\ ready_to_execute'[k] = new[k - Len(ready_to_execute)]
      /\ Len(ready_to_execute) \in Nat /\ DOMAIN ready_to_execute' \subseteq Nat
  BY <1>5, Joined
<1>7. \A k \in DOMAIN ready_to_execute :
         /\ ready_to_execute[k] \in 1 .. Len(prog) /\ ready_to_execute[k] # i
         /\ inst[ready_to_execute[k]].num_reg_dependent = 0
         /\ inst[ready_to_execute[k]].executed = "no" /\ ~is_memory(ready_to_execute[k])
         /\ \A m \in DOMAIN ready_to_execute :
               ready_to_execute[m] = ready_to_execute[k] => m = k
  <2> SUFFICES ASSUME NEW k \in DOMAIN ready_to_execute
               PROVE  /\ ready_to_execute[k] # i
                      /\ ready_to_execute[k] \in 1 .. Len(prog)
                      /\ inst[ready_to_execute[k]].num_reg_dependent = 0
    BY DEF RegInv, ReadyOnce
  <2>1. ready_to_execute[k] \in 1 .. Len(prog) /\ inst[ready_to_execute[k]].executed = "no"
    BY DEF RegInv, ReadyOnce
  <2>2. Started(ready_to_execute[k])
    BY DEF Started, Ready
  <2> QED BY <1>1, <2>1, <2>2 DEF RegInv, StartedReady
<1>8. \A k \in DOMAIN new : inst[new[k]].executed = "no" /\ new[k] # i
  <2> SUFFICES ASSUME NEW k \in DOMAIN new
               PROVE  inst[new[k]].executed = "no" /\ new[k] # i
    OBVIOUS
  <2>1. ~Started(new[k])
    BY <1>5 DEF RegInv, StartedReady
  <2> QED BY <1>1, <2>1 DEF Started
<1>9. RetiredDone'
  BY <1>4, InstTyped DEF RegInv, RetiredDone
<1>10. DepsOK'
  <2> SUFFICES ASSUME NEW j \in 1 .. Len(prog), NEW k \in DOMAIN Deps(j)
               PROVE  /\ Deps(j)[k] \in j + 1 .. Len(prog)
                      /\ inst'[Deps(j)[k]].scheduled # "no"
                      /\ \A m \in DOMAIN Deps(j) : Deps(j)[m] = Deps(j)[k] => m = k
    BY <1>2 DEF DepsOK
  <2>1. /\ Deps(j)[k] \in j + 1 .. Len(prog)
        /\ inst[Deps(j)[k]].scheduled # "no"
        /\ \A m \in DOMAIN Deps(j) : Deps(j)[m] = Deps(j)[k] => m = k
    BY DEF RegInv, DepsOK
  <2>2. Deps(j)[k] \in 1 .. Len(prog)
    BY <2>1
  <2> QED BY <1>3, <2>1, <2>2
<1>11. DepsCounted'
  BY PendingLess DEF DepsCounted
<1>12. DepsHeld'
  <2> SUFFICES ASSUME NEW j \in 1 .. Len(prog), inst'[j].scheduled # "no",
                      NEW reg \in prog[j].src, Older(j, reg) # {}
               PROVE  \/ inst'[Largest(Older(j, reg))].executed = "COMPLETED"
                      \/ Largest(Older(j, reg)) \in Pending(j)'
    BY DEF DepsHeld, Older
  <2>1. inst[j].scheduled # "no"
    <3>1. Names(i, j) => inst[j].scheduled # "no"
      BY PendingLess
    <3>2. ~Names(i, j) => inst'[j].scheduled = inst[j].scheduled
      BY DEF Completes
    <3> QED BY <3>1, <3>2
  <2>2. \/ inst[Largest(Older(j, reg))].executed = "COMPLETED"
        \/ Largest(Older(j, reg)) \in Pending(j)
    BY <2>1 DEF RegInv, DepsHeld
  <2>3. Largest(Older(j, reg)) \in 1 .. Len(prog)
    BY OlderAre
  <2>4. Pending(j)' = Pending(j) \ {i} \/ Pending(j)' = Pending(j)
    BY PendingLess
  <2> QED BY <1>1, <1>4, <2>2, <2>3, <2>4
<1>13. StartedReady'
  <2> SUFFICES ASSUME NEW j \in 1 .. Len(prog), Started(j)'
               PROVE  inst'[j].scheduled # "no" /\ inst'[j].num_reg_dependent = 0
    BY DEF StartedReady
  <2>1. CASE Started(j)
    <3>1. inst[j].scheduled # "no" /\ inst[j].num_reg_dependent = 0
      BY <2>1 DEF RegInv, StartedReady
    <3>2. ~Names(i, j) /\ inst'[j].num_reg_dependent = 0
      BY <3>1, PendingLess
    <3> QED BY <1>3, <3>1, <3>2
  <2>2. CASE ~Started(j)
    <3>1. j # i
      BY <1>1, <2>2 DEF Started
    <3>2. Ready(j)'
      BY <2>2, <3>1 DEF Started, Completes, SameSlots
    <3>3. PICK k \in DOMAIN ready_to_execute' : ready_to_execute'[k] = j
      BY <3>2 DEF Ready
    <3>4. k \notin DOMAIN ready_to_execute \/ ready_to_execute'[k] # ready_to_execute[k]
      BY <2>2, <3>3 DEF Started, Ready
    <3>5. PICK m \in DOMAIN new : new[m] = j
      BY <1>6, <3>3, <3>4
    <3>6. Names(i, j) /\ inst[j].num_reg_dependent = 1
      BY <1>5, <3>5
    <3>7. inst[j].scheduled # "no" /\ inst'[j].num_reg_dependent = 0
      BY <3>6, PendingLess
    <3> QED BY <1>3, <3>7
  <2> QED BY <2>1, <2>2
<1>14. ReadyOnce'
  <2>1. \A j : is_memory(j)' <=> is_memory(j)
    BY DEF is_memory
  <2>2. \A k \in DOMAIN ready_to_execute' :
           /\ ready_to_execute'[k] \in 1 .. Len(prog) /\ ready_to_execute'[k] # i
           /\ ~is_memory(ready_to_execute'[k])
           /\ inst[ready_to_execute'[k]].executed = "no"
    <3> SUFFICES ASSUME NEW k \in DOMAIN ready_to_execute'
                 PROVE  /\ ready_to_execute'[k] \in 1 .. Len(prog) /\ ready_to_execute'[k] # i
                        /\ ~is_memory(ready_to_execute'[k])
                        /\ inst[ready_to_execute'[k]].executed = "no"
      OBVIOUS
    <3>1. CASE k \in DOMAIN ready_to_execute /\ ready_to_execute'[k] = ready_to_execute[k]
      BY <1>7, <3>1
    <3>2. CASE \E m \in DOMAIN new : ready_to_execute'[k] = new[m]
      BY <1>5, <1>8, <3>2
    <3> QED BY <1>6, <3>1, <3>2
  <2>3. \A k \in DOMAIN ready_to_execute' : inst'[ready_to_execute'[k]].executed = "no"
    BY <2>2 DEF Completes
  <2>4. \A k \in DOMAIN ready_to_execute' :
           (k \in DOMAIN ready_to_execute /\ ready_to_execute'[k] = ready_to_execute[k])
              <=> inst[ready_to_execute'[k]].num_reg_dependent = 0
    BY <1>5, <1>6, <1>7
  <2>5. ASSUME NEW k \in DOMAIN ready_to_execute', NEW m \in DOMAIN ready_to_execute',
               ready_to_execute'[m] = ready_to_execute'[k]
        PROVE  m = k
    <3>1. (k \in DOMAIN ready_to_execute /\ ready_to_execute'[k] = ready_to_execute[k])
          <=> inst[ready_to_execute'[k]].num_reg_dependent = 0
      BY <2>4
    <3>2. (m \in DOMAIN ready_to_execute /\ ready_to_execute'[m] = ready_to_execute[m])
          <=> inst[ready_to_execute'[k]].num_reg_dependent = 0
      BY <2>4, <2>5
    <3>3. CASE inst[ready_to_execute'[k]].num_reg_dependent = 0
      BY <1>7, <2>5, <3>1, <3>2, <3>3
    <3>4. CASE inst[ready_to_execute'[k]].num_reg_dependent # 0
      <4>1. /\ k - Len(ready_to_execute) \in DOMAIN new
            /\ m - Len(ready_to_execute) \in DOMAIN new
            /\ ready_to_execute'[k] = new[k - Len(ready_to_execute)]
            /\ ready_to_execute'[m] = new[m - Len(ready_to_execute)]
        BY <1>6, <3>1, <3>2, <3>4
      <4>2. k - Len(ready_to_execute) = m - Len(ready_to_execute)
        BY <1>5, <2>5, <4>1
      <4> QED BY <1>6, <4>2
    <3> QED BY <3>3, <3>4
  <2> QED BY <2>1, <2>2, <2>3, <2>5 DEF ReadyOnce
<1> QED BY <1>9, <1>10, <1>11, <1>12, <1>13, <1>14 DEF RegInv


LEMMA RegBySchedule ==
    ASSUME RobOK, RegInv, prog' = prog, head' = head, NEW i \in Unscheduled, Schedules(i)
    PROVE  RegInv'
<1> DEFINE P == Producers(i)
<1>1. i \in 1 .. Len(prog) /\ i \in Nat /\ i >= head /\ inst[i].scheduled = "no"
  BY InstTyped DEF Unscheduled, InROB
<1>2. /\ P \subseteq head .. i - 1 /\ \A j \in P : inst[j].executed # "COMPLETED"
      /\ \A reg \in prog[i].src : Writers(i, reg) # {} => Largest(Writers(i, reg)) \in P
  BY <1>1, ProducersAre
<1> HIDE DEF P
<1>3. \A j \in 1 .. Len(prog) : ~Names(j, i)
  <2> SUFFICES ASSUME NEW j \in 1 .. Len(prog), NEW k \in DOMAIN Deps(j), Deps(j)[k] = i
               PROVE  FALSE
    BY DEF Names
  <2> QED BY <1>1 DEF RegInv, DepsOK
<1>4. \A j \in 1 .. Len(prog) :
         /\ Deps(j) \in Seq(Nat)
         /\ j \notin P => Deps(j)' = Deps(j)
         /\ j \in P => Deps(j)' = Append(Deps(j), i)
  BY DepsAreSeq DEF Schedules, Deps, P
<1>5. ASSUME NEW j \in 1 .. Len(prog)
      PROVE  \A k : Names(j, k)' <=> Names(j, k) \/ (k = i /\ j \in P)
  <2>1. CASE j \notin P
    BY <1>4, <2>1 DEF Names
  <2>2. CASE j \in P
    <3> DEFINE q == Deps(j)
    <3>1. q \in Seq(Nat) /\ i \in Nat /\ Deps(j)' = Append(q, i)
      BY <1>1, <1>4, <2>2
    <3> HIDE DEF q
    <3>2. \A k : (\E m \in DOMAIN Append(q, i) : Append(q, i)[m] = k)
                   <=> (\E m \in DOMAIN q : q[m] = k) \/ k = i
      <4>1. /\ \A m \in DOMAIN q : m \in DOMAIN Append(q, i) /\ Append(q, i)[m] = q[m]
            /\ Len(q) + 1 \in DOMAIN Append(q, i) /\ Append(q, i)[Len(q) + 1] = i
            /\ \A m \in DOMAIN Append(q, i) : m \in DOMAIN q \/ m = Len(q) + 1
        BY <3>1
      <4> QED BY <4>1
    <3> QED BY <2>2, <3>1, <3>2 DEF Names, q
  <2> QED BY <2>1, <2>2
<1>6. \A j \in 1 .. Len(prog) : inst'[j].executed = inst[j].executed
  BY DEF Schedules
<1>7. \A j \in 1 .. Len(prog) : Pending(j)' = IF j = i THEN P ELSE Pending(j)
  <2> SUFFICES ASSUME NEW j \in 1 .. Len(prog)
               PROVE  Pending(j)' = IF j = i THEN P ELSE Pending(j)
    OBVIOUS
  <2>1. \A k \in 1 .. j - 1 : k \in 1 .. Len(prog)
    BY InstTyped
  <2>2. \A k \in 1 .. j - 1 : Names(k, j)' <=> Names(k, j) \/ (j = i /\ k \in P)
    BY <1>5, <2>1
  <2>3. \A k \in 1 .. j - 1 : inst'[k].executed = inst[k].executed
    BY <1>6, <2>1
  <2>4. CASE j # i
    <3>1. Pending(j)' = Pending(j)
      BY <2>2, <2>3, <2>4 DEF Pending
    <3> QED BY <2>4, <3>1
  <2>5. CASE j = i
    <3>1. \A k \in 1 .. i - 1 : Names(k, i)' <=> k \in P
      BY <1>3, <2>1, <2>2, <2>5
    <3>2. \A k \in P : k \in 1 .. i - 1
      BY <1>2, InstTyped
    <3>3. \A k \in 1 .. i - 1 : inst'[k].executed = inst[k].executed
      BY <2>3, <2>5
    <3>4. Pending(i)' = P
      BY <1>2, <3>1, <3>2, <3>3 DEF Pending
    <3> QED BY <2>5, <3>4
  <2> QED BY <2>4, <2>5
<1>8. Pending(i) = {}
  <2>1. \A k \in 1 .. i - 1 : k \in 1 .. Len(prog)
    BY <1>1, InstTyped
  <2> QED BY <1>3, <2>1 DEF Pending
<1>9. inst[i].num_reg_dependent = 0
  BY <1>1, <1>8, FS_EmptySet DEF RegInv, DepsCounted
<1>10. ~Started(i)
  BY <1>1 DEF RegInv, StartedReady
<1>11. RetiredDone'
  BY <1>6, InstTyped DEF RegInv, RetiredDone
<1>12. \A j \in 1 .. Len(prog) : inst[j].scheduled # "no" => inst'[j].scheduled # "no"
  BY DEF Schedules
<1>13. DepsOK'
  <2> SUFFICES ASSUME NEW j \in 1 .. Len(prog), NEW k \in DOMAIN Deps(j)'
               PROVE  /\ Deps(j)'[k] \in j + 1 .. Len(prog)
                      /\ inst'[Deps(j)'[k]].scheduled # "no"
                      /\ \A m \in DOMAIN Deps(j)' : Deps(j)'[m] = Deps(j)'[k] => m = k
    BY DEF DepsOK
  <2>1. \A m \in DOMAIN Deps(j) :
           /\ Deps(j)[m] \in j + 1 .. Len(prog) /\ Deps(j)[m] \in 1 .. Len(prog)
           /\ inst'[Deps(j)[m]].scheduled # "no" /\ Deps(j)[m] # i
           /\ \A o \in DOMAIN Deps(j) : Deps(j)[o] = Deps(j)[m] => o = m
    <3> SUFFICES ASSUME NEW m \in DOMAIN Deps(j)
                 PROVE  /\ Deps(j)[m] \in j + 1 .. Len(prog) /\ Deps(j)[m] \in 1 .. Len(prog)
                        /\ inst'[Deps(j)[m]].scheduled # "no" /\ Deps(j)[m] # i
                        /\ \A o \in DOMAIN Deps(j) : Deps(j)[o] = Deps(j)[m] => o = m
      OBVIOUS
    <3>1. /\ Deps(j)[m] \in j + 1 .. Len(prog)
          /\ inst[Deps(j)[m]].scheduled # "no"
          /\ \A o \in DOMAIN Deps(j) : Deps(j)[o] = Deps(j)[m] => o = m
      BY DEF RegInv, DepsOK
    <3>2. Deps(j)[m] \in 1 .. Len(prog)
      BY <3>1
    <3> QED BY <1>1, <1>12, <3>1, <3>2
  <2>2. CASE j \notin P
    BY <1>4, <2>1, <2>2
  <2>3. CASE j \in P
    <3> DEFINE q == Deps(j)
    <3>1. q \in Seq(Nat) /\ Deps(j)' = Append(q, i) /\ i \in Nat
      BY <1>1, <1>4, <2>3
    <3>2. i \in j + 1 .. Len(prog)
      BY <1>1, <1>2, <2>3
    <3>3. inst'[i].scheduled # "no"
      BY DEF Schedules
    <3> HIDE DEF q
    <3>4. /\ \A m \in DOMAIN q : Append(q, i)[m] = q[m]
          /\ Append(q, i)[Len(q) + 1] = i
          /\ \A m \in DOMAIN Append(q, i) : m \in DOMAIN q \/ m = Len(q) + 1
      BY <3>1
    <3> QED BY <2>1, <3>1, <3>2, <3>3, <3>4 DEF q
  <2> QED BY <2>2, <2>3
<1>14. DepsCounted'
  <2>1. inst'[i].num_reg_dependent = Cardinality(P)
    <3>1. Cardinality(P) \in Nat
      BY <1>1, ProducersAre DEF P
    <3> QED BY <1>9, <3>1 DEF Schedules, P
  <2>2. \A j \in 1 .. Len(prog) : j # i => inst'[j].num_reg_dependent = Cardinality(Pending(j))
    BY DEF Schedules, RegInv, DepsCounted
  <2> QED BY <1>7, <2>1, <2>2 DEF DepsCounted
<1>15. DepsHeld'
  <2> SUFFICES ASSUME NEW j \in 1 .. Len(prog), inst'[j].scheduled # "no",
                      NEW reg \in prog[j].src, Older(j, reg) # {}
               PROVE  \/ inst'[Largest(Older(j, reg))].executed = "COMPLETED"
                      \/ Largest(Older(j, reg)) \in Pending(j)'
    BY DEF DepsHeld, Older
  <2> DEFINE k == Largest(Older(j, reg))
  <2>1. /\ k \in 1 .. j - 1 /\ k \in 1 .. Len(prog) /\ reg \in prog[k].dst
        /\ \A m \in Older(j, reg) : m <= k
    BY OlderAre
  <2> HIDE DEF k
  <2>2. CASE j # i
    <3>1. inst[j].scheduled # "no"
      BY <2>2 DEF Schedules
    <3>2. inst[k].executed = "COMPLETED" \/ k \in Pending(j)
      BY <3>1 DEF RegInv, DepsHeld, k
    <3> QED BY <1>6, <1>7, <2>1, <2>2, <3>2 DEF k
  <2>3. CASE j = i /\ inst[k].executed # "COMPLETED"
    <3>1. k >= head
      <4>1. k \in Nat /\ head \in Nat /\ k >= 1
        BY <2>1, InstTyped
      <4>2. ~(k \in 1 .. head - 1)
        BY <2>3 DEF RegInv, RetiredDone
      <4> QED BY <4>1, <4>2
    <3>2. k \in Writers(i, reg)
      BY <2>1, <2>3, <3>1, InstTyped DEF Writers
    <3>3. Writers(i, reg) \in SUBSET (1 .. i - 1) /\ Writers(i, reg) \subseteq Older(i, reg)
      BY InstTyped DEF Writers, Older
    <3>4. Largest(Writers(i, reg)) = k
      <4>1. \A m \in Writers(i, reg) : m <= k
        BY <2>1, <2>3, <3>3
      <4>2. i - 1 \in Nat
        BY <1>1
      <4> QED BY <3>2, <3>3, <4>1, <4>2, LargestUnique
    <3>5. k \in P
      BY <1>2, <2>3, <3>2, <3>4
    <3> QED BY <1>7, <2>3, <3>5 DEF k
  <2>4. CASE j = i /\ inst[k].executed = "COMPLETED"
    BY <1>6, <2>1, <2>4 DEF k
  <2> QED BY <2>2, <2>3, <2>4
<1>16. StartedReady' /\ ReadyOnce'
  <2>1. \A j : is_memory(j)' <=> is_memory(j)
    BY DEF is_memory
  <2>2. CASE P = {} /\ ~is_memory(i)
    <3> DEFINE q == ready_to_execute
    <3>1. q \in Seq(Nat) /\ ready_to_execute' = Append(q, i) /\ i \in Nat
      BY <1>1, <2>2 DEF RobOK, Schedules, P
    <3>2. /\ \A m \in DOMAIN q : Append(q, i)[m] = q[m]
          /\ Append(q, i)[Len(q) + 1] = i
          /\ \A m \in DOMAIN Append(q, i) : m \in DOMAIN q \/ m = Len(q) + 1
      BY <3>1
    <3>3. inst'[i].num_reg_dependent = 0
      BY <1>9, <2>2, FS_EmptySet DEF Schedules, P
    <3>4. StartedReady'
      <4> SUFFICES ASSUME NEW j \in 1 .. Len(prog), Started(j)'
                   PROVE  inst'[j].scheduled # "no" /\ inst'[j].num_reg_dependent = 0
        BY DEF StartedReady
      <4>1. CASE j = i
        BY <3>3, <4>1 DEF Schedules
      <4>2. CASE j # i
        <5>1. Ready(j)' => Ready(j)
          BY <3>1, <3>2, <4>2 DEF Ready
        <5>2. Started(j)
          BY <5>1 DEF Schedules, SameSlots, Started
        <5> QED BY <4>2, <5>2 DEF RegInv, StartedReady, Schedules
      <4> QED BY <4>1, <4>2
    <3>5. ReadyOnce'
      <4>1. \A k \in DOMAIN q : q[k] # i
        BY <1>10 DEF Started, Ready
      <4>2. inst[i].executed = "no"
        BY <1>10 DEF Started
      <4>3. \A k \in DOMAIN q :
               /\ q[k] \in 1 .. Len(prog) /\ ~is_memory(q[k]) /\ inst[q[k]].executed = "no"
               /\ \A m \in DOMAIN q : q[m] = q[k] => m = k
        BY DEF RegInv, ReadyOnce
      <4> HIDE DEF q
      <4> SUFFICES ASSUME NEW k \in DOMAIN Append(q, i)
                   PROVE  /\ Append(q, i)[k] \in 1 .. Len(prog)
                          /\ ~is_memory(Append(q, i)[k])
                          /\ inst'[Append(q, i)[k]].executed = "no"
                          /\ \A m \in DOMAIN Append(q, i) :
                                Append(q, i)[m] = Append(q, i)[k] => m = k
        BY <2>1, <3>1 DEF ReadyOnce
      <4>4. CASE k \in DOMAIN q
        BY <1>6, <3>2, <4>1, <4>3, <4>4
      <4>5. CASE k = Len(q) + 1
        BY <1>1, <1>6, <2>2, <3>2, <4>1, <4>2, <4>5
      <4> QED BY <3>2, <4>4, <4>5
    <3> QED BY <3>4, <3>5
  <2>3. CASE ~(P = {} /\ ~is_memory(i))
    <3>1. ready_to_execute' = ready_to_execute
      BY <2>3 DEF Schedules, P
    <3>2. StartedReady'
      <4> SUFFICES ASSUME NEW j \in 1 .. Len(prog), Started(j)'
                   PROVE  inst'[j].scheduled # "no" /\ inst'[j].num_reg_dependent = 0
        BY DEF StartedReady
      <4>1. Started(j)
        BY <3>1 DEF Schedules, SameSlots, Started, Ready
      <4>2. j # i
        BY <1>10, <4>1
      <4> QED BY <4>1, <4>2 DEF RegInv, StartedReady, Schedules
    <3>3. ReadyOnce'
      BY <1>6, <2>1, <3>1 DEF RegInv, ReadyOnce
    <3> QED BY <3>2, <3>3
  <2> QED BY <2>2, <2>3
<1> QED BY <1>11, <1>13, <1>14, <1>15, <1>16 DEF RegInv


(* dispatch_instruction appends a fresh record.                            *)
Dispatches(n, r) ==
    /\ n = Len(prog) + 1 /\ n \in Nat /\ Len(prog') = n
    /\ \A j \in 1 .. Len(prog) : prog'[j] = prog[j] /\ inst'[j] = inst[j]
    /\ prog'[n] = r /\ inst'[n] = NewInst(r)
    /\ \A j \in 1 .. n : j \in 1 .. Len(prog) \/ j = n

LEMMA DispatchEffect ==
    ASSUME RobOK, NEW r \in Instruction, dispatch_instruction(r)
    PROVE  /\ \E n \in Nat : Dispatches(n, r)
           /\ prog' \in Seq(Instruction) /\ inst' \in Seq(InstRec) /\ Len(inst') = Len(prog')
<1> DEFINE n == Len(prog) + 1
<1>1. prog' = Append(prog, r) /\ inst' = Append(inst, NewInst(r))
  BY DEF dispatch_instruction
<1>2. NewInst(r) \in InstRec
  BY DEF NewInst, InstRec, Progress
<1>3. /\ prog \in Seq(Instruction) /\ inst \in Seq(InstRec) /\ Len(inst) = Len(prog)
  BY DEF RobOK
<1>4. prog' \in Seq(Instruction) /\ inst' \in Seq(InstRec) /\ Len(inst') = Len(prog')
  BY <1>1, <1>2, <1>3
<1>5. /\ Len(prog') = n /\ n \in Nat /\ prog'[n] = r
      /\ \A j \in 1 .. Len(prog) : prog'[j] = prog[j]
      /\ \A j \in 1 .. n : j \in 1 .. Len(prog) \/ j = n
  BY <1>1, <1>3
<1> DEFINE new == NewInst(r)
<1> HIDE DEF new
<1>6. \A j \in 1 .. Len(inst) : Append(inst, new)[j] = inst[j]
  BY <1>3
<1>7. Append(inst, new)[Len(inst) + 1] = new
  BY <1>3
<1>8. Dispatches(n, r)
  BY <1>1, <1>3, <1>5, <1>6, <1>7 DEF Dispatches, new
<1> QED BY <1>4, <1>5, <1>8

LEMMA RegByDispatch ==
    ASSUME RobOK, RegInv, head' = head, ready_to_execute' = ready_to_execute,
           NEW n \in Nat, NEW r \in Instruction, Dispatches(n, r)
    PROVE  RegInv'
<1>1. /\ n = Len(prog) + 1 /\ Len(prog') = n
      /\ \A j \in 1 .. Len(prog) : prog'[j] = prog[j] /\ inst'[j] = inst[j] /\ j \in 1 .. n
      /\ \A j \in 1 .. n : j \in 1 .. Len(prog) \/ j = n
      /\ n \notin 1 .. Len(prog)
  BY DEF Dispatches
<1>2. /\ inst'[n].scheduled = "no" /\ inst'[n].executed = "no"
      /\ inst'[n].num_reg_dependent = 0 /\ inst'[n].registers_instrs_depend_on_me = <<>>
      /\ ~inst'[n].source_added /\ ~inst'[n].destination_added
  BY DEF Dispatches, NewInst
<1>3. \A j \in 1 .. Len(prog) : Deps(j)' = Deps(j)
  BY <1>1 DEF Deps
<1>4. \A j \in 1 .. Len(prog) : \A k : Names(j, k)' <=> Names(j, k)
  BY <1>3 DEF Names
<1>5. \A j \in 1 .. Len(prog) : \A k \in DOMAIN Deps(j) :
         /\ Deps(j)[k] \in j + 1 .. Len(prog) /\ Deps(j)[k] \in 1 .. Len(prog)
         /\ Deps(j)[k] \in j + 1 .. n
  <2> SUFFICES ASSUME NEW j \in 1 .. Len(prog), NEW k \in DOMAIN Deps(j)
               PROVE  /\ Deps(j)[k] \in j + 1 .. Len(prog) /\ Deps(j)[k] \in 1 .. Len(prog)
                      /\ Deps(j)[k] \in j + 1 .. n
    OBVIOUS
  <2>1. Deps(j)[k] \in j + 1 .. Len(prog)
    BY DEF RegInv, DepsOK
  <2> QED BY <1>1, <2>1
<1>6. RetiredDone'
  BY <1>1, InstTyped DEF RegInv, RetiredDone
<1>7. DepsOK'
  <2> SUFFICES ASSUME NEW j \in 1 .. n, NEW k \in DOMAIN Deps(j)'
               PROVE  /\ Deps(j)'[k] \in j + 1 .. n
                      /\ inst'[Deps(j)'[k]].scheduled # "no"
                      /\ \A m \in DOMAIN Deps(j)' : Deps(j)'[m] = Deps(j)'[k] => m = k
    BY <1>1 DEF DepsOK
  <2>1. CASE j = n
    BY <1>2, <2>1 DEF Deps
  <2>2. CASE j \in 1 .. Len(prog)
    <3>1. Deps(j)' = Deps(j)
      BY <1>3, <2>2
    <3>2. /\ inst[Deps(j)[k]].scheduled # "no"
          /\ \A m \in DOMAIN Deps(j) : Deps(j)[m] = Deps(j)[k] => m = k
      BY <2>2, <3>1 DEF RegInv, DepsOK
    <3>3. Deps(j)[k] \in j + 1 .. n /\ Deps(j)[k] \in 1 .. Len(prog)
      BY <1>5, <2>2, <3>1
    <3> QED BY <1>1, <3>1, <3>2, <3>3
  <2> QED BY <1>1, <2>1, <2>2
<1>8. \A j \in 1 .. Len(prog) : Pending(j)' = Pending(j)
  <2> SUFFICES ASSUME NEW j \in 1 .. Len(prog) PROVE Pending(j)' = Pending(j)
    OBVIOUS
  <2>1. \A k \in 1 .. j - 1 : k \in 1 .. Len(prog)
    BY InstTyped
  <2>2. \A k \in 1 .. j - 1 : inst'[k] = inst[k] /\ (Names(k, j)' <=> Names(k, j))
    BY <1>1, <1>4, <2>1
  <2> QED BY <2>2 DEF Pending
<1>9. DepsCounted'
  <2>1. Pending(n)' = {}
    <3>1. \A k \in 1 .. n - 1 : k \in 1 .. Len(prog)
      BY <1>1, InstTyped
    <3>2. \A k \in 1 .. Len(prog) : ~Names(k, n)
      BY <1>1, <1>5 DEF Names
    <3> QED BY <1>4, <3>1, <3>2 DEF Pending
  <2>2. inst'[n].num_reg_dependent = Cardinality(Pending(n)')
    BY <1>2, <2>1, FS_EmptySet
  <2>3. \A j \in 1 .. Len(prog) : inst'[j].num_reg_dependent = Cardinality(Pending(j)')
    BY <1>1, <1>8 DEF RegInv, DepsCounted
  <2> QED BY <1>1, <2>2, <2>3 DEF DepsCounted
<1>10. DepsHeld'
  <2> SUFFICES ASSUME NEW j \in 1 .. n, inst'[j].scheduled # "no",
                      NEW reg \in prog'[j].src, Older(j, reg)' # {}
               PROVE  \/ inst'[Largest(Older(j, reg)')].executed = "COMPLETED"
                      \/ Largest(Older(j, reg)') \in Pending(j)'
    BY <1>1 DEF DepsHeld
  <2>1. j \in 1 .. Len(prog) /\ inst[j].scheduled # "no" /\ reg \in prog[j].src
    BY <1>1, <1>2
  <2>2. Older(j, reg)' = Older(j, reg)
    <3>1. \A k \in 1 .. j - 1 : prog'[k] = prog[k]
      BY <1>1, <2>1, InstTyped
    <3> QED BY <3>1 DEF Older
  <2>3. \/ inst[Largest(Older(j, reg))].executed = "COMPLETED"
        \/ Largest(Older(j, reg)) \in Pending(j)
    BY <2>1, <2>2 DEF RegInv, DepsHeld
  <2>4. Largest(Older(j, reg)) \in 1 .. Len(prog)
    BY <2>1, <2>2, OlderAre
  <2> QED BY <1>1, <1>8, <2>1, <2>2, <2>3, <2>4
<1>11. \A k \in DOMAIN ready_to_execute : ready_to_execute[k] \in 1 .. Len(prog)
  BY DEF RegInv, ReadyOnce
<1>12. StartedReady'
  <2> SUFFICES ASSUME NEW j \in 1 .. n, Started(j)'
               PROVE  inst'[j].scheduled # "no" /\ inst'[j].num_reg_dependent = 0
    BY <1>1 DEF StartedReady
  <2>1. CASE j = n
    BY <1>1, <1>2, <1>11, <2>1 DEF Started, Ready
  <2>2. CASE j \in 1 .. Len(prog)
    BY <1>1, <2>2 DEF Started, Ready, RegInv, StartedReady
  <2> QED BY <1>1, <2>1, <2>2
<1>13. ReadyOnce'
  <2>1. \A j \in 1 .. Len(prog) : is_memory(j)' <=> is_memory(j)
    BY <1>1 DEF is_memory
  <2>2. \A j \in 1 .. Len(prog) : j \in 1 .. Len(prog')
    BY <1>1
  <2> QED BY <1>1, <1>11, <2>1, <2>2 DEF RegInv, ReadyOnce
<1> QED BY <1>6, <1>7, <1>9, <1>10, <1>12, <1>13 DEF RegInv


-----------------------------------------------------------------------------
(* Tokens: how often a slot is named by the two ready lists of its queue   *)
(* and by the packets on their way.                                        *)
For(r, queue, k) == r.queue = queue /\ r.slot = k
Fits(r, queue, k) == IF For(r, queue, k) THEN 1 ELSE 0
PacketsFor(queue, k) == {r \in Packet : For(r, queue, k)}
AskedFor(a, queue, k) == Cardinality({r \in a : For(r, queue, k)})

Named(q0, q1, a, d, b, queue, k) ==
    CountIn(q0, {k}) + CountIn(q1, {k})
    + (AskedFor(a, queue, k) + CountIn(d, PacketsFor(queue, k)) + CountIn(b, PacketsFor(queue, k)))

With(a, p) == a \cup {p}
Without(a, p) == a \ {p}

LEMMA FitsIs ==
    ASSUME NEW r, NEW queue, NEW k
    PROVE  /\ Fits(r, queue, k) \in Nat
           /\ For(r, queue, k) => Fits(r, queue, k) = 1
           /\ ~For(r, queue, k) => Fits(r, queue, k) = 0
BY DEF Fits

LEMMA AskedFinite ==
    ASSUME NEW a, IsFiniteSet(a), NEW queue, NEW k
    PROVE  /\ IsFiniteSet({r \in a : For(r, queue, k)})
           /\ AskedFor(a, queue, k) \in Nat
           /\ \A r \in a : For(r, queue, k) => AskedFor(a, queue, k) > 0
<1> DEFINE S == {r \in a : For(r, queue, k)}
<1>1. IsFiniteSet(S)
  BY FS_Subset
<1>2. Cardinality(S) \in Nat /\ (Cardinality(S) = 0 <=> S = {})
  BY <1>1, FS_CardinalityType, FS_EmptySet
<1>3. \A r \in a : For(r, queue, k) => S # {}
  OBVIOUS
<1> HIDE DEF S
<1>4. \A r \in a : For(r, queue, k) => Cardinality(S) > 0
  BY <1>2, <1>3
<1> QED BY <1>1, <1>2, <1>4 DEF AskedFor, S

LEMMA AskedAdd ==
    ASSUME NEW a, IsFiniteSet(a), NEW p, p \notin a, NEW queue, NEW k
    PROVE  AskedFor(With(a, p), queue, k) = AskedFor(a, queue, k) + Fits(p, queue, k)
<1> DEFINE S == {r \in a : For(r, queue, k)}
<1>1. IsFiniteSet(S) /\ AskedFor(a, queue, k) \in Nat
  BY AskedFinite
<1>2. {r \in With(a, p) : For(r, queue, k)} = IF For(p, queue, k) THEN S \cup {p} ELSE S
  BY DEF With
<1>3. p \notin S
  OBVIOUS
<1> HIDE DEF S
<1>4. Cardinality(S \cup {p}) = Cardinality(S) + 1
  BY <1>1, <1>3, FS_AddElement
<1>5. Cardinality(S) \in Nat
  BY <1>1, FS_CardinalityType
<1>6. AskedFor(a, queue, k) = Cardinality(S)
  BY DEF AskedFor, S
<1>7. AskedFor(With(a, p), queue, k)
        = Cardinality(IF For(p, queue, k) THEN S \cup {p} ELSE S)
  BY <1>2 DEF AskedFor
<1> QED BY <1>4, <1>5, <1>6, <1>7 DEF Fits

LEMMA AskedDrop ==
    ASSUME NEW a, IsFiniteSet(a), NEW p \in a
    PROVE  /\ IsFiniteSet(Without(a, p)) /\ p \notin Without(a, p)
           /\ With(Without(a, p), p) = a
<1>1. IsFiniteSet(a \ {p})
  BY FS_Subset
<1> QED BY <1>1 DEF With, Without

LEMMA NamedNat ==
    ASSUME NEW T, NEW q0 \in Seq(T), NEW q1 \in Seq(T), NEW a, IsFiniteSet(a),
           NEW d \in Seq(Packet), NEW b \in Seq(Packet), NEW queue, NEW k
    PROVE  /\ CountIn(q0, {k}) \in Nat /\ CountIn(q1, {k}) \in Nat
           /\ AskedFor(a, queue, k) \in Nat
           /\ CountIn(d, PacketsFor(queue, k)) \in Nat
           /\ CountIn(b, PacketsFor(queue, k)) \in Nat
BY SeqFinite, AskedFinite

LEMMA SentIs ==
    ASSUME NEW d \in Seq(Packet), NEW queue, NEW k
    PROVE  Cardinality({n \in DOMAIN d : d[n].queue = queue /\ d[n].slot = k})
             = CountIn(d, PacketsFor(queue, k))
<1>1. \A n \in DOMAIN d : d[n] \in Packet
  OBVIOUS
<1>2. {n \in DOMAIN d : d[n].queue = queue /\ d[n].slot = k}
        = {n \in DOMAIN d : d[n] \in PacketsFor(queue, k)}
  BY <1>1 DEF PacketsFor, For
<1> QED BY <1>2 DEF CountIn

LoadNamed(l) == Named(RTL0, RTL1, asked, DTLB_bus, L1D_bus, "LQ", l)
StoreNamed(s) == Named(RTS0, RTS1, asked, DTLB_bus, L1D_bus, "SQ", s)

LEMMA BusesTyped ==
    ASSUME QueuesOK PROVE DTLB_bus \in Seq(Packet) /\ L1D_bus \in Seq(Packet)
BY DEF QueuesOK, Packet

LEMMA TokensNamed ==
    ASSUME QueuesOK, QueuesOK'
    PROVE  /\ \A k : LoadToken(k) = LoadNamed(k) /\ LoadToken(k)' = LoadNamed(k)'
           /\ \A k : StoreToken(k) = StoreNamed(k) /\ StoreToken(k)' = StoreNamed(k)'
<1>1. DTLB_bus \in Seq(Packet) /\ L1D_bus \in Seq(Packet)
  BY BusesTyped
<1>2. DTLB_bus' \in Seq(Packet) /\ L1D_bus' \in Seq(Packet)
  BY DEF QueuesOK, Packet
<1>3. \A queue, k : Sent(queue, k) = AskedFor(asked, queue, k)
         + CountIn(DTLB_bus, PacketsFor(queue, k)) + CountIn(L1D_bus, PacketsFor(queue, k))
  BY <1>1, SentIs DEF Sent, AskedFor, For
<1>4. \A queue, k : Sent(queue, k)' = AskedFor(asked', queue, k)
         + CountIn(DTLB_bus', PacketsFor(queue, k)) + CountIn(L1D_bus', PacketsFor(queue, k))
  BY <1>2, SentIs DEF Sent, AskedFor, For
<1>5. \A k : LoadToken(k) = LoadNamed(k) /\ StoreToken(k) = StoreNamed(k)
  BY <1>3, TimesIsCount DEF LoadToken, StoreToken, LoadNamed, StoreNamed, Named
<1>6. \A k : LoadToken(k)' = LoadNamed(k)' /\ StoreToken(k)' = StoreNamed(k)'
  BY <1>4, TimesIsCount DEF LoadToken, StoreToken, LoadNamed, StoreNamed, Named
<1> QED BY <1>5, <1>6


LEMMA Sizes ==
    /\ LQ_SIZE \in Nat /\ SQ_SIZE \in Nat /\ Load \in SUBSET Nat /\ Store \in SUBSET Nat
    /\ 0 \notin Load /\ 0 \notin Store
BY CpuAssumption DEF Load, Store

LEMMA Fresh == EmptyLoad \in LoadEntry /\ EmptyStore \in StoreEntry
BY DEF EmptyLoad, EmptyStore, LoadEntry, StoreEntry, Progress

LEMMA EntriesStaged ==
    /\ \A l \in Load, e \in LoadEntry : /\ [e EXCEPT !.translated = "INFLIGHT"] \in LoadEntry
                                        /\ [e EXCEPT !.translated = "COMPLETED"] \in LoadEntry
                                        /\ [e EXCEPT !.fetched = "INFLIGHT"] \in LoadEntry
    /\ \A s \in Store, e \in StoreEntry : /\ [e EXCEPT !.translated = "INFLIGHT"] \in StoreEntry
                                          /\ [e EXCEPT !.translated = "COMPLETED"] \in StoreEntry
                                          /\ [e EXCEPT !.fetched = "COMPLETED"] \in StoreEntry
BY DEF LoadEntry, StoreEntry, Progress

LEMMA Requests ==
    /\ \A l \in Load : /\ Request("LQ", l, "DTLB") \in LoadPacket
                       /\ Request("LQ", l, "L1D") \in LoadPacket
    /\ \A s \in Store : Request("SQ", s, "DTLB") \in StorePacket
    /\ \A k, to, q : (Request(q, k, to).to = to) /\ For(Request(q, k, to), q, k)
BY DEF Request, LoadPacket, StorePacket, For

LEMMA EndsOfQueue ==
    ASSUME NEW T, NEW q \in Seq(T), q # <<>>
    PROVE  Head(q) \in T /\ Tail(q) \in Seq(T)
OBVIOUS

(* do_translate_store, do_translate_load and execute_load.                 *)
LEMMA QueuesByAsk ==
    ASSUME QueuesOK, do_translate_store \/ do_translate_load \/ execute_load
    PROVE  QueuesOK'
<1>1. \A p \in Packet : (p.to = "L1D" => p \in LoadPacket)
         => /\ asked \cup {p} \subseteq Packet /\ IsFiniteSet(asked \cup {p})
            /\ \A q \in asked \cup {p} : q.to = "L1D" => q \in LoadPacket
  BY FS_AddElement DEF QueuesOK
<1>2. CASE do_translate_store
  <2>1. Head(RTS0) \in Store /\ RTS0' \in Seq(Store)
    BY <1>2, EndsOfQueue DEF do_translate_store, QueuesOK
  <2>2. Request("SQ", Head(RTS0), "DTLB") \in Packet
    BY <2>1, Requests DEF Packet
  <2>3. SQ' \in [Store -> StoreEntry]
    BY <1>2, <2>1, EntriesStaged DEF do_translate_store, QueuesOK
  <2>4. Request("SQ", Head(RTS0), "DTLB").to # "L1D"
    BY DEF Request
  <2>5. /\ asked' \subseteq Packet /\ IsFiniteSet(asked')
        /\ \A q \in asked' : q.to = "L1D" => q \in LoadPacket
    BY <1>1, <1>2, <2>2, <2>4 DEF do_translate_store
  <2> QED BY <1>2, <2>1, <2>3, <2>5 DEF do_translate_store, QueuesOK
<1>3. CASE do_translate_load
  <2>1. Head(RTL0) \in Load /\ RTL0' \in Seq(Load)
    BY <1>3, EndsOfQueue DEF do_translate_load, QueuesOK
  <2>2. Request("LQ", Head(RTL0), "DTLB") \in LoadPacket
    BY <2>1, Requests
  <2>3. LQ' \in [Load -> LoadEntry]
    BY <1>3, <2>1, EntriesStaged DEF do_translate_load, QueuesOK
  <2>4. /\ asked' \subseteq Packet /\ IsFiniteSet(asked')
        /\ \A q \in asked' : q.to = "L1D" => q \in LoadPacket
    BY <1>1, <1>3, <2>2 DEF do_translate_load, Packet
  <2> QED BY <1>3, <2>1, <2>3, <2>4 DEF do_translate_load, QueuesOK
<1>4. CASE execute_load
  <2>1. Head(RTL1) \in Load /\ RTL1' \in Seq(Load)
    BY <1>4, EndsOfQueue DEF execute_load, QueuesOK
  <2>2. Request("LQ", Head(RTL1), "L1D") \in LoadPacket
    BY <2>1, Requests
  <2>3. LQ' \in [Load -> LoadEntry]
    BY <1>4, <2>1, EntriesStaged DEF execute_load, QueuesOK
  <2>4. /\ asked' \subseteq Packet /\ IsFiniteSet(asked')
        /\ \A q \in asked' : q.to = "L1D" => q \in LoadPacket
    BY <1>1, <1>4, <2>2 DEF execute_load, Packet
  <2> QED BY <1>4, <2>1, <2>3, <2>4 DEF execute_load, QueuesOK
<1> QED BY <1>2, <1>3, <1>4

LEMMA QueuesByAnswer ==
    ASSUME QueuesOK, NEW r \in asked, Answer(r)
    PROVE  QueuesOK'
<1>1. asked' = asked \ {r} /\ IsFiniteSet(asked \ {r})
  BY FS_Subset DEF Answer, QueuesOK
<1>2. CASE r.to = "DTLB"
  <2>1. DTLB_bus' = Append(DTLB_bus, r) /\ L1D_bus' = L1D_bus /\ r \in Packet
    BY <1>2 DEF Answer, QueuesOK
  <2>2. DTLB_bus' \in Seq(Packet)
    BY <2>1 DEF QueuesOK
  <2> QED BY <1>1, <2>1, <2>2 DEF Answer, QueuesOK, lsq
<1>3. CASE r.to # "DTLB"
  <2>1. r \in LoadPacket
    BY <1>3 DEF QueuesOK, Packet, LoadPacket, StorePacket
  <2>2. L1D_bus' = Append(L1D_bus, r) /\ DTLB_bus' = DTLB_bus
    BY <1>3 DEF Answer
  <2>3. L1D_bus' \in Seq(LoadPacket)
    BY <2>1, <2>2 DEF QueuesOK
  <2> QED BY <1>1, <2>2, <2>3 DEF Answer, QueuesOK, lsq
<1> QED BY <1>2, <1>3

LEMMA QueuesByReturn ==
    ASSUME QueuesOK, ReturnDTLB \/ ReturnL1D
    PROVE  QueuesOK'
<1>1. CASE ReturnDTLB
  <2> DEFINE p == Head(DTLB_bus)  k == p.slot
  <2>1. p \in Packet /\ DTLB_bus' \in Seq(Packet)
    BY <1>1, EndsOfQueue DEF ReturnDTLB, QueuesOK
  <2>2. CASE p.queue = "SQ"
    <3>1. k \in Store
      BY <2>1, <2>2 DEF Packet, LoadPacket, StorePacket
    <3>2. /\ SQ' = [SQ EXCEPT ![k].translated = "COMPLETED"] /\ RTS1' = Append(RTS1, k)
          /\ LQ' = LQ /\ RTL1' = RTL1
      BY <1>1, <2>2 DEF ReturnDTLB
    <3> HIDE DEF k
    <3>3. SQ \in [Store -> StoreEntry] /\ RTS1 \in Seq(Store)
      BY DEF QueuesOK
    <3>4. SQ' \in [Store -> StoreEntry]
      BY <3>1, <3>2, <3>3, EntriesStaged
    <3>5. RTS1' \in Seq(Store)
      BY <3>1, <3>2, <3>3
    <3> QED BY <1>1, <2>1, <3>2, <3>4, <3>5 DEF ReturnDTLB, QueuesOK
  <2>3. CASE p.queue # "SQ"
    <3>1. k \in Load
      BY <2>1, <2>3 DEF Packet, LoadPacket, StorePacket
    <3>2. /\ LQ' = [LQ EXCEPT ![k].translated = "COMPLETED"] /\ RTL1' = Append(RTL1, k)
          /\ SQ' = SQ /\ RTS1' = RTS1
      BY <1>1, <2>3 DEF ReturnDTLB
    <3> HIDE DEF k
    <3>3. LQ \in [Load -> LoadEntry] /\ RTL1 \in Seq(Load)
      BY DEF QueuesOK
    <3>4. LQ' \in [Load -> LoadEntry]
      BY <3>1, <3>2, <3>3, EntriesStaged
    <3>5. RTL1' \in Seq(Load)
      BY <3>1, <3>2, <3>3
    <3> QED BY <1>1, <2>1, <3>2, <3>4, <3>5 DEF ReturnDTLB, QueuesOK
  <2> QED BY <2>2, <2>3
<1>2. CASE ReturnL1D
  <2>1. L1D_bus' \in Seq(LoadPacket)
    BY <1>2, EndsOfQueue DEF ReturnL1D, QueuesOK
  <2>2. LQ' = [LQ EXCEPT ![Head(L1D_bus).slot] = EmptyLoad]
    BY <1>2 DEF ReturnL1D
  <2>3. LQ' \in [Load -> LoadEntry]
    BY <2>2, Fresh DEF QueuesOK
  <2> QED BY <1>2, <2>1, <2>3 DEF ReturnL1D, QueuesOK
<1> QED BY <1>1, <1>2

LEMMA QueuesByExecute ==
    ASSUME QueuesOK, execute_store
    PROVE  QueuesOK'
<1>1. Head(RTS1) \in Store /\ RTS1' \in Seq(Store)
  BY EndsOfQueue DEF execute_store, QueuesOK
<1>2. SQ' = [SQ EXCEPT ![Head(RTS1)].fetched = "COMPLETED"]
  BY DEF execute_store
<1>3. SQ' \in [Store -> StoreEntry]
  BY <1>1, <1>2, EntriesStaged DEF QueuesOK
<1>4. PICK loads : LQ' = Freed(loads)
  BY DEF execute_store
<1>5. LQ' \in [Load -> LoadEntry]
  BY <1>4, Fresh DEF QueuesOK, Freed, Load
<1> QED BY <1>1, <1>3, <1>5 DEF execute_store, QueuesOK, caches

LEMMA QueuesByRetire ==
    ASSUME QueuesOK, retire_rob
    PROVE  QueuesOK'
<1>1. SQ' = SQ \/ SQ' = [SQ EXCEPT ![inst[head].sq_index] = EmptyStore]
  BY DEF retire_rob, RetireStore
<1>2. SQ' \in [Store -> StoreEntry]
  BY <1>1, Fresh DEF QueuesOK
<1> QED BY <1>2 DEF retire_rob, QueuesOK, caches


-----------------------------------------------------------------------------
(* How tokens move.                                                        *)
LEMMA NamedSwap ==
    ASSUME NEW T, NEW q0 \in Seq(T), NEW q1 \in Seq(T), NEW a, IsFiniteSet(a),
           NEW d \in Seq(Packet), NEW b \in Seq(Packet), NEW queue, NEW k
    PROVE  /\ Named(q0, q1, a, d, b, queue, k) = Named(q1, q0, a, d, b, queue, k)
           /\ Named(q0, q1, a, d, b, queue, k) = Named(q0, q1, a, b, d, queue, k)
           /\ Named(q0, q1, a, d, b, queue, k) \in Nat
<1>1. /\ CountIn(q0, {k}) \in Nat /\ CountIn(q1, {k}) \in Nat
      /\ AskedFor(a, queue, k) \in Nat
      /\ CountIn(d, PacketsFor(queue, k)) \in Nat
      /\ CountIn(b, PacketsFor(queue, k)) \in Nat
  BY NamedNat
<1> QED BY <1>1 DEF Named

LEMMA NamedTail ==
    ASSUME NEW T, NEW q0 \in Seq(T), q0 # <<>>, NEW q1 \in Seq(T), NEW a, IsFiniteSet(a),
           NEW d \in Seq(Packet), NEW b \in Seq(Packet), NEW queue, NEW k
    PROVE  Named(q0, q1, a, d, b, queue, k)
             = Named(Tail(q0), q1, a, d, b, queue, k) + (IF Head(q0) = k THEN 1 ELSE 0)
<1>1. Tail(q0) \in Seq(T)
  BY EndsOfQueue
<1>2. CountIn(q0, {k}) = CountIn(Tail(q0), {k}) + (IF Head(q0) \in {k} THEN 1 ELSE 0)
  BY CountTail
<1>3. /\ CountIn(Tail(q0), {k}) \in Nat /\ CountIn(q1, {k}) \in Nat
      /\ AskedFor(a, queue, k) \in Nat
      /\ CountIn(d, PacketsFor(queue, k)) \in Nat
      /\ CountIn(b, PacketsFor(queue, k)) \in Nat
  BY <1>1, NamedNat
<1> QED BY <1>2, <1>3 DEF Named

LEMMA NamedAppend ==
    ASSUME NEW T, NEW q0 \in Seq(T), NEW x \in T, NEW q1 \in Seq(T), NEW a, IsFiniteSet(a),
           NEW d \in Seq(Packet), NEW b \in Seq(Packet), NEW queue, NEW k
    PROVE  Named(Append(q0, x), q1, a, d, b, queue, k)
             = Named(q0, q1, a, d, b, queue, k) + (IF x = k THEN 1 ELSE 0)
<1>1. CountIn(Append(q0, x), {k}) = CountIn(q0, {k}) + (IF x \in {k} THEN 1 ELSE 0)
  BY CountAppend
<1>2. /\ CountIn(q0, {k}) \in Nat /\ CountIn(q1, {k}) \in Nat
      /\ AskedFor(a, queue, k) \in Nat
      /\ CountIn(d, PacketsFor(queue, k)) \in Nat
      /\ CountIn(b, PacketsFor(queue, k)) \in Nat
  BY NamedNat
<1> QED BY <1>1, <1>2 DEF Named

LEMMA NamedAdd ==
    ASSUME NEW T, NEW q0 \in Seq(T), NEW q1 \in Seq(T), NEW a, IsFiniteSet(a),
           NEW d \in Seq(Packet), NEW b \in Seq(Packet), NEW p, p \notin a, NEW queue, NEW k
    PROVE  Named(q0, q1, With(a, p), d, b, queue, k)
             = Named(q0, q1, a, d, b, queue, k) + Fits(p, queue, k)
<1>1. AskedFor(With(a, p), queue, k) = AskedFor(a, queue, k) + Fits(p, queue, k)
  BY AskedAdd
<1>2. /\ CountIn(q0, {k}) \in Nat /\ CountIn(q1, {k}) \in Nat
      /\ AskedFor(a, queue, k) \in Nat
      /\ CountIn(d, PacketsFor(queue, k)) \in Nat
      /\ CountIn(b, PacketsFor(queue, k)) \in Nat
  BY NamedNat
<1> QED BY <1>1, <1>2, FitsIs DEF Named

LEMMA NamedDrop ==
    ASSUME NEW T, NEW q0 \in Seq(T), NEW q1 \in Seq(T), NEW a, IsFiniteSet(a),
           NEW d \in Seq(Packet), NEW b \in Seq(Packet), NEW p \in a, NEW queue, NEW k
    PROVE  Named(q0, q1, a, d, b, queue, k)
             = Named(q0, q1, Without(a, p), d, b, queue, k) + Fits(p, queue, k)
<1> DEFINE c == Without(a, p)
<1>1. IsFiniteSet(c) /\ p \notin c /\ With(c, p) = a
  BY AskedDrop
<1> HIDE DEF c
<1>2. Named(q0, q1, With(c, p), d, b, queue, k)
        = Named(q0, q1, c, d, b, queue, k) + Fits(p, queue, k)
  BY <1>1, NamedAdd
<1> QED BY <1>1, <1>2 DEF c

LEMMA NamedReceive ==
    ASSUME NEW T, NEW q0 \in Seq(T), NEW q1 \in Seq(T), NEW a, IsFiniteSet(a),
           NEW d \in Seq(Packet), NEW b \in Seq(Packet), NEW p \in Packet, NEW queue, NEW k
    PROVE  Named(q0, q1, a, Append(d, p), b, queue, k)
             = Named(q0, q1, a, d, b, queue, k) + Fits(p, queue, k)
<1> DEFINE S == PacketsFor(queue, k)
<1>1. p \in S <=> For(p, queue, k)
  BY DEF PacketsFor
<1> HIDE DEF S
<1>2. CountIn(Append(d, p), S) = CountIn(d, S) + (IF p \in S THEN 1 ELSE 0)
  BY CountAppend
<1>3. /\ CountIn(q0, {k}) \in Nat /\ CountIn(q1, {k}) \in Nat
      /\ AskedFor(a, queue, k) \in Nat
      /\ CountIn(d, S) \in Nat /\ CountIn(b, S) \in Nat
  BY NamedNat DEF S
<1> QED BY <1>1, <1>2, <1>3 DEF Named, S, Fits

LEMMA NamedRead ==
    ASSUME NEW T, NEW q0 \in Seq(T), NEW q1 \in Seq(T), NEW a, IsFiniteSet(a),
           NEW d \in Seq(Packet), d # <<>>, NEW b \in Seq(Packet), NEW queue, NEW k
    PROVE  Named(q0, q1, a, d, b, queue, k)
             = Named(q0, q1, a, Tail(d), b, queue, k) + Fits(Head(d), queue, k)
<1> DEFINE S == PacketsFor(queue, k)
           p == Head(d)
<1>1. p \in Packet /\ Tail(d) \in Seq(Packet)
  BY EndsOfQueue
<1>2. p \in S <=> For(p, queue, k)
  BY <1>1 DEF PacketsFor
<1>3. CountIn(d, S) = CountIn(Tail(d), S) + (IF p \in S THEN 1 ELSE 0)
  BY CountTail
<1> HIDE DEF S, p
<1>4. /\ CountIn(q0, {k}) \in Nat /\ CountIn(q1, {k}) \in Nat
      /\ AskedFor(a, queue, k) \in Nat
      /\ CountIn(Tail(d), S) \in Nat /\ CountIn(b, S) \in Nat
  BY <1>1, NamedNat DEF S
<1> QED BY <1>2, <1>3, <1>4 DEF Named, S, p, Fits

(* From a ready list to the caches: the slot had one token, so the packet  *)
(* is new.                                                                 *)
LEMMA NamedAsk ==
    ASSUME NEW T, NEW q0 \in Seq(T), q0 # <<>>, NEW q1 \in Seq(T), NEW a, IsFiniteSet(a),
           NEW d \in Seq(Packet), NEW b \in Seq(Packet), NEW queue, NEW p,
           For(p, queue, Head(q0)), Named(q0, q1, a, d, b, queue, Head(q0)) <= 1
    PROVE  /\ p \notin a
           /\ \A k : Named(Tail(q0), q1, With(a, p), d, b, queue, k)
                       = Named(q0, q1, a, d, b, queue, k)
<1> DEFINE h == Head(q0)
           t == Tail(q0)
           e == Without(a, p)
<1>1. t \in Seq(T)
  BY EndsOfQueue
<1>2. \A k : Named(q0, q1, a, d, b, queue, k)
               = Named(t, q1, a, d, b, queue, k) + (IF h = k THEN 1 ELSE 0)
  BY NamedTail
<1>3. For(p, queue, h) /\ Named(q0, q1, a, d, b, queue, h) <= 1
  OBVIOUS
<1> HIDE DEF h, t, e
<1>4. \A k : Named(t, q1, a, d, b, queue, k) \in Nat
  BY <1>1, NamedSwap
<1>5. p \notin a
  <2> SUFFICES ASSUME p \in a PROVE FALSE
    OBVIOUS
  <2>1. Named(t, q1, a, d, b, queue, h)
          = Named(t, q1, e, d, b, queue, h) + Fits(p, queue, h)
    BY <1>1, NamedDrop DEF e
  <2>2. Named(t, q1, e, d, b, queue, h) \in Nat
    BY <1>1, NamedSwap, AskedDrop DEF e
  <2>3. Named(q0, q1, a, d, b, queue, h) = Named(t, q1, a, d, b, queue, h) + 1
    BY <1>2
  <2>4. Fits(p, queue, h) = 1
    BY <1>3, FitsIs
  <2> QED BY <1>3, <2>1, <2>2, <2>3, <2>4
<1>6. \A k : Named(t, q1, With(a, p), d, b, queue, k)
               = Named(t, q1, a, d, b, queue, k) + Fits(p, queue, k)
  BY <1>1, <1>5, NamedAdd
<1>7. \A k : Fits(p, queue, k) = IF h = k THEN 1 ELSE 0
  BY <1>3 DEF For, Fits
<1> QED BY <1>2, <1>4, <1>5, <1>6, <1>7 DEF t

TokensSame ==
    /\ \A l \in Load : LoadToken(l)' = LoadToken(l)
    /\ \A s \in Store : StoreToken(s)' = StoreToken(s)

LEMMA TokensNat ==
    ASSUME QueuesOK
    PROVE  /\ \A k : LoadNamed(k) \in Nat /\ StoreNamed(k) \in Nat
           /\ \A k : LoadToken(k) \in Nat /\ StoreToken(k) \in Nat
           /\ \A k : LoadToken(k) = LoadNamed(k) /\ StoreToken(k) = StoreNamed(k)
<1>1. DTLB_bus \in Seq(Packet) /\ L1D_bus \in Seq(Packet)
  BY BusesTyped
<1>2. /\ RTL0 \in Seq(Load) /\ RTL1 \in Seq(Load) /\ RTS0 \in Seq(Store) /\ RTS1 \in Seq(Store)
      /\ IsFiniteSet(asked)
  BY DEF QueuesOK
<1>3. \A k : LoadNamed(k) \in Nat /\ StoreNamed(k) \in Nat
  BY <1>1, <1>2, NamedSwap DEF LoadNamed, StoreNamed
<1>4. \A queue, k : Sent(queue, k) = AskedFor(asked, queue, k)
         + CountIn(DTLB_bus, PacketsFor(queue, k)) + CountIn(L1D_bus, PacketsFor(queue, k))
  BY <1>1, SentIs DEF Sent, AskedFor, For
<1>5. \A k : LoadToken(k) = LoadNamed(k) /\ StoreToken(k) = StoreNamed(k)
  BY <1>4, TimesIsCount DEF LoadToken, StoreToken, LoadNamed, StoreNamed, Named
<1> QED BY <1>3, <1>5

LEMMA AtMostOnce ==
    ASSUME QueuesOK, MemInv
    PROVE  /\ \A l \in Load : LoadToken(l) \in {0, 1}
           /\ \A s \in Store : StoreToken(s) \in {0, 1}
<1>1. \A l \in Load : LoadToken(l) \in {0, 1}
  BY DEF MemInv, LoadSlots, LoadSlot
<1>2. ASSUME NEW s \in Store PROVE StoreToken(s) \in {0, 1}
  <2>1. StoreToken(s) + (IF SQ[s].fetched = "COMPLETED" THEN 1 ELSE 0)
             = (IF SQ[s].id = 0 THEN 0 ELSE 1)
    BY DEF MemInv, StoreSlots
  <2>2. StoreToken(s) \in Nat
    BY TokensNat
  <2> QED BY <2>1, <2>2
<1> QED BY <1>1, <1>2

(* What the slot named first by a list or a bus has.                       *)
LEMMA TokensByAsk ==
    ASSUME QueuesOK, QueuesOK', MemInv,
           do_translate_store \/ do_translate_load \/ execute_load
    PROVE  TokensSame
<1>1. /\ \A k : LoadToken(k) = LoadNamed(k) /\ LoadToken(k)' = LoadNamed(k)'
      /\ \A k : StoreToken(k) = StoreNamed(k) /\ StoreToken(k)' = StoreNamed(k)'
  BY TokensNamed
<1>2. /\ RTL0 \in Seq(Load) /\ RTL1 \in Seq(Load) /\ RTS0 \in Seq(Store) /\ RTS1 \in Seq(Store)
      /\ DTLB_bus \in Seq(Packet) /\ L1D_bus \in Seq(Packet) /\ IsFiniteSet(asked)
  BY BusesTyped DEF QueuesOK
<1>3. ASSUME NEW p, NEW o, o # p.queue, p \notin asked, asked' = With(asked, p),
             NEW T, NEW q0 \in Seq(T), NEW q1 \in Seq(T), NEW k
      PROVE  Named(q0, q1, asked', DTLB_bus, L1D_bus, o, k)
               = Named(q0, q1, asked, DTLB_bus, L1D_bus, o, k)
  <2>1. Named(q0, q1, asked', DTLB_bus, L1D_bus, o, k)
          = Named(q0, q1, asked, DTLB_bus, L1D_bus, o, k) + Fits(p, o, k)
    BY <1>2, <1>3, NamedAdd
  <2>2. Fits(p, o, k) = 0
    BY <1>3, FitsIs DEF For
  <2>3. Named(q0, q1, asked, DTLB_bus, L1D_bus, o, k) \in Nat
    BY <1>2, NamedSwap
  <2> QED BY <2>1, <2>2, <2>3
<1>4. CASE do_translate_store
  <2> DEFINE h == Head(RTS0)
             p == Request("SQ", h, "DTLB")
  <2>1. /\ RTS0 # <<>> /\ RTS0' = Tail(RTS0) /\ asked' = With(asked, p)
        /\ RTS1' = RTS1 /\ RTL0' = RTL0 /\ RTL1' = RTL1
        /\ DTLB_bus' = DTLB_bus /\ L1D_bus' = L1D_bus
    BY <1>4 DEF do_translate_store, With
  <2>2. h \in Store /\ For(p, "SQ", h) /\ p.queue = "SQ"
    BY <1>2, <2>1, EndsOfQueue, Requests DEF For
  <2>3. /\ Named(RTS0, RTS1, asked, DTLB_bus, L1D_bus, "SQ", Head(RTS0)) <= 1
        /\ For(p, "SQ", Head(RTS0))
    BY <1>1, <2>2, AtMostOnce DEF StoreNamed
  <2> HIDE DEF p, h
  <2>4. /\ p \notin asked
        /\ \A k : Named(Tail(RTS0), RTS1, asked', DTLB_bus, L1D_bus, "SQ", k)
                    = Named(RTS0, RTS1, asked, DTLB_bus, L1D_bus, "SQ", k)
    BY <1>2, <2>1, <2>2, <2>3, NamedAsk
  <2>5. \A s : StoreNamed(s)' = StoreNamed(s)
    BY <2>1, <2>4 DEF StoreNamed
  <2>6. \A l : LoadNamed(l)' = LoadNamed(l)
    BY <1>2, <1>3, <2>1, <2>2, <2>4 DEF LoadNamed
  <2> QED BY <1>1, <2>5, <2>6 DEF TokensSame
<1>5. CASE do_translate_load
  <2> DEFINE h == Head(RTL0)
             p == Request("LQ", h, "DTLB")
  <2>1. /\ RTL0 # <<>> /\ RTL0' = Tail(RTL0) /\ asked' = With(asked, p)
        /\ RTS1' = RTS1 /\ RTS0' = RTS0 /\ RTL1' = RTL1
        /\ DTLB_bus' = DTLB_bus /\ L1D_bus' = L1D_bus
    BY <1>5 DEF do_translate_load, With
  <2>2. h \in Load /\ For(p, "LQ", h) /\ p.queue = "LQ"
    BY <1>2, <2>1, EndsOfQueue, Requests DEF For
  <2>3. /\ Named(RTL0, RTL1, asked, DTLB_bus, L1D_bus, "LQ", Head(RTL0)) <= 1
        /\ For(p, "LQ", Head(RTL0))
    BY <1>1, <2>2, AtMostOnce DEF LoadNamed
  <2> HIDE DEF p, h
  <2>4. /\ p \notin asked
        /\ \A k : Named(Tail(RTL0), RTL1, asked', DTLB_bus, L1D_bus, "LQ", k)
                    = Named(RTL0, RTL1, asked, DTLB_bus, L1D_bus, "LQ", k)
    BY <1>2, <2>1, <2>2, <2>3, NamedAsk
  <2>5. \A l : LoadNamed(l)' = LoadNamed(l)
    BY <2>1, <2>4 DEF LoadNamed
  <2>6. \A s : StoreNamed(s)' = StoreNamed(s)
    BY <1>2, <1>3, <2>1, <2>2, <2>4 DEF StoreNamed
  <2> QED BY <1>1, <2>5, <2>6 DEF TokensSame
<1>6. CASE execute_load
  <2> DEFINE h == Head(RTL1)
             p == Request("LQ", h, "L1D")
  <2>1. /\ RTL1 # <<>> /\ RTL1' = Tail(RTL1) /\ asked' = With(asked, p)
        /\ RTS1' = RTS1 /\ RTS0' = RTS0 /\ RTL0' = RTL0
        /\ DTLB_bus' = DTLB_bus /\ L1D_bus' = L1D_bus
    BY <1>6 DEF execute_load, With
  <2>2. h \in Load /\ For(p, "LQ", h) /\ p.queue = "LQ"
    BY <1>2, <2>1, EndsOfQueue, Requests DEF For
  <2>3. \A k, a : IsFiniteSet(a) =>
           Named(RTL1, RTL0, a, DTLB_bus, L1D_bus, "LQ", k)
             = Named(RTL0, RTL1, a, DTLB_bus, L1D_bus, "LQ", k)
    BY <1>2, NamedSwap
  <2>4. /\ Named(RTL1, RTL0, asked, DTLB_bus, L1D_bus, "LQ", Head(RTL1)) <= 1
        /\ For(p, "LQ", Head(RTL1))
    BY <1>1, <1>2, <2>2, <2>3, AtMostOnce DEF LoadNamed
  <2> HIDE DEF p, h
  <2>5. /\ p \notin asked
        /\ \A k : Named(Tail(RTL1), RTL0, asked', DTLB_bus, L1D_bus, "LQ", k)
                    = Named(RTL1, RTL0, asked, DTLB_bus, L1D_bus, "LQ", k)
    BY <1>2, <2>1, <2>2, <2>4, NamedAsk
  <2>6. \A k : Named(Tail(RTL1), RTL0, asked', DTLB_bus, L1D_bus, "LQ", k)
                 = Named(RTL0, Tail(RTL1), asked', DTLB_bus, L1D_bus, "LQ", k)
    <3> DEFINE t == Tail(RTL1)
    <3>1. IsFiniteSet(asked') /\ t \in Seq(Load)
      BY <1>2, <2>1, EndsOfQueue DEF QueuesOK
    <3> HIDE DEF t
    <3>2. \A k : Named(t, RTL0, asked', DTLB_bus, L1D_bus, "LQ", k)
                   = Named(RTL0, t, asked', DTLB_bus, L1D_bus, "LQ", k)
      BY <1>2, <3>1, NamedSwap
    <3> QED BY <3>2 DEF t
  <2>7. \A l : LoadNamed(l)' = LoadNamed(l)
    BY <1>2, <2>1, <2>3, <2>5, <2>6 DEF LoadNamed
  <2>8. \A s : StoreNamed(s)' = StoreNamed(s)
    BY <1>2, <1>3, <2>1, <2>2, <2>5 DEF StoreNamed
  <2> QED BY <1>1, <2>7, <2>8 DEF TokensSame
<1> QED BY <1>4, <1>5, <1>6


LEMMA TokensByAnswer ==
    ASSUME QueuesOK, QueuesOK', NEW r \in asked, Answer(r)
    PROVE  TokensSame
<1>1. /\ \A k : LoadToken(k) = LoadNamed(k) /\ LoadToken(k)' = LoadNamed(k)'
      /\ \A k : StoreToken(k) = StoreNamed(k) /\ StoreToken(k)' = StoreNamed(k)'
  BY TokensNamed
<1>2. /\ RTL0 \in Seq(Load) /\ RTL1 \in Seq(Load) /\ RTS0 \in Seq(Store) /\ RTS1 \in Seq(Store)
      /\ DTLB_bus \in Seq(Packet) /\ L1D_bus \in Seq(Packet) /\ IsFiniteSet(asked)
      /\ r \in Packet
  BY BusesTyped DEF QueuesOK
<1>3. /\ asked' = Without(asked, r) /\ IsFiniteSet(asked')
      /\ RTL0' = RTL0 /\ RTL1' = RTL1 /\ RTS0' = RTS0 /\ RTS1' = RTS1
      /\ \/ DTLB_bus' = Append(DTLB_bus, r) /\ L1D_bus' = L1D_bus
         \/ L1D_bus' = Append(L1D_bus, r) /\ DTLB_bus' = DTLB_bus
  BY DEF Answer, Without, lsq, QueuesOK
<1>4. ASSUME NEW T, NEW q0 \in Seq(T), NEW q1 \in Seq(T), NEW queue, NEW k
      PROVE  Named(q0, q1, asked', DTLB_bus', L1D_bus', queue, k)
               = Named(q0, q1, asked, DTLB_bus, L1D_bus, queue, k)
  <2>1. Named(q0, q1, asked, DTLB_bus, L1D_bus, queue, k)
          = Named(q0, q1, Without(asked, r), DTLB_bus, L1D_bus, queue, k) + Fits(r, queue, k)
    BY <1>2, NamedDrop
  <2>2. Named(q0, q1, asked', Append(DTLB_bus, r), L1D_bus, queue, k)
          = Named(q0, q1, asked', DTLB_bus, L1D_bus, queue, k) + Fits(r, queue, k)
    BY <1>2, <1>3, NamedReceive
  <2>3. Named(q0, q1, asked', Append(L1D_bus, r), DTLB_bus, queue, k)
          = Named(q0, q1, asked', L1D_bus, DTLB_bus, queue, k) + Fits(r, queue, k)
    BY <1>2, <1>3, NamedReceive
  <2>4. CASE DTLB_bus' = Append(DTLB_bus, r) /\ L1D_bus' = L1D_bus
    BY <1>3, <2>1, <2>2, <2>4
  <2>5. CASE L1D_bus' = Append(L1D_bus, r) /\ DTLB_bus' = DTLB_bus
    <3> DEFINE new == Append(L1D_bus, r)
    <3>1. new \in Seq(Packet) /\ L1D_bus' = new
      BY <1>2, <2>5
    <3> HIDE DEF new
    <3>2. Named(q0, q1, asked', DTLB_bus, new, queue, k)
            = Named(q0, q1, asked', new, DTLB_bus, queue, k)
      BY <1>2, <1>3, <3>1, NamedSwap
    <3>3. Named(q0, q1, asked', DTLB_bus, L1D_bus, queue, k)
            = Named(q0, q1, asked', L1D_bus, DTLB_bus, queue, k)
      BY <1>2, <1>3, NamedSwap
    <3>4. Named(q0, q1, asked', new, DTLB_bus, queue, k)
            = Named(q0, q1, asked', L1D_bus, DTLB_bus, queue, k) + Fits(r, queue, k)
      BY <2>3 DEF new
    <3> QED BY <1>3, <2>1, <2>5, <3>1, <3>2, <3>3, <3>4
  <2> QED BY <1>3, <2>4, <2>5
<1>5. \A k : LoadNamed(k)' = LoadNamed(k) /\ StoreNamed(k)' = StoreNamed(k)
  BY <1>2, <1>3, <1>4 DEF LoadNamed, StoreNamed
<1> QED BY <1>1, <1>5 DEF TokensSame

LEMMA TokensByTranslated ==
    ASSUME QueuesOK, QueuesOK', ReturnDTLB
    PROVE  TokensSame
<1> DEFINE p == Head(DTLB_bus)
           d == Tail(DTLB_bus)
<1>1. /\ \A k : LoadToken(k) = LoadNamed(k) /\ LoadToken(k)' = LoadNamed(k)'
      /\ \A k : StoreToken(k) = StoreNamed(k) /\ StoreToken(k)' = StoreNamed(k)'
  BY TokensNamed
<1>2. /\ RTL0 \in Seq(Load) /\ RTL1 \in Seq(Load) /\ RTS0 \in Seq(Store) /\ RTS1 \in Seq(Store)
      /\ DTLB_bus \in Seq(Packet) /\ L1D_bus \in Seq(Packet) /\ IsFiniteSet(asked)
  BY BusesTyped DEF QueuesOK
<1>3. /\ DTLB_bus # <<>> /\ DTLB_bus' = d /\ asked' = asked /\ L1D_bus' = L1D_bus
      /\ RTL0' = RTL0 /\ RTS0' = RTS0
      /\ IF p.queue = "SQ" THEN RTS1' = Append(RTS1, p.slot) /\ RTL1' = RTL1
                           ELSE RTL1' = Append(RTL1, p.slot) /\ RTS1' = RTS1
  BY DEF ReturnDTLB
<1>4. p \in Packet /\ d \in Seq(Packet)
  BY <1>2, <1>3, EndsOfQueue
<1>5. ASSUME NEW T, NEW q0 \in Seq(T), NEW q1 \in Seq(T), NEW queue, NEW k
      PROVE  /\ Named(q0, q1, asked, DTLB_bus, L1D_bus, queue, k)
                  = Named(q0, q1, asked, d, L1D_bus, queue, k) + Fits(p, queue, k)
             /\ Named(q0, q1, asked, d, L1D_bus, queue, k) \in Nat
  <2>1. Named(q0, q1, asked, DTLB_bus, L1D_bus, queue, k)
          = Named(q0, q1, asked, d, L1D_bus, queue, k) + Fits(p, queue, k)
    BY <1>2, <1>3, NamedRead
  <2>2. Named(q0, q1, asked, d, L1D_bus, queue, k) \in Nat
    BY <1>2, <1>4, NamedSwap
  <2> QED BY <2>1, <2>2
<1> HIDE DEF p, d
<1>6. ASSUME NEW T, NEW q0 \in Seq(T), NEW q1 \in Seq(T), NEW queue, NEW x \in T, NEW k
      PROVE  Named(q0, Append(q1, x), asked, d, L1D_bus, queue, k)
               = Named(q0, q1, asked, d, L1D_bus, queue, k) + (IF x = k THEN 1 ELSE 0)
  <2> DEFINE new == Append(q1, x)
  <2>1. new \in Seq(T)
    OBVIOUS
  <2>2. Named(new, q0, asked, d, L1D_bus, queue, k)
          = Named(q1, q0, asked, d, L1D_bus, queue, k) + (IF x = k THEN 1 ELSE 0)
    BY <1>2, <1>4, NamedAppend
  <2> HIDE DEF new
  <2>3. /\ Named(q0, new, asked, d, L1D_bus, queue, k) = Named(new, q0, asked, d, L1D_bus, queue, k)
        /\ Named(q0, q1, asked, d, L1D_bus, queue, k) = Named(q1, q0, asked, d, L1D_bus, queue, k)
    BY <1>2, <1>4, <2>1, NamedSwap
  <2> QED BY <2>2, <2>3 DEF new
<1>7. CASE p.queue = "SQ"
  <2>1. p.slot \in Store /\ RTS1' = Append(RTS1, p.slot) /\ RTL1' = RTL1
    BY <1>3, <1>4, <1>7 DEF Packet, LoadPacket, StorePacket
  <2>2. \A k : Fits(p, "LQ", k) = 0 /\ Fits(p, "SQ", k) = IF p.slot = k THEN 1 ELSE 0
    BY <1>7 DEF Fits, For
  <2>3. ASSUME NEW k PROVE LoadNamed(k)' = LoadNamed(k)
    <3>1. /\ Named(RTL0, RTL1, asked, DTLB_bus, L1D_bus, "LQ", k)
               = Named(RTL0, RTL1, asked, d, L1D_bus, "LQ", k) + Fits(p, "LQ", k)
          /\ Named(RTL0, RTL1, asked, d, L1D_bus, "LQ", k) \in Nat
      BY <1>2, <1>5
    <3> QED BY <1>3, <2>1, <2>2, <3>1 DEF LoadNamed
  <2>4. ASSUME NEW k PROVE StoreNamed(k)' = StoreNamed(k)
    <3>1. Named(RTS0, RTS1, asked, DTLB_bus, L1D_bus, "SQ", k)
            = Named(RTS0, RTS1, asked, d, L1D_bus, "SQ", k) + Fits(p, "SQ", k)
      BY <1>2, <1>5
    <3>2. Named(RTS0, Append(RTS1, p.slot), asked, d, L1D_bus, "SQ", k)
            = Named(RTS0, RTS1, asked, d, L1D_bus, "SQ", k) + (IF p.slot = k THEN 1 ELSE 0)
      BY <1>2, <1>6, <2>1
    <3> QED BY <1>3, <2>1, <2>2, <3>1, <3>2 DEF StoreNamed
  <2> QED BY <1>1, <2>3, <2>4 DEF TokensSame
<1>8. CASE p.queue # "SQ"
  <2>1. p.slot \in Load /\ RTL1' = Append(RTL1, p.slot) /\ RTS1' = RTS1 /\ p.queue = "LQ"
    BY <1>3, <1>4, <1>8 DEF Packet, LoadPacket, StorePacket
  <2>2. \A k : Fits(p, "SQ", k) = 0 /\ Fits(p, "LQ", k) = IF p.slot = k THEN 1 ELSE 0
    BY <2>1 DEF Fits, For
  <2>3. ASSUME NEW k PROVE StoreNamed(k)' = StoreNamed(k)
    <3>1. /\ Named(RTS0, RTS1, asked, DTLB_bus, L1D_bus, "SQ", k)
               = Named(RTS0, RTS1, asked, d, L1D_bus, "SQ", k) + Fits(p, "SQ", k)
          /\ Named(RTS0, RTS1, asked, d, L1D_bus, "SQ", k) \in Nat
      BY <1>2, <1>5
    <3> QED BY <1>3, <2>1, <2>2, <3>1 DEF StoreNamed
  <2>4. ASSUME NEW k PROVE LoadNamed(k)' = LoadNamed(k)
    <3>1. Named(RTL0, RTL1, asked, DTLB_bus, L1D_bus, "LQ", k)
            = Named(RTL0, RTL1, asked, d, L1D_bus, "LQ", k) + Fits(p, "LQ", k)
      BY <1>2, <1>5
    <3>2. Named(RTL0, Append(RTL1, p.slot), asked, d, L1D_bus, "LQ", k)
            = Named(RTL0, RTL1, asked, d, L1D_bus, "LQ", k) + (IF p.slot = k THEN 1 ELSE 0)
      BY <1>2, <1>6, <2>1
    <3> QED BY <1>3, <2>1, <2>2, <3>1, <3>2 DEF LoadNamed
  <2> QED BY <1>1, <2>3, <2>4 DEF TokensSame
<1> QED BY <1>7, <1>8

(* A packet at the head of the L1D's bus is for a load that waits for it.  *)
LEMMA L1dSlot ==
    ASSUME QueuesOK, MemInv, L1D_bus # <<>>
    PROVE  LET l == Head(L1D_bus).slot
           IN  /\ l \in Load /\ Head(L1D_bus).queue = "LQ"
               /\ LQ[l].id # 0 /\ LQ[l].producer = 0 /\ LoadSlot(l) /\ LoadToken(l) = 1
<1> DEFINE p == Head(L1D_bus)
           b == Tail(L1D_bus)
           l == p.slot
<1>1. p \in LoadPacket /\ b \in Seq(Packet)
  BY EndsOfQueue, BusesTyped DEF QueuesOK
<1>2. l \in Load /\ p.queue = "LQ" /\ For(p, "LQ", l)
  BY <1>1 DEF LoadPacket, For
<1>3. /\ RTL0 \in Seq(Load) /\ RTL1 \in Seq(Load) /\ IsFiniteSet(asked)
      /\ DTLB_bus \in Seq(Packet) /\ L1D_bus \in Seq(Packet)
  BY BusesTyped DEF QueuesOK
<1>4. Named(RTL0, RTL1, asked, L1D_bus, DTLB_bus, "LQ", l)
        = Named(RTL0, RTL1, asked, b, DTLB_bus, "LQ", l) + Fits(p, "LQ", l)
  BY <1>3, NamedRead
<1> HIDE DEF p, b, l
<1>5. /\ Named(RTL0, RTL1, asked, b, DTLB_bus, "LQ", l) \in Nat
      /\ LoadNamed(l) = Named(RTL0, RTL1, asked, L1D_bus, DTLB_bus, "LQ", l)
  BY <1>1, <1>3, NamedSwap DEF LoadNamed
<1>6. Fits(p, "LQ", l) = 1
  BY <1>2, FitsIs
<1>7. LoadToken(l) = LoadNamed(l)
  BY TokensNat
<1>8. LoadToken(l) # 0
  BY <1>4, <1>5, <1>6, <1>7
<1>9. LQ[l].id # 0 /\ LoadSlot(l)
  BY <1>2, <1>8 DEF MemInv, LoadSlots
<1>10. LQ[l].producer = 0 /\ LoadToken(l) = 1
  BY <1>8, <1>9 DEF LoadSlot
<1> QED BY <1>2, <1>9, <1>10 DEF l, p

Returns(l, i) ==
    /\ l \in Load /\ LQ[l].id = i /\ i \in head .. Len(prog)
    /\ LQ' = [LQ EXCEPT ![l] = EmptyLoad] /\ SQ' = SQ
    /\ \A j \in 1 .. Len(prog) :
          /\ SameSlots(j) /\ SameStage(j) /\ SameWaits(j)
          /\ j # i => SameOps(j)
    /\ inst'[i].num_mem_ops = inst[i].num_mem_ops - 1
    /\ inst'[i].got = mem[prog[i].load]
    /\ inflight_mem_executions' = inflight_mem_executions + NowDone({i})

LEMMA ReturnEffect ==
    ASSUME RobOK, QueuesOK, MemInv, ReturnL1D
    PROVE  /\ StillInst
           /\ \E i \in 1 .. Len(prog) : Returns(Head(L1D_bus).slot, i)
<1> DEFINE l == Head(L1D_bus).slot
           i == LQ[l].id
           data == mem[prog[i].load]
<1>1. /\ l \in Load /\ LQ[l].id # 0 /\ LoadSlot(l)
  BY L1dSlot DEF ReturnL1D
<1>2. /\ inst' = [inst EXCEPT ![i] = Loaded(inst[i], data)]
      /\ inflight_mem_executions' = inflight_mem_executions + NowDone({i})
      /\ LQ' = [LQ EXCEPT ![l] = EmptyLoad] /\ SQ' = SQ
  BY DEF ReturnL1D
<1>3. i \in head .. Len(prog) /\ i \in 1 .. Len(prog) /\ prog[i].load # None
  <2>1. i \in head .. Len(prog) /\ prog[i].load # None
    BY <1>1 DEF LoadSlot
  <2> HIDE DEF i
  <2>2. i \in 1 .. Len(prog)
    BY <2>1, InstTyped
  <2> QED BY <2>1, <2>2
<1> HIDE DEF l, i
<1>4. data \in Nat
  <2>1. prog[i] \in Instruction
    BY <1>3, InstTyped
  <2>2. prog[i].load \in Addr
    BY <1>3, <2>1, CpuAssumption
  <2> QED BY <2>2 DEF RobOK
<1> HIDE DEF data
<1>5. /\ DOMAIN inst' = DOMAIN inst /\ inst' = [j \in DOMAIN inst |-> inst'[j]]
      /\ inst'[i] = Loaded(inst[i], data)
      /\ \A j \in 1 .. Len(prog) : j # i => inst'[j] = inst[j]
  BY <1>2, <1>3, InstTyped
<1>6. inst[i] \in InstRec /\ inst[i].num_mem_ops - 1 \in Int
  BY <1>3, InstTyped DEF InstRec
<1>7. /\ inst'[i] \in InstRec /\ SameSlots(i) /\ SameStage(i) /\ SameWaits(i)
      /\ inst'[i].num_mem_ops = inst[i].num_mem_ops - 1 /\ inst'[i].got = data
  BY <1>4, <1>5, <1>6 DEF Loaded, InstRec, SameSlots, SameStage, SameWaits
<1>8. ASSUME NEW j \in 1 .. Len(prog)
      PROVE  /\ inst'[j] \in InstRec /\ SameSlots(j) /\ SameStage(j) /\ SameWaits(j)
             /\ j # i => SameOps(j)
  <2>1. CASE j = i
    BY <1>7, <2>1
  <2>2. CASE j # i
    <3>1. inst'[j] = inst[j] /\ inst[j] \in InstRec
      BY <1>5, <2>2, InstTyped
    <3> QED BY <3>1, Untouched
  <2> QED BY <2>1, <2>2
<1>9. StillInst
  BY <1>5, <1>8, InstMade
<1>10. LQ[l].id = i
  BY DEF i
<1>11. Returns(l, i)
  BY <1>1, <1>2, <1>3, <1>7, <1>8, <1>10, Zenon DEF Returns, data
<1> QED BY <1>3, <1>9, <1>11 DEF l

LEMMA TokensByLoaded ==
    ASSUME QueuesOK, QueuesOK', ReturnL1D
    PROVE  /\ \A k \in Load : LoadToken(k)' =
                 IF k = Head(L1D_bus).slot THEN LoadToken(k) - 1 ELSE LoadToken(k)
           /\ \A s \in Store : StoreToken(s)' = StoreToken(s)
<1> DEFINE p == Head(L1D_bus)
           b == Tail(L1D_bus)
<1>1. /\ \A k : LoadToken(k) = LoadNamed(k) /\ LoadToken(k)' = LoadNamed(k)'
      /\ \A k : StoreToken(k) = StoreNamed(k) /\ StoreToken(k)' = StoreNamed(k)'
  BY TokensNamed
<1>2. /\ RTL0 \in Seq(Load) /\ RTL1 \in Seq(Load) /\ RTS0 \in Seq(Store) /\ RTS1 \in Seq(Store)
      /\ DTLB_bus \in Seq(Packet) /\ L1D_bus \in Seq(Packet) /\ IsFiniteSet(asked)
  BY BusesTyped DEF QueuesOK
<1>3. /\ L1D_bus # <<>> /\ L1D_bus' = b /\ asked' = asked /\ DTLB_bus' = DTLB_bus
      /\ RTL0' = RTL0 /\ RTS0' = RTS0 /\ RTL1' = RTL1 /\ RTS1' = RTS1
  BY DEF ReturnL1D
<1>4. p \in LoadPacket /\ b \in Seq(Packet)
  BY <1>2, <1>3, EndsOfQueue DEF QueuesOK
<1>5. p.queue = "LQ"
  BY <1>4 DEF LoadPacket
<1>6. ASSUME NEW T, NEW q0 \in Seq(T), NEW q1 \in Seq(T), NEW queue, NEW k
      PROVE  /\ Named(q0, q1, asked, DTLB_bus, L1D_bus, queue, k)
                  = Named(q0, q1, asked, DTLB_bus, b, queue, k) + Fits(p, queue, k)
             /\ Named(q0, q1, asked, DTLB_bus, b, queue, k) \in Nat
  <2>1. Named(q0, q1, asked, L1D_bus, DTLB_bus, queue, k)
          = Named(q0, q1, asked, b, DTLB_bus, queue, k) + Fits(p, queue, k)
    BY <1>2, <1>3, NamedRead
  <2> HIDE DEF p, b
  <2>2. /\ Named(q0, q1, asked, b, DTLB_bus, queue, k)
             = Named(q0, q1, asked, DTLB_bus, b, queue, k)
        /\ Named(q0, q1, asked, L1D_bus, DTLB_bus, queue, k)
             = Named(q0, q1, asked, DTLB_bus, L1D_bus, queue, k)
        /\ Named(q0, q1, asked, DTLB_bus, b, queue, k) \in Nat
    BY <1>2, <1>4, NamedSwap
  <2> QED BY <2>1, <2>2
<1>7. \A k : Fits(p, "SQ", k) = 0 /\ Fits(p, "LQ", k) = IF p.slot = k THEN 1 ELSE 0
  BY <1>5 DEF Fits, For
<1> HIDE DEF p, b
<1>8. ASSUME NEW k
      PROVE  /\ StoreNamed(k)' = StoreNamed(k)
             /\ LoadNamed(k)' = IF k = p.slot THEN LoadNamed(k) - 1 ELSE LoadNamed(k)
  <2>1. /\ Named(RTS0, RTS1, asked, DTLB_bus, L1D_bus, "SQ", k)
             = Named(RTS0, RTS1, asked, DTLB_bus, b, "SQ", k) + Fits(p, "SQ", k)
        /\ Named(RTS0, RTS1, asked, DTLB_bus, b, "SQ", k) \in Nat
    BY <1>2, <1>6
  <2>2. /\ Named(RTL0, RTL1, asked, DTLB_bus, L1D_bus, "LQ", k)
             = Named(RTL0, RTL1, asked, DTLB_bus, b, "LQ", k) + Fits(p, "LQ", k)
        /\ Named(RTL0, RTL1, asked, DTLB_bus, b, "LQ", k) \in Nat
    BY <1>2, <1>6
  <2>3. StoreNamed(k)' = StoreNamed(k)
    BY <1>3, <1>7, <2>1 DEF StoreNamed
  <2>4. LoadNamed(k)' = IF k = p.slot THEN LoadNamed(k) - 1 ELSE LoadNamed(k)
    BY <1>3, <1>7, <2>2 DEF LoadNamed
  <2> QED BY <2>3, <2>4
<1> QED BY <1>1, <1>8 DEF p

(* The store at the head of RTS1 is in the queue and has no data yet.      *)
LEMMA StoreAhead ==
    ASSUME QueuesOK, MemInv, RTS1 # <<>>
    PROVE  LET s == Head(RTS1)
           IN  /\ s \in Store /\ SQ[s].id # 0 /\ SQ[s].fetched # "COMPLETED"
               /\ StoreToken(s) = 1 /\ ~HasData(SQ[s].id)
<1> DEFINE s == Head(RTS1)
           t == Tail(RTS1)
<1>1. s \in Store /\ t \in Seq(Store)
  BY EndsOfQueue DEF QueuesOK
<1>2. /\ RTS0 \in Seq(Store) /\ RTS1 \in Seq(Store) /\ IsFiniteSet(asked)
      /\ DTLB_bus \in Seq(Packet) /\ L1D_bus \in Seq(Packet)
  BY BusesTyped DEF QueuesOK
<1>3. Named(RTS1, RTS0, asked, DTLB_bus, L1D_bus, "SQ", s)
        = Named(t, RTS0, asked, DTLB_bus, L1D_bus, "SQ", s) + (IF s = s THEN 1 ELSE 0)
  BY <1>2, NamedTail
<1> HIDE DEF s, t
<1>4. /\ Named(t, RTS0, asked, DTLB_bus, L1D_bus, "SQ", s) \in Nat
      /\ StoreNamed(s) = Named(RTS1, RTS0, asked, DTLB_bus, L1D_bus, "SQ", s)
  BY <1>1, <1>2, NamedSwap DEF StoreNamed
<1>5. StoreToken(s) = StoreNamed(s) /\ StoreToken(s) \in Nat
  BY TokensNat
<1>6. StoreToken(s) # 0
  BY <1>3, <1>4, <1>5
<1>7. /\ StoreToken(s) + (IF SQ[s].fetched = "COMPLETED" THEN 1 ELSE 0)
             = (IF SQ[s].id = 0 THEN 0 ELSE 1)
      /\ \A r \in Store : SQ[r].id # 0 => inst[SQ[r].id].sq_index = r
  BY <1>1 DEF MemInv, StoreSlots
<1>8. SQ[s].id # 0 /\ SQ[s].fetched # "COMPLETED" /\ StoreToken(s) = 1
  BY <1>5, <1>6, <1>7
<1>9. ~HasData(SQ[s].id)
  BY <1>1, <1>7, <1>8 DEF HasData, Store
<1> QED BY <1>1, <1>8, <1>9 DEF s

Forwarded(i) == {MemDeps(i)[k] : k \in DOMAIN MemDeps(i)}

Forwards(s, i) ==
    /\ s \in Store /\ SQ[s].id = i /\ i \in head .. Len(prog) /\ ~HasData(i)
    /\ SQ' = [SQ EXCEPT ![s].fetched = "COMPLETED"]
    /\ LQ' = Freed(Forwarded(i))
    /\ i \notin Forwarded(i)
    /\ \A j \in 1 .. Len(prog) :
          /\ SameSlots(j) /\ SameStage(j) /\ SameWaits(j)
          /\ j \notin {i} \cup Forwarded(i) => inst'[j].num_mem_ops = inst[j].num_mem_ops
          /\ j \in {i} \cup Forwarded(i) => inst'[j].num_mem_ops = inst[j].num_mem_ops - 1
          /\ j \notin Forwarded(i) => inst'[j].got = inst[j].got
          /\ j \in Forwarded(i) => inst'[j].got = i
    /\ inflight_mem_executions' = inflight_mem_executions + NowDone({i} \cup Forwarded(i))

LEMMA StoreEffect ==
    ASSUME RobOK, QueuesOK, MemInv, execute_store
    PROVE  /\ StillInst
           /\ \E i \in 1 .. Len(prog) : Forwards(Head(RTS1), i)
<1> DEFINE s == Head(RTS1)
           i == SQ[s].id
           S == Forwarded(i)
           rec(j) == IF j = i THEN Done(inst[i])
                     ELSE IF j \in S THEN Loaded(inst[j], i)
                     ELSE inst[j]
<1>1. s \in Store /\ SQ[s].id # 0 /\ SQ[s].fetched # "COMPLETED" /\ ~HasData(i)
  BY StoreAhead DEF execute_store
<1>2. /\ inst' = [j \in DOMAIN inst |-> rec(j)]
      /\ inflight_mem_executions' = inflight_mem_executions + NowDone({i} \cup S)
      /\ LQ' = Freed(S) /\ SQ' = [SQ EXCEPT ![s].fetched = "COMPLETED"]
  BY DEF execute_store, Forwarded, MemDeps
<1>3. i \in head .. Len(prog) /\ i \in 1 .. Len(prog)
  <2>1. i \in head .. Len(prog)
    BY <1>1 DEF MemInv, StoreSlots
  <2> QED BY <2>1, InstTyped
<1>4. i \notin S
  <2>1. \A k \in DOMAIN MemDeps(i) : MemDeps(i)[k] \in i + 1 .. Len(prog)
    BY <1>1, <1>3 DEF MemInv, MemDepsOK
  <2>2. i \in Nat /\ \A k \in DOMAIN MemDeps(i) : MemDeps(i)[k] # i
    BY <1>3, <2>1
  <2> QED BY <2>2 DEF Forwarded
<1>5. SQ[s].id = i
  OBVIOUS
<1> HIDE DEF s, i, S
<1>6. /\ DOMAIN inst' = DOMAIN inst /\ inst' = [j \in DOMAIN inst |-> inst'[j]]
      /\ \A j \in 1 .. Len(prog) : inst'[j] = rec(j)
  BY <1>2, InstTyped
<1>7. ASSUME NEW j \in 1 .. Len(prog)
      PROVE  /\ inst'[j] \in InstRec /\ SameSlots(j) /\ SameStage(j) /\ SameWaits(j)
             /\ j \notin {i} \cup S => inst'[j].num_mem_ops = inst[j].num_mem_ops
             /\ j \in {i} \cup S => inst'[j].num_mem_ops = inst[j].num_mem_ops - 1
             /\ j \notin S => inst'[j].got = inst[j].got
             /\ j \in S => inst'[j].got = i
  <2>1. inst[j] \in InstRec /\ inst'[j] = rec(j) /\ i \in Nat
    BY <1>3, <1>6, InstTyped
  <2>2. inst[j].num_mem_ops - 1 \in Int
    BY <2>1 DEF InstRec
  <2>3. CASE j = i
    <3>1. inst'[j] = Done(inst[j]) /\ j \notin S
      BY <1>4, <2>1, <2>3
    <3>2. /\ inst'[j] \in InstRec /\ SameSlots(j) /\ SameStage(j) /\ SameWaits(j)
          /\ inst'[j].num_mem_ops = inst[j].num_mem_ops - 1 /\ inst'[j].got = inst[j].got
      BY <2>1, <2>2, <3>1 DEF Done, InstRec, SameSlots, SameStage, SameWaits
    <3> QED BY <2>3, <3>1, <3>2
  <2>4. CASE j # i /\ j \in S
    <3>1. inst'[j] = Loaded(inst[j], i)
      BY <2>1, <2>4
    <3>2. /\ inst'[j] \in InstRec /\ SameSlots(j) /\ SameStage(j) /\ SameWaits(j)
          /\ inst'[j].num_mem_ops = inst[j].num_mem_ops - 1 /\ inst'[j].got = i
      BY <2>1, <2>2, <3>1 DEF Loaded, InstRec, SameSlots, SameStage, SameWaits
    <3> QED BY <2>4, <3>2
  <2>5. CASE j # i /\ j \notin S
    <3>1. inst'[j] = inst[j]
      BY <2>1, <2>5
    <3>2. SameSlots(j) /\ SameOps(j) /\ SameStage(j) /\ SameWaits(j)
      BY <3>1, Untouched
    <3> QED BY <2>1, <2>5, <3>1, <3>2 DEF SameOps
  <2> QED BY <2>3, <2>4, <2>5
<1>8. StillInst
  BY <1>6, <1>7, InstMade
<1>9. Forwards(s, i)
  BY <1>1, <1>2, <1>3, <1>4, <1>5, <1>7, Zenon DEF Forwards, S
<1> QED BY <1>3, <1>8, <1>9 DEF s

LEMMA TokensByStored ==
    ASSUME QueuesOK, QueuesOK', execute_store
    PROVE  /\ \A k \in Store : StoreToken(k)' =
                 IF k = Head(RTS1) THEN StoreToken(k) - 1 ELSE StoreToken(k)
           /\ \A l \in Load : LoadToken(l)' = LoadToken(l)
<1> DEFINE h == Head(RTS1)
           t == Tail(RTS1)
<1>1. /\ \A k : LoadToken(k) = LoadNamed(k) /\ LoadToken(k)' = LoadNamed(k)'
      /\ \A k : StoreToken(k) = StoreNamed(k) /\ StoreToken(k)' = StoreNamed(k)'
  BY TokensNamed
<1>2. /\ RTS0 \in Seq(Store) /\ RTS1 \in Seq(Store)
      /\ DTLB_bus \in Seq(Packet) /\ L1D_bus \in Seq(Packet) /\ IsFiniteSet(asked)
  BY BusesTyped DEF QueuesOK
<1>3. /\ RTS1 # <<>> /\ RTS1' = t /\ asked' = asked /\ DTLB_bus' = DTLB_bus
      /\ L1D_bus' = L1D_bus /\ RTL0' = RTL0 /\ RTS0' = RTS0 /\ RTL1' = RTL1
  BY DEF execute_store, caches
<1>4. t \in Seq(Store)
  BY <1>2, <1>3, EndsOfQueue
<1>5. \A k : LoadNamed(k)' = LoadNamed(k)
  BY <1>3 DEF LoadNamed
<1>6. \A k : Named(RTS1, RTS0, asked, DTLB_bus, L1D_bus, "SQ", k)
               = Named(t, RTS0, asked, DTLB_bus, L1D_bus, "SQ", k) + (IF h = k THEN 1 ELSE 0)
  BY <1>2, <1>3, NamedTail
<1> HIDE DEF h, t
<1>7. \A k : /\ Named(t, RTS0, asked, DTLB_bus, L1D_bus, "SQ", k) \in Nat
             /\ Named(RTS0, t, asked, DTLB_bus, L1D_bus, "SQ", k)
                  = Named(t, RTS0, asked, DTLB_bus, L1D_bus, "SQ", k)
             /\ Named(RTS0, RTS1, asked, DTLB_bus, L1D_bus, "SQ", k)
                  = Named(RTS1, RTS0, asked, DTLB_bus, L1D_bus, "SQ", k)
  BY <1>2, <1>4, NamedSwap
<1>8. \A k : StoreNamed(k)' = IF k = h THEN StoreNamed(k) - 1 ELSE StoreNamed(k)
  BY <1>3, <1>6, <1>7 DEF StoreNamed
<1> QED BY <1>1, <1>5, <1>8 DEF h

-----------------------------------------------------------------------------
(* schedule_memory_instruction.                                            *)
LEMMA NearestIs ==
    ASSUME RobOK, NEW i \in 1 .. Len(prog)
    PROVE  LET p == NearestWriter(i)
           IN  /\ p = 0 => \A j \in head .. i - 1 : prog[j].store # prog[i].load
               /\ p # 0 => /\ p \in head .. i - 1 /\ prog[p].store = prog[i].load
                           /\ \A j \in p + 1 .. i - 1 : prog[j].store # prog[i].load
               /\ p \in Nat
<1> DEFINE W == {j \in head .. i - 1 : prog[j].store = prog[i].load}
<1>1. W \in SUBSET (1 .. i - 1) /\ i - 1 \in Nat
  BY InstTyped
<1>2. W # {} => Largest(W) \in W /\ \A j \in W : j <= Largest(W)
  BY <1>1, LargestIs
<1>3. NearestWriter(i) = IF W = {} THEN 0 ELSE Largest(W)
  BY DEF NearestWriter
<1>4. CASE W = {}
  BY <1>3, <1>4
<1>5. CASE W # {}
  <2> DEFINE p == Largest(W)
  <2>1. p \in head .. i - 1 /\ prog[p].store = prog[i].load /\ p # 0 /\ p \in Nat
    BY <1>2, <1>5, InstTyped
  <2>2. \A j \in p + 1 .. i - 1 : j \notin W
    <3> HIDE DEF p
    <3>1. \A j \in W : j <= p
      BY <1>2, <1>5 DEF p
    <3> QED BY <2>1, <3>1
  <2>3. \A j \in p + 1 .. i - 1 : j \in head .. i - 1
    <3> HIDE DEF p
    <3> QED BY <2>1, InstTyped
  <2>4. \A j \in p + 1 .. i - 1 : prog[j].store # prog[i].load
    BY <2>2, <2>3
  <2> QED BY <1>3, <1>5, <2>1, <2>4
<1> QED BY <1>4, <1>5

Producer(i) == IF MayAddLoad(i) THEN NearestWriter(i) ELSE 0
Given(i) == Producer(i) # 0 /\ HasData(Producer(i))

LEMMA ProducerIs ==
    ASSUME RobOK, NEW i \in 1 .. Len(prog)
    PROVE  /\ Producer(i) \in Nat
           /\ MayAddLoad(i) /\ Producer(i) = 0 =>
                 \A j \in head .. i - 1 : prog[j].store # prog[i].load
           /\ Producer(i) # 0 =>
                 /\ MayAddLoad(i)
                 /\ Producer(i) \in head .. i - 1 /\ Producer(i) \in 1 .. Len(prog)
                 /\ Producer(i) # i
                 /\ prog[Producer(i)].store = prog[i].load
                 /\ \A j \in Producer(i) + 1 .. i - 1 : prog[j].store # prog[i].load
<1>1. /\ NearestWriter(i) = 0 => \A j \in head .. i - 1 : prog[j].store # prog[i].load
      /\ NearestWriter(i) # 0 =>
            /\ NearestWriter(i) \in head .. i - 1 /\ prog[NearestWriter(i)].store = prog[i].load
            /\ \A j \in NearestWriter(i) + 1 .. i - 1 : prog[j].store # prog[i].load
      /\ NearestWriter(i) \in Nat
  BY NearestIs
<1>2. \A p \in head .. i - 1 : p \in 1 .. Len(prog) /\ p # i
  BY InstTyped
<1> QED BY <1>1, <1>2 DEF Producer

(* The slots the load and the store enter, if they do.                     *)
InQueues(i, l, s) ==
    /\ MayAddLoad(i) => l \in FreeLoads
    /\ MayAddStore(i) => s \in FreeStores
    /\ MayAddLoad(i) /\ ~Given(i) =>
          /\ LQ'[l].id = i /\ LQ'[l].producer = Producer(i)
          /\ \A k \in Load : k # l => LQ'[k] = LQ[k]
    /\ ~MayAddLoad(i) \/ Given(i) => LQ' = LQ
    /\ MayAddStore(i) =>
          /\ SQ'[s].id = i /\ SQ'[s].fetched = "no"
          /\ \A k \in Store : k # s => SQ'[k] = SQ[k]
    /\ ~MayAddStore(i) => SQ' = SQ
    /\ RTL0' = IF MayAddLoad(i) /\ Producer(i) = 0 THEN Append(RTL0, l) ELSE RTL0
    /\ RTS0' = IF MayAddStore(i) THEN Append(RTS0, s) ELSE RTS0

LEMMA FreeAre ==
    ASSUME QueuesOK
    PROVE  /\ FreeLoads # {} => Smallest(FreeLoads) \in FreeLoads
           /\ FreeStores # {} => Smallest(FreeStores) \in FreeStores
           /\ FreeLoads \subseteq Load /\ FreeStores \subseteq Store
<1>1. FreeLoads \subseteq Load /\ FreeStores \subseteq Store
  BY DEF FreeLoads, FreeStores, Load, Store
<1>2. FreeLoads \in SUBSET Nat /\ FreeStores \in SUBSET Nat
  BY <1>1, Sizes
<1> QED BY <1>1, <1>2, SmallestIs

LEMMA QueuesByEnter ==
    ASSUME RobOK, QueuesOK, schedule_memory_instruction
    PROVE  /\ QueuesOK'
           /\ InQueues(Smallest(Schedulable), Smallest(FreeLoads), Smallest(FreeStores))
<1> DEFINE i == Smallest(Schedulable)
           l == Smallest(FreeLoads)
           s == Smallest(FreeStores)
           p == Producer(i)
           entry == [EmptyLoad EXCEPT !.id = i, !.producer = p,
                                      !.translated = IF p = 0 THEN "no" ELSE "INFLIGHT"]
           store == [EmptyStore EXCEPT !.id = i]
<1>1. i \in Nat /\ p \in Nat
  <2>1. Schedulable # {}
    BY DEF schedule_memory_instruction
  <2>2. Schedulable \in SUBSET Nat /\ Schedulable \subseteq 1 .. Len(prog)
    BY InstTyped DEF Schedulable, InROB
  <2>3. i \in 1 .. Len(prog)
    BY <2>1, <2>2, SmallestIs
  <2> QED BY <2>3, ProducerIs
<1>2. entry \in LoadEntry /\ entry.id = i /\ entry.producer = p
  <2> HIDE DEF i, p
  <2>1. (IF p = 0 THEN "no" ELSE "INFLIGHT") \in Progress /\ "no" \in Progress
    BY DEF Progress
  <2> QED BY <1>1, <2>1 DEF EmptyLoad, LoadEntry
<1>3. store \in StoreEntry /\ store.id = i /\ store.fetched = "no"
  <2> HIDE DEF i
  <2> QED BY <1>1 DEF EmptyStore, StoreEntry, Progress
<1>4. /\ IF MayAddLoad(i)
         THEN /\ LQ' = IF Given(i) THEN LQ ELSE [LQ EXCEPT ![l] = entry]
              /\ RTL0' = IF p = 0 THEN Append(RTL0, l) ELSE RTL0
         ELSE LQ' = LQ /\ RTL0' = RTL0
      /\ IF MayAddStore(i)
         THEN SQ' = [SQ EXCEPT ![s] = store] /\ RTS0' = Append(RTS0, s)
         ELSE SQ' = SQ /\ RTS0' = RTS0
      /\ RTL1' = RTL1 /\ RTS1' = RTS1
      /\ asked' = asked /\ DTLB_bus' = DTLB_bus /\ L1D_bus' = L1D_bus
  BY DEF schedule_memory_instruction, add_load_queue, add_store_queue, Producer, Given, caches
<1>5. /\ MayAddLoad(i) => l \in FreeLoads /\ l \in Load
      /\ MayAddStore(i) => s \in FreeStores /\ s \in Store
  BY FreeAre DEF MayAddLoad, MayAddStore
<1> HIDE DEF i, l, s, p, entry, store
<1>6. /\ LQ \in [Load -> LoadEntry] /\ SQ \in [Store -> StoreEntry]
      /\ RTL0 \in Seq(Load) /\ RTS0 \in Seq(Store)
  BY DEF QueuesOK
<1>7. /\ MayAddLoad(i) => [LQ EXCEPT ![l] = entry] \in [Load -> LoadEntry]
      /\ MayAddStore(i) => [SQ EXCEPT ![s] = store] \in [Store -> StoreEntry]
  BY <1>2, <1>3, <1>6
<1>8. LQ' \in [Load -> LoadEntry] /\ SQ' \in [Store -> StoreEntry]
  BY <1>4, <1>6, <1>7
<1>9. RTL0' \in Seq(Load)
  <2>1. l \in Load => Append(RTL0, l) \in Seq(Load)
    BY <1>6
  <2> QED BY <1>4, <1>5, <1>6, <2>1
<1>10. RTS0' \in Seq(Store)
  <2>1. s \in Store => Append(RTS0, s) \in Seq(Store)
    BY <1>6
  <2> QED BY <1>4, <1>5, <1>6, <2>1
<1>11. QueuesOK'
  BY <1>4, <1>8, <1>9, <1>10 DEF QueuesOK
<1>12. MayAddLoad(i) /\ ~Given(i) =>
          /\ LQ'[l].id = i /\ LQ'[l].producer = p
          /\ \A k \in Load : k # l => LQ'[k] = LQ[k]
  BY <1>2, <1>4, <1>5, <1>6
<1>13. MayAddStore(i) =>
          /\ SQ'[s].id = i /\ SQ'[s].fetched = "no"
          /\ \A k \in Store : k # s => SQ'[k] = SQ[k]
  BY <1>3, <1>4, <1>5, <1>6
<1>14. /\ ~MayAddLoad(i) \/ Given(i) => LQ' = LQ
       /\ ~MayAddStore(i) => SQ' = SQ
       /\ RTL0' = IF MayAddLoad(i) /\ p = 0 THEN Append(RTL0, l) ELSE RTL0
       /\ RTS0' = IF MayAddStore(i) THEN Append(RTS0, s) ELSE RTS0
  BY <1>4
<1>15. InQueues(i, l, s)
  BY <1>5, <1>12, <1>13, <1>14, Zenon DEF InQueues, p
<1> QED BY <1>11, <1>15 DEF i, l, s

LEMMA TokensByEnter ==
    ASSUME QueuesOK, QueuesOK', schedule_memory_instruction, NEW i, NEW l, NEW s,
           InQueues(i, l, s)
    PROVE  /\ \A k \in Load : LoadToken(k)' =
                 IF k = l /\ MayAddLoad(i) /\ Producer(i) = 0
                 THEN LoadToken(k) + 1 ELSE LoadToken(k)
           /\ \A k \in Store : StoreToken(k)' =
                 IF k = s /\ MayAddStore(i) THEN StoreToken(k) + 1 ELSE StoreToken(k)
<1>1. /\ \A k : LoadToken(k) = LoadNamed(k) /\ LoadToken(k)' = LoadNamed(k)'
      /\ \A k : StoreToken(k) = StoreNamed(k) /\ StoreToken(k)' = StoreNamed(k)'
  BY TokensNamed
<1>2. /\ RTS0 \in Seq(Store) /\ RTS1 \in Seq(Store) /\ RTL0 \in Seq(Load) /\ RTL1 \in Seq(Load)
      /\ DTLB_bus \in Seq(Packet) /\ L1D_bus \in Seq(Packet) /\ IsFiniteSet(asked)
  BY BusesTyped DEF QueuesOK
<1>3. /\ RTL1' = RTL1 /\ RTS1' = RTS1
      /\ asked' = asked /\ DTLB_bus' = DTLB_bus /\ L1D_bus' = L1D_bus
  BY DEF schedule_memory_instruction, caches
<1>4. /\ RTL0' = IF MayAddLoad(i) /\ Producer(i) = 0 THEN Append(RTL0, l) ELSE RTL0
      /\ RTS0' = IF MayAddStore(i) THEN Append(RTS0, s) ELSE RTS0
      /\ MayAddLoad(i) => l \in Load
      /\ MayAddStore(i) => s \in Store
  BY FreeAre DEF InQueues
<1>5. ASSUME NEW k
      PROVE  LoadNamed(k)' = IF k = l /\ MayAddLoad(i) /\ Producer(i) = 0
                             THEN LoadNamed(k) + 1 ELSE LoadNamed(k)
  <2>1. CASE MayAddLoad(i) /\ Producer(i) = 0
    <3>1. Named(Append(RTL0, l), RTL1, asked, DTLB_bus, L1D_bus, "LQ", k)
            = Named(RTL0, RTL1, asked, DTLB_bus, L1D_bus, "LQ", k) + (IF l = k THEN 1 ELSE 0)
      BY <1>2, <1>4, <2>1, NamedAppend
    <3>2. Named(RTL0, RTL1, asked, DTLB_bus, L1D_bus, "LQ", k) \in Nat
      BY <1>2, NamedSwap
    <3> QED BY <1>3, <1>4, <2>1, <3>1, <3>2 DEF LoadNamed
  <2>2. CASE ~(MayAddLoad(i) /\ Producer(i) = 0)
    BY <1>3, <1>4, <2>2 DEF LoadNamed
  <2> QED BY <2>1, <2>2
<1>6. ASSUME NEW k
      PROVE  StoreNamed(k)' = IF k = s /\ MayAddStore(i) THEN StoreNamed(k) + 1 ELSE StoreNamed(k)
  <2>1. CASE MayAddStore(i)
    <3>1. Named(Append(RTS0, s), RTS1, asked, DTLB_bus, L1D_bus, "SQ", k)
            = Named(RTS0, RTS1, asked, DTLB_bus, L1D_bus, "SQ", k) + (IF s = k THEN 1 ELSE 0)
      BY <1>2, <1>4, <2>1, NamedAppend
    <3>2. Named(RTS0, RTS1, asked, DTLB_bus, L1D_bus, "SQ", k) \in Nat
      BY <1>2, NamedSwap
    <3> QED BY <1>3, <1>4, <2>1, <3>1, <3>2 DEF StoreNamed
  <2>2. CASE ~MayAddStore(i)
    BY <1>3, <1>4, <2>2 DEF StoreNamed
  <2> QED BY <2>1, <2>2
<1> QED BY <1>1, <1>5, <1>6

(* What the instruction that enters, and the store it waits for, record.   *)
Enters(i, l, s) ==
    /\ i \in Schedulable /\ i \in head .. Len(prog)
    /\ \A j \in 1 .. Len(prog) :
          /\ SameWaits(j)
          /\ j # i => /\ SameOps(j) /\ SameStage(j)
                      /\ inst'[j].source_added = inst[j].source_added
                      /\ inst'[j].destination_added = inst[j].destination_added
                      /\ inst'[j].lq_index = inst[j].lq_index
                      /\ inst'[j].sq_index = inst[j].sq_index
          /\ j # Producer(i) => inst'[j].memory_instrs_depend_on_me = MemDeps(j)
          /\ j = Producer(i) => inst'[j].memory_instrs_depend_on_me = Append(MemDeps(j), i)
    /\ inst'[i].scheduled # "no"
    /\ inst'[i].executed = "COMPLETED" <=> inst[i].executed = "COMPLETED"
    /\ inst'[i].source_added = (inst[i].source_added \/ MayAddLoad(i))
    /\ inst'[i].destination_added = (inst[i].destination_added \/ MayAddStore(i))
    /\ MayAddLoad(i) => inst'[i].lq_index = l
    /\ ~MayAddLoad(i) => inst'[i].lq_index = inst[i].lq_index
    /\ MayAddStore(i) => inst'[i].sq_index = s
    /\ ~MayAddStore(i) => inst'[i].sq_index = inst[i].sq_index
    /\ ~Given(i) => SameOps(i) /\ inflight_mem_executions' = inflight_mem_executions
    /\ Given(i) => /\ inst'[i].num_mem_ops = inst[i].num_mem_ops - 1
                   /\ inst'[i].got = Producer(i)
                   /\ inflight_mem_executions' = inflight_mem_executions + NowDone({i})

LEMMA EnterEffect ==
    ASSUME RobOK, QueuesOK, schedule_memory_instruction
    PROVE  /\ StillInst
           /\ LET i == Smallest(Schedulable)
              IN  i \in 1 .. Len(prog)
                  /\ Enters(i, Smallest(FreeLoads), Smallest(FreeStores))
<1> DEFINE i == Smallest(Schedulable)
           l == Smallest(FreeLoads)
           s == Smallest(FreeStores)
           p == Producer(i)
           load == MayAddLoad(i)
           store == MayAddStore(i)
           given == Given(i)
           rec == [inst[i] EXCEPT
                       !.source_added      = @ \/ load,
                       !.lq_index          = IF load THEN l ELSE @,
                       !.destination_added = @ \/ store,
                       !.sq_index          = IF store THEN s ELSE @,
                       !.num_mem_ops       = IF given THEN @ - 1 ELSE @,
                       !.got               = IF given THEN p ELSE @]
           all   == /\ prog[i].load # None => rec.source_added
                    /\ prog[i].store # None => rec.destination_added
           new == [rec EXCEPT !.scheduled = IF all THEN "COMPLETED" ELSE @,
                              !.executed  = IF all /\ @ = "no" THEN "INFLIGHT" ELSE @]
           waited(j) == [inst[j] EXCEPT !.memory_instrs_depend_on_me = Append(@, i)]
<1>1. i \in Schedulable /\ i \in head .. Len(prog) /\ i \in 1 .. Len(prog)
      /\ inst[i].scheduled = "INFLIGHT"
  <2>1. Schedulable # {}
    BY DEF schedule_memory_instruction
  <2>2. /\ Schedulable \in SUBSET Nat /\ Schedulable \subseteq 1 .. Len(prog)
        /\ Schedulable \subseteq head .. Len(prog)
    BY InstTyped DEF Schedulable, InROB
  <2>3. i \in Schedulable
    BY <2>1, <2>2, SmallestIs
  <2> QED BY <2>2, <2>3 DEF Schedulable
<1>2. /\ inst' = [j \in DOMAIN inst |-> IF j = i THEN new
                                        ELSE IF j = p THEN waited(j) ELSE inst[j]]
      /\ inflight_mem_executions' =
                 inflight_mem_executions + IF given THEN NowDone({i}) ELSE 0
  BY DEF schedule_memory_instruction, Producer, Given
<1>3. /\ MayAddLoad(i) => l \in Nat
      /\ MayAddStore(i) => s \in Nat
  BY FreeAre, Sizes DEF MayAddLoad, MayAddStore
<1>4. p \in Nat /\ p # i /\ inst[i] \in InstRec /\ inflight_mem_executions \in Int
  BY <1>1, ProducerIs, InstTyped DEF RobOK
<1>5. \A j \in 1 .. Len(prog) : inst'[j] = IF j = i THEN new
                                           ELSE IF j = p THEN waited(j) ELSE inst[j]
  BY <1>2, InstTyped
<1> HIDE DEF i, l, s
<1>6. load \in BOOLEAN /\ store \in BOOLEAN /\ given \in BOOLEAN /\ all \in BOOLEAN
  BY DEF MayAddLoad, MayAddStore, Given
<1> HIDE DEF p, load, store, given, all
<1>7. /\ rec \in InstRec
      /\ rec.scheduled = inst[i].scheduled /\ rec.executed = inst[i].executed
      /\ rec.source_added = (inst[i].source_added \/ load)
      /\ rec.destination_added = (inst[i].destination_added \/ store)
      /\ rec.lq_index = IF load THEN l ELSE inst[i].lq_index
      /\ rec.sq_index = IF store THEN s ELSE inst[i].sq_index
      /\ rec.num_mem_ops = IF given THEN inst[i].num_mem_ops - 1 ELSE inst[i].num_mem_ops
      /\ rec.got = IF given THEN p ELSE inst[i].got
      /\ rec.num_reg_dependent = inst[i].num_reg_dependent
      /\ rec.registers_instrs_depend_on_me = inst[i].registers_instrs_depend_on_me
      /\ rec.memory_instrs_depend_on_me = inst[i].memory_instrs_depend_on_me
  <2> DEFINE sa == inst[i].source_added \/ load
             da == inst[i].destination_added \/ store
             li == IF load THEN l ELSE inst[i].lq_index
             si == IF store THEN s ELSE inst[i].sq_index
             n == IF given THEN inst[i].num_mem_ops - 1 ELSE inst[i].num_mem_ops
             g == IF given THEN p ELSE inst[i].got
  <2>1. sa \in BOOLEAN /\ da \in BOOLEAN
    OBVIOUS
  <2>2. li \in Nat /\ si \in Nat
    BY <1>3, <1>4 DEF InstRec, load, store
  <2>3. n \in Int
    BY <1>4 DEF InstRec
  <2>4. g \in Nat \cup {None}
    BY <1>4 DEF InstRec
  <2>5. rec = [inst[i] EXCEPT !.source_added = sa, !.lq_index = li, !.destination_added = da,
                              !.sq_index = si, !.num_mem_ops = n, !.got = g]
    BY <1>4 DEF InstRec
  <2>6. /\ rec.source_added = sa /\ rec.destination_added = da
        /\ rec.lq_index = li /\ rec.sq_index = si /\ rec.num_mem_ops = n /\ rec.got = g
    <3> HIDE DEF sa, da, li, si, n, g, rec
    <3> QED BY <1>4, <2>5 DEF InstRec
  <2>7. /\ rec \in InstRec
        /\ rec.scheduled = inst[i].scheduled /\ rec.executed = inst[i].executed
        /\ rec.num_reg_dependent = inst[i].num_reg_dependent
        /\ rec.registers_instrs_depend_on_me = inst[i].registers_instrs_depend_on_me
        /\ rec.memory_instrs_depend_on_me = inst[i].memory_instrs_depend_on_me
    <3> HIDE DEF sa, da, li, si, n, g, rec
    <3> QED BY <1>4, <2>1, <2>2, <2>3, <2>4, <2>5 DEF InstRec
  <2> HIDE DEF rec
  <2> QED BY <2>6, <2>7
<1> HIDE DEF rec
<1>8. /\ new \in InstRec
      /\ new.scheduled # "no"
      /\ new.executed = "COMPLETED" <=> inst[i].executed = "COMPLETED"
      /\ new.source_added = rec.source_added /\ new.destination_added = rec.destination_added
      /\ new.lq_index = rec.lq_index /\ new.sq_index = rec.sq_index
      /\ new.num_mem_ops = rec.num_mem_ops /\ new.got = rec.got
      /\ new.num_reg_dependent = rec.num_reg_dependent
      /\ new.registers_instrs_depend_on_me = rec.registers_instrs_depend_on_me
      /\ new.memory_instrs_depend_on_me = rec.memory_instrs_depend_on_me
  <2>1. /\ (IF all THEN "COMPLETED" ELSE rec.scheduled) \in Progress
        /\ (IF all THEN "COMPLETED" ELSE rec.scheduled) # "no"
        /\ (IF all /\ rec.executed = "no" THEN "INFLIGHT" ELSE rec.executed) \in Progress
    BY <1>1, <1>7 DEF Progress, InstRec
  <2> QED BY <1>7, <2>1 DEF InstRec
<1> HIDE DEF new
<1>9. /\ inst'[i] \in InstRec /\ SameWaits(i)
      /\ inst'[i].memory_instrs_depend_on_me = MemDeps(i)
      /\ inst'[i].scheduled # "no"
      /\ inst'[i].executed = "COMPLETED" <=> inst[i].executed = "COMPLETED"
      /\ inst'[i].source_added = (inst[i].source_added \/ load)
      /\ inst'[i].destination_added = (inst[i].destination_added \/ store)
      /\ inst'[i].lq_index = IF load THEN l ELSE inst[i].lq_index
      /\ inst'[i].sq_index = IF store THEN s ELSE inst[i].sq_index
      /\ inst'[i].num_mem_ops = IF given THEN inst[i].num_mem_ops - 1 ELSE inst[i].num_mem_ops
      /\ inst'[i].got = IF given THEN p ELSE inst[i].got
  <2>1. inst'[i] = new
    BY <1>1, <1>5
  <2> QED BY <1>7, <1>8, <2>1 DEF SameWaits, MemDeps
<1>10. ASSUME NEW j \in 1 .. Len(prog), j # i
       PROVE  /\ inst'[j] \in InstRec /\ SameWaits(j) /\ SameOps(j) /\ SameStage(j)
              /\ inst'[j].source_added = inst[j].source_added
              /\ inst'[j].destination_added = inst[j].destination_added
              /\ inst'[j].lq_index = inst[j].lq_index
              /\ inst'[j].sq_index = inst[j].sq_index
              /\ j # p => inst'[j].memory_instrs_depend_on_me = MemDeps(j)
              /\ j = p => inst'[j].memory_instrs_depend_on_me = Append(MemDeps(j), i)
  <2>1. inst[j] \in InstRec /\ inst'[j] = IF j = p THEN waited(j) ELSE inst[j]
    BY <1>5, <1>10, InstTyped
  <2>2. CASE j = p
    <3>1. Append(inst[j].memory_instrs_depend_on_me, i) \in Seq(Nat)
      BY <1>1, <2>1 DEF InstRec
    <3>2. inst'[j] = waited(j)
      BY <2>1, <2>2
    <3>3. /\ inst'[j] \in InstRec /\ SameWaits(j) /\ SameOps(j) /\ SameStage(j)
          /\ inst'[j].source_added = inst[j].source_added
          /\ inst'[j].destination_added = inst[j].destination_added
          /\ inst'[j].lq_index = inst[j].lq_index
          /\ inst'[j].sq_index = inst[j].sq_index
          /\ inst'[j].memory_instrs_depend_on_me = Append(MemDeps(j), i)
      BY <2>1, <3>1, <3>2 DEF InstRec, SameWaits, SameOps, SameStage, MemDeps
    <3> QED BY <2>2, <3>3
  <2>3. CASE j # p
    <3>1. inst'[j] = inst[j]
      BY <2>1, <2>3
    <3>2. SameSlots(j) /\ SameOps(j) /\ SameStage(j) /\ SameWaits(j)
      BY <3>1, Untouched
    <3> QED BY <2>1, <2>3, <3>1, <3>2 DEF MemDeps
  <2> QED BY <2>2, <2>3
<1>11. StillInst
  <2>1. DOMAIN inst' = DOMAIN inst /\ inst' = [j \in DOMAIN inst |-> inst'[j]]
    BY <1>2
  <2>2. \A j \in 1 .. Len(prog) : inst'[j] \in InstRec
    BY <1>9, <1>10
  <2> QED BY <2>1, <2>2, InstMade
<1>12. /\ ~given => SameOps(i) /\ inflight_mem_executions' = inflight_mem_executions
       /\ given => inflight_mem_executions' = inflight_mem_executions + NowDone({i})
  BY <1>2, <1>4, <1>9 DEF SameOps
<1>13. Enters(i, l, s)
  BY <1>1, <1>4, <1>9, <1>10, <1>12, Zenon DEF Enters, p, load, store, given
<1> QED BY <1>1, <1>11, <1>13 DEF i, l, s

-----------------------------------------------------------------------------
(* The instructions that are yet to complete, and their counters.          *)
LEMMA InflightFinite ==
    ASSUME RobOK
    PROVE  /\ IsFiniteSet(MemPending) /\ Cardinality(MemPending) \in Nat
           /\ IsFiniteSet(RegPending) /\ Cardinality(RegPending) \in Nat
<1>1. IsFiniteSet(head .. Len(prog))
  BY InstTyped, FS_Interval
<1>2. MemPending \subseteq head .. Len(prog) /\ RegPending \subseteq head .. Len(prog)
  BY DEF MemPending, RegPending, InROB
<1> QED BY <1>1, <1>2, FS_Subset, FS_CardinalityType

LEMMA InflightKept ==
    ASSUME RobOK, InflightOK, prog' = prog, head' = head, inflight' = inflight,
           \A j \in InROB : /\ inst'[j].num_mem_ops = inst[j].num_mem_ops
                            /\ inst'[j].executed = "COMPLETED" <=> inst[j].executed = "COMPLETED"
                            /\ ~is_memory(j) => inst'[j].executed = inst[j].executed
    PROVE  InflightOK'
<1>1. InROB' = InROB /\ \A j : is_memory(j)' <=> is_memory(j)
  BY DEF InROB, is_memory
<1>2. MemPending' = MemPending
  BY <1>1 DEF MemPending
<1>3. RegPending' = RegPending
  BY <1>1 DEF RegPending
<1> QED BY <1>2, <1>3 DEF InflightOK, inflight

(* Operations of the instructions of S are done, one of each.              *)
LEMMA InflightByOps ==
    ASSUME RobOK, InflightOK, prog' = prog, head' = head,
           inflight_reg_executions' = inflight_reg_executions,
           NEW S \in SUBSET InROB,
           inflight_mem_executions' = inflight_mem_executions + NowDone(S),
           \A j \in InROB :
              /\ inst'[j].executed = "COMPLETED" <=> inst[j].executed = "COMPLETED"
              /\ ~is_memory(j) => inst'[j].executed = inst[j].executed
              /\ j \notin S => inst'[j].num_mem_ops = inst[j].num_mem_ops
              /\ j \in S => /\ inst'[j].num_mem_ops = inst[j].num_mem_ops - 1
                            /\ is_memory(j) /\ inst[j].num_mem_ops >= 1
                            /\ inst[j].executed # "COMPLETED"
    PROVE  InflightOK'
<1> DEFINE D == {j \in S : inst[j].num_mem_ops = 1}
<1>1. InROB' = InROB /\ \A j : is_memory(j)' <=> is_memory(j)
  BY DEF InROB, is_memory
<1>2. RegPending' = RegPending
  BY <1>1 DEF RegPending
<1>3. \A j \in InROB : inst[j].num_mem_ops \in Int
  BY InstTyped DEF InROB, InstRec
<1>4. MemPending' = MemPending \cup D
  <2>1. MemPending' = {j \in InROB : is_memory(j) /\ inst'[j].num_mem_ops = 0
                                       /\ inst'[j].executed # "COMPLETED"}
    BY <1>1 DEF MemPending
  <2>2. \A j \in InROB : (is_memory(j) /\ inst'[j].num_mem_ops = 0
                              /\ inst'[j].executed # "COMPLETED")
                         <=> j \in MemPending \/ j \in D
    BY <1>3 DEF MemPending
  <2> QED BY <2>1, <2>2 DEF MemPending
<1>5. MemPending \cap D = {}
  BY DEF MemPending
<1>6. IsFiniteSet(D)
  <2>1. IsFiniteSet(head .. Len(prog))
    BY InstTyped, FS_Interval
  <2>2. D \subseteq head .. Len(prog)
    BY DEF InROB
  <2> QED BY <2>1, <2>2, FS_Subset
<1> HIDE DEF D
<1>7. Cardinality(MemPending \cup D) = Cardinality(MemPending) + Cardinality(D)
  <2>1. Cardinality(MemPending \cup D)
          = Cardinality(MemPending) + Cardinality(D) - Cardinality({})
    BY <1>5, <1>6, InflightFinite, FS_Union
  <2> QED BY <1>6, <2>1, InflightFinite, FS_EmptySet, FS_CardinalityType
<1>8. inflight_mem_executions' = inflight_mem_executions + Cardinality(D)
  BY DEF D, NowDone
<1> QED BY <1>2, <1>4, <1>7, <1>8 DEF InflightOK

LEMMA InflightByComplete ==
    ASSUME RobOK, InflightOK, prog' = prog, head' = head, NEW i, Completes(i),
           IF is_memory(i)
           THEN /\ inflight_mem_executions' = inflight_mem_executions - 1
                /\ inflight_reg_executions' = inflight_reg_executions
           ELSE /\ inflight_reg_executions' = inflight_reg_executions - 1
                /\ inflight_mem_executions' = inflight_mem_executions
    PROVE  InflightOK'
<1>1. InROB' = InROB /\ \A j : is_memory(j)' <=> is_memory(j)
  BY DEF InROB, is_memory
<1>2. /\ i \in InROB /\ inst[i].executed = "INFLIGHT" /\ inst[i].num_mem_ops = 0
      /\ inst'[i].executed = "COMPLETED"
      /\ \A j \in InROB : j \in 1 .. Len(prog)
  BY InstTyped DEF Completes, Completable, InROB
<1>3. \A j \in InROB : /\ inst'[j].num_mem_ops = inst[j].num_mem_ops
                       /\ j # i => inst'[j].executed = inst[j].executed
  BY <1>2 DEF Completes, SameOps
<1>4. MemPending' = MemPending \ {i}
  BY <1>1, <1>2, <1>3 DEF MemPending
<1>5. RegPending' = RegPending \ {i}
  BY <1>1, <1>2, <1>3 DEF RegPending
<1>6. CASE is_memory(i)
  <2>1. i \in MemPending /\ i \notin RegPending
    BY <1>2, <1>6 DEF MemPending, RegPending
  <2>2. Cardinality(MemPending \ {i}) = Cardinality(MemPending) - 1
    BY <2>1, InflightFinite, FS_RemoveElement
  <2>3. RegPending \ {i} = RegPending
    BY <2>1
  <2> QED BY <1>4, <1>5, <1>6, <2>2, <2>3 DEF InflightOK
<1>7. CASE ~is_memory(i)
  <2>1. i \notin MemPending /\ i \in RegPending
    BY <1>2, <1>7 DEF MemPending, RegPending
  <2>2. Cardinality(RegPending \ {i}) = Cardinality(RegPending) - 1
    BY <2>1, InflightFinite, FS_RemoveElement
  <2>3. MemPending \ {i} = MemPending
    BY <2>1
  <2> QED BY <1>4, <1>5, <1>7, <2>2, <2>3 DEF InflightOK
<1> QED BY <1>6, <1>7

LEMMA InflightByExecute ==
    ASSUME RobOK, RegInv, InflightOK, prog' = prog, head' = head, NEW i, Executes(i),
           inflight_reg_executions' = inflight_reg_executions + 1,
           inflight_mem_executions' = inflight_mem_executions
    PROVE  InflightOK'
<1>1. InROB' = InROB /\ \A j : is_memory(j)' <=> is_memory(j)
  BY DEF InROB, is_memory
<1>2. i \in 1 .. Len(prog) /\ ~is_memory(i) /\ inst[i].executed = "no"
  <2>1. 1 \in DOMAIN ready_to_execute /\ ready_to_execute[1] = i
    BY DEF Executes, RobOK
  <2> QED BY <2>1 DEF RegInv, ReadyOnce
<1>3. i \in InROB
  <2>1. \A j \in 1 .. head - 1 : inst[j].executed = "COMPLETED"
    BY DEF RegInv, RetiredDone
  <2> QED BY <1>2, <2>1, InstTyped DEF InROB
<1>4. \A j \in InROB : /\ inst'[j].num_mem_ops = inst[j].num_mem_ops
                       /\ j # i => inst'[j].executed = inst[j].executed
  BY InstTyped DEF InROB, Executes, SameOps
<1>5. MemPending' = MemPending
  BY <1>1, <1>2, <1>4 DEF MemPending
<1>6. RegPending' = RegPending \cup {i} /\ i \notin RegPending
  BY <1>1, <1>2, <1>3, <1>4 DEF RegPending, Executes
<1>7. Cardinality(RegPending \cup {i}) = Cardinality(RegPending) + 1
  BY <1>6, InflightFinite, FS_AddElement
<1> QED BY <1>5, <1>6, <1>7 DEF InflightOK

-----------------------------------------------------------------------------
(* MemInv is kept by what moves no slot to another instruction and does no *)
(* memory operation.                                                       *)
SameEntries ==
    /\ \A l \in Load : LQ'[l].id = LQ[l].id /\ LQ'[l].producer = LQ[l].producer
    /\ \A s \in Store : /\ SQ'[s].id = SQ[s].id
                        /\ SQ'[s].fetched = "COMPLETED" <=> SQ[s].fetched = "COMPLETED"

LEMMA LastStoreKept ==
    ASSUME RobOK, Len(prog') >= Len(prog), Len(prog') \in Nat,
           \A j \in 1 .. Len(prog) : prog'[j] = prog[j]
    PROVE  \A i \in 1 .. Len(prog) : LastStore(i)' = LastStore(i)
<1>1. ASSUME NEW i \in 1 .. Len(prog) PROVE LastStore(i)' = LastStore(i)
  <2>1. \A j \in 1 .. i - 1 : prog'[j] = prog[j]
    BY <1>1, InstTyped
  <2> DEFINE W == {j \in 1 .. i - 1 : prog[j].store = prog[i].load}
  <2>2. W' = W
    BY <2>1
  <2>3. LastStore(i) = IF W = {} THEN 0 ELSE Largest(W)
    BY DEF LastStore
  <2>4. LastStore(i)' = IF W' = {} THEN 0 ELSE Largest(W')
    BY DEF LastStore
  <2> HIDE DEF W
  <2> QED BY <2>2, <2>3, <2>4
<1> QED BY <1>1

LEMMA MemByStages ==
    ASSUME RobOK, RobOK', QueuesOK, MemInv, prog' = prog, head' = head, mem' = mem,
           TokensSame, SameEntries, InflightOK',
           \A j \in 1 .. Len(prog) :
              /\ SameSlots(j) /\ SameOps(j)
              /\ inst'[j].executed = "COMPLETED" =>
                    inst[j].executed = "COMPLETED" \/ inst[j].num_mem_ops = 0
    PROVE  MemInv'
<1>1. \A q : HasData(q)' <=> HasData(q)
  BY DEF HasData, SameEntries, Store
<1>2. \A j \in head .. Len(prog) : j \in 1 .. Len(prog)
  BY InstTyped
<1>3. \A j \in head .. Len(prog) : MemDeps(j)' = MemDeps(j)
  BY <1>2 DEF SameSlots, MemDeps
<1>4. LoadSlots'
  <2> SUFFICES ASSUME NEW l \in Load
               PROVE  IF LQ'[l].id = 0 THEN LoadToken(l)' = 0 ELSE LoadSlot(l)'
    BY DEF LoadSlots
  <2>1. /\ LQ'[l].id = LQ[l].id /\ LQ'[l].producer = LQ[l].producer
        /\ LoadToken(l)' = LoadToken(l)
    BY DEF SameEntries, TokensSame
  <2>2. IF LQ[l].id = 0 THEN LoadToken(l) = 0 ELSE LoadSlot(l)
    BY DEF MemInv, LoadSlots
  <2>3. CASE LQ[l].id = 0
    BY <2>1, <2>2, <2>3
  <2>4. CASE LQ[l].id # 0
    <3> DEFINE i == LQ[l].id
               p == LQ[l].producer
    <3>1. LoadSlot(l)
      BY <2>2, <2>4
    <3>2. i \in head .. Len(prog) /\ i \in 1 .. Len(prog)
      BY <1>2, <3>1 DEF LoadSlot
    <3>3. /\ inst'[i].got = inst[i].got /\ inst'[i].source_added = inst[i].source_added
          /\ inst'[i].lq_index = inst[i].lq_index
      BY <3>2 DEF SameOps, SameSlots
    <3>4. p # 0 => p \in head .. Len(prog)
      BY <3>1, <3>2, InstTyped DEF LoadSlot
    <3>5. LoadSlot(l)'
      BY <1>1, <1>3, <2>1, <3>1, <3>3, <3>4 DEF LoadSlot
    <3> QED BY <2>1, <2>4, <3>5
  <2> QED BY <2>3, <2>4
<1>5. StoreSlots'
  <2> SUFFICES ASSUME NEW s \in Store
               PROVE  /\ StoreToken(s)' + (IF SQ'[s].fetched = "COMPLETED" THEN 1 ELSE 0)
                           = (IF SQ'[s].id = 0 THEN 0 ELSE 1)
                      /\ SQ'[s].id # 0 =>
                            /\ SQ'[s].id \in head .. Len(prog) /\ prog[SQ'[s].id].store # None
                            /\ inst'[SQ'[s].id].destination_added
                            /\ inst'[SQ'[s].id].sq_index = s
    BY DEF StoreSlots
  <2>1. /\ SQ'[s].id = SQ[s].id
        /\ SQ'[s].fetched = "COMPLETED" <=> SQ[s].fetched = "COMPLETED"
        /\ StoreToken(s)' = StoreToken(s)
    BY DEF SameEntries, TokensSame
  <2>2. /\ StoreToken(s) + (IF SQ[s].fetched = "COMPLETED" THEN 1 ELSE 0)
             = (IF SQ[s].id = 0 THEN 0 ELSE 1)
        /\ SQ[s].id # 0 =>
              LET i == SQ[s].id
              IN  /\ i \in head .. Len(prog) /\ prog[i].store # None
                  /\ inst[i].destination_added /\ inst[i].sq_index = s
    BY DEF MemInv, StoreSlots
  <2> QED BY <1>2, <2>1, <2>2 DEF SameSlots
<1>6. MemDepsOK'
  <2> SUFFICES ASSUME NEW i \in head .. Len(prog), ~HasData(i)', NEW k \in DOMAIN MemDeps(i)'
               PROVE  LET j == MemDeps(i)'[k]
                      IN  /\ j \in i + 1 .. Len(prog) /\ inst'[j].lq_index \in Load
                          /\ LQ'[inst'[j].lq_index].id = j
                          /\ LQ'[inst'[j].lq_index].producer = i
                          /\ \A m \in DOMAIN MemDeps(i)' : MemDeps(i)'[m] = j => m = k
    BY DEF MemDepsOK
  <2> DEFINE j == MemDeps(i)[k]
  <2>1. MemDeps(i)' = MemDeps(i) /\ ~HasData(i)
    BY <1>1, <1>3
  <2>2. /\ j \in i + 1 .. Len(prog) /\ inst[j].lq_index \in Load
        /\ LQ[inst[j].lq_index].id = j /\ LQ[inst[j].lq_index].producer = i
        /\ \A m \in DOMAIN MemDeps(i) : MemDeps(i)[m] = j => m = k
    BY <2>1 DEF MemInv, MemDepsOK
  <2> HIDE DEF j
  <2>3. j \in 1 .. Len(prog)
    BY <2>2, InstTyped
  <2>4. inst'[j].lq_index = inst[j].lq_index
    BY <2>3 DEF SameSlots
  <2>5. /\ LQ'[inst[j].lq_index].id = j /\ LQ'[inst[j].lq_index].producer = i
    BY <2>2 DEF SameEntries
  <2> QED BY <2>1, <2>2, <2>4, <2>5 DEF j
<1>7. OpsCounted'
  <2> SUFFICES ASSUME NEW i \in head .. Len(prog)
               PROVE  /\ inst'[i].num_mem_ops =
                           (IF prog[i].load # None /\ inst'[i].got = None THEN 1 ELSE 0)
                         + (IF prog[i].store # None /\ ~HasData(i)' THEN 1 ELSE 0)
                      /\ ~inst'[i].source_added => inst'[i].got = None
                      /\ inst'[i].executed = "COMPLETED" => inst'[i].num_mem_ops = 0
    BY DEF OpsCounted
  <2>1. /\ SameSlots(i) /\ SameOps(i)
        /\ inst'[i].executed = "COMPLETED" =>
              inst[i].executed = "COMPLETED" \/ inst[i].num_mem_ops = 0
    BY <1>2
  <2>2. /\ inst[i].num_mem_ops =
             (IF prog[i].load # None /\ inst[i].got = None THEN 1 ELSE 0)
           + (IF prog[i].store # None /\ ~HasData(i) THEN 1 ELSE 0)
        /\ ~inst[i].source_added => inst[i].got = None
        /\ inst[i].executed = "COMPLETED" => inst[i].num_mem_ops = 0
    BY DEF MemInv, OpsCounted
  <2> QED BY <1>1, <2>1, <2>2 DEF SameSlots, SameOps
<1>8. \A i \in 1 .. Len(prog) : LastStore(i)' = LastStore(i)
  BY DEF LastStore, Largest
<1>9. MemOK'
  <2>1. \A x : StoresTo(x, head - 1)' = StoresTo(x, head - 1)
    BY DEF StoresTo
  <2>2. MemOK
    BY DEF MemInv
  <2> QED BY <2>1, <2>2 DEF MemOK, Largest
<1>10. GotOK'
  BY <1>8 DEF MemInv, GotOK, SameOps
<1> QED BY <1>4, <1>5, <1>6, <1>7, <1>9, <1>10, Zenon DEF MemInv

-----------------------------------------------------------------------------
(* Retirement: the store of the head has handed out its data, and the slot *)
(* it leaves is named nowhere.                                             *)
LEMMA HeadSlot ==
    ASSUME RobOK, QueuesOK, MemInv, MayRetire
    PROVE  /\ head \in head .. Len(prog) /\ head \in 1 .. Len(prog)
           /\ inst[head].num_mem_ops = 0
           /\ prog[head].load # None => inst[head].got # None
           /\ prog[head].store # None =>
                 /\ HasData(head)
                 /\ inst[head].sq_index \in Store
                 /\ SQ[inst[head].sq_index].id = head
                 /\ SQ[inst[head].sq_index].fetched = "COMPLETED"
                 /\ StoreToken(inst[head].sq_index) = 0
                 /\ \A s \in Store : SQ[s].id = head => s = inst[head].sq_index
<1>1. head \in head .. Len(prog) /\ head \in 1 .. Len(prog) /\ inst[head].executed = "COMPLETED"
  BY InstTyped DEF MayRetire
<1>2. /\ inst[head].num_mem_ops = 0
      /\ inst[head].num_mem_ops =
             (IF prog[head].load # None /\ inst[head].got = None THEN 1 ELSE 0)
           + (IF prog[head].store # None /\ ~HasData(head) THEN 1 ELSE 0)
  BY <1>1 DEF MemInv, OpsCounted
<1>3. /\ prog[head].load # None => inst[head].got # None
      /\ prog[head].store # None => HasData(head)
  BY <1>2
<1>4. ASSUME prog[head].store # None
      PROVE  /\ inst[head].sq_index \in Store
             /\ SQ[inst[head].sq_index].id = head
             /\ SQ[inst[head].sq_index].fetched = "COMPLETED"
             /\ StoreToken(inst[head].sq_index) = 0
             /\ \A s \in Store : SQ[s].id = head => s = inst[head].sq_index
  <2>1. PICK s \in Store : SQ[s].id = head /\ SQ[s].fetched = "COMPLETED"
    BY <1>3, <1>4 DEF HasData, Store
  <2>2. head # 0
    BY InstTyped
  <2>3. \A r \in Store : SQ[r].id = head => inst[head].sq_index = r
    BY <2>2 DEF MemInv, StoreSlots
  <2>4. StoreToken(s) = 0
    <3>1. StoreToken(s) + (IF SQ[s].fetched = "COMPLETED" THEN 1 ELSE 0)
             = (IF SQ[s].id = 0 THEN 0 ELSE 1)
      BY <2>1 DEF MemInv, StoreSlots
    <3>2. StoreToken(s) \in Nat
      BY TokensNat
    <3> QED BY <2>1, <2>2, <3>1, <3>2
  <2> QED BY <2>1, <2>3, <2>4
<1> QED BY <1>1, <1>2, <1>3, <1>4

LEMMA StoresOneMore ==
    ASSUME RobOK, head \in 1 .. Len(prog), NEW x \in Addr
    PROVE  IF prog[head].store = x
           THEN /\ StoresTo(x, head) # {} /\ Largest(StoresTo(x, head)) = head
           ELSE StoresTo(x, head) = StoresTo(x, head - 1)
<1>1. CASE prog[head].store = x
  <2>1. head \in StoresTo(x, head) /\ StoresTo(x, head) \in SUBSET (1 .. head)
    BY <1>1 DEF StoresTo
  <2>2. \A j \in StoresTo(x, head) : j <= head
    BY <2>1
  <2>3. Largest(StoresTo(x, head)) = head
    <3> DEFINE S == StoresTo(x, head)
    <3>1. head \in Nat /\ head \in S /\ S \in SUBSET (1 .. head) /\ \A j \in S : j <= head
      BY <2>1, <2>2
    <3> HIDE DEF S
    <3>2. Largest(S) = head
      BY <3>1, LargestUnique
    <3> QED BY <3>2 DEF S
  <2> QED BY <1>1, <2>1, <2>3
<1>2. CASE prog[head].store # x
  <2>1. \A j \in 1 .. head : j = head \/ j \in 1 .. head - 1
    OBVIOUS
  <2>2. \A j \in 1 .. head - 1 : j \in 1 .. head
    OBVIOUS
  <2> QED BY <1>2, <2>1, <2>2 DEF StoresTo
<1> QED BY <1>1, <1>2

LEMMA MemByRetire ==
    ASSUME RobOK, QueuesOK, MemInv, retire_rob
    PROVE  MemInv'
<1> DEFINE h == inst[head].sq_index
<1>1. /\ prog' = prog /\ inst' = inst /\ head' = head + 1 /\ LQ' = LQ
      /\ MayRetire
      /\ \/ /\ prog[head].store # None
            /\ mem' = [mem EXCEPT ![prog[head].store] = head]
            /\ SQ' = [SQ EXCEPT ![h] = EmptyStore]
         \/ prog[head].store = None /\ mem' = mem /\ SQ' = SQ
      /\ inflight' = inflight
      /\ RTL0' = RTL0 /\ RTL1' = RTL1 /\ RTS0' = RTS0 /\ RTS1' = RTS1
      /\ asked' = asked /\ DTLB_bus' = DTLB_bus /\ L1D_bus' = L1D_bus
  BY DEF retire_rob, RetireStore, caches
<1>2. /\ head \in head .. Len(prog) /\ head \in 1 .. Len(prog)
      /\ inst[head].num_mem_ops = 0
      /\ prog[head].load # None => inst[head].got # None
      /\ prog[head].store # None =>
            /\ HasData(head) /\ h \in Store
            /\ SQ[h].id = head /\ SQ[h].fetched = "COMPLETED"
            /\ StoreToken(h) = 0
            /\ \A s \in Store : SQ[s].id = head => s = h
  BY <1>1, HeadSlot
<1>3. /\ \A k : LoadToken(k)' = LoadToken(k) /\ StoreToken(k)' = StoreToken(k)
  BY <1>1 DEF LoadToken, StoreToken, Times, Sent
<1>4. /\ \A i \in head' .. Len(prog)' : i \in head .. Len(prog) /\ i # head
      /\ \A i \in head .. Len(prog) : i # head => i \in head' .. Len(prog)'
  BY <1>1, InstTyped
<1>5. /\ \A j : is_memory(j)' <=> is_memory(j)
      /\ \A j : MemDeps(j)' = MemDeps(j)
  BY <1>1 DEF is_memory, MemDeps
<1>6. /\ SQ \in [Store -> StoreEntry]
      /\ \A s \in Store : \/ SQ'[s] = SQ[s] /\ SQ[s].id # head
                          \/ s = h /\ SQ'[s] = EmptyStore /\ StoreToken(s) = 0
  <2>1. SQ \in [Store -> StoreEntry]
    BY DEF QueuesOK
  <2>2. CASE prog[head].store # None
    BY <1>1, <1>2, <2>1, <2>2
  <2>3. CASE prog[head].store = None
    <3>1. \A s \in Store : SQ[s].id # head
      BY <1>2, <2>3 DEF MemInv, StoreSlots
    <3> QED BY <1>1, <2>1, <2>3, <3>1
  <2> QED BY <2>1, <2>2, <2>3
<1>7. \A q : q # 0 /\ q # head => (HasData(q)' <=> HasData(q))
  <2> SUFFICES ASSUME NEW q, q # 0, q # head PROVE HasData(q)' <=> HasData(q)
    OBVIOUS
  <2>1. h \in Store /\ SQ'[h] # SQ[h] => SQ[h].id = head
    BY <1>1, <1>2, <1>6
  <2>2. \A s \in Store : (SQ'[s].id = q /\ SQ'[s].fetched = "COMPLETED")
                         <=> (SQ[s].id = q /\ SQ[s].fetched = "COMPLETED")
    BY <1>6, <2>1 DEF EmptyStore
  <2> QED BY <2>2 DEF HasData, Store
<1>8. LoadSlots'
  <2> SUFFICES ASSUME NEW l \in Load
               PROVE  IF LQ[l].id = 0 THEN LoadToken(l) = 0 ELSE LoadSlot(l)'
    BY <1>1, <1>3 DEF LoadSlots
  <2>1. IF LQ[l].id = 0 THEN LoadToken(l) = 0 ELSE LoadSlot(l)
    BY DEF MemInv, LoadSlots
  <2>2. CASE LQ[l].id # 0
    <3> DEFINE i == LQ[l].id
               p == LQ[l].producer
    <3>1. LoadSlot(l)
      BY <2>1, <2>2
    <3>2. i \in head .. Len(prog) /\ i # head
      BY <1>2, <3>1 DEF LoadSlot
    <3>3. p # 0 => p \in head .. i - 1 /\ p # head /\ p \in head + 1 .. i - 1
      <4> SUFFICES ASSUME p # 0 PROVE p \in head .. i - 1 /\ p # head
        BY <3>2, InstTyped
      <4>1. /\ p \in head .. i - 1 /\ prog[p].store = prog[i].load /\ ~HasData(p)
            /\ prog[i].load # None
        BY <3>1 DEF LoadSlot
      <4>2. p # head
        BY <1>2, <4>1
      <4> QED BY <4>1, <4>2
    <3>4. i \in head + 1 .. Len(prog) /\ \A j \in head + 1 .. i - 1 : j \in head .. i - 1
      BY <3>2, InstTyped
    <3>5. p # 0 => ~HasData(p)'
      BY <1>1, <1>7, <3>1, <3>3 DEF LoadSlot
    <3>6. LoadSlot(l)'
      BY <1>1, <1>3, <1>5, <3>1, <3>3, <3>4, <3>5 DEF LoadSlot
    <3> QED BY <2>2, <3>6
  <2> QED BY <2>1, <2>2
<1>9. StoreSlots'
  <2> SUFFICES ASSUME NEW s \in Store
               PROVE  /\ StoreToken(s) + (IF SQ'[s].fetched = "COMPLETED" THEN 1 ELSE 0)
                           = (IF SQ'[s].id = 0 THEN 0 ELSE 1)
                      /\ SQ'[s].id # 0 =>
                            /\ SQ'[s].id \in head' .. Len(prog)' /\ prog[SQ'[s].id].store # None
                            /\ inst[SQ'[s].id].destination_added
                            /\ inst[SQ'[s].id].sq_index = s
    BY <1>1, <1>3 DEF StoreSlots
  <2>1. CASE SQ'[s] = SQ[s] /\ SQ[s].id # head
    BY <1>4, <2>1 DEF MemInv, StoreSlots
  <2>2. CASE SQ'[s] = EmptyStore /\ StoreToken(s) = 0
    BY <2>2 DEF EmptyStore
  <2> QED BY <1>6, <2>1, <2>2
<1>10. \A i \in head' .. Len(prog)' : HasData(i)' <=> HasData(i)
  <2>1. \A i \in head' .. Len(prog)' : i # 0 /\ i # head
    BY <1>1, InstTyped
  <2> QED BY <1>7, <2>1
<1>11. MemDepsOK'
  BY <1>1, <1>4, <1>5, <1>10 DEF MemInv, MemDepsOK
<1>12. OpsCounted'
  BY <1>1, <1>4, <1>10 DEF MemInv, OpsCounted
<1>13. InflightOK'
  <2>1. inst[head].executed = "COMPLETED"
    BY <1>1 DEF MayRetire
  <2>2. MemPending' = MemPending
    BY <1>1, <1>4, <1>5, <2>1 DEF MemPending, InROB
  <2>3. RegPending' = RegPending
    BY <1>1, <1>4, <1>5, <2>1 DEF RegPending, InROB
  <2> QED BY <1>1, <2>2, <2>3 DEF MemInv, InflightOK, inflight
<1>14. MemOK'
  <2>1. \A x : StoresTo(x, head - 1)' = StoresTo(x, head)
    <3>1. head' - 1 = head
      BY <1>1, InstTyped
    <3> QED BY <1>1, <3>1 DEF StoresTo
  <2> SUFFICES ASSUME NEW x \in Addr
               PROVE  mem'[x] = IF StoresTo(x, head) = {} THEN 0 ELSE Largest(StoresTo(x, head))
    BY <2>1 DEF MemOK
  <2>2. IF prog[head].store = x
        THEN /\ StoresTo(x, head) # {} /\ Largest(StoresTo(x, head)) = head
        ELSE StoresTo(x, head) = StoresTo(x, head - 1)
    BY <1>2, StoresOneMore
  <2>3. mem[x] = IF StoresTo(x, head - 1) = {} THEN 0 ELSE Largest(StoresTo(x, head - 1))
    BY DEF MemInv, MemOK
  <2>4. mem'[x] = IF prog[head].store = x THEN head ELSE mem[x]
    BY <1>1, CpuAssumption DEF RobOK
  <2> QED BY <2>2, <2>3, <2>4
<1>15. GotOK'
  BY <1>1 DEF MemInv, GotOK, LastStore
<1> QED BY <1>8, <1>9, <1>11, <1>12, <1>13, <1>14, <1>15, Zenon DEF MemInv

-----------------------------------------------------------------------------
(* An instruction is dispatched.                                           *)
LEMMA MemByDispatch ==
    ASSUME RobOK, QueuesOK, MemInv, NEW r \in Instruction, dispatch_instruction(r),
           NEW n \in Nat, Dispatches(n, r)
    PROVE  MemInv'
<1>1. /\ head' = head /\ mem' = mem /\ LQ' = LQ /\ SQ' = SQ /\ inflight' = inflight
      /\ RTL0' = RTL0 /\ RTL1' = RTL1 /\ RTS0' = RTS0 /\ RTS1' = RTS1
      /\ asked' = asked /\ DTLB_bus' = DTLB_bus /\ L1D_bus' = L1D_bus
  BY DEF dispatch_instruction, caches
<1>2. /\ n = Len(prog) + 1 /\ Len(prog') = n
      /\ \A j \in 1 .. Len(prog) : prog'[j] = prog[j] /\ inst'[j] = inst[j]
      /\ \A j \in 1 .. n : j \in 1 .. Len(prog) \/ j = n
      /\ prog'[n] = r /\ inst'[n] = NewInst(r)
  BY DEF Dispatches
<1>3. /\ inst'[n].executed = "no" /\ inst'[n].got = None
      /\ inst'[n].num_mem_ops =
            (IF r.load = None THEN 0 ELSE 1) + (IF r.store = None THEN 0 ELSE 1)
      /\ inst'[n].memory_instrs_depend_on_me = <<>>
  BY <1>2 DEF NewInst
<1>4. /\ \A k : LoadToken(k)' = LoadToken(k) /\ StoreToken(k)' = StoreToken(k)
      /\ \A q : HasData(q)' <=> HasData(q)
  BY <1>1 DEF LoadToken, StoreToken, Times, Sent, HasData
<1>5. /\ \A i \in head .. Len(prog) : i \in 1 .. Len(prog) /\ i \in head .. n
      /\ \A i \in head .. n : i \in head .. Len(prog) \/ i = n
      /\ n \notin head .. Len(prog) /\ n # 0
  BY <1>2, InstTyped
<1>6. /\ \A j \in head .. Len(prog) : MemDeps(j)' = MemDeps(j)
      /\ \A j \in head .. Len(prog) : is_memory(j)' <=> is_memory(j)
  BY <1>2, <1>5 DEF MemDeps, is_memory
<1>7. ~HasData(n)
  <2>1. \A s \in Store : SQ[s].id # n
    BY <1>5 DEF MemInv, StoreSlots
  <2> QED BY <2>1 DEF HasData, Store
<1>8. LoadSlots'
  <2> SUFFICES ASSUME NEW l \in Load
               PROVE  IF LQ[l].id = 0 THEN LoadToken(l) = 0 ELSE LoadSlot(l)'
    BY <1>1, <1>4 DEF LoadSlots
  <2>1. IF LQ[l].id = 0 THEN LoadToken(l) = 0 ELSE LoadSlot(l)
    BY DEF MemInv, LoadSlots
  <2>2. CASE LQ[l].id # 0
    <3> SUFFICES LoadSlot(l)'
      BY <2>2
    <3>1. LoadSlot(l)
      BY <2>1, <2>2
    <3>2. PICK i : i = LQ[l].id
      OBVIOUS
    <3>3. PICK p : p = LQ[l].producer
      OBVIOUS
    <3>4. i = LQ'[l].id /\ p = LQ'[l].producer
      BY <1>1, <3>2, <3>3
    <3>5. /\ i \in head .. Len(prog) /\ prog[i].load # None /\ inst[i].got = None
          /\ inst[i].source_added /\ inst[i].lq_index = l
      BY <3>1, <3>2 DEF LoadSlot
    <3>6. i \in head .. n /\ prog'[i] = prog[i] /\ inst'[i] = inst[i]
      BY <1>2, <1>5, <3>5
    <3>7. \A j \in head .. i - 1 : prog'[j] = prog[j] /\ j \in head .. Len(prog)
      BY <1>2, <3>5, InstTyped
    <3>8. p = 0 => /\ LoadToken(l) = 1
                   /\ \A j \in head .. i - 1 : prog[j].store # prog[i].load
      BY <3>1, <3>2, <3>3 DEF LoadSlot
    <3>9. p # 0 => /\ LoadToken(l) = 0
                   /\ p \in head .. i - 1 /\ prog[p].store = prog[i].load
                   /\ \A j \in p + 1 .. i - 1 : prog[j].store # prog[i].load
                   /\ ~HasData(p)
                   /\ \E k \in DOMAIN MemDeps(p) : MemDeps(p)[k] = i
      BY <3>1, <3>2, <3>3 DEF LoadSlot
    <3>10. CASE p = 0
      <4>1. \A j \in head .. i - 1 : prog'[j].store # prog'[i].load
        BY <3>6, <3>7, <3>8, <3>10
      <4> QED BY <1>1, <1>2, <1>4, <3>4, <3>5, <3>6, <3>8, <3>10, <4>1 DEF LoadSlot
    <3>11. CASE p # 0
      <4>1. \A j \in p + 1 .. i - 1 : j \in head .. i - 1
        BY <3>9, <3>11, InstTyped
      <4>2. /\ prog'[p].store = prog'[i].load
            /\ \A j \in p + 1 .. i - 1 : prog'[j].store # prog'[i].load
        BY <3>6, <3>7, <3>9, <3>11, <4>1
      <4>3. MemDeps(p)' = MemDeps(p)
        BY <1>6, <3>7, <3>9, <3>11
      <4>4. LoadToken(l)' = 0 /\ ~HasData(p)'
        BY <1>4, <3>9, <3>11
      <4> QED BY <1>1, <1>2, <3>4, <3>5, <3>6, <3>9, <3>11, <4>2, <4>3, <4>4 DEF LoadSlot
    <3> QED BY <3>10, <3>11
  <2> QED BY <2>1, <2>2
<1>9. StoreSlots'
  BY <1>1, <1>2, <1>4, <1>5 DEF MemInv, StoreSlots
<1>10. MemDepsOK'
  <2> SUFFICES ASSUME NEW i \in head .. n, ~HasData(i), NEW k \in DOMAIN MemDeps(i)'
               PROVE  LET j == MemDeps(i)'[k]
                      IN  /\ j \in i + 1 .. n /\ inst'[j].lq_index \in Load
                          /\ LQ[inst'[j].lq_index].id = j
                          /\ LQ[inst'[j].lq_index].producer = i
                          /\ \A m \in DOMAIN MemDeps(i)' : MemDeps(i)'[m] = j => m = k
    BY <1>1, <1>2, <1>4 DEF MemDepsOK
  <2>1. i \in head .. Len(prog)
    BY <1>3, <1>5 DEF MemDeps
  <2> DEFINE j == MemDeps(i)[k]
  <2>2. /\ MemDeps(i)' = MemDeps(i)
        /\ j \in i + 1 .. Len(prog) /\ inst[j].lq_index \in Load
        /\ LQ[inst[j].lq_index].id = j /\ LQ[inst[j].lq_index].producer = i
        /\ \A m \in DOMAIN MemDeps(i) : MemDeps(i)[m] = j => m = k
    BY <1>6, <2>1 DEF MemInv, MemDepsOK
  <2> HIDE DEF j
  <2>3. j \in 1 .. Len(prog) /\ j \in i + 1 .. n
    BY <1>2, <2>1, <2>2, InstTyped
  <2> QED BY <1>2, <2>2, <2>3 DEF j
<1>11. OpsCounted'
  <2> SUFFICES ASSUME NEW i \in head .. n
               PROVE  /\ inst'[i].num_mem_ops =
                           (IF prog'[i].load # None /\ inst'[i].got = None THEN 1 ELSE 0)
                         + (IF prog'[i].store # None /\ ~HasData(i) THEN 1 ELSE 0)
                      /\ ~inst'[i].source_added => inst'[i].got = None
                      /\ inst'[i].executed = "COMPLETED" => inst'[i].num_mem_ops = 0
    BY <1>1, <1>2, <1>4 DEF OpsCounted
  <2>1. CASE i = n
    BY <1>2, <1>3, <1>7, <2>1
  <2>2. CASE i \in head .. Len(prog)
    BY <1>2, <1>5, <2>2 DEF MemInv, OpsCounted
  <2> QED BY <1>5, <2>1, <2>2
<1>12. InflightOK'
  <2>1. ~(is_memory(n)' /\ inst'[n].num_mem_ops = 0)
    BY <1>2, <1>3 DEF is_memory
  <2>2. MemPending' = MemPending
    BY <1>1, <1>2, <1>5, <1>6, <2>1 DEF MemPending, InROB
  <2>3. RegPending' = RegPending
    BY <1>1, <1>2, <1>3, <1>5, <1>6 DEF RegPending, InROB
  <2> QED BY <1>1, <2>2, <2>3 DEF MemInv, InflightOK, inflight
<1>13. \A i \in 1 .. Len(prog) : LastStore(i)' = LastStore(i)
  <2>1. Len(prog') >= Len(prog) /\ Len(prog') \in Nat
    BY <1>2, InstTyped
  <2> QED BY <1>2, <2>1, LastStoreKept
<1>14. MemOK'
  <2>1. \A x : StoresTo(x, head - 1)' = StoresTo(x, head - 1)
    <3>1. head - 1 \in 0 .. Len(prog) /\ head' - 1 = head - 1
      BY <1>1, InstTyped
    <3>2. \A j \in 1 .. head - 1 : prog'[j] = prog[j]
      BY <1>2, <3>1, InstTyped
    <3> QED BY <3>1, <3>2 DEF StoresTo
  <2> QED BY <1>1, <2>1 DEF MemInv, MemOK
<1>15. GotOK'
  BY <1>2, <1>3, <1>13 DEF MemInv, GotOK
<1> QED BY <1>8, <1>9, <1>10, <1>11, <1>12, <1>14, <1>15, Zenon DEF MemInv

-----------------------------------------------------------------------------
(* The instruction of an occupied slot.                                    *)
LEMMA SlotOwners ==
    ASSUME RobOK, MemInv
    PROVE  /\ \A l \in Load : LQ[l].id # 0 =>
                 /\ LQ[l].id \in head .. Len(prog) /\ LQ[l].id \in 1 .. Len(prog)
                 /\ prog[LQ[l].id].load \in Addr /\ inst[LQ[l].id].got = None
                 /\ inst[LQ[l].id].source_added /\ inst[LQ[l].id].lq_index = l
                 /\ inst[LQ[l].id].num_mem_ops >= 1
                 /\ inst[LQ[l].id].executed # "COMPLETED"
                 /\ is_memory(LQ[l].id)
           /\ \A s \in Store : SQ[s].id # 0 =>
                 /\ SQ[s].id \in head .. Len(prog) /\ SQ[s].id \in 1 .. Len(prog)
                 /\ prog[SQ[s].id].store # None /\ is_memory(SQ[s].id)
                 /\ inst[SQ[s].id].destination_added /\ inst[SQ[s].id].sq_index = s
           /\ \A i \in head .. Len(prog) : inst[i].num_mem_ops >= 1 =>
                 inst[i].executed # "COMPLETED"
<1>1. \A i \in head .. Len(prog) :
         /\ inst[i].num_mem_ops \in Int
         /\ inst[i].num_mem_ops >= 1 => inst[i].executed # "COMPLETED"
         /\ prog[i].load # None /\ inst[i].got = None => inst[i].num_mem_ops >= 1
  BY InstTyped DEF MemInv, OpsCounted, InstRec
<1>2. ASSUME NEW l \in Load, LQ[l].id # 0
      PROVE  /\ LQ[l].id \in head .. Len(prog) /\ LQ[l].id \in 1 .. Len(prog)
             /\ prog[LQ[l].id].load \in Addr /\ inst[LQ[l].id].got = None
             /\ inst[LQ[l].id].source_added /\ inst[LQ[l].id].lq_index = l
             /\ inst[LQ[l].id].num_mem_ops >= 1
             /\ inst[LQ[l].id].executed # "COMPLETED"
             /\ is_memory(LQ[l].id)
  <2>1. LoadSlot(l)
    BY <1>2 DEF MemInv, LoadSlots
  <2>2. /\ LQ[l].id \in head .. Len(prog) /\ prog[LQ[l].id].load # None
        /\ inst[LQ[l].id].got = None
        /\ inst[LQ[l].id].source_added /\ inst[LQ[l].id].lq_index = l
    BY <2>1 DEF LoadSlot
  <2>3. LQ[l].id \in 1 .. Len(prog)
    BY <2>2, InstTyped
  <2>4. prog[LQ[l].id].load \in Addr
    BY <2>2, <2>3, InstTyped, CpuAssumption
  <2> QED BY <1>1, <2>2, <2>3, <2>4 DEF is_memory
<1>3. \A s \in Store : SQ[s].id # 0 =>
         /\ SQ[s].id \in head .. Len(prog) /\ SQ[s].id \in 1 .. Len(prog)
         /\ prog[SQ[s].id].store # None /\ is_memory(SQ[s].id)
         /\ inst[SQ[s].id].destination_added /\ inst[SQ[s].id].sq_index = s
  BY InstTyped DEF MemInv, StoreSlots, is_memory
<1> QED BY <1>1, <1>2, <1>3

(* The last store before a load that no store of the ROB feeds.            *)
LEMMA LastRetired ==
    ASSUME RobOK, MemOK, NEW i \in head .. Len(prog), prog[i].load \in Addr,
           \A j \in head .. i - 1 : prog[j].store # prog[i].load
    PROVE  mem[prog[i].load] = LastStore(i) /\ mem[prog[i].load] # None
<1> DEFINE x == prog[i].load
           W == {j \in 1 .. i - 1 : prog[j].store = x}
<1>1. W = StoresTo(x, head - 1)
  <2>1. \A j \in 1 .. i - 1 : j \in 1 .. head - 1 \/ j \in head .. i - 1
    BY InstTyped
  <2>2. \A j \in 1 .. head - 1 : j \in 1 .. i - 1
    BY InstTyped
  <2> QED BY <2>1, <2>2 DEF StoresTo
<1>2. LastStore(i) = IF W = {} THEN 0 ELSE Largest(W)
  BY DEF LastStore
<1>3. mem[x] = IF StoresTo(x, head - 1) = {} THEN 0 ELSE Largest(StoresTo(x, head - 1))
  BY DEF MemOK
<1>4. mem[x] \in Nat
  BY DEF RobOK
<1> HIDE DEF W
<1>5. mem[x] = LastStore(i) /\ mem[x] # None
  BY <1>1, <1>2, <1>3, <1>4, CpuAssumption
<1> QED BY <1>5

(* The last store before a load that a store of the ROB feeds.             *)
LEMMA LastInRob ==
    ASSUME RobOK, NEW i \in head .. Len(prog), NEW p \in head .. i - 1,
           prog[p].store = prog[i].load,
           \A j \in p + 1 .. i - 1 : prog[j].store # prog[i].load
    PROVE  LastStore(i) = p
<1> DEFINE W == {j \in 1 .. i - 1 : prog[j].store = prog[i].load}
<1>1. p \in W /\ i - 1 \in Nat /\ W \in SUBSET (1 .. i - 1)
  BY InstTyped
<1>2. \A j \in W : j <= p
  <2> SUFFICES ASSUME NEW j \in W, ~(j <= p) PROVE FALSE
    OBVIOUS
  <2>1. j \in p + 1 .. i - 1
    BY InstTyped
  <2> QED BY <2>1
<1>3. LastStore(i) = IF W = {} THEN 0 ELSE Largest(W)
  BY DEF LastStore
<1> HIDE DEF W
<1>4. Largest(W) = p
  BY <1>1, <1>2, LargestUnique
<1> QED BY <1>1, <1>3, <1>4

LEMMA MemByReturn ==
    ASSUME RobOK, QueuesOK, QueuesOK', MemInv, ReturnL1D,
           NEW i \in 1 .. Len(prog), Returns(Head(L1D_bus).slot, i)
    PROVE  MemInv'
<1> DEFINE l == Head(L1D_bus).slot
<1>1. /\ prog' = prog /\ head' = head /\ mem' = mem /\ SQ' = SQ
      /\ inflight_reg_executions' = inflight_reg_executions
  BY DEF ReturnL1D, Returns, rob
<1>2. /\ l \in Load /\ LQ[l].id = i /\ i # 0 /\ LQ[l].producer = 0 /\ LoadSlot(l)
      /\ LoadToken(l) = 1
  BY L1dSlot DEF ReturnL1D, Returns
<1>3. /\ i \in head .. Len(prog) /\ prog[i].load \in Addr /\ inst[i].got = None
      /\ inst[i].source_added /\ inst[i].lq_index = l /\ inst[i].num_mem_ops >= 1
      /\ inst[i].executed # "COMPLETED" /\ is_memory(i)
  BY <1>2, SlotOwners
<1>4. /\ \A k \in Load : LoadToken(k)' = IF k = l THEN 0 ELSE LoadToken(k)
      /\ \A s \in Store : StoreToken(s)' = StoreToken(s)
  BY <1>2, TokensByLoaded
<1>5. mem[prog[i].load] = LastStore(i) /\ mem[prog[i].load] # None
  <2>1. \A j \in head .. i - 1 : prog[j].store # prog[i].load
    BY <1>2 DEF LoadSlot
  <2> QED BY <1>3, <2>1, LastRetired DEF MemInv
<1>6. /\ \A j \in 1 .. Len(prog) : SameSlots(j) /\ SameStage(j) /\ (j # i => SameOps(j))
      /\ inst'[i].num_mem_ops = inst[i].num_mem_ops - 1
      /\ inst'[i].got = mem[prog[i].load]
      /\ inflight_mem_executions' = inflight_mem_executions + NowDone({i})
      /\ LQ' = [LQ EXCEPT ![l] = EmptyLoad]
  BY DEF Returns
<1>7. /\ \A k \in Load : k # l => LQ'[k] = LQ[k]
      /\ LQ'[l] = EmptyLoad
  BY <1>2, <1>6 DEF QueuesOK
<1> HIDE DEF l
<1>8. \A q : HasData(q)' <=> HasData(q)
  BY <1>1 DEF HasData
<1>9. \A j \in head .. Len(prog) : j \in 1 .. Len(prog) /\ MemDeps(j)' = MemDeps(j)
  BY <1>6, InstTyped DEF SameSlots, MemDeps
<1>10. LoadSlots'
  <2> SUFFICES ASSUME NEW k \in Load
               PROVE  IF LQ'[k].id = 0 THEN LoadToken(k)' = 0 ELSE LoadSlot(k)'
    BY DEF LoadSlots
  <2>1. CASE k = l
    BY <1>4, <1>7, <2>1 DEF EmptyLoad
  <2>2. CASE k # l
    <3> DEFINE j == LQ[k].id
               p == LQ[k].producer
    <3>1. LQ'[k] = LQ[k] /\ LoadToken(k)' = LoadToken(k)
      BY <1>4, <1>7, <2>2
    <3>2. IF LQ[k].id = 0 THEN LoadToken(k) = 0 ELSE LoadSlot(k)
      BY DEF MemInv, LoadSlots
    <3>3. CASE j # 0
      <4>1. LoadSlot(k)
        BY <3>2, <3>3
      <4>2. j \in 1 .. Len(prog) /\ j # i /\ j \in head .. Len(prog)
        BY <1>3, <2>2, <3>3, SlotOwners
      <4>3. /\ inst'[j].got = inst[j].got /\ inst'[j].source_added = inst[j].source_added
            /\ inst'[j].lq_index = inst[j].lq_index
        BY <1>6, <4>2 DEF SameOps, SameSlots
      <4>4. p # 0 => p \in head .. Len(prog)
        BY <4>1, <4>2, InstTyped DEF LoadSlot
      <4>5. LoadSlot(k)'
        BY <1>1, <1>8, <1>9, <3>1, <4>1, <4>3, <4>4 DEF LoadSlot
      <4> QED BY <3>1, <3>3, <4>5
    <3> QED BY <3>1, <3>2, <3>3
  <2> QED BY <2>1, <2>2
<1>11. StoreSlots'
  <2> SUFFICES ASSUME NEW s \in Store
               PROVE  /\ StoreToken(s) + (IF SQ[s].fetched = "COMPLETED" THEN 1 ELSE 0)
                           = (IF SQ[s].id = 0 THEN 0 ELSE 1)
                      /\ SQ[s].id # 0 =>
                            /\ SQ[s].id \in head .. Len(prog) /\ prog[SQ[s].id].store # None
                            /\ inst'[SQ[s].id].destination_added
                            /\ inst'[SQ[s].id].sq_index = s
    BY <1>1, <1>4 DEF StoreSlots
  <2>1. StoreToken(s) + (IF SQ[s].fetched = "COMPLETED" THEN 1 ELSE 0)
             = (IF SQ[s].id = 0 THEN 0 ELSE 1)
    BY DEF MemInv, StoreSlots
  <2> QED BY <1>6, <2>1, SlotOwners DEF SameSlots
<1>12. MemDepsOK'
  <2> SUFFICES ASSUME NEW q \in head .. Len(prog), ~HasData(q), NEW k \in DOMAIN MemDeps(q)
               PROVE  LET j == MemDeps(q)[k]
                      IN  /\ j \in q + 1 .. Len(prog) /\ inst'[j].lq_index \in Load
                          /\ LQ'[inst'[j].lq_index].id = j
                          /\ LQ'[inst'[j].lq_index].producer = q
                          /\ \A m \in DOMAIN MemDeps(q) : MemDeps(q)[m] = j => m = k
    BY <1>1, <1>8, <1>9 DEF MemDepsOK
  <2> DEFINE j == MemDeps(q)[k]
  <2>1. /\ j \in q + 1 .. Len(prog) /\ inst[j].lq_index \in Load
        /\ LQ[inst[j].lq_index].id = j /\ LQ[inst[j].lq_index].producer = q
        /\ \A m \in DOMAIN MemDeps(q) : MemDeps(q)[m] = j => m = k
    BY DEF MemInv, MemDepsOK
  <2> HIDE DEF j
  <2>2. j \in 1 .. Len(prog) /\ q # 0
    BY <2>1, InstTyped
  <2>3. inst'[j].lq_index = inst[j].lq_index /\ inst[j].lq_index # l
    BY <1>2, <1>6, <2>1, <2>2 DEF SameSlots
  <2>4. LQ'[inst[j].lq_index] = LQ[inst[j].lq_index]
    BY <1>7, <2>1, <2>3
  <2> QED BY <2>1, <2>3, <2>4 DEF j
<1>13. OpsCounted'
  <2> SUFFICES ASSUME NEW j \in head .. Len(prog)
               PROVE  /\ inst'[j].num_mem_ops =
                           (IF prog[j].load # None /\ inst'[j].got = None THEN 1 ELSE 0)
                         + (IF prog[j].store # None /\ ~HasData(j) THEN 1 ELSE 0)
                      /\ ~inst'[j].source_added => inst'[j].got = None
                      /\ inst'[j].executed = "COMPLETED" => inst'[j].num_mem_ops = 0
    BY <1>1, <1>8 DEF OpsCounted
  <2>1. /\ inst[j].num_mem_ops =
             (IF prog[j].load # None /\ inst[j].got = None THEN 1 ELSE 0)
           + (IF prog[j].store # None /\ ~HasData(j) THEN 1 ELSE 0)
        /\ ~inst[j].source_added => inst[j].got = None
        /\ inst[j].executed = "COMPLETED" => inst[j].num_mem_ops = 0
    BY DEF MemInv, OpsCounted
  <2>2. SameSlots(j) /\ SameStage(j) /\ (j # i => SameOps(j))
    BY <1>6, <1>9
  <2>3. CASE j = i
    <3>1. inst'[j].source_added /\ inst'[j].executed # "COMPLETED"
      BY <1>3, <2>2, <2>3 DEF SameSlots, SameStage
    <3>2. /\ inst'[j].num_mem_ops = inst[j].num_mem_ops - 1 /\ inst'[j].got # None
          /\ prog[j].load # None /\ inst[j].got = None
      BY <1>3, <1>5, <1>6, <2>3, CpuAssumption
    <3> QED BY <2>1, <3>1, <3>2
  <2>4. CASE j # i
    BY <2>1, <2>2, <2>4 DEF SameSlots, SameStage, SameOps
  <2> QED BY <2>3, <2>4
<1>14. InflightOK'
  <2> DEFINE S == {i}
  <2>1. S \in SUBSET InROB
    BY <1>3 DEF InROB
  <2>2. InflightOK /\ inflight_mem_executions' = inflight_mem_executions + NowDone(S)
    BY <1>6 DEF MemInv
  <2>3. \A j \in InROB :
          /\ inst'[j].executed = "COMPLETED" <=> inst[j].executed = "COMPLETED"
          /\ ~is_memory(j) => inst'[j].executed = inst[j].executed
          /\ j \notin S => inst'[j].num_mem_ops = inst[j].num_mem_ops
          /\ j \in S => /\ inst'[j].num_mem_ops = inst[j].num_mem_ops - 1
                        /\ is_memory(j) /\ inst[j].num_mem_ops >= 1
                        /\ inst[j].executed # "COMPLETED"
    BY <1>3, <1>6, <1>9 DEF SameStage, SameOps, InROB
  <2> HIDE DEF S
  <2> QED BY <1>1, <2>1, <2>2, <2>3, InflightByOps
<1>15. MemOK'
  BY <1>1 DEF MemInv, MemOK, StoresTo
<1>16. GotOK'
  <2>1. \A j \in 1 .. Len(prog) : LastStore(j)' = LastStore(j)
    BY <1>1, InstTyped, LastStoreKept
  <2>2. \A j \in 1 .. Len(prog) : inst[j].got # None => inst[j].got = LastStore(j)
    BY DEF MemInv, GotOK
  <2> QED BY <1>1, <1>5, <1>6, <2>1, <2>2 DEF GotOK, SameOps
<1> QED BY <1>10, <1>11, <1>12, <1>13, <1>14, <1>15, <1>16, Zenon DEF MemInv

-----------------------------------------------------------------------------
(* A store hands its data out.                                             *)
LEMMA ForwardedAre ==
    ASSUME RobOK, MemInv, NEW i \in head .. Len(prog), ~HasData(i)
    PROVE  /\ \A j \in Forwarded(i) :
                 /\ j \in i + 1 .. Len(prog) /\ j \in head .. Len(prog) /\ j \in 1 .. Len(prog)
                 /\ inst[j].lq_index \in Load
                 /\ LQ[inst[j].lq_index].id = j /\ j # 0
                 /\ LQ[inst[j].lq_index].producer = i /\ i # 0
                 /\ inst[j].num_mem_ops >= 1 /\ inst[j].executed # "COMPLETED"
                 /\ is_memory(j) /\ inst[j].got = None /\ prog[j].load # None
                 /\ inst[j].source_added
                 /\ LoadToken(inst[j].lq_index) = 0
                 /\ LastStore(j) = i
           /\ \A l \in Load : (\E j \in Forwarded(i) : inst[j].lq_index = l)
                 => LQ[l].id \in Forwarded(i) /\ LQ[l].producer = i /\ LoadToken(l) = 0
           /\ \A l \in Load : LQ[l].id # 0 /\ ~(\E j \in Forwarded(i) : inst[j].lq_index = l)
                 => LQ[l].id \notin Forwarded(i) /\ LQ[l].producer # i
<1>1. ASSUME NEW j \in Forwarded(i)
      PROVE  /\ j \in i + 1 .. Len(prog) /\ j \in head .. Len(prog) /\ j \in 1 .. Len(prog)
             /\ inst[j].lq_index \in Load
             /\ LQ[inst[j].lq_index].id = j /\ j # 0
             /\ LQ[inst[j].lq_index].producer = i /\ i # 0
             /\ inst[j].num_mem_ops >= 1 /\ inst[j].executed # "COMPLETED"
             /\ is_memory(j) /\ inst[j].got = None /\ prog[j].load # None
             /\ inst[j].source_added
             /\ LoadToken(inst[j].lq_index) = 0
             /\ LastStore(j) = i
  <2>1. /\ j \in i + 1 .. Len(prog) /\ inst[j].lq_index \in Load
        /\ LQ[inst[j].lq_index].id = j /\ LQ[inst[j].lq_index].producer = i
    BY DEF Forwarded, MemInv, MemDepsOK
  <2>2. j \in head .. Len(prog) /\ j \in 1 .. Len(prog) /\ j # 0 /\ i # 0
    BY <2>1, InstTyped
  <2> DEFINE l == inst[j].lq_index
  <2>3. /\ prog[j].load \in Addr /\ inst[j].got = None /\ inst[j].source_added
        /\ inst[j].num_mem_ops >= 1 /\ inst[j].executed # "COMPLETED" /\ is_memory(j)
    BY <2>1, <2>2, SlotOwners
  <2>4. LoadSlot(l)
    BY <2>1, <2>2 DEF MemInv, LoadSlots
  <2> HIDE DEF l
  <2>5. /\ LoadToken(l) = 0 /\ i \in head .. j - 1 /\ prog[i].store = prog[j].load
        /\ \A q \in i + 1 .. j - 1 : prog[q].store # prog[j].load
        /\ prog[j].load # None
    BY <2>1, <2>2, <2>4 DEF LoadSlot, l
  <2>6. LastStore(j) = i
    BY <2>2, <2>5, LastInRob
  <2> QED BY <2>1, <2>2, <2>3, <2>5, <2>6 DEF l
<1>2. ASSUME NEW l \in Load, NEW j \in Forwarded(i), inst[j].lq_index = l
      PROVE  LQ[l].id \in Forwarded(i) /\ LQ[l].producer = i /\ LoadToken(l) = 0
  BY <1>1, <1>2
<1>3. ASSUME NEW l \in Load, LQ[l].id # 0, ~(\E j \in Forwarded(i) : inst[j].lq_index = l)
      PROVE  LQ[l].id \notin Forwarded(i) /\ LQ[l].producer # i
  <2>1. inst[LQ[l].id].lq_index = l
    BY <1>3, SlotOwners
  <2>2. LQ[l].id \notin Forwarded(i)
    BY <1>3, <2>1
  <2>3. LoadSlot(l)
    BY <1>3 DEF MemInv, LoadSlots
  <2>4. i # 0
    BY InstTyped
  <2>5. LQ[l].producer = i => LQ[l].id \in Forwarded(i)
    BY <2>3, <2>4 DEF LoadSlot, Forwarded
  <2> QED BY <2>2, <2>5
<1> QED BY <1>1, <1>2, <1>3

LEMMA MemByStore ==
    ASSUME RobOK, QueuesOK, QueuesOK', MemInv, execute_store,
           NEW i \in 1 .. Len(prog), Forwards(Head(RTS1), i)
    PROVE  MemInv'
<1> DEFINE s == Head(RTS1)
           S == Forwarded(i)
<1>1. /\ prog' = prog /\ head' = head /\ mem' = mem
      /\ inflight_reg_executions' = inflight_reg_executions
  BY DEF execute_store, rob
<1>2. /\ s \in Store /\ SQ[s].id = i /\ i # 0 /\ ~HasData(i) /\ StoreToken(s) = 1
      /\ i \in head .. Len(prog) /\ SQ[s].fetched # "COMPLETED"
  BY StoreAhead DEF execute_store, Forwards
<1>3. /\ \A k \in Store : StoreToken(k)' = IF k = s THEN 0 ELSE StoreToken(k)
      /\ \A l \in Load : LoadToken(l)' = LoadToken(l)
  BY <1>2, TokensByStored
<1>4. /\ \A j \in S :
            /\ j \in i + 1 .. Len(prog) /\ j \in head .. Len(prog) /\ j \in 1 .. Len(prog)
            /\ inst[j].lq_index \in Load /\ LQ[inst[j].lq_index].producer = i
            /\ inst[j].num_mem_ops >= 1 /\ inst[j].executed # "COMPLETED"
            /\ is_memory(j) /\ inst[j].got = None /\ prog[j].load # None
            /\ inst[j].source_added /\ LastStore(j) = i
      /\ \A l \in Load : (\E j \in S : inst[j].lq_index = l)
            => LQ[l].id \in S /\ LQ[l].producer = i /\ LoadToken(l) = 0
      /\ \A l \in Load : LQ[l].id # 0 /\ ~(\E j \in S : inst[j].lq_index = l)
            => LQ[l].id \notin S /\ LQ[l].producer # i
  BY <1>2, ForwardedAre
<1>5. /\ SQ' = [SQ EXCEPT ![s].fetched = "COMPLETED"]
      /\ LQ' = Freed(S)
      /\ i \notin S
      /\ \A j \in 1 .. Len(prog) :
            /\ SameSlots(j) /\ SameStage(j)
            /\ j \notin {i} \cup S => inst'[j].num_mem_ops = inst[j].num_mem_ops
            /\ j \in {i} \cup S => inst'[j].num_mem_ops = inst[j].num_mem_ops - 1
            /\ j \notin S => inst'[j].got = inst[j].got
            /\ j \in S => inst'[j].got = i
      /\ inflight_mem_executions' = inflight_mem_executions + NowDone({i} \cup S)
  BY DEF Forwards
<1>6. /\ \A l \in Load : LQ'[l] = IF \E j \in S : inst[j].lq_index = l THEN EmptyLoad ELSE LQ[l]
      /\ \A k \in Store : k # s => SQ'[k] = SQ[k]
      /\ SQ'[s].id = i /\ SQ'[s].fetched = "COMPLETED"
  BY <1>2, <1>5 DEF QueuesOK, Freed, Load, StoreEntry
<1> HIDE DEF s, S
<1>7. \A q : HasData(q)' <=> HasData(q) \/ q = i
  <2>1. \A q : HasData(q)' <=> \E k \in Store : SQ'[k].id = q /\ SQ'[k].fetched = "COMPLETED"
    BY DEF HasData, Store
  <2>2. \A q : HasData(q) <=> \E k \in Store : SQ[k].id = q /\ SQ[k].fetched = "COMPLETED"
    BY DEF HasData, Store
  <2>3. \A k \in Store : \A q : (SQ'[k].id = q /\ SQ'[k].fetched = "COMPLETED")
                             <=> (SQ[k].id = q /\ SQ[k].fetched = "COMPLETED") \/ (k = s /\ q = i)
    BY <1>2, <1>6
  <2>4. ASSUME NEW q, HasData(q)' PROVE HasData(q) \/ q = i
    <3>1. PICK k \in Store : SQ'[k].id = q /\ SQ'[k].fetched = "COMPLETED"
      BY <2>1, <2>4
    <3> QED BY <2>2, <2>3, <3>1
  <2>5. ASSUME NEW q, HasData(q) PROVE HasData(q)'
    <3>1. PICK k \in Store : SQ[k].id = q /\ SQ[k].fetched = "COMPLETED"
      BY <2>2, <2>5
    <3> QED BY <2>1, <2>3, <3>1
  <2>6. HasData(i)'
    BY <1>2, <1>6, <2>1
  <2> QED BY <2>4, <2>5, <2>6
<1>8. \A j \in head .. Len(prog) : j \in 1 .. Len(prog) /\ MemDeps(j)' = MemDeps(j)
  BY <1>5, InstTyped DEF SameSlots, MemDeps
<1>9. LoadSlots'
  <2> SUFFICES ASSUME NEW k \in Load
               PROVE  IF LQ'[k].id = 0 THEN LoadToken(k)' = 0 ELSE LoadSlot(k)'
    BY DEF LoadSlots
  <2>1. CASE \E j \in S : inst[j].lq_index = k
    BY <1>3, <1>4, <1>6, <2>1 DEF EmptyLoad
  <2>2. CASE ~\E j \in S : inst[j].lq_index = k
    <3> DEFINE j == LQ[k].id
               p == LQ[k].producer
    <3>1. LQ'[k] = LQ[k] /\ LoadToken(k)' = LoadToken(k)
      BY <1>3, <1>6, <2>2
    <3>2. IF LQ[k].id = 0 THEN LoadToken(k) = 0 ELSE LoadSlot(k)
      BY DEF MemInv, LoadSlots
    <3>3. CASE j # 0
      <4>1. LoadSlot(k)
        BY <3>2, <3>3
      <4>2. j \in 1 .. Len(prog) /\ j \notin S /\ j \in head .. Len(prog) /\ p # i
        BY <1>4, <2>2, <3>3, SlotOwners
      <4>3. /\ inst'[j].got = inst[j].got /\ inst'[j].source_added = inst[j].source_added
            /\ inst'[j].lq_index = inst[j].lq_index
        BY <1>5, <4>2 DEF SameSlots
      <4>4. p # 0 => p \in head .. Len(prog)
        BY <4>1, <4>2, InstTyped DEF LoadSlot
      <4>5. LoadSlot(k)'
        BY <1>1, <1>7, <1>8, <3>1, <4>1, <4>2, <4>3, <4>4 DEF LoadSlot
      <4> QED BY <3>1, <3>3, <4>5
    <3> QED BY <3>1, <3>2, <3>3
  <2> QED BY <2>1, <2>2
<1>10. StoreSlots'
  <2> SUFFICES ASSUME NEW k \in Store
               PROVE  /\ StoreToken(k)' + (IF SQ'[k].fetched = "COMPLETED" THEN 1 ELSE 0)
                           = (IF SQ'[k].id = 0 THEN 0 ELSE 1)
                      /\ SQ'[k].id # 0 =>
                            /\ SQ'[k].id \in head .. Len(prog) /\ prog[SQ'[k].id].store # None
                            /\ inst'[SQ'[k].id].destination_added
                            /\ inst'[SQ'[k].id].sq_index = k
    BY <1>1 DEF StoreSlots
  <2>1. SQ'[k].id = SQ[k].id
    BY <1>2, <1>6
  <2>2. StoreToken(k)' + (IF SQ'[k].fetched = "COMPLETED" THEN 1 ELSE 0)
             = (IF SQ[k].id = 0 THEN 0 ELSE 1)
    <3>1. CASE k = s
      BY <1>2, <1>3, <1>6, <3>1
    <3>2. CASE k # s
      BY <1>3, <1>6, <3>2 DEF MemInv, StoreSlots
    <3> QED BY <3>1, <3>2
  <2>3. SQ[k].id # 0 => /\ SQ[k].id \in head .. Len(prog) /\ SQ[k].id \in 1 .. Len(prog)
                        /\ prog[SQ[k].id].store # None
                        /\ inst[SQ[k].id].destination_added /\ inst[SQ[k].id].sq_index = k
    BY SlotOwners
  <2> QED BY <1>5, <2>1, <2>2, <2>3 DEF SameSlots
<1>11. MemDepsOK'
  <2> SUFFICES ASSUME NEW q \in head .. Len(prog), ~HasData(q), q # i,
                      NEW k \in DOMAIN MemDeps(q)
               PROVE  LET j == MemDeps(q)[k]
                      IN  /\ j \in q + 1 .. Len(prog) /\ inst'[j].lq_index \in Load
                          /\ LQ'[inst'[j].lq_index].id = j
                          /\ LQ'[inst'[j].lq_index].producer = q
                          /\ \A m \in DOMAIN MemDeps(q) : MemDeps(q)[m] = j => m = k
    BY <1>1, <1>7, <1>8 DEF MemDepsOK
  <2> DEFINE j == MemDeps(q)[k]
  <2>1. /\ j \in q + 1 .. Len(prog) /\ inst[j].lq_index \in Load
        /\ LQ[inst[j].lq_index].id = j /\ LQ[inst[j].lq_index].producer = q
        /\ \A m \in DOMAIN MemDeps(q) : MemDeps(q)[m] = j => m = k
    BY DEF MemInv, MemDepsOK
  <2> HIDE DEF j
  <2>2. j \in 1 .. Len(prog)
    BY <2>1, InstTyped
  <2>3. inst'[j].lq_index = inst[j].lq_index
    BY <1>5, <2>2 DEF SameSlots
  <2>4. ~\E e \in S : inst[e].lq_index = inst[j].lq_index
    BY <1>4, <2>1
  <2>5. LQ'[inst[j].lq_index] = LQ[inst[j].lq_index]
    BY <1>6, <2>1, <2>4
  <2> QED BY <2>1, <2>3, <2>5 DEF j
<1>12. i \in Nat /\ i # None
  <2>1. i \in Nat
    BY InstTyped
  <2>2. None \notin Nat
    BY CpuAssumption
  <2> QED BY <2>1, <2>2
<1>13. prog[i].store # None /\ is_memory(i)
  BY <1>2, SlotOwners
<1>14. inst[i].num_mem_ops >= 1 /\ inst[i].executed # "COMPLETED"
  <2>1. inst[i].num_mem_ops >= 1
    BY <1>2, <1>13 DEF MemInv, OpsCounted
  <2> QED BY <1>2, <2>1, SlotOwners
<1>15. OpsCounted'
  <2> SUFFICES ASSUME NEW j \in head .. Len(prog)
               PROVE  /\ inst'[j].num_mem_ops =
                           (IF prog[j].load # None /\ inst'[j].got = None THEN 1 ELSE 0)
                         + (IF prog[j].store # None /\ ~(HasData(j) \/ j = i) THEN 1 ELSE 0)
                      /\ ~inst'[j].source_added => inst'[j].got = None
                      /\ inst'[j].executed = "COMPLETED" => inst'[j].num_mem_ops = 0
    BY <1>1, <1>7 DEF OpsCounted
  <2>1. /\ inst[j].num_mem_ops =
             (IF prog[j].load # None /\ inst[j].got = None THEN 1 ELSE 0)
           + (IF prog[j].store # None /\ ~HasData(j) THEN 1 ELSE 0)
        /\ ~inst[j].source_added => inst[j].got = None
        /\ inst[j].executed = "COMPLETED" => inst[j].num_mem_ops = 0
    BY DEF MemInv, OpsCounted
  <2>2. /\ inst'[j].executed = inst[j].executed /\ inst'[j].source_added = inst[j].source_added
        /\ j \notin {i} \cup S => inst'[j].num_mem_ops = inst[j].num_mem_ops
        /\ j \in {i} \cup S => inst'[j].num_mem_ops = inst[j].num_mem_ops - 1
        /\ j \notin S => inst'[j].got = inst[j].got
        /\ j \in S => inst'[j].got = i
    BY <1>5, <1>8 DEF SameSlots, SameStage
  <2>3. CASE j = i
    BY <1>2, <1>5, <1>13, <1>14, <2>1, <2>2, <2>3
  <2>4. CASE j \in S
    <3>1. j # i /\ inst[j].got = None /\ prog[j].load # None /\ inst[j].source_added
          /\ inst[j].executed # "COMPLETED"
      BY <1>4, <1>5, <2>4
    <3>2. inst'[j].num_mem_ops = inst[j].num_mem_ops - 1 /\ inst'[j].got = i
      BY <2>2, <2>4
    <3> QED BY <1>12, <2>1, <2>2, <3>1, <3>2
  <2>5. CASE j \notin {i} \cup S
    BY <2>1, <2>2, <2>5
  <2> QED BY <2>3, <2>4, <2>5
<1>16. InflightOK'
  <2> DEFINE R == {i} \cup S
  <2>1. R \in SUBSET InROB
    BY <1>2, <1>4 DEF InROB
  <2>2. InflightOK /\ inflight_mem_executions' = inflight_mem_executions + NowDone(R)
    BY <1>5 DEF MemInv
  <2>3. \A j \in InROB :
          /\ inst'[j].executed = "COMPLETED" <=> inst[j].executed = "COMPLETED"
          /\ ~is_memory(j) => inst'[j].executed = inst[j].executed
          /\ j \notin R => inst'[j].num_mem_ops = inst[j].num_mem_ops
          /\ j \in R => /\ inst'[j].num_mem_ops = inst[j].num_mem_ops - 1
                        /\ is_memory(j) /\ inst[j].num_mem_ops >= 1
                        /\ inst[j].executed # "COMPLETED"
    BY <1>4, <1>5, <1>8, <1>13, <1>14 DEF SameStage, InROB
  <2> HIDE DEF R
  <2> QED BY <1>1, <2>1, <2>2, <2>3, InflightByOps
<1>17. MemOK'
  BY <1>1 DEF MemInv, MemOK, StoresTo
<1>18. GotOK'
  <2>1. \A j \in 1 .. Len(prog) : LastStore(j)' = LastStore(j)
    BY <1>1, InstTyped, LastStoreKept
  <2>2. \A j \in 1 .. Len(prog) : inst[j].got # None => inst[j].got = LastStore(j)
    BY DEF MemInv, GotOK
  <2> QED BY <1>1, <1>4, <1>5, <2>1, <2>2 DEF GotOK
<1> QED BY <1>9, <1>10, <1>11, <1>15, <1>16, <1>17, <1>18, Zenon DEF MemInv

-----------------------------------------------------------------------------
(* The slots an instruction may enter are empty and named nowhere, and it  *)
(* has no other.                                                           *)
LEMMA EnterFrom ==
    ASSUME RobOK, QueuesOK, MemInv, NEW i \in head .. Len(prog), NEW l, NEW s,
           InQueues(i, l, s)
    PROVE  /\ MayAddLoad(i) =>
                 /\ l \in Load /\ LQ[l].id = 0 /\ LoadToken(l) = 0
                 /\ ~inst[i].source_added /\ inst[i].got = None /\ prog[i].load \in Addr
                 /\ inst[i].num_mem_ops >= 1 /\ inst[i].executed # "COMPLETED"
                 /\ \A k \in Load : LQ[k].id # i
                 /\ \A q \in head .. Len(prog) : ~HasData(q) =>
                       \A k \in DOMAIN MemDeps(q) : MemDeps(q)[k] # i
           /\ MayAddStore(i) =>
                 /\ s \in Store /\ SQ[s].id = 0 /\ StoreToken(s) = 0
                 /\ SQ[s].fetched # "COMPLETED" /\ prog[i].store # None
                 /\ \A k \in Store : SQ[k].id # i
<1>1. i \in 1 .. Len(prog) /\ i # 0
  BY InstTyped
<1>2. ASSUME MayAddLoad(i)
      PROVE  /\ l \in Load /\ LQ[l].id = 0 /\ LoadToken(l) = 0
             /\ ~inst[i].source_added /\ inst[i].got = None /\ prog[i].load \in Addr
             /\ inst[i].num_mem_ops >= 1 /\ inst[i].executed # "COMPLETED"
             /\ \A k \in Load : LQ[k].id # i
             /\ \A q \in head .. Len(prog) : ~HasData(q) =>
                   \A k \in DOMAIN MemDeps(q) : MemDeps(q)[k] # i
  <2>1. l \in Load /\ LQ[l].id = 0
    BY <1>2 DEF InQueues, FreeLoads, Load
  <2>2. LoadToken(l) = 0
    BY <2>1 DEF MemInv, LoadSlots
  <2>3. ~inst[i].source_added /\ prog[i].load # None
    BY <1>2 DEF MayAddLoad
  <2>4. prog[i].load \in Addr
    BY <1>1, <2>3, InstTyped, CpuAssumption
  <2>5. inst[i].got = None /\ inst[i].num_mem_ops >= 1
    BY <2>3 DEF MemInv, OpsCounted
  <2>6. \A k \in Load : LQ[k].id # i
    BY <1>1, <2>3, SlotOwners
  <2>7. \A q \in head .. Len(prog) : ~HasData(q) =>
                   \A k \in DOMAIN MemDeps(q) : MemDeps(q)[k] # i
    BY <2>6 DEF MemInv, MemDepsOK
  <2> QED BY <2>1, <2>2, <2>3, <2>4, <2>5, <2>6, <2>7, SlotOwners
<1>3. ASSUME MayAddStore(i)
      PROVE  /\ s \in Store /\ SQ[s].id = 0 /\ StoreToken(s) = 0
             /\ SQ[s].fetched # "COMPLETED" /\ prog[i].store # None
             /\ \A k \in Store : SQ[k].id # i
  <2>1. s \in Store /\ SQ[s].id = 0
    BY <1>3 DEF InQueues, FreeStores, Store
  <2>2. StoreToken(s) = 0 /\ SQ[s].fetched # "COMPLETED"
    <3>1. StoreToken(s) + (IF SQ[s].fetched = "COMPLETED" THEN 1 ELSE 0) = 0
      BY <2>1 DEF MemInv, StoreSlots
    <3>2. StoreToken(s) \in Nat
      BY TokensNat
    <3> QED BY <3>1, <3>2
  <2>3. ~inst[i].destination_added /\ prog[i].store # None
    BY <1>3 DEF MayAddStore
  <2>4. \A k \in Store : SQ[k].id # i
    BY <1>1, <2>3, SlotOwners
  <2> QED BY <2>1, <2>2, <2>3, <2>4
<1> QED BY <1>2, <1>3

LEMMA MemByEnter ==
    ASSUME RobOK, QueuesOK, QueuesOK', MemInv, schedule_memory_instruction,
           NEW i \in 1 .. Len(prog), NEW l, NEW s, InQueues(i, l, s), Enters(i, l, s)
    PROVE  MemInv'
<1> DEFINE p == Producer(i)
<1>1. /\ prog' = prog /\ head' = head /\ mem' = mem
      /\ inflight_reg_executions' = inflight_reg_executions
  BY DEF schedule_memory_instruction, rob
<1>2. i \in head .. Len(prog) /\ is_memory(i) /\ i # 0
  BY InstTyped DEF Enters, Schedulable
<1>3. /\ MayAddLoad(i) =>
            /\ l \in Load /\ LQ[l].id = 0 /\ LoadToken(l) = 0
            /\ ~inst[i].source_added /\ inst[i].got = None /\ prog[i].load \in Addr
            /\ inst[i].num_mem_ops >= 1 /\ inst[i].executed # "COMPLETED"
            /\ \A k \in Load : LQ[k].id # i
            /\ \A q \in head .. Len(prog) : ~HasData(q) =>
                  \A k \in DOMAIN MemDeps(q) : MemDeps(q)[k] # i
      /\ MayAddStore(i) =>
            /\ s \in Store /\ SQ[s].id = 0 /\ StoreToken(s) = 0
            /\ SQ[s].fetched # "COMPLETED" /\ prog[i].store # None
            /\ \A k \in Store : SQ[k].id # i
  BY <1>2, EnterFrom
<1>4. /\ p \in Nat
      /\ MayAddLoad(i) /\ p = 0 => \A j \in head .. i - 1 : prog[j].store # prog[i].load
      /\ p # 0 => /\ MayAddLoad(i) /\ p \in head .. i - 1 /\ p \in 1 .. Len(prog) /\ p # i
                  /\ p \in head .. Len(prog) /\ i \in p + 1 .. Len(prog)
                  /\ prog[p].store = prog[i].load
                  /\ \A j \in p + 1 .. i - 1 : prog[j].store # prog[i].load
      /\ Given(i) <=> p # 0 /\ HasData(p)
  <2>1. /\ p \in Nat
        /\ MayAddLoad(i) /\ p = 0 => \A j \in head .. i - 1 : prog[j].store # prog[i].load
        /\ p # 0 => /\ MayAddLoad(i) /\ p \in head .. i - 1 /\ p \in 1 .. Len(prog) /\ p # i
                    /\ prog[p].store = prog[i].load
                    /\ \A j \in p + 1 .. i - 1 : prog[j].store # prog[i].load
    BY ProducerIs
  <2> HIDE DEF p
  <2>2. p # 0 => p \in head .. Len(prog) /\ i \in p + 1 .. Len(prog)
    BY <1>2, <2>1, InstTyped
  <2>3. Given(i) <=> p # 0 /\ HasData(p)
    BY DEF Given, p
  <2> QED BY <2>1, <2>2, <2>3
<1>5. /\ \A k \in Load : LoadToken(k)' =
                 IF k = l /\ MayAddLoad(i) /\ p = 0
                 THEN LoadToken(k) + 1 ELSE LoadToken(k)
      /\ \A k \in Store : StoreToken(k)' =
                 IF k = s /\ MayAddStore(i) THEN StoreToken(k) + 1 ELSE StoreToken(k)
  BY TokensByEnter
<1>6. /\ \A k \in Load : (k = l /\ MayAddLoad(i) /\ ~Given(i)) \/ LQ'[k] = LQ[k]
      /\ MayAddLoad(i) /\ ~Given(i) => LQ'[l].id = i /\ LQ'[l].producer = p
      /\ \A k \in Store : (k = s /\ MayAddStore(i)) \/ SQ'[k] = SQ[k]
      /\ MayAddStore(i) => SQ'[s].id = i /\ SQ'[s].fetched = "no"
  BY DEF InQueues
<1>7. /\ \A j \in 1 .. Len(prog) :
            /\ inst'[j].executed = "COMPLETED" <=> inst[j].executed = "COMPLETED"
            /\ j # i => SameOps(j) /\ SameStage(j)
            /\ j # i \/ ~Given(i) => SameOps(j)
            /\ j # i \/ ~MayAddLoad(i) => /\ inst'[j].source_added = inst[j].source_added
                                          /\ inst'[j].lq_index = inst[j].lq_index
            /\ j # i \/ ~MayAddStore(i) =>
                  /\ inst'[j].destination_added = inst[j].destination_added
                  /\ inst'[j].sq_index = inst[j].sq_index
            /\ j # p => MemDeps(j)' = MemDeps(j)
            /\ j = p => MemDeps(j)' = Append(MemDeps(j), i)
      /\ MayAddLoad(i) => inst'[i].source_added /\ inst'[i].lq_index = l
      /\ MayAddStore(i) => inst'[i].destination_added /\ inst'[i].sq_index = s
  <2>1. \A j \in 1 .. Len(prog) : j # i =>
            /\ SameOps(j) /\ SameStage(j)
            /\ inst'[j].source_added = inst[j].source_added
            /\ inst'[j].destination_added = inst[j].destination_added
            /\ inst'[j].lq_index = inst[j].lq_index
            /\ inst'[j].sq_index = inst[j].sq_index
    BY DEF Enters
  <2>2. \A j \in 1 .. Len(prog) : /\ j # p => MemDeps(j)' = MemDeps(j)
                                  /\ j = p => MemDeps(j)' = Append(MemDeps(j), i)
    BY DEF Enters, MemDeps
  <2>3. /\ inst'[i].executed = "COMPLETED" <=> inst[i].executed = "COMPLETED"
        /\ ~Given(i) => SameOps(i)
        /\ ~MayAddLoad(i) => inst'[i].lq_index = inst[i].lq_index
        /\ ~MayAddStore(i) => inst'[i].sq_index = inst[i].sq_index
        /\ MayAddLoad(i) => inst'[i].source_added /\ inst'[i].lq_index = l
        /\ MayAddStore(i) => inst'[i].destination_added /\ inst'[i].sq_index = s
    BY DEF Enters
  <2>4. /\ ~MayAddLoad(i) => inst'[i].source_added = inst[i].source_added
        /\ ~MayAddStore(i) => inst'[i].destination_added = inst[i].destination_added
    BY InstTyped DEF Enters, InstRec
  <2> QED BY <2>1, <2>2, <2>3, <2>4, Zenon DEF SameStage
<1>8. /\ Given(i) => /\ inst'[i].num_mem_ops = inst[i].num_mem_ops - 1
                     /\ inst'[i].got = p
                     /\ inflight_mem_executions' = inflight_mem_executions + NowDone({i})
      /\ ~Given(i) => inflight_mem_executions' = inflight_mem_executions
  BY DEF Enters
<1> HIDE DEF p
<1>9. \A j \in head .. Len(prog) : j \in 1 .. Len(prog) /\ j # 0
  BY InstTyped
<1>10. \A q : HasData(q)' <=> HasData(q)
  <2>1. \A k \in Store : \A q : (SQ'[k].id = q /\ SQ'[k].fetched = "COMPLETED")
                             <=> (SQ[k].id = q /\ SQ[k].fetched = "COMPLETED")
    BY <1>3, <1>6
  <2> QED BY <2>1 DEF HasData, Store
<1>11. \A q \in 1 .. Len(prog) :
          /\ MemDeps(q) \in Seq(Nat)
          /\ \A k \in DOMAIN MemDeps(q) :
                k \in DOMAIN MemDeps(q)' /\ MemDeps(q)'[k] = MemDeps(q)[k]
          /\ \A k \in DOMAIN MemDeps(q)' :
                \/ k \in DOMAIN MemDeps(q) /\ MemDeps(q)'[k] = MemDeps(q)[k]
                \/ q = p /\ k \notin DOMAIN MemDeps(q) /\ k = Len(MemDeps(q)) + 1
                         /\ MemDeps(q)'[k] = i
          /\ q = p => /\ Len(MemDeps(q)) + 1 \in DOMAIN MemDeps(q)'
                      /\ MemDeps(q)'[Len(MemDeps(q)) + 1] = i
  <2> SUFFICES ASSUME NEW q \in 1 .. Len(prog)
               PROVE  /\ MemDeps(q) \in Seq(Nat)
                      /\ \A k \in DOMAIN MemDeps(q) :
                            k \in DOMAIN MemDeps(q)' /\ MemDeps(q)'[k] = MemDeps(q)[k]
                      /\ \A k \in DOMAIN MemDeps(q)' :
                            \/ k \in DOMAIN MemDeps(q) /\ MemDeps(q)'[k] = MemDeps(q)[k]
                            \/ q = p /\ k \notin DOMAIN MemDeps(q) /\ k = Len(MemDeps(q)) + 1
                                     /\ MemDeps(q)'[k] = i
                      /\ q = p => /\ Len(MemDeps(q)) + 1 \in DOMAIN MemDeps(q)'
                                  /\ MemDeps(q)'[Len(MemDeps(q)) + 1] = i
    OBVIOUS
  <2> DEFINE d == MemDeps(q)
             e == MemDeps(q)'
  <2>1. d \in Seq(Nat)
    BY InstTyped DEF MemDeps, InstRec
  <2>2. e = IF q = p THEN Append(d, i) ELSE d
    BY <1>7
  <2> HIDE DEF d, e
  <2>3. i \in Nat
    OBVIOUS
  <2>4. /\ DOMAIN d = 1 .. Len(d) /\ Len(d) \in Nat
        /\ DOMAIN Append(d, i) = 1 .. Len(d) + 1
        /\ \A k \in 1 .. Len(d) : Append(d, i)[k] = d[k]
        /\ Append(d, i)[Len(d) + 1] = i
    BY <2>1, <2>3
  <2>5. /\ \A k \in DOMAIN d : k \in DOMAIN e /\ e[k] = d[k]
        /\ \A k \in DOMAIN e :
              \/ k \in DOMAIN d /\ e[k] = d[k]
              \/ q = p /\ k \notin DOMAIN d /\ k = Len(d) + 1 /\ e[k] = i
        /\ q = p => Len(d) + 1 \in DOMAIN e /\ e[Len(d) + 1] = i
    BY <2>2, <2>4
  <2> QED BY <2>1, <2>5 DEF d, e
<1>12. LoadSlots'
  <2> SUFFICES ASSUME NEW k \in Load
               PROVE  IF LQ'[k].id = 0 THEN LoadToken(k)' = 0 ELSE LoadSlot(k)'
    BY DEF LoadSlots
  <2>1. CASE k = l /\ MayAddLoad(i) /\ ~Given(i)
    <3>1. LQ'[k].id = i /\ LQ'[k].producer = p
      BY <1>6, <2>1
    <3>2. /\ prog[i].load # None /\ inst'[i].got = None
          /\ inst'[i].source_added /\ inst'[i].lq_index = k
      BY <1>3, <1>7, <2>1, CpuAssumption DEF SameOps
    <3>3. CASE p = 0
      <4>1. LoadToken(k)' = 1 /\ \A j \in head .. i - 1 : prog[j].store # prog[i].load
        BY <1>3, <1>4, <1>5, <2>1, <3>3
      <4> QED BY <1>1, <1>2, <3>1, <3>2, <3>3, <4>1 DEF LoadSlot
    <3>4. CASE p # 0
      <4>1. LoadToken(k)' = 0 /\ ~HasData(p)
        BY <1>3, <1>4, <1>5, <2>1, <3>4
      <4>2. PICK q \in 1 .. Len(prog) :
               q = p /\ \E n \in DOMAIN MemDeps(q)' : MemDeps(q)'[n] = i
        BY <1>4, <1>11, <3>4
      <4>3. LQ'[k].producer = q
        BY <3>1, <4>2
      <4>4. LoadSlot(k)'
        BY <1>1, <1>2, <1>4, <1>10, <3>1, <3>2, <3>4, <4>1, <4>2, <4>3 DEF LoadSlot
      <4> QED BY <1>2, <3>1, <4>4
    <3> QED BY <3>3, <3>4, <1>2, <3>1
  <2>2. CASE ~(k = l /\ MayAddLoad(i) /\ ~Given(i))
    <3> DEFINE j == LQ[k].id
               r == LQ[k].producer
    <3>1. LQ'[k] = LQ[k] /\ LoadToken(k)' = LoadToken(k)
      BY <1>4, <1>5, <1>6, <2>2
    <3>2. IF LQ[k].id = 0 THEN LoadToken(k) = 0 ELSE LoadSlot(k)
      BY DEF MemInv, LoadSlots
    <3>3. CASE j # 0
      <4>1. LoadSlot(k)
        BY <3>2, <3>3
      <4>2. j \in 1 .. Len(prog) /\ j \in head .. Len(prog) /\ (j # i \/ ~MayAddLoad(i))
        BY <1>3, <3>3, SlotOwners
      <4>3. /\ inst'[j].got = inst[j].got /\ inst'[j].source_added = inst[j].source_added
            /\ inst'[j].lq_index = inst[j].lq_index
        BY <1>4, <1>7, <4>2 DEF SameOps
      <4>4. r # 0 => r \in 1 .. Len(prog)
        BY <4>1, <4>2, InstTyped DEF LoadSlot
      <4>5. \A q \in 1 .. Len(prog) : (\E n \in DOMAIN MemDeps(q) : MemDeps(q)[n] = j)
                => \E n \in DOMAIN MemDeps(q)' : MemDeps(q)'[n] = j
        BY <1>11
      <4>6. LoadSlot(k)'
        BY <1>1, <1>10, <3>1, <4>1, <4>3, <4>4, <4>5 DEF LoadSlot
      <4> QED BY <3>1, <3>3, <4>6
    <3> QED BY <3>1, <3>2, <3>3
  <2> QED BY <2>1, <2>2
<1>13. StoreSlots'
  <2> SUFFICES ASSUME NEW k \in Store
               PROVE  /\ StoreToken(k)' + (IF SQ'[k].fetched = "COMPLETED" THEN 1 ELSE 0)
                           = (IF SQ'[k].id = 0 THEN 0 ELSE 1)
                      /\ SQ'[k].id # 0 =>
                            /\ SQ'[k].id \in head .. Len(prog) /\ prog[SQ'[k].id].store # None
                            /\ inst'[SQ'[k].id].destination_added
                            /\ inst'[SQ'[k].id].sq_index = k
    BY <1>1 DEF StoreSlots
  <2>1. CASE k = s /\ MayAddStore(i)
    BY <1>2, <1>3, <1>5, <1>6, <1>7, <2>1
  <2>2. CASE ~(k = s /\ MayAddStore(i))
    <3>1. SQ'[k] = SQ[k] /\ StoreToken(k)' = StoreToken(k)
      BY <1>5, <1>6, <2>2
    <3>2. StoreToken(k) + (IF SQ[k].fetched = "COMPLETED" THEN 1 ELSE 0)
             = (IF SQ[k].id = 0 THEN 0 ELSE 1)
      BY DEF MemInv, StoreSlots
    <3>3. SQ[k].id # 0 =>
             /\ SQ[k].id \in head .. Len(prog) /\ SQ[k].id \in 1 .. Len(prog)
             /\ prog[SQ[k].id].store # None /\ inst[SQ[k].id].destination_added
             /\ inst[SQ[k].id].sq_index = k /\ (SQ[k].id # i \/ ~MayAddStore(i))
      BY <1>3, SlotOwners
    <3> QED BY <1>7, <3>1, <3>2, <3>3
  <2> QED BY <2>1, <2>2
<1>14. MemDepsOK'
  <2> SUFFICES ASSUME NEW q \in head .. Len(prog), ~HasData(q), NEW k \in DOMAIN MemDeps(q)'
               PROVE  LET j == MemDeps(q)'[k]
                      IN  /\ j \in q + 1 .. Len(prog) /\ inst'[j].lq_index \in Load
                          /\ LQ'[inst'[j].lq_index].id = j
                          /\ LQ'[inst'[j].lq_index].producer = q
                          /\ \A m \in DOMAIN MemDeps(q)' : MemDeps(q)'[m] = j => m = k
    BY <1>1, <1>10 DEF MemDepsOK
  <2>1. q \in 1 .. Len(prog)
    BY <1>9
  <2>2. \A n \in DOMAIN MemDeps(q) : MayAddLoad(i) => MemDeps(q)[n] # i
    BY <1>3
  <2>3. CASE k \in DOMAIN MemDeps(q) /\ MemDeps(q)'[k] = MemDeps(q)[k]
    <3> DEFINE j == MemDeps(q)[k]
    <3>1. /\ j \in q + 1 .. Len(prog) /\ inst[j].lq_index \in Load
          /\ LQ[inst[j].lq_index].id = j /\ LQ[inst[j].lq_index].producer = q
          /\ \A m \in DOMAIN MemDeps(q) : MemDeps(q)[m] = j => m = k
      BY <2>3 DEF MemInv, MemDepsOK
    <3>2. j # i \/ ~MayAddLoad(i)
      BY <2>2, <2>3
    <3>3. \A m \in DOMAIN MemDeps(q)' : MemDeps(q)'[m] = j => m = k
      BY <1>4, <1>11, <2>1, <3>1, <3>2
    <3> HIDE DEF j
    <3>4. j \in 1 .. Len(prog) /\ j # 0
      BY <2>1, <3>1
    <3>5. inst'[j].lq_index = inst[j].lq_index
      BY <1>7, <3>2, <3>4
    <3>6. LQ'[inst[j].lq_index] = LQ[inst[j].lq_index]
      BY <1>3, <1>6, <3>1, <3>4
    <3> QED BY <2>3, <3>1, <3>3, <3>5, <3>6 DEF j
  <2>4. CASE q = p /\ k \notin DOMAIN MemDeps(q) /\ k = Len(MemDeps(q)) + 1 /\ MemDeps(q)'[k] = i
    <3>1. p # 0 /\ MayAddLoad(i) /\ i \in q + 1 .. Len(prog)
      BY <1>4, <1>9, <2>4
    <3>2. ~Given(i)
      BY <1>4, <2>4
    <3>3. /\ inst'[i].lq_index = l /\ l \in Load /\ LQ'[l].id = i /\ LQ'[l].producer = p
      BY <1>3, <1>6, <1>7, <3>1, <3>2
    <3>4. \A m \in DOMAIN MemDeps(q)' : MemDeps(q)'[m] = i => m = k
      BY <1>11, <2>1, <2>2, <2>4, <3>1
    <3> QED BY <2>4, <3>1, <3>3, <3>4
  <2> QED BY <1>11, <2>1, <2>3, <2>4
<1>15. OpsCounted'
  <2> SUFFICES ASSUME NEW j \in head .. Len(prog)
               PROVE  /\ inst'[j].num_mem_ops =
                           (IF prog[j].load # None /\ inst'[j].got = None THEN 1 ELSE 0)
                         + (IF prog[j].store # None /\ ~HasData(j) THEN 1 ELSE 0)
                      /\ ~inst'[j].source_added => inst'[j].got = None
                      /\ inst'[j].executed = "COMPLETED" => inst'[j].num_mem_ops = 0
    BY <1>1, <1>10 DEF OpsCounted
  <2>1. /\ inst[j].num_mem_ops =
             (IF prog[j].load # None /\ inst[j].got = None THEN 1 ELSE 0)
           + (IF prog[j].store # None /\ ~HasData(j) THEN 1 ELSE 0)
        /\ ~inst[j].source_added => inst[j].got = None
        /\ inst[j].executed = "COMPLETED" => inst[j].num_mem_ops = 0
    BY DEF MemInv, OpsCounted
  <2>2. j \in 1 .. Len(prog)
    BY <1>9
  <2>3. CASE j = i /\ Given(i)
    <3>1. MayAddLoad(i)
      BY <1>4, <2>3
    <3>2. /\ inst'[j].num_mem_ops = inst[j].num_mem_ops - 1 /\ inst'[j].got # None
          /\ prog[j].load # None /\ inst[j].got = None
          /\ inst'[j].source_added /\ inst'[j].executed # "COMPLETED"
      BY <1>3, <1>4, <1>7, <1>8, <2>3, <3>1, CpuAssumption
    <3> QED BY <2>1, <3>2
  <2>4. CASE ~(j = i /\ Given(i))
    <3>1. SameOps(j) /\ (inst'[j].executed = "COMPLETED" <=> inst[j].executed = "COMPLETED")
      BY <1>7, <2>2, <2>4
    <3>2. ~inst'[j].source_added => ~inst[j].source_added
      BY <1>7, <2>2
    <3> QED BY <2>1, <3>1, <3>2 DEF SameOps
  <2> QED BY <2>3, <2>4
<1>16. InflightOK'
  <2>1. InflightOK
    BY DEF MemInv
  <2>2. CASE ~Given(i)
    <3>1. inflight' = inflight
      BY <1>1, <1>8, <2>2 DEF inflight
    <3>2. ASSUME NEW j \in InROB
          PROVE  /\ inst'[j].num_mem_ops = inst[j].num_mem_ops
                 /\ inst'[j].executed = "COMPLETED" <=> inst[j].executed = "COMPLETED"
                 /\ ~is_memory(j) => inst'[j].executed = inst[j].executed
      <4>1. j \in 1 .. Len(prog)
        BY <1>9 DEF InROB
      <4>2. /\ inst'[j].executed = "COMPLETED" <=> inst[j].executed = "COMPLETED"
            /\ SameOps(j) /\ (j # i => SameStage(j))
        BY <1>7, <2>2, <4>1
      <4> QED BY <1>2, <4>2 DEF SameOps, SameStage
    <3> QED BY <1>1, <2>1, <3>1, <3>2, InflightKept
  <2>3. CASE Given(i)
    <3> DEFINE S == {i}
    <3>1. S \in SUBSET InROB /\ inflight_mem_executions' = inflight_mem_executions + NowDone(S)
      BY <1>2, <1>8, <2>3 DEF InROB
    <3>2. \A j \in InROB :
            /\ inst'[j].executed = "COMPLETED" <=> inst[j].executed = "COMPLETED"
            /\ ~is_memory(j) => inst'[j].executed = inst[j].executed
            /\ j \notin S => inst'[j].num_mem_ops = inst[j].num_mem_ops
            /\ j \in S => /\ inst'[j].num_mem_ops = inst[j].num_mem_ops - 1
                          /\ is_memory(j) /\ inst[j].num_mem_ops >= 1
                          /\ inst[j].executed # "COMPLETED"
      BY <1>2, <1>3, <1>4, <1>7, <1>8, <1>9, <2>3 DEF InROB, SameOps, SameStage
    <3> HIDE DEF S
    <3> QED BY <1>1, <2>1, <3>1, <3>2, InflightByOps
  <2> QED BY <2>2, <2>3
<1>17. MemOK'
  BY <1>1 DEF MemInv, MemOK, StoresTo
<1>18. GotOK'
  <2>1. \A j \in 1 .. Len(prog) : LastStore(j)' = LastStore(j)
    BY <1>1, InstTyped, LastStoreKept
  <2>2. \A j \in 1 .. Len(prog) : inst[j].got # None => inst[j].got = LastStore(j)
    BY DEF MemInv, GotOK
  <2>3. Given(i) => p = LastStore(i)
    BY <1>2, <1>4, LastInRob
  <2>4. \A j \in 1 .. Len(prog) : j # i \/ ~Given(i) => inst'[j].got = inst[j].got
    BY <1>7 DEF SameOps
  <2> QED BY <1>1, <1>8, <2>1, <2>2, <2>3, <2>4 DEF GotOK
<1> QED BY <1>12, <1>13, <1>14, <1>15, <1>16, <1>17, <1>18, Zenon DEF MemInv

-----------------------------------------------------------------------------
(* The inductive invariant.                                                *)
CpuInv == RobOK /\ QueuesOK /\ RegInv /\ MemInv

LEMMA NowDoneNat ==
    ASSUME RobOK, NEW S \in SUBSET (head .. Len(prog)) PROVE NowDone(S) \in Nat
<1>1. IsFiniteSet(head .. Len(prog))
  BY InstTyped, FS_Interval
<1>2. IsFiniteSet({i \in S : inst[i].num_mem_ops = 1})
  BY <1>1, FS_Subset
<1> QED BY <1>2, FS_CardinalityType DEF NowDone

LEMMA StillRob ==
    ASSUME RobOK, StillInst, prog' = prog, head' = head, mem' = mem,
           ready_to_execute' \in Seq(Nat),
           inflight_reg_executions' \in Int, inflight_mem_executions' \in Int
    PROVE  RobOK'
BY DEF RobOK, StillInst

LEMMA SameQueues ==
    ASSUME QueuesOK, lsq' = lsq, caches' = caches
    PROVE  QueuesOK' /\ TokensSame /\ SameEntries
<1>1. /\ LQ' = LQ /\ SQ' = SQ /\ RTL0' = RTL0 /\ RTL1' = RTL1 /\ RTS0' = RTS0 /\ RTS1' = RTS1
      /\ asked' = asked /\ DTLB_bus' = DTLB_bus /\ L1D_bus' = L1D_bus
  BY DEF lsq, caches
<1>2. QueuesOK'
  BY <1>1 DEF QueuesOK
<1>3. TokensSame
  BY <1>1 DEF TokensSame, LoadToken, StoreToken, Times, Sent
<1>4. SameEntries
  BY <1>1 DEF SameEntries
<1> QED BY <1>2, <1>3, <1>4

(* What only moves requests, or does nothing but choose the next handler.  *)
LEMMA InvByQueues ==
    ASSUME CpuInv, QueuesOK', TokensSame, SameEntries, rob' = rob, inst' = inst,
           ready_to_execute' = ready_to_execute, inflight' = inflight, mem' = mem
    PROVE  CpuInv'
<1>1. /\ prog' = prog /\ head' = head
      /\ inflight_reg_executions' = inflight_reg_executions
      /\ inflight_mem_executions' = inflight_mem_executions
  BY DEF rob, inflight
<1>2. RobOK /\ QueuesOK /\ RegInv /\ MemInv
  BY DEF CpuInv
<1>3. RobOK'
  BY <1>1, <1>2 DEF RobOK
<1>4. \A j : SameSlots(j) /\ SameOps(j) /\ SameStage(j) /\ SameWaits(j)
  BY Untouched
<1>5. RegInv'
  <2>1. 0 \notin 1 .. Len(prog)
    OBVIOUS
  <2>2. OnlyMemory(0)
    BY <1>1, <2>1 DEF OnlyMemory, SameWaits
  <2> QED BY <1>2, <2>2, RegByMemory
<1>6. InflightOK'
  <2>1. InflightOK
    BY <1>2 DEF MemInv
  <2> QED BY <1>1, <1>2, <2>1, InflightKept
<1>7. MemInv'
  BY <1>1, <1>2, <1>3, <1>4, <1>6, MemByStages
<1> QED BY <1>3, <1>5, <1>7 DEF CpuInv

LEMMA InvByNothing ==
    ASSUME CpuInv, NextHandler \/ BeginCycle \/ RetireRefused \/ Refuse
    PROVE  CpuInv'
<1>1. /\ rob' = rob /\ inst' = inst /\ ready_to_execute' = ready_to_execute
      /\ lsq' = lsq /\ inflight' = inflight /\ caches' = caches /\ mem' = mem
  BY DEF NextHandler, BeginCycle, RetireRefused, Refuse
<1>2. QueuesOK' /\ TokensSame /\ SameEntries
  BY <1>1, SameQueues DEF CpuInv
<1> QED BY <1>1, <1>2, InvByQueues

LEMMA InvByRequests ==
    ASSUME CpuInv,
           \/ do_translate_store \/ do_translate_load \/ execute_load \/ ReturnDTLB
           \/ \E r \in asked : Answer(r)
    PROVE  CpuInv'
<1>1. /\ rob' = rob /\ inst' = inst /\ ready_to_execute' = ready_to_execute
      /\ inflight' = inflight /\ mem' = mem
  BY DEF do_translate_store, do_translate_load, execute_load, ReturnDTLB, Answer
<1>2. QueuesOK /\ MemInv
  BY DEF CpuInv
<1>3. QueuesOK' /\ TokensSame
  <2>1. CASE do_translate_store \/ do_translate_load \/ execute_load
    BY <1>2, <2>1, QueuesByAsk, TokensByAsk
  <2>2. CASE ReturnDTLB
    BY <1>2, <2>2, QueuesByReturn, TokensByTranslated
  <2>3. ASSUME NEW r \in asked, Answer(r) PROVE QueuesOK' /\ TokensSame
    BY <1>2, <2>3, QueuesByAnswer, TokensByAnswer
  <2> QED BY <2>1, <2>2, <2>3
<1>4. SameEntries
  <2>1. LQ \in [Load -> LoadEntry] /\ SQ \in [Store -> StoreEntry]
    BY <1>2 DEF QueuesOK
  <2>2. \/ LQ' = LQ
        \/ \E l : LQ' = [LQ EXCEPT ![l].translated = "INFLIGHT"]
        \/ \E l : LQ' = [LQ EXCEPT ![l].translated = "COMPLETED"]
        \/ \E l : LQ' = [LQ EXCEPT ![l].fetched = "INFLIGHT"]
    BY DEF do_translate_store, do_translate_load, execute_load, ReturnDTLB, Answer, lsq
  <2>3. \/ SQ' = SQ
        \/ \E s : SQ' = [SQ EXCEPT ![s].translated = "INFLIGHT"]
        \/ \E s : SQ' = [SQ EXCEPT ![s].translated = "COMPLETED"]
    BY DEF do_translate_store, do_translate_load, execute_load, ReturnDTLB, Answer, lsq
  <2>4. \A l \in Load : LQ'[l].id = LQ[l].id /\ LQ'[l].producer = LQ[l].producer
    BY <2>1, <2>2 DEF LoadEntry
  <2>5. \A s \in Store : SQ'[s].id = SQ[s].id /\ SQ'[s].fetched = SQ[s].fetched
    BY <2>1, <2>3 DEF StoreEntry
  <2> QED BY <2>4, <2>5 DEF SameEntries
<1> QED BY <1>1, <1>3, <1>4, InvByQueues

LEMMA InvByRetire ==
    ASSUME CpuInv, retire_rob PROVE CpuInv'
<1>1. RobOK /\ QueuesOK /\ RegInv /\ MemInv
  BY DEF CpuInv
<1>2. /\ prog' = prog /\ inst' = inst /\ ready_to_execute' = ready_to_execute
      /\ head' = head + 1 /\ head <= Len(prog) /\ inflight' = inflight
      /\ \/ mem' = mem
         \/ prog[head].store # None /\ mem' = [mem EXCEPT ![prog[head].store] = head]
  BY DEF retire_rob, RetireStore, MayRetire
<1>3. head \in Nat /\ head + 1 \in 1 .. Len(prog) + 1
  BY <1>1, <1>2, InstTyped
<1>4. mem' \in [Addr -> Nat]
  BY <1>1, <1>2, <1>3 DEF RobOK
<1>5. RobOK'
  BY <1>1, <1>2, <1>3, <1>4 DEF RobOK, inflight
<1> QED BY <1>1, <1>5, QueuesByRetire, RegByRetire, MemByRetire DEF CpuInv

(* complete_inflight_instruction, execute_instruction and do_scheduling    *)
(* leave the queues alone.                                                 *)
LEMMA MemByCore ==
    ASSUME CpuInv, RobOK', prog' = prog, head' = head, mem' = mem,
           lsq' = lsq, caches' = caches, InflightOK',
           \A j \in 1 .. Len(prog) :
              /\ SameSlots(j) /\ SameOps(j)
              /\ inst'[j].executed = "COMPLETED" =>
                    inst[j].executed = "COMPLETED" \/ inst[j].num_mem_ops = 0
    PROVE  QueuesOK' /\ MemInv'
<1>1. RobOK /\ QueuesOK /\ MemInv
  BY DEF CpuInv
<1>2. QueuesOK' /\ TokensSame /\ SameEntries
  BY <1>1, SameQueues
<1>3. MemInv'
  BY <1>1, <1>2, MemByStages
<1> QED BY <1>2, <1>3

LEMMA InvByComplete ==
    ASSUME CpuInv, complete_inflight_instruction PROVE CpuInv'
<1>1. RobOK /\ QueuesOK /\ RegInv /\ MemInv
  BY DEF CpuInv
<1>2. /\ prog' = prog /\ head' = head /\ mem' = mem /\ lsq' = lsq /\ caches' = caches
  BY DEF complete_inflight_instruction, rob
<1>3. IF is_memory(Smallest(Completable))
      THEN /\ inflight_mem_executions' = inflight_mem_executions - 1
           /\ inflight_reg_executions' = inflight_reg_executions
      ELSE /\ inflight_reg_executions' = inflight_reg_executions - 1
           /\ inflight_mem_executions' = inflight_mem_executions
  BY DEF complete_inflight_instruction
<1>4. StillInst /\ Completes(Smallest(Completable))
  BY <1>1, CompleteEffect
<1> DEFINE i == Smallest(Completable)
<1>5. i \in 1 .. Len(prog) /\ i \in Completable
  BY <1>1, <1>4, InstTyped DEF Completes, Completable, InROB
<1> HIDE DEF i
<1>6. Completes(i) /\ inst[i].num_mem_ops = 0
  BY <1>4, <1>5 DEF i, Completable
<1>7. ready_to_execute' \in Seq(Nat)
  <2>1. Deps(i) \in Seq(Nat)
    BY <1>1, <1>5, InstTyped DEF Deps, InstRec
  <2>2. Woken(Deps(i)) \in Seq(Nat)
    BY <2>1, WokenOnce
  <2> DEFINE w == Woken(Deps(i))
  <2>3. ready_to_execute' = ready_to_execute \o w /\ ready_to_execute \in Seq(Nat)
    BY <1>1, <1>6 DEF Completes, RobOK
  <2> HIDE DEF w
  <2>4. w \in Seq(Nat)
    BY <2>2 DEF w
  <2> QED BY <2>3, <2>4
<1>8. inflight_reg_executions' \in Int /\ inflight_mem_executions' \in Int
  BY <1>1, <1>3 DEF RobOK
<1>9. RobOK'
  BY <1>1, <1>2, <1>4, <1>7, <1>8, StillRob
<1>10. RegInv'
  BY <1>1, <1>2, <1>5, <1>6, RegByComplete
<1>11. InflightOK'
  <2>1. InflightOK
    BY <1>1 DEF MemInv
  <2>2. IF is_memory(i)
        THEN /\ inflight_mem_executions' = inflight_mem_executions - 1
             /\ inflight_reg_executions' = inflight_reg_executions
        ELSE /\ inflight_reg_executions' = inflight_reg_executions - 1
             /\ inflight_mem_executions' = inflight_mem_executions
    BY <1>3 DEF i
  <2> QED BY <1>1, <1>2, <1>6, <2>1, <2>2, InflightByComplete
<1>12. ASSUME NEW j \in 1 .. Len(prog)
       PROVE  /\ SameSlots(j) /\ SameOps(j)
              /\ inst'[j].executed = "COMPLETED" =>
                    inst[j].executed = "COMPLETED" \/ inst[j].num_mem_ops = 0
  <2>1. /\ SameSlots(j) /\ SameOps(j)
        /\ j # i => inst'[j].executed = inst[j].executed
    BY <1>6 DEF Completes
  <2> QED BY <1>6, <2>1
<1>13. QueuesOK' /\ MemInv'
  BY <1>2, <1>9, <1>11, <1>12, MemByCore
<1> QED BY <1>9, <1>10, <1>13 DEF CpuInv

LEMMA InvByExecute ==
    ASSUME CpuInv, execute_instruction PROVE CpuInv'
<1>1. RobOK /\ QueuesOK /\ RegInv /\ MemInv /\ ReadyOnce /\ InflightOK
  BY DEF CpuInv, RegInv, MemInv
<1>2. /\ prog' = prog /\ head' = head /\ mem' = mem /\ lsq' = lsq /\ caches' = caches
      /\ inflight_reg_executions' = inflight_reg_executions + 1
      /\ inflight_mem_executions' = inflight_mem_executions
  BY DEF execute_instruction, rob
<1>3. StillInst
  BY <1>1, ExecuteEffect
<1>4. PICK i \in 1 .. Len(prog) : Executes(i)
  BY <1>1, ExecuteEffect
<1>5. ready_to_execute' \in Seq(Nat)
  BY <1>1, <1>4, EndsOfQueue DEF Executes, RobOK
<1>6. RobOK'
  <2>1. inflight_reg_executions' \in Int /\ inflight_mem_executions' \in Int
    BY <1>1, <1>2 DEF RobOK
  <2> QED BY <1>1, <1>2, <1>3, <1>5, <2>1, StillRob
<1>7. RegInv'
  BY <1>1, <1>2, <1>4, RegByExecute
<1>8. InflightOK'
  BY <1>1, <1>2, <1>4, InflightByExecute
<1>9. \A j \in 1 .. Len(prog) :
         /\ SameSlots(j) /\ SameOps(j)
         /\ inst'[j].executed = "COMPLETED" =>
               inst[j].executed = "COMPLETED" \/ inst[j].num_mem_ops = 0
  BY <1>4 DEF Executes
<1>10. QueuesOK' /\ MemInv'
  BY <1>2, <1>6, <1>8, <1>9, MemByCore
<1> QED BY <1>6, <1>7, <1>10 DEF CpuInv

LEMMA InvBySchedule ==
    ASSUME CpuInv, schedule_instruction PROVE CpuInv'
<1>1. RobOK /\ QueuesOK /\ RegInv /\ MemInv /\ InflightOK
  BY DEF CpuInv, MemInv
<1>2. /\ prog' = prog /\ head' = head /\ mem' = mem /\ lsq' = lsq /\ caches' = caches
      /\ inflight' = inflight
  BY DEF schedule_instruction, rob
<1>3. StillInst
  BY <1>1, ScheduleEffect
<1>4. PICK i \in Unscheduled : Schedules(i)
  BY <1>1, ScheduleEffect
<1>5. ready_to_execute' \in Seq(Nat)
  <2>1. i \in Nat /\ ready_to_execute \in Seq(Nat)
    BY <1>1, <1>4, InstTyped DEF Unscheduled, InROB, RobOK
  <2>2. Append(ready_to_execute, i) \in Seq(Nat)
    BY <2>1
  <2> QED BY <1>4, <2>1, <2>2 DEF Schedules
<1>6. RobOK'
  <2>1. inflight_reg_executions' \in Int /\ inflight_mem_executions' \in Int
    BY <1>1, <1>2 DEF RobOK, inflight
  <2> QED BY <1>1, <1>2, <1>3, <1>5, <2>1, StillRob
<1>7. RegInv'
  BY <1>1, <1>2, <1>4, RegBySchedule
<1>8. \A j \in 1 .. Len(prog) :
         SameSlots(j) /\ SameOps(j) /\ inst'[j].executed = inst[j].executed
  BY <1>4 DEF Schedules
<1>9. InflightOK'
  <2>1. \A j \in InROB : /\ inst'[j].num_mem_ops = inst[j].num_mem_ops
                         /\ inst'[j].executed = inst[j].executed
    BY <1>1, <1>8, InstTyped DEF InROB, SameOps
  <2> QED BY <1>1, <1>2, <2>1, InflightKept
<1>10. QueuesOK' /\ MemInv'
  BY <1>2, <1>6, <1>8, <1>9, MemByCore
<1> QED BY <1>6, <1>7, <1>10 DEF CpuInv

(* The end of a cycle: only due changes.                                   *)
LEMMA InvByCycleEnd ==
    ASSUME CpuInv, DispatchEnds PROVE CpuInv'
<1>1. RobOK /\ QueuesOK /\ RegInv /\ MemInv /\ InflightOK
  BY DEF CpuInv, MemInv
<1>2. /\ prog' = prog /\ head' = head /\ mem' = mem /\ lsq' = lsq /\ caches' = caches
      /\ inflight' = inflight /\ ready_to_execute' = ready_to_execute
      /\ inst' = [i \in DOMAIN inst |-> [inst[i] EXCEPT !.due = IF @ > 0 THEN @ - 1 ELSE 0]]
  BY DEF DispatchEnds, rob
<1>3. ASSUME NEW j \in 1 .. Len(prog)
      PROVE  /\ inst'[j] \in InstRec
             /\ SameSlots(j) /\ SameOps(j) /\ SameStage(j) /\ SameWaits(j)
  <2>1. inst'[j] = [inst[j] EXCEPT !.due = IF @ > 0 THEN @ - 1 ELSE 0] /\ inst[j] \in InstRec
    BY <1>1, <1>2, InstTyped
  <2> DEFINE d == IF inst[j].due > 0 THEN inst[j].due - 1 ELSE 0
  <2>2. d \in Nat
    BY <2>1 DEF InstRec
  <2>3. inst'[j] = [inst[j] EXCEPT !.due = d]
    BY <2>1
  <2> HIDE DEF d
  <2> QED BY <2>1, <2>2, <2>3 DEF InstRec, SameSlots, SameOps, SameStage, SameWaits
<1>4. StillInst
  <2>1. DOMAIN inst' = DOMAIN inst /\ inst' = [j \in DOMAIN inst |-> inst'[j]]
    BY <1>2
  <2> QED BY <1>1, <1>3, <2>1, InstMade
<1>5. RobOK'
  <2>1. /\ inflight_reg_executions' \in Int /\ inflight_mem_executions' \in Int
        /\ ready_to_execute' \in Seq(Nat)
    BY <1>1, <1>2 DEF RobOK, inflight
  <2> QED BY <1>1, <1>2, <1>4, <2>1, StillRob
<1>6. RegInv'
  <2>1. OnlyMemory(0)
    <3>1. 0 \notin 1 .. Len(prog)
      OBVIOUS
    <3> QED BY <1>2, <1>3, <3>1 DEF OnlyMemory, SameStage, SameSlots
  <2> QED BY <1>1, <2>1, RegByMemory
<1>7. InflightOK'
  <2>1. \A j \in InROB : /\ inst'[j].num_mem_ops = inst[j].num_mem_ops
                         /\ inst'[j].executed = inst[j].executed
    BY <1>1, <1>3, InstTyped DEF InROB, SameOps, SameStage
  <2> QED BY <1>1, <1>2, <2>1, InflightKept
<1>8. \A j \in 1 .. Len(prog) :
         SameSlots(j) /\ SameOps(j) /\ inst'[j].executed = inst[j].executed
  BY <1>3 DEF SameStage
<1>9. QueuesOK' /\ MemInv'
  BY <1>2, <1>5, <1>7, <1>8, MemByCore
<1> QED BY <1>5, <1>6, <1>9 DEF CpuInv


LEMMA InvByReturn ==
    ASSUME CpuInv, ReturnL1D PROVE CpuInv'
<1>1. RobOK /\ QueuesOK /\ RegInv /\ MemInv
  BY DEF CpuInv
<1>2. /\ prog' = prog /\ head' = head /\ mem' = mem
      /\ ready_to_execute' = ready_to_execute
      /\ inflight_reg_executions' = inflight_reg_executions
  BY DEF ReturnL1D, rob
<1>3. StillInst
  BY <1>1, ReturnEffect
<1>4. PICK i \in 1 .. Len(prog) : Returns(Head(L1D_bus).slot, i)
  BY <1>1, ReturnEffect
<1>5. QueuesOK'
  BY <1>1, QueuesByReturn
<1>6. RobOK'
  <2>1. NowDone({i}) \in Nat
    BY <1>1, <1>4, NowDoneNat DEF Returns
  <2>2. inflight_mem_executions' \in Int /\ inflight_reg_executions' \in Int
    BY <1>1, <1>2, <1>4, <2>1 DEF RobOK, Returns
  <2>3. ready_to_execute' \in Seq(Nat)
    BY <1>1, <1>2 DEF RobOK
  <2> QED BY <1>1, <1>2, <1>3, <2>2, <2>3, StillRob
<1>7. RegInv'
  <2>1. \A j \in 1 .. Len(prog) : SameSlots(j) /\ SameStage(j) /\ SameWaits(j)
    BY <1>4 DEF Returns
  <2>2. 0 \notin 1 .. Len(prog)
    OBVIOUS
  <2>3. OnlyMemory(0)
    BY <1>2, <2>1, <2>2 DEF OnlyMemory, SameStage, SameSlots
  <2> QED BY <1>1, <2>3, RegByMemory
<1>8. MemInv'
  BY <1>1, <1>4, <1>5, MemByReturn
<1> QED BY <1>5, <1>6, <1>7, <1>8 DEF CpuInv

LEMMA InvByStore ==
    ASSUME CpuInv, execute_store PROVE CpuInv'
<1>1. RobOK /\ QueuesOK /\ RegInv /\ MemInv
  BY DEF CpuInv
<1>2. /\ prog' = prog /\ head' = head /\ mem' = mem
      /\ ready_to_execute' = ready_to_execute
      /\ inflight_reg_executions' = inflight_reg_executions
  BY DEF execute_store, rob
<1>3. StillInst
  BY <1>1, StoreEffect
<1>4. PICK i \in 1 .. Len(prog) : Forwards(Head(RTS1), i)
  BY <1>1, StoreEffect
<1>5. QueuesOK'
  BY <1>1, QueuesByExecute
<1>6. RobOK'
  <2> DEFINE S == {i} \cup Forwarded(i)
  <2>1. /\ i \in head .. Len(prog) /\ ~HasData(i)
        /\ inflight_mem_executions' = inflight_mem_executions + NowDone(S)
    BY <1>4 DEF Forwards
  <2>2. \A j \in Forwarded(i) : j \in head .. Len(prog)
    BY <1>1, <2>1, ForwardedAre
  <2>3. S \in SUBSET (head .. Len(prog))
    BY <2>1, <2>2
  <2> HIDE DEF S
  <2>4. NowDone(S) \in Nat
    BY <1>1, <2>3, NowDoneNat
  <2>5. inflight_mem_executions' \in Int /\ inflight_reg_executions' \in Int
    BY <1>1, <1>2, <2>1, <2>4 DEF RobOK
  <2>6. ready_to_execute' \in Seq(Nat)
    BY <1>1, <1>2 DEF RobOK
  <2> QED BY <1>1, <1>2, <1>3, <2>5, <2>6, StillRob
<1>7. RegInv'
  <2>1. \A j \in 1 .. Len(prog) : SameSlots(j) /\ SameStage(j) /\ SameWaits(j)
    BY <1>4 DEF Forwards
  <2>2. 0 \notin 1 .. Len(prog)
    OBVIOUS
  <2>3. OnlyMemory(0)
    BY <1>2, <2>1, <2>2 DEF OnlyMemory, SameStage, SameSlots
  <2> QED BY <1>1, <2>3, RegByMemory
<1>8. MemInv'
  BY <1>1, <1>4, <1>5, MemByStore
<1> QED BY <1>5, <1>6, <1>7, <1>8 DEF CpuInv

LEMMA InvByEnter ==
    ASSUME CpuInv, schedule_memory_instruction PROVE CpuInv'
<1>1. RobOK /\ QueuesOK /\ RegInv /\ MemInv
  BY DEF CpuInv
<1>2. /\ prog' = prog /\ head' = head /\ mem' = mem
      /\ ready_to_execute' = ready_to_execute
      /\ inflight_reg_executions' = inflight_reg_executions
  BY DEF schedule_memory_instruction, rob
<1>3. StillInst
  BY <1>1, EnterEffect
<1> DEFINE i == Smallest(Schedulable)
           l == Smallest(FreeLoads)
           s == Smallest(FreeStores)
<1>4. i \in 1 .. Len(prog) /\ Enters(i, l, s)
  BY <1>1, EnterEffect
<1>5. QueuesOK' /\ InQueues(i, l, s)
  BY <1>1, QueuesByEnter
<1> HIDE DEF i, l, s
<1>6. RobOK'
  <2>1. NowDone({i}) \in Nat
    BY <1>1, <1>4, NowDoneNat DEF Enters
  <2>2. inflight_mem_executions' \in Int /\ inflight_reg_executions' \in Int
    BY <1>1, <1>2, <1>4, <2>1 DEF RobOK, Enters
  <2>3. ready_to_execute' \in Seq(Nat)
    BY <1>1, <1>2 DEF RobOK
  <2> QED BY <1>1, <1>2, <1>3, <2>2, <2>3, StillRob
<1>7. RegInv'
  <2>1. /\ is_memory(i) /\ inst[i].scheduled = "INFLIGHT" /\ inst[i].num_reg_dependent = 0
    BY <1>4 DEF Enters, Schedulable
  <2>2. ASSUME NEW j \in 1 .. Len(prog)
        PROVE  /\ SameWaits(j)
               /\ inst'[j].scheduled = "no" <=> inst[j].scheduled = "no"
               /\ inst'[j].executed = "COMPLETED" <=> inst[j].executed = "COMPLETED"
               /\ j # i => /\ inst'[j].executed = inst[j].executed
                           /\ inst'[j].source_added = inst[j].source_added
                           /\ inst'[j].destination_added = inst[j].destination_added
    <3>1. CASE j = i
      BY <1>4, <2>1, <3>1 DEF Enters
    <3>2. CASE j # i
      BY <1>4, <3>2 DEF Enters, SameStage
    <3> QED BY <3>1, <3>2
  <2>3. OnlyMemory(i)
    BY <1>2, <2>1, <2>2 DEF OnlyMemory
  <2> QED BY <1>1, <2>3, RegByMemory
<1>8. MemInv'
  BY <1>1, <1>4, <1>5, MemByEnter
<1> QED BY <1>5, <1>6, <1>7, <1>8 DEF CpuInv

LEMMA InvByDispatch ==
    ASSUME CpuInv, NEW r \in Instruction, dispatch_instruction(r) PROVE CpuInv'
<1>1. RobOK /\ QueuesOK /\ RegInv /\ MemInv
  BY DEF CpuInv
<1>2. /\ head' = head /\ mem' = mem /\ ready_to_execute' = ready_to_execute
      /\ inflight' = inflight /\ caches' = caches
      /\ LQ' = LQ /\ SQ' = SQ /\ RTL0' = RTL0 /\ RTL1' = RTL1
      /\ RTS0' = RTS0 /\ RTS1' = RTS1
  BY DEF dispatch_instruction
<1>3. PICK n \in Nat : Dispatches(n, r)
  BY <1>1, DispatchEffect
<1>4. prog' \in Seq(Instruction) /\ inst' \in Seq(InstRec) /\ Len(inst') = Len(prog')
  BY <1>1, DispatchEffect
<1>5. RobOK'
  <2>1. head \in 1 .. Len(prog') + 1
    BY <1>1, <1>3, InstTyped DEF Dispatches
  <2> QED BY <1>1, <1>2, <1>4, <2>1 DEF RobOK, inflight
<1>6. QueuesOK'
  BY <1>1, <1>2 DEF QueuesOK, caches
<1>7. RegInv'
  BY <1>1, <1>2, <1>3, RegByDispatch
<1>8. MemInv'
  BY <1>1, <1>3, MemByDispatch
<1> QED BY <1>5, <1>6, <1>7, <1>8 DEF CpuInv

-----------------------------------------------------------------------------
LEMMA InvAtFirst ==
    ASSUME CpuInit PROVE CpuInv
<1>1. /\ prog = <<>> /\ head = 1 /\ inst = <<>> /\ ready_to_execute = <<>>
      /\ LQ = [l \in 1 .. LQ_SIZE |-> EmptyLoad] /\ SQ = [s \in 1 .. SQ_SIZE |-> EmptyStore]
      /\ RTL0 = <<>> /\ RTL1 = <<>> /\ RTS0 = <<>> /\ RTS1 = <<>>
      /\ inflight_reg_executions = 0 /\ inflight_mem_executions = 0
      /\ asked = {} /\ DTLB_bus = <<>> /\ L1D_bus = <<>>
      /\ mem = [a \in Addr |-> 0]
  BY DEF CpuInit
<1>2. /\ Len(prog) = 0 /\ 1 .. Len(prog) = {} /\ head .. Len(prog) = {} /\ DOMAIN inst = {}
      /\ 1 .. head - 1 = {} /\ DOMAIN ready_to_execute = {}
  BY <1>1
<1>3. RobOK
  BY <1>1 DEF RobOK
<1>4. QueuesOK
  BY <1>1, Fresh, FS_EmptySet DEF QueuesOK, Load, Store
<1>5. RegInv
  BY <1>2 DEF RegInv, RetiredDone, DepsOK, DepsCounted, DepsHeld, StartedReady, ReadyOnce
<1>6. \A q, k : Times(<<>>, k) = 0 /\ Sent(q, k) = 0
  <2>1. \A k : Times(<<>>, k) = 0
    BY TimesIsCount, CountEmpty
  <2>2. ASSUME NEW q, NEW k PROVE Sent(q, k) = 0
    <3>1. /\ {x \in asked : x.queue = q /\ x.slot = k} = {}
          /\ {m \in DOMAIN DTLB_bus : DTLB_bus[m].queue = q /\ DTLB_bus[m].slot = k} = {}
          /\ {m \in DOMAIN L1D_bus : L1D_bus[m].queue = q /\ L1D_bus[m].slot = k} = {}
      BY <1>1
    <3>2. Cardinality({}) = 0
      BY FS_EmptySet
    <3>3. /\ Cardinality({x \in asked : x.queue = q /\ x.slot = k}) = 0
          /\ Cardinality({m \in DOMAIN DTLB_bus :
                            DTLB_bus[m].queue = q /\ DTLB_bus[m].slot = k}) = 0
          /\ Cardinality({m \in DOMAIN L1D_bus :
                            L1D_bus[m].queue = q /\ L1D_bus[m].slot = k}) = 0
      BY <3>1, <3>2, Zenon
    <3> QED BY <3>3 DEF Sent
  <2> QED BY <2>1, <2>2
<1>7. LoadSlots
  BY <1>1, <1>6 DEF LoadSlots, LoadToken, Load, EmptyLoad
<1>8. StoreSlots
  <2>1. \A s \in Store : SQ[s].id = 0 /\ SQ[s].fetched = "no"
    BY <1>1 DEF Store, EmptyStore
  <2>2. \A s \in Store : StoreToken(s) = 0
    BY <1>1, <1>6 DEF StoreToken
  <2> QED BY <2>1, <2>2 DEF StoreSlots
<1>9. MemDepsOK /\ OpsCounted
  BY <1>2 DEF MemDepsOK, OpsCounted
<1>10. InflightOK
  <2>1. MemPending = {} /\ RegPending = {}
    BY <1>2 DEF MemPending, RegPending, InROB
  <2> QED BY <1>1, <2>1, FS_EmptySet DEF InflightOK
<1>11. MemOK
  <2>1. \A x : StoresTo(x, head - 1) = {}
    BY <1>2 DEF StoresTo
  <2> QED BY <1>1, <2>1 DEF MemOK
<1>12. GotOK
  BY <1>2 DEF GotOK
<1> QED BY <1>3, <1>4, <1>5, <1>7, <1>8, <1>9, <1>10, <1>11, <1>12 DEF CpuInv, MemInv

LEMMA CpuStep ==
    ASSUME CpuInv, [CpuNext]_cpuVars PROVE CpuInv'
<1>1. CASE retire_rob
  BY <1>1, InvByRetire
<1>2. CASE complete_inflight_instruction
  BY <1>2, InvByComplete
<1>3. CASE execute_instruction
  BY <1>3, InvByExecute
<1>4. CASE schedule_instruction
  BY <1>4, InvBySchedule
<1>5. CASE \/ ReturnDTLB \/ do_translate_store \/ do_translate_load \/ execute_load
           \/ \E r \in asked : Answer(r)
  BY <1>5, InvByRequests
<1>6. CASE ReturnL1D
  BY <1>6, InvByReturn
<1>7. CASE execute_store
  BY <1>7, InvByStore
<1>8. CASE schedule_memory_instruction
  BY <1>8, InvByEnter
<1>9. CASE \E r \in Instruction : dispatch_instruction(r)
  BY <1>9, InvByDispatch
<1>10. CASE DispatchEnds
  BY <1>10, InvByCycleEnd
<1>11. CASE NextHandler \/ BeginCycle \/ RetireRefused \/ Refuse
  BY <1>11, InvByNothing
<1>12. CASE UNCHANGED cpuVars
  <2>1. /\ rob' = rob /\ inst' = inst /\ ready_to_execute' = ready_to_execute
        /\ lsq' = lsq /\ inflight' = inflight /\ caches' = caches /\ mem' = mem
    BY <1>12 DEF cpuVars
  <2>2. QueuesOK' /\ TokensSame /\ SameEntries
    BY <2>1, SameQueues DEF CpuInv
  <2> QED BY <2>1, <2>2, InvByQueues
<1> QED
  BY <1>1, <1>2, <1>3, <1>4, <1>5, <1>6, <1>7, <1>8, <1>9, <1>10, <1>11, <1>12
  DEF CpuNext, Operate

(* The invariant holds in every reachable state.                           *)
THEOREM CpuInvariant == CpuSpec => []CpuInv
<1>1. CpuInit => CpuInv
  BY InvAtFirst
<1>2. CpuInv /\ [CpuNext]_cpuVars => CpuInv'
  BY CpuStep
<1> QED BY <1>1, <1>2, PTL DEF CpuSpec


(* An instruction that has begun waits for nothing, and what it reads has  *)
(* executed.                                                               *)
LEMMA OperandsFromInv == ASSUME CpuInv PROVE OperandsReady
<1>1. RobOK /\ DepsCounted /\ DepsHeld /\ StartedReady /\ ReadyOnce
  BY DEF CpuInv, RegInv
<1>2. ready_to_execute \in Seq(Nat)
  BY <1>1 DEF RobOK
<1>3. \A i : Times(ready_to_execute, i) > 0 <=> Ready(i)
  BY <1>2, CountOnce, TimesIsCount DEF Ready
<1>4. ASSUME NEW i \in InROB, Begun(i), NEW reg \in prog[i].src,
             Older(i, reg) # {}
      PROVE  inst[Largest(Older(i, reg))].executed = "COMPLETED"
  <2>1. i \in 1 .. Len(prog)
    BY <1>1, InstTyped DEF InROB
  <2>2. Started(i)
    BY <1>3, <1>4 DEF Begun, Started
  <2>3. inst[i].scheduled # "no" /\ inst[i].num_reg_dependent = 0
    BY <1>1, <2>1, <2>2 DEF StartedReady
  <2>4. Cardinality(Pending(i)) = 0
    BY <1>1, <2>1, <2>3 DEF DepsCounted
  <2>5. Pending(i) = {}
    BY <1>1, <2>1, <2>4, PendingFinite, FS_EmptySet
  <2> QED BY <1>1, <1>4, <2>1, <2>3, <2>5 DEF DepsHeld
<1>5. ASSUME NEW k \in DOMAIN ready_to_execute
      PROVE  /\ inst[ready_to_execute[k]].executed = "no"
             /\ Times(ready_to_execute, ready_to_execute[k]) = 1
  <2>1. \A m \in DOMAIN ready_to_execute : ready_to_execute[m] = ready_to_execute[k] => m = k
    BY <1>1 DEF ReadyOnce
  <2>2. CountIn(ready_to_execute, {ready_to_execute[k]}) = 1
    BY <1>2, <2>1, CountOnce
  <2> QED BY <1>1, <2>2, TimesIsCount DEF ReadyOnce
<1> QED BY <1>4, <1>5 DEF OperandsReady, Older

(* In every execution an instruction begins only when the last writer      *)
(* before it of each register it reads has executed (reg_RAW_checking,     *)
(* do_complete_execution), and it is handed to an execution unit once.     *)
THEOREM RegistersReady == CpuSpec => []OperandsReady
<1>1. CpuInv => OperandsReady
  BY OperandsFromInv
<1> QED BY <1>1, CpuInvariant, PTL

LEMMA SlotsFromInv == ASSUME CpuInv PROVE SlotsTracked
<1>1. RobOK /\ QueuesOK /\ LoadSlots /\ StoreSlots /\ MemDepsOK
  BY DEF CpuInv, MemInv
<1>2. ASSUME NEW l \in Load
      PROVE  /\ LoadToken(l) + (IF WaitsForStore(l) THEN 1 ELSE 0)
                = IF LQ[l].id # 0 THEN 1 ELSE 0
             /\ LQ[l].id # 0 => LQ[l].id \in InROB /\ inst[LQ[l].id].lq_index = l
  <2>1. CASE LQ[l].id = 0
    <3>1. LoadToken(l) = 0
      BY <1>1, <2>1 DEF LoadSlots
    <3> QED BY <2>1, <3>1 DEF WaitsForStore
  <2>2. CASE LQ[l].id # 0
    <3>1. LoadSlot(l)
      BY <1>1, <2>2 DEF LoadSlots
    <3>2. LQ[l].id \in InROB /\ inst[LQ[l].id].lq_index = l
      BY <3>1 DEF LoadSlot, InROB
    <3>3. CASE LQ[l].producer = 0
      <4>1. LoadToken(l) = 1
        BY <3>1, <3>3 DEF LoadSlot
      <4>2. ~WaitsForStore(l)
        BY <1>1, <3>3, InstTyped DEF WaitsForStore, InROB
      <4> QED BY <2>2, <3>2, <4>1, <4>2
    <3>4. CASE LQ[l].producer # 0
      <4>1. PICK p : p = LQ[l].producer
        OBVIOUS
      <4>2. PICK i : i = LQ[l].id
        OBVIOUS
      <4>3. /\ LoadToken(l) = 0 /\ p \in head .. i - 1 /\ i \in head .. Len(prog) /\ ~HasData(p)
            /\ \E k \in DOMAIN MemDeps(p) : MemDeps(p)[k] = i
        BY <3>1, <3>4, <4>1, <4>2 DEF LoadSlot
      <4>4. p \in InROB /\ p \in 1 .. Len(prog)
        BY <1>1, <4>3, InstTyped DEF InROB
      <4>5. PICK k \in DOMAIN MemDeps(p) : MemDeps(p)[k] = i
        BY <4>3
      <4>6. \A m \in DOMAIN MemDeps(p) : MemDeps(p)[m] = i => m = k
        BY <1>1, <4>3, <4>4, <4>5 DEF MemDepsOK, InROB
      <4>7. MemDeps(p) \in Seq(Nat)
        BY <1>1, <4>4, InstTyped DEF MemDeps, InstRec
      <4>8. Times(MemDeps(p), i) = 1
        BY <4>5, <4>6, <4>7, CountOnce, TimesIsCount
      <4>9. WaitsForStore(l)
        BY <2>2, <4>1, <4>2, <4>3, <4>4, <4>8 DEF WaitsForStore, MemDeps
      <4> QED BY <2>2, <3>2, <4>3, <4>9
    <3> QED BY <3>3, <3>4
  <2> QED BY <2>1, <2>2
<1>3. ASSUME NEW s \in Store
      PROVE  /\ StoreToken(s) + (IF SQ[s].fetched = "COMPLETED" THEN 1 ELSE 0)
                = IF SQ[s].id # 0 THEN 1 ELSE 0
             /\ SQ[s].id # 0 => SQ[s].id \in InROB /\ inst[SQ[s].id].sq_index = s
  BY <1>1 DEF StoreSlots, InROB
<1> QED BY <1>2, <1>3 DEF SlotsTracked, LoadToken, StoreToken, Load, Store

(* In every execution an occupied slot of the load or store queue is on    *)
(* its way in exactly one place, and no packet or queue names an empty     *)
(* one, whatever order the caches answer in (operate_lsq, execute_store,   *)
(* handle_memory_return).                                                  *)
THEOREM SlotsOnce == CpuSpec => []SlotsTracked
<1>1. CpuInv => SlotsTracked
  BY SlotsFromInv
<1> QED BY <1>1, CpuInvariant, PTL

(* In every execution num_mem_ops is what is left to do, and the inflight  *)
(* counters are what complete_inflight_instruction has yet to complete.    *)
THEOREM Counters == CpuSpec => []CountersExact
<1>1. ASSUME CpuInv PROVE CountersExact
  <2>1. OpsCounted /\ InflightOK
    BY <1>1 DEF CpuInv, MemInv
  <2> QED BY <2>1 DEF CountersExact, OpsCounted, InflightOK, MemPending, RegPending, InROB
<1> QED BY <1>1, CpuInvariant, PTL

(* In every execution a load gets the data of the last store before it in  *)
(* the program, forwarded by the store queue (do_sq_forward_to_lq) or from *)
(* the L1D.                                                                *)
THEOREM LastStoreSeen == CpuSpec => []LoadsSeeLastStore
<1>1. ASSUME CpuInv PROVE LoadsSeeLastStore
  <2>1. RobOK /\ GotOK
    BY <1>1 DEF CpuInv, MemInv
  <2> QED BY <2>1, InstTyped DEF LoadsSeeLastStore, GotOK
<1> QED BY <1>1, CpuInvariant, PTL

=============================================================================
