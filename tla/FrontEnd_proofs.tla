--------------------------- MODULE FrontEnd_proofs ---------------------------
(***************************************************************************)
(* Proofs about FrontEnd, for every trace, every width and size of its     *)
(* buffers and every layout of the code in pages, lines and windows: the   *)
(* type invariant, the cause of every stall, that nothing is decoded which *)
(* was not fetched, although replies name places and not instructions, and *)
(* that nothing waits for an answer nobody was asked for.                  *)
(***************************************************************************)
EXTENDS FrontEnd, FiniteSetTheorems, SequenceTheorems, WellFoundedInduction,
        NaturalsInduction, TLAPS

-----------------------------------------------------------------------------
(* Every set of numbers that is not empty has a least one.                 *)
LEMMA LeastNumber ==
    ASSUME NEW N, N \subseteq Nat, N # {}
    PROVE  \E n \in N : \A m \in N : n <= m
<1>1. PICK n \in N : \A m \in N : ~ (<<m, n>> \in OpToRel(<, Nat))
  BY NatLessThanWellFounded, WFMin, Zenon
<1>2. \A p \in Nat \X Nat : p[1] < p[2] => p \in OpToRel(<, Nat)
  BY Zenon DEF OpToRel
<1>3. ASSUME NEW m \in N PROVE n <= m
  <2>1. m \in Nat /\ n \in Nat /\ ~(m < n)
    BY <1>1, <1>2
  <2> QED BY <2>1
<1> QED BY <1>3

(* A buffer between two counters holds their difference.                   *)
LEMMA RangeSize ==
    ASSUME NEW a \in Nat, NEW b \in Nat, a <= b
    PROVE  IsFiniteSet(a + 1 .. b) /\ Cardinality(a + 1 .. b) = b - a
<1>1. a + 1 \in Int /\ b \in Int /\ b - (a + 1) + 1 = b - a /\ (a + 1 > b => b - a = 0)
  OBVIOUS
<1> QED BY <1>1, FS_Interval

(* A function on 1 .. n is a sequence, and Append extends it.              *)
LEMMA AppendExtends ==
    ASSUME NEW R, NEW n \in Nat, NEW f \in [1 .. n -> R], NEW e \in R
    PROVE  /\ Append(f, e) \in [1 .. n + 1 -> R]
           /\ \A i \in 1 .. n : Append(f, e)[i] = f[i]
           /\ Append(f, e)[n + 1] = e
<1>1. f \in Seq(R) /\ Len(f) = n
  BY SeqDef, LenProperties
<1>2. /\ Append(f, e) \in Seq(R) /\ Len(Append(f, e)) = n + 1
      /\ \A i \in 1 .. n : Append(f, e)[i] = f[i]
      /\ Append(f, e)[n + 1] = e
  BY <1>1, AppendProperties
<1>3. Append(f, e) \in [1 .. Len(Append(f, e)) -> R]
  BY <1>2, LenProperties, Zenon
<1> QED BY <1>2, <1>3

-----------------------------------------------------------------------------
(* How far the instructions are, and what a packet and a place are.        *)
LEMMA Sizes ==
    /\ IFETCH_SIZE \in Nat /\ DECODE_SIZE \in Nat /\ ROB_SIZE \in Nat
    /\ FETCH_WIDTH \in Nat /\ DECODE_WIDTH \in Nat /\ DISPATCH_WIDTH \in Nat
    /\ \A t \in Traces : Len(t) \in Nat
BY FrontEndAssumption

CountersOK ==
    /\ trace \in Traces
    /\ retired \in Nat /\ dispatched \in Nat /\ decoded \in Nat /\ promoted \in Nat /\ read \in Nat
    /\ retired <= dispatched /\ dispatched <= decoded /\ decoded <= promoted
    /\ promoted <= read /\ read <= Len(trace)
    /\ toRead \in 0 .. FETCH_WIDTH
    /\ (read - promoted) + toRead <= IFETCH_SIZE
    /\ promoted - decoded <= DECODE_SIZE
    /\ dispatched <= retired + ROB_SIZE

DataOK ==
    /\ inst \in [1 .. read -> InstRecord]
    /\ arrived \in [1 .. read -> SUBSET (Bus \X Address)]
    /\ asked \in [Bus -> SUBSET Packet]
    /\ PROCESSED \in [Bus -> Seq(Packet)]
    /\ IsFiniteSet(DIB) /\ Cardinality(DIB) <= dib_way

StallOK ==
    /\ fetch_stall \in BOOLEAN
    /\ resume \in Never .. MISPREDICT_PENALTY
    /\ StallHasCause

-----------------------------------------------------------------------------
(* StallHasCause is inductive on its own.                                  *)
LEMMA StallStep ==
    ASSUME StallOK, CountersOK, [FrontEndNext]_feVars PROVE StallOK'
<1> USE FrontEndAssumption DEF StallOK, StallHasCause, Never
<1>1. CASE init_instruction
  <2>1. /\ ~fetch_stall /\ read' = read + 1 /\ resume' = resume
        /\ fetch_stall' = (Branch[trace[read + 1]] \in {"direct", "indirect"})
        /\ fetch_stall' => mispredicted' = mispredicted \cup {read + 1}
        /\ ~fetch_stall' => mispredicted' = mispredicted
    BY <1>1, Zenon DEF init_instruction
  <2>2. mispredicted = {} /\ resume = Never
    BY <2>1, Zenon
  <2>3. fetch_stall' \in BOOLEAN /\ resume' \in Never .. MISPREDICT_PENALTY
    BY <2>1
  <2>4. CASE fetch_stall'
    <3>1. mispredicted' = {read'} /\ resume' = Never
      BY <2>1, <2>2, <2>4
    <3> QED BY <2>3, <2>4, <3>1, Zenon
  <2>5. CASE ~fetch_stall'
    <3>1. mispredicted' = {} /\ resume' = Never
      BY <2>1, <2>2, <2>5, Zenon
    <3> QED BY <2>3, <2>5, <3>1, Zenon
  <2> QED BY <2>4, <2>5
<1>2. CASE BeginCycle
  BY <1>2 DEF BeginCycle
<1>3. CASE complete_inflight_instruction
  <2>1. CASE do_complete_execution
    BY <1>3, <2>1 DEF complete_inflight_instruction, do_complete_execution
  <2>2. CASE UNCHANGED <<mispredicted, resume>>
    BY <1>3, <2>2 DEF complete_inflight_instruction
  <2> QED BY <1>3, <2>1, <2>2 DEF complete_inflight_instruction
<1>4. CASE decode_instruction
  BY <1>4 DEF decode_instruction
<1>5. CASE fetch_instruction
  <2>1. UNCHANGED <<mispredicted, read>>
    BY <1>5 DEF fetch_instruction
  <2>2. CASE fetch_stall /\ resume = 0
    <3>1. fetch_stall' = FALSE /\ resume' = Never
      BY <1>5, <2>2, Zenon DEF fetch_instruction, EndOfStall
    <3>2. mispredicted = {}
      BY <2>2
    <3>3. Never \in Never .. MISPREDICT_PENALTY
      OBVIOUS
    <3> QED BY <2>1, <3>1, <3>2, <3>3
  <2>3. CASE ~(fetch_stall /\ resume = 0)
    <3>1. UNCHANGED <<fetch_stall, resume>>
      BY <1>5, <2>3, Zenon DEF fetch_instruction, EndOfStall
    <3> QED BY <2>1, <3>1
  <2> QED BY <2>2, <2>3
<1>6. CASE UNCHANGED <<fetch_stall, resume, mispredicted, read>>
  BY <1>6
<1>7. ASSUME NEW bus \in Bus, ServeOne(bus) \/ EndServing(bus) \/ return_data(bus)
      PROVE  UNCHANGED <<fetch_stall, resume, mispredicted, read>>
  BY <1>7 DEF ServeOne, EndServing, return_data, stallVars
<1>8. CASE dispatch_instruction \/ promote_to_decode \/ translate_fetch \/ check_dib
  BY <1>6, <1>8 DEF dispatch_instruction, promote_to_decode, translate_fetch, check_dib, stallVars
<1>9. CASE UNCHANGED feVars
  BY <1>6, <1>9 DEF feVars
<1> QED BY <1>1, <1>2, <1>3, <1>4, <1>5, <1>6, <1>7, <1>8, <1>9
        DEF FrontEndNext, Handlers, Bus

-----------------------------------------------------------------------------
(* What leaves IFETCH_BUFFER is a fetched run that DECODE_BUFFER has room  *)
(* for: Leaving exists.                                                    *)
LEMMA LeavingFetched ==
    ASSUME CountersOK
    PROVE  /\ Leaving \in Nat
           /\ promoted + Leaving <= read
           /\ promoted + Leaving - decoded <= DECODE_SIZE
           /\ \A n \in promoted + 1 .. promoted + Leaving : Fetched(n)
<1> USE Sizes
<1> DEFINE bound == Smaller(FETCH_WIDTH,
                            Smaller(read - promoted, DECODE_SIZE - (promoted - decoded)))
           Ends == {k \in 0 .. bound : k < bound => ~Fetched(promoted + k + 1)}
<1>1. bound \in Nat /\ bound <= read - promoted /\ bound <= DECODE_SIZE - (promoted - decoded)
  <2>1. read - promoted \in Nat /\ DECODE_SIZE - (promoted - decoded) \in Nat
    BY DEF CountersOK
  <2>2. \A a, b \in Nat : Smaller(a, b) \in Nat /\ Smaller(a, b) <= a /\ Smaller(a, b) <= b
    BY DEF Smaller
  <2> DEFINE room == Smaller(read - promoted, DECODE_SIZE - (promoted - decoded))
  <2>3. room \in Nat /\ room <= read - promoted /\ room <= DECODE_SIZE - (promoted - decoded)
    BY <2>1, <2>2
  <2> HIDE DEF room
  <2>4. Smaller(FETCH_WIDTH, room) \in Nat /\ Smaller(FETCH_WIDTH, room) <= room
    BY <2>2, <2>3
  <2> QED BY <2>1, <2>3, <2>4 DEF room
<1> HIDE DEF bound
<1>2. bound \in Ends /\ Ends \subseteq Nat
  BY <1>1
<1>3. PICK k \in Ends : \A j \in Ends : k <= j
  <2> HIDE DEF Ends
  <2> QED BY <1>2, LeastNumber
<1>4. k \in 0 .. bound /\ (k < bound => ~Fetched(promoted + k + 1))
  BY <1>3
<1>5. ASSUME NEW n \in promoted + 1 .. promoted + k PROVE Fetched(n)
  <2> DEFINE j == n - promoted - 1
  <2>1. j \in 0 .. bound /\ j < k /\ j < bound /\ promoted + j + 1 = n
    BY <1>1, <1>4 DEF CountersOK
  <2>2. j \notin Ends
    BY <1>3, <1>4, <2>1
  <2> QED BY <2>1, <2>2
<1>6. /\ Leaving \in 0 .. bound
      /\ \A n \in promoted + 1 .. promoted + Leaving : Fetched(n)
  <2> DEFINE Run(l) == /\ \A n \in promoted + 1 .. promoted + l : Fetched(n)
                       /\ l < bound => ~Fetched(promoted + l + 1)
  <2>1. Leaving = CHOOSE l \in 0 .. bound : Run(l)
    BY DEF Leaving, bound
  <2>2. k \in 0 .. bound /\ Run(k)
    BY <1>4, <1>5
  <2> HIDE DEF Run
  <2>3. Leaving \in 0 .. bound /\ Run(Leaving)
    BY <2>1, <2>2
  <2> QED BY <2>3 DEF Run
<1> QED BY <1>1, <1>6 DEF CountersOK

LEMMA CountersStep ==
    ASSUME CountersOK, [FrontEndNext]_feVars PROVE CountersOK'
<1> USE Sizes DEF CountersOK
<1>1. CASE init_instruction
  <2>1. /\ toRead > 0 /\ read < Len(trace) /\ read' = read + 1
        /\ toRead' = toRead - 1 \/ toRead' = 0
        /\ UNCHANGED <<trace, promoted, decoded, dispatched, retired>>
    BY <1>1 DEF init_instruction, buffers
  <2> QED BY <2>1
<1>2. CASE BeginCycle
  <2>1. Cardinality(IFETCH_BUFFER) = read - promoted
    BY RangeSize DEF IFETCH_BUFFER
  <2>2. /\ toRead' = Smaller(FETCH_WIDTH, IFETCH_SIZE - (read - promoted))
        /\ retired' \in retired .. dispatched
        /\ UNCHANGED <<trace, read, promoted, decoded, dispatched>>
    BY <1>2, <2>1 DEF BeginCycle
  <2>3. toRead' \in 0 .. FETCH_WIDTH /\ (read - promoted) + toRead' <= IFETCH_SIZE
    BY <2>2 DEF Smaller
  <2>4. retired' \in Nat /\ retired <= retired' /\ retired' <= dispatched
    BY <2>2
  <2>5. UNCHANGED <<trace, read, promoted, decoded, dispatched>>
    BY <2>2
  <2>6. dispatched <= retired' + ROB_SIZE
    <3>1. \A d, r, s, z \in Nat : d <= r + z /\ r <= s => d <= s + z
      OBVIOUS
    <3>2. dispatched \in Nat /\ retired \in Nat /\ ROB_SIZE \in Nat
          /\ dispatched <= retired + ROB_SIZE
      OBVIOUS
    <3> QED BY <2>4, <3>1, <3>2
  <2>7. (read' - promoted') + toRead' <= IFETCH_SIZE
    BY <2>3, <2>5
  <2> QED BY <2>3, <2>4, <2>5, <2>6, <2>7
<1>3. CASE dispatch_instruction
  <2>1. /\ dispatched' = Smaller(dispatched + DISPATCH_WIDTH, Smaller(decoded, retired + ROB_SIZE))
        /\ UNCHANGED <<trace, read, promoted, decoded, retired, toRead>>
    BY <1>3 DEF dispatch_instruction
  <2>2. dispatched' \in Nat /\ dispatched' >= dispatched
        /\ dispatched' <= decoded /\ dispatched' <= retired + ROB_SIZE
    BY <2>1 DEF Smaller
  <2> QED BY <2>1, <2>2
<1>4. CASE decode_instruction
  <2>1. /\ decoded < promoted /\ decoded' = decoded + 1
        /\ UNCHANGED <<trace, read, promoted, dispatched, retired>>
    BY <1>4 DEF decode_instruction, CanDecode
  <2>2. UNCHANGED toRead
    BY <1>4 DEF decode_instruction
  <2> QED BY <2>1, <2>2
<1>5. CASE promote_to_decode
  <2>1. promoted' = promoted + Leaving
        /\ UNCHANGED <<trace, read, decoded, dispatched, retired, toRead>>
    BY <1>5 DEF promote_to_decode
  <2>2. Leaving \in Nat /\ promoted + Leaving <= read
        /\ promoted + Leaving - decoded <= DECODE_SIZE
    BY LeavingFetched
  <2> QED BY <2>1, <2>2
<1>6. CASE UNCHANGED <<trace, read, buffers, toRead>>
  BY <1>6 DEF buffers
<1>7. ASSUME NEW bus \in Bus, ServeOne(bus) \/ EndServing(bus) \/ return_data(bus)
      PROVE  UNCHANGED <<trace, read, buffers, toRead>>
  BY <1>7 DEF ServeOne, EndServing, return_data
<1>8. CASE complete_inflight_instruction \/ fetch_instruction \/ translate_fetch \/ check_dib
  BY <1>6, <1>8 DEF complete_inflight_instruction, fetch_instruction, translate_fetch, check_dib
<1>9. CASE UNCHANGED feVars
  BY <1>6, <1>9 DEF feVars, buffers
<1> QED BY <1>1, <1>2, <1>3, <1>4, <1>5, <1>6, <1>7, <1>8, <1>9
        DEF FrontEndNext, Handlers, Bus

-----------------------------------------------------------------------------
(* What the handlers do to the data.                                       *)
LEMMA TracedAddress ==
    ASSUME CountersOK, NEW n \in 1 .. read
    PROVE  Page(n) \in Address /\ Line(n) \in Address
<1>1. trace \in Seq(Ip) /\ n \in 1 .. Len(trace)
  BY FrontEndAssumption DEF CountersOK
<1>2. trace[n] \in Ip
  BY <1>1
<1> QED BY <1>2 DEF Page, Line, Address

LEMMA OnBusTyped ==
    ASSUME DataOK
    PROVE  OnBus \in SUBSET (Bus \X Address)
<1>1. ASSUME NEW bus \in Bus, NEW i \in DOMAIN PROCESSED[bus]
      PROVE  PROCESSED[bus][i].address \in Address
  <2>1. PROCESSED[bus] \in Seq(Packet)
    BY DEF DataOK
  <2>2. PROCESSED[bus][i] \in Packet
    BY <2>1
  <2> QED BY <2>2 DEF Packet
<1> QED BY <1>1 DEF OnBus, Bus

(* The instruction served, if one is, wants the reply at the head.         *)
LEMMA ServesWanted ==
    ASSUME DataOK, NEW bus \in Bus, ServeOne(bus)
    PROVE  /\ 1 \in DOMAIN PROCESSED[bus]
           /\ \/ inst' = inst
              \/ \E n : /\ inst' = [inst EXCEPT ![n] = Served(@, bus)]
                       /\ Wants(n, bus, PROCESSED[bus][1].address)
<1> DEFINE reply == Head(PROCESSED[bus])
           n == CHOOSE m \in 1 .. read : Holds(m, Head(reply.waiters))
<1>1. inst' = IF Wants(n, bus, reply.address) THEN [inst EXCEPT ![n] = Served(@, bus)] ELSE inst
  BY Zenon DEF ServeOne
<1>2. PROCESSED[bus] \in Seq(Packet) /\ PROCESSED[bus] # <<>>
  BY DEF DataOK, ServeOne, Remaining
<1>3. 1 \in DOMAIN PROCESSED[bus] /\ reply = PROCESSED[bus][1]
  BY <1>2
<1> HIDE DEF n, reply
<1>4. CASE Wants(n, bus, reply.address)
  BY <1>1, <1>3, <1>4, Zenon
<1>5. CASE ~Wants(n, bus, reply.address)
  BY <1>1, <1>3, <1>5, Zenon
<1> QED BY <1>4, <1>5

(* A reply shortened or taken off the bus leaves the others.               *)
LEMMA ServeShrinksBus ==
    ASSUME DataOK, NEW bus \in Bus, ServeOne(bus)
    PROVE  /\ PROCESSED' \in [Bus -> Seq(Packet)]
           /\ \A b \in Bus : \A i \in DOMAIN PROCESSED'[b] :
                 \E j \in DOMAIN PROCESSED[b] :
                     PROCESSED'[b][i].address = PROCESSED[b][j].address
<1> DEFINE s == PROCESSED[bus]
           short == Shortened(s)
<1>1. s \in Seq(Packet) /\ s # <<>> /\ PROCESSED \in [Bus -> Seq(Packet)]
  BY DEF DataOK, ServeOne, Remaining
<1>2. s[1] \in Packet /\ Head(s) = s[1] /\ Len(s) \in Nat \ {0} /\ DOMAIN s = 1 .. Len(s)
  BY <1>1
<1>3. PROCESSED' = [PROCESSED EXCEPT ![bus] = IF Len(s[1].waiters) = 1 THEN Tail(s) ELSE short]
  BY <1>2 DEF ServeOne
<1>4. ASSUME NEW t \in Seq(Packet), PROCESSED' = [PROCESSED EXCEPT ![bus] = t],
             \A i \in DOMAIN t : \E j \in DOMAIN s : t[i].address = s[j].address
      PROVE  /\ PROCESSED' \in [Bus -> Seq(Packet)]
             /\ \A b \in Bus : \A i \in DOMAIN PROCESSED'[b] :
                   \E j \in DOMAIN PROCESSED[b] :
                       PROCESSED'[b][i].address = PROCESSED[b][j].address
  <2>1. PROCESSED' \in [Bus -> Seq(Packet)]
    BY <1>1, <1>4
  <2>2. PROCESSED'[bus] = t /\ \A b \in Bus : b # bus => PROCESSED'[b] = PROCESSED[b]
    BY <1>1, <1>4
  <2> HIDE DEF s
  <2>3. ASSUME NEW b \in Bus, NEW i \in DOMAIN PROCESSED'[b]
        PROVE  \E j \in DOMAIN PROCESSED[b] :
                   PROCESSED'[b][i].address = PROCESSED[b][j].address
    <3>1. CASE b = bus
      BY <1>4, <2>2, <2>3, <3>1 DEF s
    <3>2. CASE b # bus
      BY <2>2, <2>3, <3>2
    <3> QED BY <3>1, <3>2
  <2> QED BY <2>1, <2>3
<1>5. CASE Len(s[1].waiters) = 1
  <2>1. /\ Tail(s) \in Seq(Packet)
        /\ \A i \in DOMAIN Tail(s) : i + 1 \in DOMAIN s /\ Tail(s)[i] = s[i + 1]
    BY <1>1, <1>2
  <2> HIDE DEF s
  <2> QED BY <1>3, <1>4, <1>5, <2>1
<1>6. CASE Len(s[1].waiters) # 1
  <2> DEFINE p == [s[1] EXCEPT !.waiters = Tail(@)]
  <2>1. s[1].waiters \in Seq(PlaceNumber) /\ s[1].waiters # <<>> /\ s[1].address \in Address
        /\ s[1] \in [address : Address, waiters : Seq(PlaceNumber)]
    BY <1>2 DEF Packet
  <2> DEFINE places == s[1].waiters
  <2>2. Tail(places) \in Seq(PlaceNumber) /\ Tail(places) # <<>>
    <3> HIDE DEF places
    <3>1. places \in Seq(PlaceNumber) /\ places # <<>> /\ Len(places) # 1
      BY <1>6, <2>1 DEF places
    <3>2. Len(places) \in Nat /\ Len(places) # 0
      BY <3>1, EmptySeq, LenProperties
    <3>3. Tail(places) \in Seq(PlaceNumber) /\ Len(Tail(places)) = Len(places) - 1
      BY <3>1, HeadTailProperties
    <3>4. Len(Tail(places)) # 0
      BY <3>1, <3>2, <3>3
    <3>5. Len(<<>>) = 0
      BY EmptySeq
    <3> QED BY <3>3, <3>4, <3>5, Zenon
  <2>3. p \in Packet /\ p.address = s[1].address
    BY <2>1, <2>2 DEF Packet
  <2>4. short = [s EXCEPT ![1] = p]
    BY DEF Shortened
  <2> HIDE DEF s, p, short
  <2>5. s \in [1 .. Len(s) -> Packet]
    BY <1>1, LenProperties
  <2>6. short \in [1 .. Len(s) -> Packet]
    BY <1>2, <2>3, <2>4, <2>5
  <2>7. short \in Seq(Packet) /\ DOMAIN short = DOMAIN s
    BY <1>2, <2>6, SeqDef
  <2>8. \A i \in DOMAIN short : short[i].address = s[i].address
    BY <1>2, <2>3, <2>4, <2>5, <2>6
  <2> QED BY <1>3, <1>4, <1>6, <2>7, <2>8
<1> QED BY <1>5, <1>6

(* A group begins in need, goes on for at least one and stays alike.       *)
LEMMA GroupShape ==
    ASSUME CountersOK, NEW needing, NEW alike,
           NEW begin \in promoted + 1 .. read + 1, NEW end \in promoted + 1 .. read + 1,
           IsGroup(begin, end, needing, alike)
    PROVE  /\ begin \in needing /\ begin \in Nat /\ end \in Nat /\ begin < end
           /\ begin \in IFETCH_BUFFER /\ begin \in 1 .. read
           /\ begin \in begin .. end - 1 /\ begin .. end - 1 \subseteq alike
<1>1. /\ begin \in needing /\ end \in begin + 1 .. read + 1
      /\ begin .. end - 1 \subseteq alike
  BY Zenon DEF IsGroup
<1>2. promoted \in Nat /\ read \in Nat
  BY DEF CountersOK
<1>3. begin \in Nat /\ end \in Nat /\ begin < end /\ end <= read + 1 /\ promoted + 1 <= begin
  BY <1>1, <1>2
<1>4. begin \in promoted + 1 .. read /\ begin \in 1 .. read /\ begin \in begin .. end - 1
  BY <1>2, <1>3
<1> QED BY <1>1, <1>3, <1>4, Zenon DEF IFETCH_BUFFER

(* A request is a packet.                                                  *)
LEMMA AskedTyped ==
    ASSUME CountersOK, DataOK, NEW bus \in Bus, NEW address \in Address,
           NEW begin \in promoted + 1 .. read + 1, NEW end \in promoted + 1 .. read + 1,
           begin < end, Accepted(bus, address, Places(begin, end))
    PROVE  asked' \in [Bus -> SUBSET Packet]
<1> DEFINE waiters == Places(begin, end)
           n == end - begin
<1>1. n \in Nat \ {0} /\ begin \in Nat
  BY DEF CountersOK
<1>2. \A k \in Nat : Place(k) \in PlaceNumber
  BY Sizes DEF Place, PlaceNumber
<1>3. waiters = [i \in 1 .. n |-> Place(begin + i - 1)]
  BY DEF Places
<1> HIDE DEF n
<1>4. waiters \in [1 .. n -> PlaceNumber]
  <2>1. \A i \in 1 .. n : begin + i - 1 \in Nat
    BY <1>1
  <2> HIDE DEF waiters
  <2> QED BY <1>2, <1>3, <2>1
<1>5. waiters \in Seq(PlaceNumber) /\ Len(waiters) = n
  BY <1>1, <1>4, SeqDef, LenProperties
<1>6. waiters # <<>>
  BY <1>1, <1>5
<1> HIDE DEF waiters
<1>7. [address |-> address, waiters |-> waiters] \in Packet
  BY <1>5, <1>6 DEF Packet
<1>8. asked' = [asked EXCEPT ![bus] = @ \cup {[address |-> address, waiters |-> waiters]}]
  BY DEF Accepted, waiters
<1> QED BY <1>7, <1>8 DEF DataOK

(* The window brought in by decode takes a place that is free or another's.*)
LEMMA DibBounded ==
    ASSUME DataOK, NEW w, NEW D \in do_dib_update(DIB, w)
    PROVE  /\ IsFiniteSet(D) /\ Cardinality(D) <= dib_way
           /\ D \subseteq DIB \cup {w}
<1>0. dib_way \in Nat
  BY FrontEndAssumption
<1>1. IsFiniteSet(DIB) /\ Cardinality(DIB) <= dib_way /\ Cardinality(DIB) \in Nat
  BY FS_CardinalityType DEF DataOK
<1>2. CASE w \in DIB
  BY <1>1, <1>2 DEF do_dib_update
<1>3. CASE w \notin DIB /\ Cardinality(DIB) < dib_way
  <2>1. D = DIB \cup {w}
    BY <1>3 DEF do_dib_update
  <2>2. IsFiniteSet(D) /\ Cardinality(D) = Cardinality(DIB) + 1
    BY <1>1, <1>3, <2>1, FS_AddElement
  <2> QED BY <1>0, <1>1, <1>3, <2>1, <2>2
<1>4. CASE w \notin DIB /\ ~(Cardinality(DIB) < dib_way)
  <2>1. PICK v \in DIB : D = (DIB \ {v}) \cup {w}
    BY <1>4 DEF do_dib_update
  <2>2. IsFiniteSet(DIB \ {v}) /\ Cardinality(DIB \ {v}) = Cardinality(DIB) - 1
    BY <1>1, FS_RemoveElement
  <2>3. IsFiniteSet(D) /\ Cardinality(D) = Cardinality(DIB \ {v}) + 1
    BY <1>4, <2>1, <2>2, FS_AddElement
  <2> QED BY <1>0, <1>1, <2>1, <2>2, <2>3
<1> QED BY <1>2, <1>3, <1>4

(* The mark of one instruction, or of some, changes.                       *)
LEMMA MarksTyped ==
    ASSUME DataOK, NEW begin \in Nat, NEW end \in Nat
    PROVE  /\ [n \in DOMAIN inst |-> IF n \in begin .. end - 1
                                     THEN [inst[n] EXCEPT !.fetched = "inflight"] ELSE inst[n]]
                  \in [1 .. read -> InstRecord]
           /\ [n \in DOMAIN inst |-> IF n \in begin .. end - 1
                                     THEN [inst[n] EXCEPT !.translated = "inflight"] ELSE inst[n]]
                  \in [1 .. read -> InstRecord]
<1>1. inst \in [1 .. read -> InstRecord]
  BY DEF DataOK
<1>2. \A r \in InstRecord : /\ [r EXCEPT !.fetched = "inflight"] \in InstRecord
                            /\ [r EXCEPT !.translated = "inflight"] \in InstRecord
  BY DEF InstRecord, Mark
<1> HIDE DEF InstRecord
<1> QED BY <1>1, <1>2

(* What a handler leaves alone but for what it asks and marks.             *)
restVars == <<trace, read, DIB, PROCESSED, arrived>>

LEMMA DataStep ==
    ASSUME CountersOK, DataOK, [FrontEndNext]_feVars PROVE DataOK'
<1>1. CASE init_instruction
  <2>1. /\ inst' = Append(inst, Fresh) /\ arrived' = Append(arrived, OnBus)
        /\ read' = read + 1
        /\ UNCHANGED <<asked, PROCESSED, DIB>>
    BY <1>1 DEF init_instruction
  <2>2. Fresh \in InstRecord /\ OnBus \in SUBSET (Bus \X Address) /\ read \in Nat
    BY OnBusTyped DEF Fresh, InstRecord, Mark, CountersOK
  <2>3. inst' \in [1 .. read' -> InstRecord] /\ arrived' \in [1 .. read' -> SUBSET (Bus \X Address)]
    BY <2>1, <2>2, AppendExtends DEF DataOK
  <2> QED BY <2>1, <2>3 DEF DataOK
<1>2. ASSUME NEW bus \in Bus, ServeOne(bus) PROVE DataOK'
  <2>1. UNCHANGED <<read, DIB, asked, arrived>>
    BY <1>2 DEF ServeOne
  <2>2. inst' \in [1 .. read -> InstRecord]
    <3>1. inst' = inst \/ \E n : inst' = [inst EXCEPT ![n] = Served(@, bus)]
      BY <1>2, ServesWanted
    <3>2. \A r \in InstRecord : Served(r, bus) \in InstRecord
      BY DEF Served, InstRecord, Mark
    <3>3. inst \in [1 .. read -> InstRecord]
      BY DEF DataOK
    <3> HIDE DEF InstRecord
    <3> QED BY <3>1, <3>2, <3>3
  <2> QED BY <1>2, <2>1, <2>2, ServeShrinksBus DEF DataOK
<1>3. CASE decode_instruction
  <2>1. UNCHANGED <<read, inst, memoryVars>> /\ DIB' \in do_dib_update(DIB, Window(decoded + 1))
    BY <1>3 DEF decode_instruction
  <2> QED BY <2>1, DibBounded DEF DataOK, memoryVars
<1>4. CASE fetch_instruction
  <2>1. UNCHANGED restVars
    BY <1>4 DEF fetch_instruction, restVars
  <2>2. CASE AskL1I
    <3>1. PICK begin, end \in promoted + 1 .. read + 1 :
              /\ FetchGroup(begin, end) /\ Accepted("L1I", Line(begin), Places(begin, end))
              /\ inst' = [n \in DOMAIN inst |-> IF n \in begin .. end - 1
                              THEN [inst[n] EXCEPT !.fetched = "inflight"] ELSE inst[n]]
      BY <2>2 DEF AskL1I
    <3>2. begin \in 1 .. read /\ begin < end /\ begin \in Nat /\ end \in Nat
      BY <3>1, GroupShape DEF FetchGroup
    <3>3. asked' \in [Bus -> SUBSET Packet]
      BY <3>1, <3>2, TracedAddress, AskedTyped DEF Bus
    <3> QED BY <2>1, <3>1, <3>2, <3>3, MarksTyped DEF DataOK, restVars
  <2>3. CASE UNCHANGED <<inst, asked>>
    BY <2>1, <2>3 DEF DataOK, restVars
  <2> QED BY <1>4, <2>2, <2>3 DEF fetch_instruction
<1>5. CASE translate_fetch
  <2>1. UNCHANGED restVars
    BY <1>5 DEF translate_fetch, restVars
  <2>2. CASE AskITLB
    <3>1. PICK begin, end \in promoted + 1 .. read + 1 :
              /\ PageGroup(begin, end) /\ Accepted("ITLB", Page(begin), Places(begin, end))
              /\ inst' = [n \in DOMAIN inst |-> IF n \in begin .. end - 1
                              THEN [inst[n] EXCEPT !.translated = "inflight"] ELSE inst[n]]
      BY <2>2 DEF AskITLB
    <3>2. begin \in 1 .. read /\ begin < end /\ begin \in Nat /\ end \in Nat
      BY <3>1, GroupShape DEF PageGroup
    <3>3. asked' \in [Bus -> SUBSET Packet]
      BY <3>1, <3>2, TracedAddress, AskedTyped DEF Bus
    <3> QED BY <2>1, <3>1, <3>2, <3>3, MarksTyped DEF DataOK, restVars
  <2>3. CASE UNCHANGED <<inst, asked>>
    BY <2>1, <2>3 DEF DataOK, restVars
  <2> QED BY <1>5, <2>2, <2>3 DEF translate_fetch
<1>6. CASE check_dib
  <2>1. UNCHANGED <<read, DIB, memoryVars>>
        /\ inst' = [n \in DOMAIN inst |->
                IF n \in Scanned /\ Window(n) \in DIB
                THEN [inst[n] EXCEPT !.translated = "completed", !.fetched = "completed"]
                ELSE inst[n]]
    BY <1>6 DEF check_dib
  <2>2. \A r \in InstRecord :
           [r EXCEPT !.translated = "completed", !.fetched = "completed"] \in InstRecord
    BY DEF InstRecord, Mark
  <2>3. inst' \in [1 .. read -> InstRecord]
    BY <2>1, <2>2 DEF DataOK
  <2> QED BY <2>1, <2>3 DEF DataOK, memoryVars
<1>7. ASSUME NEW bus \in Bus, return_data(bus) PROVE DataOK'
  <2>1. PICK p \in asked[bus] :
            /\ asked' = [asked EXCEPT ![bus] = @ \ {p}]
            /\ PROCESSED' = [PROCESSED EXCEPT ![bus] = Append(@, p)]
            /\ arrived' = [n \in DOMAIN arrived |->
                    IF n \in IFETCH_BUFFER THEN arrived[n] \cup {<<bus, p.address>>}
                    ELSE arrived[n]]
            /\ UNCHANGED <<read, inst, DIB>>
    BY <1>7 DEF return_data
  <2>2. p \in Packet /\ <<bus, p.address>> \in Bus \X Address
    BY DEF DataOK, Packet
  <2>3. Append(PROCESSED[bus], p) \in Seq(Packet)
    BY <2>2, AppendProperties DEF DataOK
  <2>4. arrived' \in [1 .. read -> SUBSET (Bus \X Address)]
    BY <2>1, <2>2 DEF DataOK
  <2> QED BY <2>1, <2>3, <2>4 DEF DataOK
<1>8. CASE UNCHANGED <<read, inst, arrived, asked, PROCESSED, DIB>>
  BY <1>8 DEF DataOK
<1>9. ASSUME NEW bus \in Bus, EndServing(bus)
      PROVE  UNCHANGED <<read, inst, arrived, asked, PROCESSED, DIB>>
  BY <1>9 DEF EndServing, memoryVars
<1>10. CASE BeginCycle \/ complete_inflight_instruction \/ dispatch_instruction \/ promote_to_decode
  BY <1>8, <1>10 DEF BeginCycle, complete_inflight_instruction, dispatch_instruction,
                     promote_to_decode, memoryVars
<1>11. CASE UNCHANGED feVars
  BY <1>8, <1>11 DEF feVars
<1> QED BY <1>1, <1>2, <1>3, <1>4, <1>5, <1>6, <1>7, <1>8, <1>9, <1>10, <1>11
        DEF FrontEndNext, Handlers, Bus

-----------------------------------------------------------------------------
(* The rest of the types: where the cycle is, what is left of a loop, the  *)
(* DISPATCH buffer, and the requests that the two caches hold.             *)
RestOK ==
    /\ pc \in Handler /\ budget \in Budget
    /\ decoded - dispatched <= DISPATCH_SIZE
    /\ mispredicted \subseteq 1 .. read
    /\ DIB \subseteq {window_of[ip] : ip \in Ip}
    /\ \A bus \in Bus : IsFiniteSet(asked[bus]) /\ Cardinality(asked[bus]) <= LowerRoom

(* A set of which one element more is asked.                               *)
LEMMA OneMore ==
    ASSUME NEW S, NEW x, IsFiniteSet(S), Cardinality(S) \in Nat
    PROVE  IsFiniteSet(S \cup {x}) /\ Cardinality(S \cup {x}) <= Cardinality(S) + 1
<1>1. CASE x \in S
  <2>1. S \cup {x} = S
    BY <1>1
  <2>2. Cardinality(S) <= Cardinality(S) + 1
    OBVIOUS
  <2> QED BY <2>1, <2>2, Zenon
<1>2. CASE x \notin S
  <2>1. IsFiniteSet(S \cup {x}) /\ Cardinality(S \cup {x}) = Cardinality(S) + 1
    BY <1>2, FS_AddElement, Zenon
  <2> QED BY <2>1
<1> QED BY <1>1, <1>2

(* A request is taken only where there is room for one more.               *)
LEMMA AcceptedFits ==
    ASSUME DataOK, RestOK, NEW bus \in Bus, NEW address, NEW waiters,
           Accepted(bus, address, waiters)
    PROVE  \A b \in Bus : IsFiniteSet(asked'[b]) /\ Cardinality(asked'[b]) <= LowerRoom
<1> DEFINE p == [address |-> address, waiters |-> waiters]
<1>1. /\ Cardinality(asked[bus]) < LowerRoom
      /\ asked' = [asked EXCEPT ![bus] = @ \cup {p}]
      /\ asked \in [Bus -> SUBSET Packet]
  BY DEF Accepted, DataOK
<1> HIDE DEF p
<1>2. asked'[bus] = asked[bus] \cup {p} /\ \A b \in Bus : b # bus => asked'[b] = asked[b]
  BY <1>1
<1>3. IsFiniteSet(asked[bus]) /\ Cardinality(asked[bus]) \in Nat /\ LowerRoom \in Nat
  BY FS_CardinalityType, FrontEndAssumption DEF RestOK
<1>4. /\ IsFiniteSet(asked[bus] \cup {p})
      /\ Cardinality(asked[bus] \cup {p}) <= Cardinality(asked[bus]) + 1
  BY <1>3, OneMore, Zenon
<1>5. Cardinality(asked[bus] \cup {p}) <= LowerRoom
  <2>1. Cardinality(asked[bus] \cup {p}) \in Nat
    BY <1>4, FS_CardinalityType
  <2> QED BY <1>1, <1>3, <1>4, <2>1
<1> QED BY <1>2, <1>4, <1>5 DEF RestOK

(* What a handler that asks a cache leaves alone.                          *)
LEMMA AskingStep ==
    ASSUME DataOK, RestOK, pc' \in Handler,
           UNCHANGED <<budget, decoded, dispatched, mispredicted, read, DIB>>,
           \/ asked' = asked
           \/ \E bus \in Bus : \E address, waiters : Accepted(bus, address, waiters)
    PROVE  RestOK'
<1>1. \A b \in Bus : IsFiniteSet(asked'[b]) /\ Cardinality(asked'[b]) <= LowerRoom
  BY AcceptedFits, Zenon DEF RestOK
<1> QED BY <1>1 DEF RestOK

LEMMA RestStep ==
    ASSUME CountersOK, DataOK, RestOK, [FrontEndNext]_feVars PROVE RestOK'
<1> USE DEF Handler
<1>0. /\ FETCH_WIDTH \in Nat /\ DECODE_WIDTH \in Nat /\ MAX_READ \in Nat /\ DISPATCH_SIZE \in Nat
      /\ decoded \in Nat /\ dispatched \in Nat /\ read \in Nat
  BY FrontEndAssumption DEF CountersOK
<1>1. CASE init_instruction
  <2>1. /\ read' = read + 1 /\ mispredicted' \subseteq mispredicted \cup {read + 1}
        /\ UNCHANGED <<pc, budget, decoded, dispatched, DIB, asked>>
    BY <1>1 DEF init_instruction, buffers
  <2>2. mispredicted' \subseteq 1 .. read'
    BY <1>0, <2>1 DEF RestOK
  <2> QED BY <2>1, <2>2 DEF RestOK
<1>2. CASE BeginCycle
  BY <1>2 DEF BeginCycle, RestOK, memoryVars
<1>3. CASE complete_inflight_instruction
  <2>1. mispredicted' \subseteq mispredicted
    BY <1>3 DEF complete_inflight_instruction, do_complete_execution
  <2>2. budget' \in Budget
    BY <1>0, <1>3 DEF complete_inflight_instruction, Budget
  <2>3. pc' = "ITLB" /\ UNCHANGED <<read, decoded, dispatched, DIB, asked>>
    BY <1>3 DEF complete_inflight_instruction, buffers, memoryVars
  <2> QED BY <2>1, <2>2, <2>3 DEF RestOK
<1>4. ASSUME NEW bus \in Bus, ServeOne(bus) PROVE RestOK'
  <2>1. /\ budget.width > 0 /\ budget.read > 0
        /\ \E w \in {budget.width, budget.width - 1}, r \in {budget.read, budget.read - 1} :
              budget' = [width |-> w, read |-> r]
    BY <1>4 DEF ServeOne, Remaining
  <2>2. budget' \in Budget
    BY <1>0, <2>1 DEF RestOK, Budget
  <2>3. UNCHANGED <<pc, read, decoded, dispatched, mispredicted, DIB, asked>>
    BY <1>4 DEF ServeOne, buffers, stallVars
  <2> QED BY <2>2, <2>3 DEF RestOK
<1>5. ASSUME NEW bus \in Bus, EndServing(bus) PROVE RestOK'
  <2>1. budget' \in Budget
    BY <1>0, <1>5 DEF EndServing, Budget
  <2>2. pc' \in {"L1I", "dispatch"}
        /\ UNCHANGED <<read, decoded, dispatched, mispredicted, DIB, asked>>
    BY <1>5 DEF EndServing, buffers, stallVars, memoryVars
  <2> QED BY <2>1, <2>2 DEF RestOK
<1>6. CASE dispatch_instruction
  <2>1. dispatched' >= dispatched /\ dispatched' \in Nat
    BY <1>6, Sizes DEF dispatch_instruction, Smaller, CountersOK
  <2>2. budget' \in Budget
    BY <1>0, <1>6 DEF dispatch_instruction, Budget
  <2>3. pc' = "decode" /\ UNCHANGED <<read, decoded, mispredicted, DIB, asked>>
    BY <1>6 DEF dispatch_instruction, stallVars, memoryVars
  <2>4. decoded' - dispatched' <= DISPATCH_SIZE
    BY <1>0, <2>1, <2>3 DEF RestOK
  <2> QED BY <2>2, <2>3, <2>4 DEF RestOK
<1>7. CASE decode_instruction
  <2>1. /\ decoded - dispatched < DISPATCH_SIZE /\ decoded' = decoded + 1
        /\ budget.width > 0 /\ budget' = [budget EXCEPT !.width = @ - 1]
        /\ UNCHANGED <<pc, read, dispatched, asked>>
    BY <1>7 DEF decode_instruction, CanDecode, memoryVars
  <2>2. decoded' - dispatched' <= DISPATCH_SIZE
    BY <1>0, <2>1
  <2>3. budget' \in Budget
    BY <1>0, <2>1 DEF RestOK, Budget
  <2>4. mispredicted' \subseteq mispredicted
    BY <1>7 DEF decode_instruction
  <2>5. DIB' \subseteq DIB \cup {Window(decoded + 1)}
    BY <1>7, DibBounded DEF decode_instruction
  <2>6. Window(decoded + 1) \in {window_of[ip] : ip \in Ip}
    <3>1. decoded < promoted /\ promoted <= read /\ read <= Len(trace) /\ promoted \in Nat
      BY <1>7 DEF decode_instruction, CanDecode, CountersOK
    <3>2. trace \in Seq(Ip) /\ Len(trace) \in Nat
      BY FrontEndAssumption DEF CountersOK
    <3>3. decoded + 1 \in 1 .. Len(trace)
      BY <1>0, <3>1, <3>2
    <3>4. trace[decoded + 1] \in Ip
      BY <3>2, <3>3
    <3> QED BY <3>4 DEF Window
  <2> QED BY <2>1, <2>2, <2>3, <2>4, <2>5, <2>6 DEF RestOK
<1>8. CASE promote_to_decode
  <2>1. budget' \in Budget
    BY <1>0, <1>8 DEF promote_to_decode, Budget
  <2>2. pc' = "fetch" /\ UNCHANGED <<read, decoded, dispatched, mispredicted, DIB, asked>>
    BY <1>8 DEF promote_to_decode, stallVars, memoryVars
  <2> QED BY <2>1, <2>2 DEF RestOK
<1>9. CASE fetch_instruction
  <2>1. \/ asked' = asked
        \/ \E bus \in Bus : \E address, waiters : Accepted(bus, address, waiters)
    BY <1>9 DEF fetch_instruction, AskL1I, Bus
  <2>2. pc' \in Handler /\ UNCHANGED <<budget, decoded, dispatched, mispredicted, read, DIB>>
    BY <1>9 DEF fetch_instruction, buffers
  <2> QED BY <2>1, <2>2, AskingStep, Zenon
<1>10. CASE translate_fetch
  <2>1. \/ asked' = asked
        \/ \E bus \in Bus : \E address, waiters : Accepted(bus, address, waiters)
    BY <1>10 DEF translate_fetch, AskITLB, Bus
  <2>2. pc' \in Handler /\ UNCHANGED <<budget, decoded, dispatched, mispredicted, read, DIB>>
    BY <1>10 DEF translate_fetch, buffers, stallVars
  <2> QED BY <2>1, <2>2, AskingStep, Zenon
<1>11. CASE check_dib
  BY <1>11 DEF check_dib, RestOK, buffers, stallVars, memoryVars
<1>12. ASSUME NEW bus \in Bus, return_data(bus) PROVE RestOK'
  <2>1. PICK p \in asked[bus] : asked' = [asked EXCEPT ![bus] = @ \ {p}]
    BY <1>12 DEF return_data
  <2>2. asked'[bus] = asked[bus] \ {p} /\ \A b \in Bus : b # bus => asked'[b] = asked[b]
    BY <2>1 DEF DataOK
  <2>3. IsFiniteSet(asked[bus]) /\ Cardinality(asked[bus]) \in Nat /\ LowerRoom \in Nat
        /\ Cardinality(asked[bus]) <= LowerRoom
    BY FS_CardinalityType, FrontEndAssumption DEF RestOK
  <2>4. IsFiniteSet(asked[bus] \ {p}) /\ Cardinality(asked[bus] \ {p}) <= LowerRoom
    BY <2>3, FS_RemoveElement
  <2>5. UNCHANGED <<pc, budget, read, decoded, dispatched, mispredicted, DIB>>
    BY <1>12 DEF return_data, buffers, stallVars
  <2> QED BY <2>2, <2>4, <2>5 DEF RestOK
<1>13. CASE UNCHANGED feVars
  BY <1>13 DEF feVars, RestOK
<1> QED BY <1>1, <1>2, <1>3, <1>4, <1>5, <1>6, <1>7, <1>8, <1>9, <1>10, <1>11, <1>12, <1>13
        DEF FrontEndNext, Handlers, Bus

-----------------------------------------------------------------------------
(* Why a mark can be trusted.  What is in the decoded instruction buffer   *)
(* was decoded; what is on a bus came while everything in IFETCH_BUFFER    *)
(* was there; and a mark says that one or the other happened.              *)
Seen(n) == \E m \in 1 .. decoded : Window(m) = Window(n)

DibDecoded == \A w \in DIB : \E m \in 1 .. decoded : Window(m) = w

BusArrived ==
    \A n \in IFETCH_BUFFER, bus \in Bus : \A i \in DOMAIN PROCESSED[bus] :
        <<bus, PROCESSED[bus][i].address>> \in arrived[n]

MarksTrue ==
    \A n \in IFETCH_BUFFER :
        \/ Seen(n)
        \/ /\ inst[n].translated = "completed" => <<"ITLB", Page(n)>> \in arrived[n]
           /\ inst[n].fetched = "completed" => <<"L1I", Line(n)>> \in arrived[n]

TrustOK == DibDecoded /\ BusArrived /\ MarksTrue

(* Nothing is lost when more is decoded, arrives or leaves the buffer.     *)
LEMMA TrustGrows ==
    ASSUME CountersOK, CountersOK', TrustOK, UNCHANGED <<trace, read, inst>>,
           promoted <= promoted', decoded <= decoded',
           \A n \in IFETCH_BUFFER : arrived[n] \subseteq arrived'[n]
    PROVE  MarksTrue' /\ (\A w \in DIB : \E m \in 1 .. decoded' : Window(m)' = w)
<1> USE DEF TrustOK
<1>1. IFETCH_BUFFER' \subseteq IFETCH_BUFFER
  <2>1. promoted \in Nat /\ promoted' \in Nat /\ read \in Nat /\ read' = read
    BY DEF CountersOK
  <2>2. \A a, b, c \in Nat : a <= b => b + 1 .. c \subseteq a + 1 .. c
    OBVIOUS
  <2>3. promoted' + 1 .. read \subseteq promoted + 1 .. read
    BY <2>1, <2>2
  <2> QED BY <2>1, <2>3 DEF IFETCH_BUFFER
<1>2. 1 .. decoded \subseteq 1 .. decoded'
  BY DEF CountersOK
<1>3. \A n : Window(n)' = Window(n) /\ Page(n)' = Page(n) /\ Line(n)' = Line(n)
  BY DEF Window, Page, Line
<1>4. \A n : Seen(n) => Seen(n)'
  BY <1>2, <1>3 DEF Seen
<1>5. MarksTrue'
  BY <1>1, <1>3, <1>4 DEF MarksTrue
<1>6. \A w \in DIB : \E m \in 1 .. decoded' : Window(m)' = w
  BY <1>2, <1>3 DEF DibDecoded
<1> QED BY <1>5, <1>6

LEMMA TrustStep ==
    ASSUME CountersOK, CountersOK', DataOK, DataOK', TrustOK, [FrontEndNext]_feVars
    PROVE  TrustOK'
<1>1. CASE init_instruction
  <2>1. /\ inst' = Append(inst, Fresh) /\ arrived' = Append(arrived, OnBus)
        /\ read' = read + 1
        /\ UNCHANGED <<trace, promoted, decoded, PROCESSED, DIB>>
    BY <1>1 DEF init_instruction, buffers
  <2>2. Fresh \in InstRecord /\ OnBus \in SUBSET (Bus \X Address) /\ read \in Nat
    BY OnBusTyped DEF Fresh, InstRecord, Mark, CountersOK
  <2>3. /\ \A n \in 1 .. read : inst'[n] = inst[n] /\ arrived'[n] = arrived[n]
        /\ inst'[read + 1] = Fresh /\ arrived'[read + 1] = OnBus
    BY <2>1, <2>2, AppendExtends DEF DataOK
  <2>4. \A n \in IFETCH_BUFFER' : n = read + 1 \/ (n \in IFETCH_BUFFER /\ n \in 1 .. read)
    BY <2>1 DEF IFETCH_BUFFER, CountersOK
  <2>5. \A n : Window(n)' = Window(n) /\ Page(n)' = Page(n) /\ Line(n)' = Line(n)
    BY <2>1 DEF Window, Page, Line
  <2>6. \A n : Seen(n)' <=> Seen(n)
    BY <2>1, <2>5 DEF Seen
  <2>7. MarksTrue'
    BY <2>3, <2>4, <2>5, <2>6 DEF MarksTrue, TrustOK, Fresh
  <2>8. BusArrived'
    <3>1. \A bus \in Bus : \A i \in DOMAIN PROCESSED[bus] :
             <<bus, PROCESSED[bus][i].address>> \in OnBus
      BY Zenon DEF OnBus, Bus
    <3> QED BY <2>1, <2>3, <2>4, <3>1 DEF BusArrived, TrustOK
  <2>9. DibDecoded'
    BY <2>1, <2>5 DEF DibDecoded, TrustOK
  <2> QED BY <2>7, <2>8, <2>9 DEF TrustOK
<1>2. ASSUME NEW bus \in Bus, ServeOne(bus) PROVE TrustOK'
  <2>1. UNCHANGED <<trace, read, promoted, decoded, DIB, arrived>>
    BY <1>2 DEF ServeOne, buffers
  <2>2. \A n : /\ Window(n)' = Window(n) /\ Page(n)' = Page(n) /\ Line(n)' = Line(n)
               /\ Seen(n)' <=> Seen(n)
    BY <2>1 DEF Window, Page, Line, Seen
  <2>3. IFETCH_BUFFER' = IFETCH_BUFFER
    BY <2>1 DEF IFETCH_BUFFER
  <2>4. BusArrived'
    <3>1. \A b \in Bus : \A i \in DOMAIN PROCESSED'[b] :
             \E j \in DOMAIN PROCESSED[b] :
                 PROCESSED'[b][i].address = PROCESSED[b][j].address
      BY <1>2, ServeShrinksBus
    <3>2. \A n \in IFETCH_BUFFER, b \in Bus : \A i \in DOMAIN PROCESSED[b] :
             <<b, PROCESSED[b][i].address>> \in arrived[n]
      BY Zenon DEF BusArrived, TrustOK
    <3>3. ASSUME NEW n \in IFETCH_BUFFER, NEW b \in Bus, NEW i \in DOMAIN PROCESSED'[b]
          PROVE  <<b, PROCESSED'[b][i].address>> \in arrived[n]
      <4>1. PICK j \in DOMAIN PROCESSED[b] : PROCESSED'[b][i].address = PROCESSED[b][j].address
        BY <3>1, Zenon
      <4> QED BY <3>2, <4>1
    <3> QED BY <2>1, <2>3, <3>3, Zenon DEF BusArrived
  <2>5. MarksTrue'
    <3>1. CASE inst' = inst
      BY <2>1, <2>2, <2>3, <3>1 DEF MarksTrue, TrustOK
    <3>2. ASSUME NEW n, inst' = [inst EXCEPT ![n] = Served(@, bus)],
                 Wants(n, bus, PROCESSED[bus][1].address)
          PROVE  MarksTrue'
      <4> SUFFICES ASSUME NEW k \in IFETCH_BUFFER, ~Seen(k)
                   PROVE  /\ inst'[k].translated = "completed" => <<"ITLB", Page(k)>> \in arrived[k]
                          /\ inst'[k].fetched = "completed" => <<"L1I", Line(k)>> \in arrived[k]
        BY <2>1, <2>2, <2>3 DEF MarksTrue
      <4>1. /\ inst[k].translated = "completed" => <<"ITLB", Page(k)>> \in arrived[k]
            /\ inst[k].fetched = "completed" => <<"L1I", Line(k)>> \in arrived[k]
        BY DEF MarksTrue, TrustOK
      <4>2. k \in 1 .. read
        BY DEF IFETCH_BUFFER, CountersOK
      <4>3. CASE k = n
        <5>1. inst'[k] = Served(inst[k], bus) /\ inst[k] \in InstRecord
          BY <3>2, <4>2, <4>3 DEF DataOK
        <5>2. <<bus, PROCESSED[bus][1].address>> \in arrived[k]
          BY <1>2, ServesWanted DEF BusArrived, TrustOK
        <5>3. CASE bus = "ITLB"
          BY <3>2, <4>1, <4>3, <5>1, <5>2, <5>3 DEF Served, Wants, InstRecord
        <5>4. CASE bus = "L1I"
          BY <3>2, <4>1, <4>3, <5>1, <5>2, <5>4 DEF Served, Wants, InstRecord
        <5> QED BY <5>3, <5>4 DEF Bus
      <4>4. CASE k # n
        BY <3>2, <4>1, <4>2, <4>4 DEF DataOK
      <4> QED BY <4>3, <4>4
    <3> QED BY <1>2, <3>1, <3>2, ServesWanted
  <2>6. DibDecoded'
    BY <2>1, <2>2 DEF DibDecoded, TrustOK
  <2> QED BY <2>4, <2>5, <2>6 DEF TrustOK
<1>3. CASE decode_instruction
  <2>1. /\ UNCHANGED <<trace, read, promoted, inst, PROCESSED, arrived>>
        /\ decoded' = decoded + 1
        /\ DIB' \in do_dib_update(DIB, Window(decoded + 1))
    BY <1>3 DEF decode_instruction, memoryVars
  <2>2. promoted <= promoted' /\ decoded <= decoded' /\ decoded' \in 1 .. decoded'
    BY <2>1 DEF CountersOK
  <2>3. MarksTrue' /\ (\A w \in DIB : \E m \in 1 .. decoded' : Window(m)' = w)
    BY <2>1, <2>2, TrustGrows
  <2>4. DIB' \subseteq DIB \cup {Window(decoded + 1)}
    BY <2>1, DibBounded
  <2>5. DibDecoded'
    <3>1. \A m : Window(m)' = Window(m)
      BY <2>1 DEF Window
    <3>2. \A w \in DIB' : \E m \in 1 .. decoded' : Window(m) = w
      BY <2>1, <2>2, <2>3, <2>4, <3>1
    <3> QED BY <3>1, <3>2 DEF DibDecoded
  <2>6. BusArrived'
    BY <2>1 DEF BusArrived, TrustOK, IFETCH_BUFFER
  <2> QED BY <2>3, <2>5, <2>6 DEF TrustOK
<1>4. CASE promote_to_decode
  <2>1. /\ UNCHANGED <<trace, read, decoded, inst, PROCESSED, arrived, DIB>>
        /\ promoted' = promoted + Leaving
    BY <1>4 DEF promote_to_decode, memoryVars
  <2>2. promoted' \in Nat /\ promoted <= promoted' /\ decoded <= decoded'
    <3>1. promoted \in Nat /\ decoded \in Nat
      BY DEF CountersOK
    <3>2. Leaving \in Nat
      BY LeavingFetched
    <3>3. promoted' = promoted + Leaving /\ decoded' = decoded
      BY <2>1
    <3> QED BY <3>1, <3>2, <3>3
  <2>3. MarksTrue' /\ (\A w \in DIB : \E m \in 1 .. decoded' : Window(m)' = w)
    BY <2>1, <2>2, TrustGrows
  <2>4. IFETCH_BUFFER' \subseteq IFETCH_BUFFER
    <3>1. promoted \in Nat /\ read \in Nat
      BY DEF CountersOK
    <3>2. \A a, b, c \in Nat : a <= b => b + 1 .. c \subseteq a + 1 .. c
      OBVIOUS
    <3> QED BY <2>1, <2>2, <3>1, <3>2 DEF IFETCH_BUFFER
  <2>5. BusArrived'
    BY <2>1, <2>4 DEF BusArrived, TrustOK
  <2> QED BY <2>1, <2>3, <2>5 DEF TrustOK, DibDecoded
<1>5. CASE fetch_instruction \/ translate_fetch
  <2>1. UNCHANGED <<trace, read, promoted, decoded, DIB, PROCESSED, arrived>>
    BY <1>5 DEF fetch_instruction, translate_fetch, buffers
  <2>2. \A n \in 1 .. read :
           /\ inst'[n].translated = "completed" => inst[n].translated = "completed"
           /\ inst'[n].fetched = "completed" => inst[n].fetched = "completed"
    <3>1. CASE UNCHANGED inst
      BY <3>1
    <3>2. \A n \in 1 .. read :
             /\ inst[n] \in InstRecord
             /\ [inst[n] EXCEPT !.fetched = "inflight"].fetched = "inflight"
             /\ [inst[n] EXCEPT !.fetched = "inflight"].translated = inst[n].translated
             /\ [inst[n] EXCEPT !.translated = "inflight"].translated = "inflight"
             /\ [inst[n] EXCEPT !.translated = "inflight"].fetched = inst[n].fetched
      BY DEF DataOK, InstRecord
    <3>3. DOMAIN inst = 1 .. read
      BY DEF DataOK
    <3>4. CASE AskL1I
      BY <3>2, <3>3, <3>4 DEF AskL1I
    <3>5. CASE AskITLB
      BY <3>2, <3>3, <3>5 DEF AskITLB
    <3> QED BY <1>5, <3>1, <3>4, <3>5 DEF fetch_instruction, translate_fetch
  <2>3. IFETCH_BUFFER \subseteq 1 .. read
    BY DEF IFETCH_BUFFER, CountersOK
  <2>4. MarksTrue'
    BY <2>1, <2>2, <2>3 DEF MarksTrue, TrustOK, IFETCH_BUFFER, Seen, Window, Page, Line
  <2>5. DibDecoded' /\ BusArrived'
    BY <2>1 DEF DibDecoded, BusArrived, TrustOK, IFETCH_BUFFER, Window
  <2> QED BY <2>4, <2>5 DEF TrustOK
<1>6. CASE check_dib
  <2>1. /\ UNCHANGED <<trace, read, promoted, decoded, DIB, PROCESSED, arrived>>
        /\ inst' = [n \in DOMAIN inst |->
                IF n \in Scanned /\ Window(n) \in DIB
                THEN [inst[n] EXCEPT !.translated = "completed", !.fetched = "completed"]
                ELSE inst[n]]
    BY <1>6 DEF check_dib, buffers, memoryVars
  <2>2. DOMAIN inst = 1 .. read /\ IFETCH_BUFFER \subseteq 1 .. read
    BY DEF IFETCH_BUFFER, CountersOK, DataOK
  <2>3. \A n \in 1 .. read : Window(n) \in DIB => Seen(n)
    BY DEF DibDecoded, TrustOK, Seen
  <2>4. \A n \in 1 .. read : Seen(n) \/ inst'[n] = inst[n]
    BY <2>1, <2>2, <2>3
  <2>5. MarksTrue'
    <3> SUFFICES ASSUME NEW n \in IFETCH_BUFFER'
                 PROVE  \/ Seen(n)'
                        \/ /\ inst'[n].translated = "completed" => <<"ITLB", Page(n)'>> \in arrived'[n]
                           /\ inst'[n].fetched = "completed" => <<"L1I", Line(n)'>> \in arrived'[n]
      BY DEF MarksTrue
    <3>1. n \in IFETCH_BUFFER /\ n \in 1 .. read
      BY <2>1, <2>2 DEF IFETCH_BUFFER
    <3>2. Seen(n)' = Seen(n)
      BY <2>1 DEF Seen, Window
    <3>3. Page(n)' = Page(n) /\ Line(n)' = Line(n) /\ arrived' = arrived
      BY <2>1 DEF Page, Line
    <3>4. CASE Seen(n)
      BY <3>2, <3>4
    <3>5. CASE inst'[n] = inst[n]
      BY <3>1, <3>2, <3>3, <3>5 DEF MarksTrue, TrustOK
    <3> QED BY <2>4, <3>1, <3>4, <3>5
  <2>6. DibDecoded' /\ BusArrived'
    BY <2>1 DEF DibDecoded, BusArrived, TrustOK, IFETCH_BUFFER, Window
  <2> QED BY <2>5, <2>6 DEF TrustOK
<1>7. ASSUME NEW bus \in Bus, return_data(bus) PROVE TrustOK'
  <2>1. PICK p \in asked[bus] :
            /\ PROCESSED' = [PROCESSED EXCEPT ![bus] = Append(@, p)]
            /\ arrived' = [n \in DOMAIN arrived |->
                    IF n \in IFETCH_BUFFER THEN arrived[n] \cup {<<bus, p.address>>}
                    ELSE arrived[n]]
            /\ UNCHANGED <<trace, read, promoted, decoded, inst, DIB>>
    BY <1>7 DEF return_data, buffers
  <2>2. IFETCH_BUFFER' = IFETCH_BUFFER /\ IFETCH_BUFFER \subseteq DOMAIN arrived
    BY <2>1 DEF IFETCH_BUFFER, CountersOK, DataOK
  <2>3. \A n \in IFETCH_BUFFER : arrived'[n] = arrived[n] \cup {<<bus, p.address>>}
    BY <2>1, <2>2
  <2>4. promoted <= promoted' /\ decoded <= decoded'
    BY <2>1 DEF CountersOK
  <2>5. MarksTrue' /\ (\A w \in DIB : \E m \in 1 .. decoded' : Window(m)' = w)
    BY <2>1, <2>3, <2>4, TrustGrows
  <2>6. p \in Packet /\ PROCESSED \in [Bus -> Seq(Packet)]
    BY DEF DataOK
  <2>7. \A b \in Bus : \A i \in DOMAIN PROCESSED'[b] :
           \/ i \in DOMAIN PROCESSED[b] /\ PROCESSED'[b][i] = PROCESSED[b][i]
           \/ b = bus /\ PROCESSED'[b][i] = p
    <3> DEFINE s == PROCESSED[bus]
    <3>1. s \in Seq(Packet)
      BY <2>6
    <3>2. \A i \in DOMAIN Append(s, p) : \/ i \in DOMAIN s /\ Append(s, p)[i] = s[i]
                                        \/ Append(s, p)[i] = p
      <4> HIDE DEF s
      <4> QED BY <2>6, <3>1, AppendProperties
    <3> QED BY <2>1, <2>6, <3>2
  <2>8. BusArrived'
    BY <2>2, <2>3, <2>7 DEF BusArrived, TrustOK
  <2> QED BY <2>1, <2>5, <2>8 DEF TrustOK, DibDecoded
<1>8. CASE UNCHANGED <<trace, read, promoted, decoded, inst, arrived, PROCESSED, DIB>>
  BY <1>8 DEF TrustOK, DibDecoded, BusArrived, MarksTrue, Seen, IFETCH_BUFFER, Window, Page, Line
<1>9. ASSUME NEW bus \in Bus, EndServing(bus)
      PROVE  UNCHANGED <<trace, read, promoted, decoded, inst, arrived, PROCESSED, DIB>>
  BY <1>9 DEF EndServing, memoryVars, buffers
<1>10. CASE BeginCycle \/ complete_inflight_instruction \/ dispatch_instruction
  BY <1>8, <1>10 DEF BeginCycle, complete_inflight_instruction, dispatch_instruction,
                     memoryVars, buffers
<1>11. CASE UNCHANGED feVars
  BY <1>8, <1>11 DEF feVars, buffers
<1> QED BY <1>1, <1>2, <1>3, <1>4, <1>5, <1>6, <1>7, <1>8, <1>9, <1>10, <1>11
        DEF FrontEndNext, Handlers, Bus

-----------------------------------------------------------------------------
(* Who waits, and for what.  A packet in flight names a place for each     *)
(* instruction it was asked for, and the instruction in IFETCH_BUFFER is   *)
(* the only one a place can stand for.                                     *)
LEMMA SamePlace ==
    ASSUME NEW k \in Nat \ {0}, NEW m \in Nat, NEW n \in Nat,
           m % k = n % k, m < n + k, n < m + k
    PROVE  m = n
<1>1. /\ m = k * (m \div k) + (m % k) /\ m \div k \in Int
      /\ n = k * (n \div k) + (n % k) /\ n \div k \in Int
  OBVIOUS
<1>2. \A d \in Int : d >= 1 => k * d >= k
  OBVIOUS
<1>3. m - n = k * ((m \div k) - (n \div k)) /\ n - m = k * ((n \div k) - (m \div k))
  BY <1>1
<1>4. ~((m \div k) - (n \div k) >= 1) /\ ~((n \div k) - (m \div k) >= 1)
  BY <1>1, <1>2, <1>3
<1> QED BY <1>1, <1>4

LEMMA PlaceHolder ==
    ASSUME CountersOK, NEW n \in IFETCH_BUFFER, NEW s, s = Place(n)
    PROVE  (CHOOSE m \in 1 .. read : Holds(m, s)) = n
<1> DEFINE k == IFETCH_SIZE + 1
<1>1. k \in Nat \ {0} /\ read \in Nat
  BY Sizes DEF CountersOK
<1>2. n \in 1 .. read /\ n + k > read
  BY Sizes DEF IFETCH_BUFFER, CountersOK
<1>0. \A m \in Nat : m + IFETCH_SIZE + 1 = m + k
  BY Sizes
<1>3. Holds(n, s)
  BY <1>0, <1>1, <1>2 DEF Holds
<1>4. ASSUME NEW m \in 1 .. read, Holds(m, s) PROVE m = n
  <2>1. Place(m) = Place(n) /\ m + IFETCH_SIZE + 1 > read
    BY <1>4 DEF Holds
  <2>3. m % k = n % k /\ m + k > read
    BY <1>0, <2>1 DEF Place
  <2> HIDE DEF k
  <2>2. m \in Nat /\ n \in Nat /\ m < n + k /\ n < m + k
    BY <1>1, <1>2, <2>3
  <2> QED BY <1>1, <2>2, <2>3, SamePlace
<1> QED BY <1>2, <1>3, <1>4

InFlight(bus) == asked[bus] \cup {PROCESSED[bus][i] : i \in DOMAIN PROCESSED[bus]}
Names(p, s) == \E i \in DOMAIN p.waiters : p.waiters[i] = s

LEMMA AwaitsInFlight ==
    ASSUME NEW n, NEW bus, NEW a
    PROVE  Awaits(n, bus, a) <=> \E p \in InFlight(bus) : p.address = a /\ Names(p, Place(n))
BY DEF Awaits, InFlight, Names

(* One round of handle_memory_return takes one place from the reply at the *)
(* head, and gives the reply to what is there if it wants it.              *)
LEMMA ServeHead ==
    ASSUME CountersOK, DataOK, NEW bus \in Bus, ServeOne(bus),
           NEW b \in Bus, NEW p \in InFlight(b), NEW n \in IFETCH_BUFFER, Names(p, Place(n))
    PROVE  \/ \E q \in InFlight(b)' : q.address = p.address /\ Names(q, Place(n))
           \/ /\ b = bus /\ p = PROCESSED[bus][1]
              /\ Wants(n, bus, p.address) => inst' = [inst EXCEPT ![n] = Served(@, bus)]
<1> DEFINE s == PROCESSED[bus]
           w == s[1].waiters
           short == Shortened(s)
<1>1. s \in Seq(Packet) /\ s # <<>> /\ PROCESSED \in [Bus -> Seq(Packet)]
  BY DEF DataOK, ServeOne, Remaining
<1>2. s[1] \in Packet /\ Head(s) = s[1] /\ Len(s) \in Nat \ {0} /\ DOMAIN s = 1 .. Len(s)
  BY <1>1
<1>3. w \in Seq(PlaceNumber) /\ w # <<>> /\ s[1] \in [address : Address, waiters : Seq(PlaceNumber)]
  BY <1>2 DEF Packet
<1>4. /\ PROCESSED' = [PROCESSED EXCEPT ![bus] = IF Len(w) = 1 THEN Tail(s) ELSE short]
      /\ asked' = asked
  BY <1>2 DEF ServeOne
<1>5. CASE b # bus \/ p \in asked[b]
  <2>1. p \in InFlight(b)'
    BY <1>1, <1>4, <1>5 DEF InFlight
  <2> QED BY <2>1
<1>6. CASE b = bus /\ p \notin asked[b]
  <2>1. PICK i \in DOMAIN s : p = s[i]
    BY <1>6 DEF InFlight
  <2>2. CASE i # 1
    <3>1. CASE Len(w) = 1
      <4>1. i - 1 \in DOMAIN Tail(s) /\ Tail(s)[i - 1] = s[i]
        BY <1>1, <1>2, <2>1, <2>2
      <4>2. PROCESSED'[b] = Tail(s)
        BY <1>1, <1>4, <1>6, <3>1
      <4>3. p \in InFlight(b)'
        BY <2>1, <4>1, <4>2 DEF InFlight
      <4> QED BY <4>3
    <3>2. CASE Len(w) # 1
      <4>1. PROCESSED'[b] = short
        BY <1>1, <1>4, <1>6, <3>2
      <4>2. i \in DOMAIN short /\ short[i] = s[i]
        BY <1>1, <1>2, <2>1, <2>2 DEF Shortened
      <4>3. p \in InFlight(b)'
        BY <2>1, <4>1, <4>2 DEF InFlight
      <4> QED BY <4>3
    <3> QED BY <3>1, <3>2
  <2>3. CASE i = 1
    <3>0. p = s[1] /\ p.waiters = w
      BY <2>1, <2>3
    <3>1. PICK j \in DOMAIN w : w[j] = Place(n)
      BY <3>0 DEF Names
    <3>2. DOMAIN w = 1 .. Len(w) /\ Len(w) \in Nat \ {0} /\ Head(w) = w[1]
      BY <1>3
    <3>3. CASE j = 1
      <4>1. Head(Head(s).waiters) = Place(n)
        BY <1>2, <3>1, <3>2, <3>3
      <4> DEFINE m == CHOOSE h \in 1 .. read : Holds(h, Head(Head(s).waiters))
      <4>2. m = n
        BY <4>1, PlaceHolder, Zenon
      <4>3. inst' = IF Wants(m, bus, Head(s).address)
                    THEN [inst EXCEPT ![m] = Served(@, bus)] ELSE inst
        BY Zenon DEF ServeOne
      <4> HIDE DEF m, s
      <4>4. Wants(n, bus, p.address) => inst' = [inst EXCEPT ![n] = Served(@, bus)]
        BY <1>2, <2>1, <2>3, <4>2, <4>3, Zenon
      <4> QED BY <1>6, <2>1, <2>3, <4>4 DEF s
    <3>4. CASE j # 1
      <4>1. j - 1 \in DOMAIN Tail(w) /\ Tail(w)[j - 1] = Place(n)
        <5> HIDE DEF w
        <5> QED BY <1>3, <3>1, <3>2, <3>4
      <4> DEFINE q == [s[1] EXCEPT !.waiters = Tail(@)]
      <4>2. q.address = p.address /\ q.waiters = Tail(w)
        BY <1>3, <2>1, <2>3
      <4>3. Len(w) # 1
        BY <3>1, <3>2, <3>4
      <4>4. short = [s EXCEPT ![1] = q]
        BY DEF Shortened
      <4>5. PROCESSED'[b] = short
        BY <1>1, <1>4, <1>6, <4>3
      <4> HIDE DEF q, w
      <4>6. 1 \in DOMAIN short /\ short[1] = q
        BY <1>2, <4>4
      <4> HIDE DEF s, short
      <4>7. q \in InFlight(b)'
        BY <4>5, <4>6 DEF InFlight
      <4>8. Names(q, Place(n))
        BY <4>1, <4>2 DEF Names
      <4> QED BY <4>2, <4>7, <4>8
    <3> QED BY <3>3, <3>4
  <2> QED BY <2>2, <2>3
<1> QED BY <1>5, <1>6

(* Why no wait is in vain.  An instruction has an instruction_pa because   *)
(* the ITLB answered, and is fetched from the L1I only with one.           *)
Asks(n, bus, a) == \E p \in InFlight(bus) : p.address = a /\ Names(p, Place(n))

WaitOK(n) ==
    /\ inst[n].pa => <<"ITLB", Page(n)>> \in arrived[n]
    /\ inst[n].fetched = "inflight" => inst[n].pa
    /\ inst[n].translated = "completed" => inst[n].pa \/ inst[n].fetched = "completed"
    /\ inst[n].translated = "inflight" => Asks(n, "ITLB", Page(n))
    /\ inst[n].fetched = "inflight" =>
           Asks(n, "L1I", Line(n)) \/ <<"L1I", Line(n)>> \in arrived[n]

AskedOK == \A n \in IFETCH_BUFFER : WaitOK(n)

(* No packet that names the place of n is lost.                            *)
Kept(n) ==
    \A b \in Bus : \A p \in InFlight(b) :
        Names(p, Place(n)) => \E q \in InFlight(b)' : q.address = p.address /\ Names(q, Place(n))

LEMMA AsksKept ==
    ASSUME NEW n, UNCHANGED trace, Kept(n)
    PROVE  /\ Page(n)' = Page(n) /\ Line(n)' = Line(n)
           /\ Asks(n, "ITLB", Page(n)) => Asks(n, "ITLB", Page(n))'
           /\ Asks(n, "L1I", Line(n)) => Asks(n, "L1I", Line(n))'
<1>1. Page(n)' = Page(n) /\ Line(n)' = Line(n)
  BY DEF Page, Line
<1>2. ASSUME NEW b \in Bus, NEW a, Asks(n, b, a)
      PROVE  \E q \in InFlight(b)' : q.address = a /\ Names(q, Place(n))
  BY <1>2 DEF Asks, Kept
<1>3. Asks(n, "ITLB", Page(n)) => Asks(n, "ITLB", Page(n))'
  BY <1>1, <1>2 DEF Asks, Bus
<1>4. Asks(n, "L1I", Line(n)) => Asks(n, "L1I", Line(n))'
  BY <1>1, <1>2 DEF Asks, Bus
<1> QED BY <1>1, <1>3, <1>4

LEMMA WaitKept ==
    ASSUME NEW n, WaitOK(n), UNCHANGED trace, Kept(n),
           inst'[n] = inst[n] \/ (inst'[n].translated = "completed" /\ inst'[n].fetched = "completed"
                                  /\ inst'[n].pa = inst[n].pa),
           arrived[n] \subseteq arrived'[n]
    PROVE  WaitOK(n)'
BY AsksKept DEF WaitOK

LEMMA InFlightKept ==
    ASSUME NEW n, \A b \in Bus : InFlight(b) \subseteq InFlight(b)' PROVE Kept(n)
BY DEF Kept

LEMMA SameInFlight ==
    ASSUME UNCHANGED <<asked, PROCESSED>> PROVE \A b : InFlight(b)' = InFlight(b)
BY DEF InFlight

(* The instruction served no longer waits for what served it.              *)
LEMMA ServeKeepsWaits ==
    ASSUME CountersOK, DataOK, TrustOK, AskedOK, NEW bus \in Bus, ServeOne(bus)
    PROVE  AskedOK'
<1>1. UNCHANGED <<trace, read, promoted, arrived, asked>>
  BY DEF ServeOne, buffers
<1>2. IFETCH_BUFFER' = IFETCH_BUFFER
  BY <1>1 DEF IFETCH_BUFFER
<1> SUFFICES ASSUME NEW n \in IFETCH_BUFFER PROVE WaitOK(n)'
  BY <1>2 DEF AskedOK
<1>3. WaitOK(n) /\ n \in 1 .. read /\ inst[n] \in InstRecord
  BY DEF AskedOK, DataOK, IFETCH_BUFFER, CountersOK
<1>4. Page(n)' = Page(n) /\ Line(n)' = Line(n)
  BY <1>1 DEF Page, Line
<1>5. PICK r : r = PROCESSED[bus][1]
  OBVIOUS
<1>6. <<bus, r.address>> \in arrived[n]
  BY <1>5, ServesWanted DEF TrustOK, BusArrived
<1> DEFINE Mine == Names(r, Place(n))
           Lost(b, a) == b = bus /\ a = r.address /\ Mine
<1>7. ASSUME NEW b \in Bus, NEW a, Asks(n, b, a)
      PROVE  \/ \E q \in InFlight(b)' : q.address = a /\ Names(q, Place(n))
             \/ /\ Lost(b, a)
                /\ Wants(n, bus, a) => inst' = [inst EXCEPT ![n] = Served(@, bus)]
  <2>1. PICK p \in InFlight(b) : p.address = a /\ Names(p, Place(n))
    BY <1>7 DEF Asks
  <2> QED BY <1>5, <2>1, ServeHead
<1>8. \/ inst'[n] = inst[n]
      \/ inst'[n] = Served(inst[n], bus) /\ Wants(n, bus, r.address)
  <2>1. CASE inst' = inst
    BY <2>1
  <2>2. ASSUME NEW m, inst' = [inst EXCEPT ![m] = Served(@, bus)], Wants(m, bus, PROCESSED[bus][1].address)
        PROVE  \/ inst'[n] = inst[n]
               \/ inst'[n] = Served(inst[n], bus) /\ Wants(n, bus, r.address)
    BY <1>3, <1>5, <2>2 DEF DataOK
  <2> QED BY <2>1, <2>2, ServesWanted
<1>9. /\ bus = "ITLB" /\ inst'[n] = Served(inst[n], bus) =>
             /\ inst'[n].translated = "completed" /\ inst'[n].pa
             /\ inst'[n].fetched = inst[n].fetched
      /\ bus = "L1I" /\ inst'[n] = Served(inst[n], bus) =>
             /\ inst'[n].fetched = "completed" /\ inst'[n].pa = inst[n].pa
             /\ inst'[n].translated = inst[n].translated
  BY <1>3 DEF Served, InstRecord
<1>10. inst' = [inst EXCEPT ![n] = Served(@, bus)] => inst'[n] = Served(inst[n], bus)
  BY <1>3 DEF DataOK
<1>11. Asks(n, "ITLB", Page(n)) /\ inst[n].translated = "inflight" =>
           Asks(n, "ITLB", Page(n))' \/ (inst'[n] = Served(inst[n], "ITLB") /\ bus = "ITLB")
  <2> SUFFICES ASSUME Asks(n, "ITLB", Page(n)), inst[n].translated = "inflight"
               PROVE  Asks(n, "ITLB", Page(n))' \/ (inst'[n] = Served(inst[n], "ITLB") /\ bus = "ITLB")
    OBVIOUS
  <2>1. \/ \E q \in InFlight("ITLB")' : q.address = Page(n) /\ Names(q, Place(n))
        \/ /\ bus = "ITLB"
           /\ Wants(n, bus, Page(n)) => inst' = [inst EXCEPT ![n] = Served(@, bus)]
    BY <1>7 DEF Bus
  <2>2. CASE \E q \in InFlight("ITLB")' : q.address = Page(n) /\ Names(q, Place(n))
    BY <1>4, <2>2 DEF Asks
  <2>3. CASE bus = "ITLB" /\ (Wants(n, bus, Page(n)) => inst' = [inst EXCEPT ![n] = Served(@, bus)])
    <3>1. Wants(n, bus, Page(n))
      BY <2>3 DEF Wants
    <3> QED BY <1>10, <2>3, <3>1
  <2> QED BY <2>1, <2>2, <2>3
<1>12. Asks(n, "L1I", Line(n)) => Asks(n, "L1I", Line(n))' \/ <<"L1I", Line(n)>> \in arrived[n]
  <2> SUFFICES ASSUME Asks(n, "L1I", Line(n))
               PROVE  Asks(n, "L1I", Line(n))' \/ <<"L1I", Line(n)>> \in arrived[n]
    OBVIOUS
  <2>1. \/ \E q \in InFlight("L1I")' : q.address = Line(n) /\ Names(q, Place(n))
        \/ Lost("L1I", Line(n))
    BY <1>7 DEF Bus
  <2>2. CASE \E q \in InFlight("L1I")' : q.address = Line(n) /\ Names(q, Place(n))
    BY <1>4, <2>2 DEF Asks
  <2> QED BY <1>6, <2>1, <2>2
<1>13. bus = "ITLB" /\ Wants(n, bus, r.address) => Page(n) = r.address
  BY DEF Wants
<1>14. bus = "L1I" /\ Wants(n, bus, r.address) => inst[n].pa
  BY DEF Wants
<1>15. WaitOK(n)'
  <2>1. CASE bus = "ITLB" /\ inst'[n] = Served(inst[n], bus) /\ Wants(n, bus, r.address)
    BY <1>1, <1>3, <1>4, <1>6, <1>9, <1>12, <1>13, <2>1 DEF WaitOK
  <2>2. CASE bus = "L1I" /\ inst'[n] = Served(inst[n], bus) /\ Wants(n, bus, r.address)
    BY <1>1, <1>3, <1>4, <1>9, <1>11, <1>14, <2>2 DEF WaitOK
  <2>3. CASE inst'[n] = inst[n]
    <3>1. inst[n].translated = "inflight" => Asks(n, "ITLB", Page(n))'
      <4>1. ASSUME inst'[n] = Served(inst[n], "ITLB"), bus = "ITLB", inst[n].translated = "inflight"
            PROVE  FALSE
        BY <1>9, <2>3, <4>1
      <4> QED BY <1>3, <1>11, <4>1 DEF WaitOK
    <3> QED BY <1>1, <1>3, <1>4, <1>12, <2>3, <3>1 DEF WaitOK
  <2> QED BY <1>8, <2>1, <2>2, <2>3 DEF Bus
<1> QED BY <1>15

(* A group asked for is named in the packet, place by place.               *)
LEMMA GroupAsked ==
    ASSUME CountersOK, DataOK, NEW bus \in Bus, NEW address,
           NEW begin \in promoted + 1 .. read + 1, NEW end \in promoted + 1 .. read + 1,
           Accepted(bus, address, Places(begin, end)), UNCHANGED PROCESSED,
           NEW n \in begin .. end - 1
    PROVE  /\ \A b \in Bus : InFlight(b) \subseteq InFlight(b)'
           /\ \E q \in InFlight(bus)' : q.address = address /\ Names(q, Place(n))
<1> DEFINE p == [address |-> address, waiters |-> Places(begin, end)]
<1>1. asked' = [asked EXCEPT ![bus] = @ \cup {p}]
  BY DEF Accepted
<1>2. asked \in [Bus -> SUBSET Packet]
  BY DEF DataOK
<1>3. p.address = address /\ p.waiters = Places(begin, end)
  OBVIOUS
<1>4. begin \in Nat /\ end \in Nat /\ n \in Nat /\ n - begin + 1 \in 1 .. end - begin
      /\ begin + (n - begin + 1) - 1 = n
  BY DEF CountersOK
<1>5. n - begin + 1 \in DOMAIN Places(begin, end) /\ Places(begin, end)[n - begin + 1] = Place(n)
  BY <1>4 DEF Places
<1>6. Names(p, Place(n))
  BY <1>3, <1>5 DEF Names
<1> HIDE DEF p
<1>7. asked'[bus] = asked[bus] \cup {p} /\ \A b \in Bus : asked[b] \subseteq asked'[b]
  BY <1>1, <1>2
<1>8. \A b \in Bus : InFlight(b) \subseteq InFlight(b)'
  BY <1>7 DEF InFlight
<1>9. p \in InFlight(bus)'
  BY <1>7 DEF InFlight
<1> QED BY <1>3, <1>6, <1>8, <1>9

LEMMA AskKeepsWaits ==
    ASSUME CountersOK, DataOK, AskedOK, fetch_instruction \/ translate_fetch
    PROVE  AskedOK'
<1>1. UNCHANGED <<trace, read, promoted, arrived, PROCESSED>>
  BY DEF fetch_instruction, translate_fetch, buffers
<1>2. IFETCH_BUFFER' = IFETCH_BUFFER
  BY <1>1 DEF IFETCH_BUFFER
<1> SUFFICES ASSUME NEW n \in IFETCH_BUFFER PROVE WaitOK(n)'
  BY <1>2 DEF AskedOK
<1>3. WaitOK(n) /\ n \in 1 .. read /\ inst[n] \in InstRecord /\ DOMAIN inst = 1 .. read
  BY DEF AskedOK, DataOK, IFETCH_BUFFER, CountersOK
<1>4. Page(n)' = Page(n) /\ Line(n)' = Line(n)
  BY <1>1 DEF Page, Line
<1>5. CASE UNCHANGED <<inst, asked>>
  <2>1. Kept(n)
    BY <1>1, <1>5, SameInFlight, InFlightKept
  <2> QED BY <1>1, <1>3, <1>5, <2>1, WaitKept
<1>6. CASE AskL1I
  <2>1. PICK begin, end \in promoted + 1 .. read + 1 :
            /\ FetchGroup(begin, end) /\ Accepted("L1I", Line(begin), Places(begin, end))
            /\ inst' = [k \in DOMAIN inst |-> IF k \in begin .. end - 1
                            THEN [inst[k] EXCEPT !.fetched = "inflight"] ELSE inst[k]]
    BY <1>6 DEF AskL1I
  <2>2. /\ begin \in IFETCH_BUFFER /\ inst[begin].translated = "completed" /\ inst[begin].fetched = "no"
        /\ begin .. end - 1 \subseteq SameLine(begin) /\ begin \in begin .. end - 1
    <3>1. /\ begin \in NeedsFetch /\ begin \in IFETCH_BUFFER
          /\ begin .. end - 1 \subseteq SameLine(begin) /\ begin \in begin .. end - 1
      BY <2>1, GroupShape DEF FetchGroup
    <3> QED BY <3>1 DEF NeedsFetch
  <2>3. inst[begin].pa
    BY <2>2 DEF AskedOK, WaitOK
  <2>4. \A b \in Bus : InFlight(b) \subseteq InFlight(b)'
    BY <1>1, <2>1, <2>2, GroupAsked DEF Bus
  <2>5. Kept(n)
    BY <2>4, InFlightKept
  <2>6. CASE n \in begin .. end - 1
    <3>1. inst[n].pa /\ Line(n) = Line(begin)
      BY <1>3, <2>2, <2>3, <2>6 DEF SameLine, InstRecord
    <3>2. /\ inst'[n].fetched = "inflight" /\ inst'[n].pa = inst[n].pa
          /\ inst'[n].translated = inst[n].translated
      BY <1>3, <2>1, <2>6 DEF InstRecord
    <3>3. \E q \in InFlight("L1I")' : q.address = Line(n) /\ Names(q, Place(n))
      BY <1>1, <2>1, <2>6, <3>1, GroupAsked DEF Bus
    <3>4. Asks(n, "L1I", Line(n))'
      BY <1>4, <3>3 DEF Asks
    <3>5. Asks(n, "ITLB", Page(n)) => Asks(n, "ITLB", Page(n))'
      BY <1>1, <2>5, AsksKept
    <3> QED BY <1>1, <1>3, <1>4, <3>1, <3>2, <3>4, <3>5 DEF WaitOK
  <2>7. CASE n \notin begin .. end - 1
    <3>1. inst'[n] = inst[n]
      BY <1>3, <2>1, <2>7
    <3> QED BY <1>1, <1>3, <2>5, <3>1, WaitKept
  <2> QED BY <2>6, <2>7
<1>7. CASE AskITLB
  <2>1. PICK begin, end \in promoted + 1 .. read + 1 :
            /\ PageGroup(begin, end) /\ Accepted("ITLB", Page(begin), Places(begin, end))
            /\ inst' = [k \in DOMAIN inst |-> IF k \in begin .. end - 1
                            THEN [inst[k] EXCEPT !.translated = "inflight"] ELSE inst[k]]
    BY <1>7 DEF AskITLB
  <2>2. begin .. end - 1 \subseteq SamePage(begin) /\ begin \in begin .. end - 1
    BY <2>1, GroupShape DEF PageGroup
  <2>4. \A b \in Bus : InFlight(b) \subseteq InFlight(b)'
    BY <1>1, <2>1, <2>2, GroupAsked DEF Bus
  <2>5. Kept(n)
    BY <2>4, InFlightKept
  <2>6. CASE n \in begin .. end - 1
    <3>1. Page(n) = Page(begin)
      BY <2>2, <2>6 DEF SamePage
    <3>2. /\ inst'[n].translated = "inflight" /\ inst'[n].pa = inst[n].pa
          /\ inst'[n].fetched = inst[n].fetched
      BY <1>3, <2>1, <2>6 DEF InstRecord
    <3>3. \E q \in InFlight("ITLB")' : q.address = Page(n) /\ Names(q, Place(n))
      BY <1>1, <2>1, <2>6, <3>1, GroupAsked DEF Bus
    <3>4. Asks(n, "ITLB", Page(n))'
      BY <1>4, <3>3 DEF Asks
    <3>5. Asks(n, "L1I", Line(n)) => Asks(n, "L1I", Line(n))'
      BY <1>1, <2>5, AsksKept
    <3> QED BY <1>1, <1>3, <1>4, <3>2, <3>4, <3>5 DEF WaitOK
  <2>7. CASE n \notin begin .. end - 1
    <3>1. inst'[n] = inst[n]
      BY <1>3, <2>1, <2>7
    <3> QED BY <1>1, <1>3, <2>5, <3>1, WaitKept
  <2> QED BY <2>6, <2>7
<1> QED BY <1>5, <1>6, <1>7 DEF fetch_instruction, translate_fetch

LEMMA AskedStep ==
    ASSUME CountersOK, CountersOK', DataOK, TrustOK, AskedOK, [FrontEndNext]_feVars
    PROVE  AskedOK'
<1>1. CASE init_instruction
  <2>1. /\ inst' = Append(inst, Fresh) /\ arrived' = Append(arrived, OnBus)
        /\ read' = read + 1
        /\ UNCHANGED <<trace, promoted, asked, PROCESSED>>
    BY <1>1 DEF init_instruction, buffers
  <2>2. Fresh \in InstRecord /\ OnBus \in SUBSET (Bus \X Address) /\ read \in Nat
    BY OnBusTyped DEF Fresh, InstRecord, Mark, CountersOK
  <2>3. /\ \A n \in 1 .. read : inst'[n] = inst[n] /\ arrived'[n] = arrived[n]
        /\ inst'[read + 1] = Fresh
    BY <2>1, <2>2, AppendExtends DEF DataOK
  <2>4. \A n \in IFETCH_BUFFER' : n = read + 1 \/ (n \in IFETCH_BUFFER /\ n \in 1 .. read)
    BY <2>1 DEF IFETCH_BUFFER, CountersOK
  <2>5. \A n : Kept(n)
    BY <2>1, SameInFlight, InFlightKept
  <2>6. \A n \in IFETCH_BUFFER : n \in 1 .. read => WaitOK(n)'
    BY <2>1, <2>3, <2>5, WaitKept DEF AskedOK
  <2>7. ASSUME NEW n, n = read + 1 PROVE WaitOK(n)'
    BY <2>3, <2>7 DEF WaitOK, Fresh
  <2> QED BY <2>4, <2>6, <2>7 DEF AskedOK
<1>2. ASSUME NEW bus \in Bus, ServeOne(bus) PROVE AskedOK'
  BY <1>2, ServeKeepsWaits
<1>3. CASE fetch_instruction \/ translate_fetch
  BY <1>3, AskKeepsWaits
<1>4. CASE check_dib
  <2>1. /\ UNCHANGED <<trace, read, promoted, asked, PROCESSED, arrived>>
        /\ inst' = [n \in DOMAIN inst |->
                IF n \in Scanned /\ Window(n) \in DIB
                THEN [inst[n] EXCEPT !.translated = "completed", !.fetched = "completed"]
                ELSE inst[n]]
    BY <1>4 DEF check_dib, buffers, memoryVars
  <2>4. IFETCH_BUFFER \subseteq 1 .. read
    BY DEF IFETCH_BUFFER, CountersOK
  <2>5. read' = read /\ promoted' = promoted
    BY <2>1, Zenon
  <2>2. IFETCH_BUFFER' = IFETCH_BUFFER /\ IFETCH_BUFFER \subseteq 1 .. read
    BY <2>4, <2>5, Zenon DEF IFETCH_BUFFER
  <2>3. ASSUME NEW n \in IFETCH_BUFFER PROVE WaitOK(n)'
    <3>1. n \in DOMAIN inst /\ inst[n] \in InstRecord
      BY <2>2 DEF DataOK
    <3>2. inst'[n] = inst[n] \/ (inst'[n].translated = "completed" /\ inst'[n].fetched = "completed"
                                 /\ inst'[n].pa = inst[n].pa)
      BY <2>1, <3>1 DEF InstRecord
    <3>3. Kept(n)
      BY <2>1, SameInFlight, InFlightKept
    <3> QED BY <2>1, <3>2, <3>3, WaitKept DEF AskedOK
  <2> QED BY <2>2, <2>3 DEF AskedOK
<1>5. ASSUME NEW bus \in Bus, return_data(bus) PROVE AskedOK'
  <2>1. PICK p \in asked[bus] :
            /\ asked' = [asked EXCEPT ![bus] = @ \ {p}]
            /\ PROCESSED' = [PROCESSED EXCEPT ![bus] = Append(@, p)]
            /\ arrived' = [n \in DOMAIN arrived |->
                    IF n \in IFETCH_BUFFER THEN arrived[n] \cup {<<bus, p.address>>}
                    ELSE arrived[n]]
            /\ UNCHANGED <<trace, read, promoted, inst>>
    BY <1>5 DEF return_data, buffers
  <2>2. IFETCH_BUFFER' = IFETCH_BUFFER /\ IFETCH_BUFFER \subseteq DOMAIN arrived
    BY <2>1 DEF IFETCH_BUFFER, CountersOK, DataOK
  <2>3. \A n \in IFETCH_BUFFER : arrived[n] \subseteq arrived'[n]
    BY <2>1, <2>2
  <2>4. p \in Packet /\ PROCESSED \in [Bus -> Seq(Packet)] /\ asked \in [Bus -> SUBSET Packet]
    BY DEF DataOK
  <2>5. PICK s : s = PROCESSED[bus]
    OBVIOUS
  <2>6. s \in Seq(Packet)
    BY <2>4, <2>5
  <2>7. /\ \A i \in DOMAIN s : i \in DOMAIN Append(s, p) /\ Append(s, p)[i] = s[i]
        /\ Len(s) + 1 \in DOMAIN Append(s, p) /\ Append(s, p)[Len(s) + 1] = p
    BY <2>4, <2>6, AppendProperties
  <2>8. PROCESSED'[bus] = Append(s, p) /\ asked'[bus] = asked[bus] \ {p}
        /\ \A b \in Bus : b # bus => PROCESSED'[b] = PROCESSED[b] /\ asked'[b] = asked[b]
    BY <2>1, <2>4, <2>5
  <2>9. \A b \in Bus : InFlight(b) \subseteq InFlight(b)'
    <3>1. ASSUME NEW b \in Bus, b # bus PROVE InFlight(b) \subseteq InFlight(b)'
      BY <2>8, <3>1 DEF InFlight
    <3>2. InFlight(bus) \subseteq InFlight(bus)'
      BY <2>5, <2>7, <2>8 DEF InFlight
    <3> QED BY <3>1, <3>2
  <2>10. ASSUME NEW n \in IFETCH_BUFFER PROVE WaitOK(n)'
    BY <2>1, <2>3, <2>9, InFlightKept, WaitKept DEF AskedOK
  <2> QED BY <2>2, <2>10 DEF AskedOK
<1>6. ASSUME UNCHANGED <<trace, read, inst, asked, PROCESSED, arrived>>, promoted <= promoted'
      PROVE  AskedOK'
  <2>1. IFETCH_BUFFER' \subseteq IFETCH_BUFFER
    <3>1. promoted \in Nat /\ promoted' \in Nat /\ read \in Nat
      BY DEF CountersOK
    <3>2. \A a, b, c \in Nat : a <= b => b + 1 .. c \subseteq a + 1 .. c
      OBVIOUS
    <3> QED BY <1>6, <3>1, <3>2 DEF IFETCH_BUFFER
  <2>2. \A n \in IFETCH_BUFFER : WaitOK(n)'
    BY <1>6, SameInFlight, InFlightKept, WaitKept DEF AskedOK
  <2> QED BY <2>1, <2>2 DEF AskedOK
<1>7. CASE promote_to_decode
  <2>1. UNCHANGED <<trace, read, inst, asked, PROCESSED, arrived>> /\ promoted' = promoted + Leaving
    BY <1>7 DEF promote_to_decode, memoryVars
  <2>2. promoted <= promoted'
    <3>1. Leaving \in Nat /\ promoted \in Nat
      BY LeavingFetched DEF CountersOK
    <3> QED BY <2>1, <3>1
  <2> QED BY <1>6, <2>1, <2>2
<1>8. ASSUME UNCHANGED <<trace, read, promoted, inst, memoryVars>> PROVE AskedOK'
  <2>1. promoted <= promoted'
    BY <1>8 DEF CountersOK
  <2> QED BY <1>6, <1>8, <2>1 DEF memoryVars
<1>9. ASSUME NEW bus \in Bus, EndServing(bus) PROVE AskedOK'
  BY <1>8, <1>9 DEF EndServing, buffers
<1>10. CASE BeginCycle \/ complete_inflight_instruction \/ dispatch_instruction \/ decode_instruction
  BY <1>8, <1>10 DEF BeginCycle, complete_inflight_instruction, dispatch_instruction,
                     decode_instruction, buffers
<1>11. CASE UNCHANGED feVars
  BY <1>8, <1>11 DEF feVars, buffers, memoryVars
<1> QED BY <1>1, <1>2, <1>3, <1>4, <1>5, <1>7, <1>9, <1>10, <1>11
        DEF FrontEndNext, Handlers, Bus

-----------------------------------------------------------------------------
FrontEndInv == CountersOK /\ DataOK /\ RestOK /\ StallOK /\ TrustOK /\ AskedOK

LEMMA FrontEndInvariant == FrontEndSpec => []FrontEndInv
<1>1. FrontEndInit => FrontEndInv
  <2> SUFFICES ASSUME FrontEndInit PROVE FrontEndInv
    OBVIOUS
  <2>1. CountersOK
    BY Sizes DEF FrontEndInit, CountersOK
  <2>2. DataOK
    <3>1. IsFiniteSet(DIB) /\ Cardinality(DIB) = 0 /\ dib_way \in Nat
      BY FS_EmptySet, FrontEndAssumption DEF FrontEndInit
    <3>2. inst \in [1 .. read -> InstRecord] /\ arrived \in [1 .. read -> SUBSET (Bus \X Address)]
      BY DEF FrontEndInit
    <3>3. PROCESSED \in [Bus -> Seq(Packet)] /\ asked \in [Bus -> SUBSET Packet]
      BY EmptySeq DEF FrontEndInit, Bus
    <3> QED BY <3>1, <3>2, <3>3 DEF DataOK
  <2>3. StallOK
    <3>1. fetch_stall = FALSE /\ resume = Never /\ mispredicted = {}
      BY DEF FrontEndInit
    <3>2. Never \in Never .. MISPREDICT_PENALTY
      BY FrontEndAssumption DEF Never
    <3> QED BY <3>1, <3>2 DEF StallOK, StallHasCause
  <2>4. TrustOK
    <3>1. IFETCH_BUFFER = {} /\ DIB = {}
      BY DEF FrontEndInit, IFETCH_BUFFER
    <3> QED BY <3>1 DEF TrustOK, DibDecoded, BusArrived, MarksTrue
  <2>5. AskedOK
    <3>1. IFETCH_BUFFER = {}
      BY DEF FrontEndInit, IFETCH_BUFFER
    <3> QED BY <3>1 DEF AskedOK
  <2>6. RestOK
    <3>1. asked = [b \in Bus |-> {}] /\ IsFiniteSet({}) /\ Cardinality({}) = 0 /\ LowerRoom \in Nat
      BY FS_EmptySet, FrontEndAssumption DEF FrontEndInit, Bus
    <3>2. pc \in Handler /\ mispredicted = {} /\ DIB = {} /\ decoded = 0 /\ dispatched = 0
      BY DEF FrontEndInit, Handler
    <3>3. budget \in Budget /\ DISPATCH_SIZE \in Nat
      BY FrontEndAssumption DEF FrontEndInit, Budget
    <3> QED BY <3>1, <3>2, <3>3 DEF RestOK
  <2> QED BY <2>1, <2>2, <2>3, <2>4, <2>5, <2>6 DEF FrontEndInv
<1>2. FrontEndInv /\ [FrontEndNext]_feVars => FrontEndInv'
  BY CountersStep, DataStep, RestStep, StallStep, TrustStep, AskedStep DEF FrontEndInv
<1> QED BY <1>1, <1>2, PTL DEF FrontEndSpec

(* Every variable of the front end has its type; IFETCH_BUFFER, DECODE,    *)
(* DISPATCH, the ROB, the DIB and the requests of the ITLB and the L1I     *)
(* never outgrow their sizes (init_instruction, promote_to_decode,         *)
(* decode_instruction, dispatch_instruction, do_dib_update, add_rq).       *)
THEOREM FrontEndTypeInvariant == FrontEndSpec => []FrontEndTypeOK
<1>1. FrontEndInv => FrontEndTypeOK
  <2> SUFFICES ASSUME FrontEndInv PROVE FrontEndTypeOK
    OBVIOUS
  <2>1. Cardinality(IFETCH_BUFFER) = read - promoted
    BY RangeSize DEF IFETCH_BUFFER, FrontEndInv, CountersOK
  <2>2. Cardinality(DISPATCHED) = dispatched - retired
    BY RangeSize DEF DISPATCHED, FrontEndInv, CountersOK
  <2>3. Cardinality(IFETCH_BUFFER) <= IFETCH_SIZE /\ Cardinality(DISPATCHED) <= ROB_SIZE
    BY <2>1, <2>2, Sizes DEF FrontEndInv, CountersOK
  <2>4. {retired, dispatched, decoded, promoted, read} \subseteq 0 .. Len(trace)
    BY Sizes DEF FrontEndInv, CountersOK
  <2>5. CountersOK /\ DataOK /\ RestOK /\ StallOK
    BY DEF FrontEndInv
  <2> QED BY <2>3, <2>4, <2>5 DEF FrontEndTypeOK, CountersOK, DataOK, RestOK, StallOK
<1> QED BY <1>1, FrontEndInvariant, PTL

(* Reading stands still only for the last instruction read, while it is    *)
(* still to be found out, or until a cycle that is known (init_instruction,*)
(* decode_instruction, do_complete_execution, fetch_instruction).          *)
THEOREM StallsHaveCause == FrontEndSpec => []StallHasCause
BY FrontEndInvariant, PTL DEF FrontEndInv, StallOK

(* An instruction that waits for the ITLB has a request there that names   *)
(* its place, asked or on the bus; one that waits for the L1I has one      *)
(* there, unless both have answered for it since it was read               *)
(* (do_translate_fetch, do_fetch_instruction, check_dib,                   *)
(* handle_memory_return).                                                  *)
THEOREM WaitsAreAsked == FrontEndSpec => []WaitersAreAsked
<1>1. FrontEndInv => WaitersAreAsked
  <2> SUFFICES ASSUME FrontEndInv, NEW n \in IFETCH_BUFFER
               PROVE  /\ inst[n].translated = "inflight" => Awaits(n, "ITLB", Page(n))
                      /\ inst[n].fetched = "inflight" =>
                             \/ Awaits(n, "L1I", Line(n))
                             \/ {<<"ITLB", Page(n)>>, <<"L1I", Line(n)>>} \subseteq arrived[n]
    BY DEF WaitersAreAsked
  <2>1. WaitOK(n)
    BY DEF FrontEndInv, AskedOK
  <2> QED BY <2>1, AwaitsInFlight DEF WaitOK, Asks
<1> QED BY <1>1, FrontEndInvariant, PTL

(* What goes to decode was translated and fetched, or decoded before, for  *)
(* every pattern of buffer places used again, replies delayed and groups   *)
(* asked for twice (handle_memory_return, check_dib, promote_to_decode).   *)
THEOREM DecodesWhatWasFetched == FrontEndSpec => FetchedForReal
<1> DEFINE Real(n) == \/ {<<"ITLB", Page(n)>>, <<"L1I", Line(n)>>} \subseteq arrived[n]
                      \/ \E m \in 1 .. decoded : Window(m) = Window(n)
<1>1. FrontEndInv /\ [FrontEndNext]_feVars =>
          [\A n \in promoted + 1 .. promoted' : Real(n)]_feVars
  <2> SUFFICES ASSUME FrontEndInv, FrontEndNext PROVE \A n \in promoted + 1 .. promoted' : Real(n)
    OBVIOUS
  <2>1. CASE promote_to_decode
    <3> SUFFICES ASSUME NEW n \in promoted + 1 .. promoted + Leaving PROVE Real(n)
      BY <2>1 DEF promote_to_decode
    <3>1. Fetched(n) /\ n \in IFETCH_BUFFER
      BY LeavingFetched DEF FrontEndInv, CountersOK, IFETCH_BUFFER
    <3> QED BY <3>1 DEF FrontEndInv, TrustOK, MarksTrue, Seen, Fetched
  <2>2. CASE promoted' = promoted
    BY <2>2 DEF FrontEndInv, CountersOK
  <2>3. ASSUME NEW bus \in Bus, ServeOne(bus) \/ EndServing(bus) \/ return_data(bus)
        PROVE  promoted' = promoted
    BY <2>3 DEF ServeOne, EndServing, return_data, buffers
  <2>4. CASE init_instruction \/ BeginCycle \/ complete_inflight_instruction \/ dispatch_instruction
             \/ decode_instruction \/ fetch_instruction \/ translate_fetch \/ check_dib
    BY <2>2, <2>4 DEF init_instruction, BeginCycle, complete_inflight_instruction,
                      dispatch_instruction, decode_instruction, fetch_instruction,
                      translate_fetch, check_dib, buffers
  <2> QED BY <2>1, <2>2, <2>3, <2>4 DEF FrontEndNext, Handlers, Bus
<1> QED BY <1>1, FrontEndInvariant, PTL DEF FrontEndSpec, FetchedForReal
=============================================================================
