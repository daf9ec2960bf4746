------------------------------ MODULE FrontEnd ------------------------------
(***************************************************************************)
(* The front end of one core (ooo_cpu.cc): instructions are read from the  *)
(* trace into IFETCH_BUFFER, translated by the ITLB and fetched from the   *)
(* L1I in groups, or found in the decoded instruction buffer, and move     *)
(* through the DECODE and DISPATCH buffers into the ROB.  A mispredicted   *)
(* branch stops reading until decode or execution finds out.               *)
(*                                                                         *)
(* Instructions are numbered as they are read, so every buffer is a range  *)
(* of numbers between two counters.  A packet names the places of          *)
(* IFETCH_BUFFER that wait for it, and a place is used again: its content  *)
(* is the last instruction put there, still in the buffer or not.          *)
(*                                                                         *)
(* One action is one handler of operate(), in its order (pc).  DECODE and  *)
(* DISPATCH have a latency of 1, as in every shipped configuration, so     *)
(* what is in them when a cycle begins is ready.  The back end is reduced  *)
(* to retiring and to resolving a branch; wait_rob_empty is never set in   *)
(* the build (WARMUP_INST is 0).                                           *)
(***************************************************************************)
EXTENDS Integers, Sequences, FiniteSets

CONSTANTS
    Ip,                 \* instruction addresses
    Traces,             \* the traces considered, sequences of addresses
    page_of, line_of, window_of,    \* [Ip -> ...]
    Branch,             \* [Ip -> {"none", "taken", "direct", "indirect"}]:
                        \* no branch, predicted, mispredicted and found out
                        \* at decode, or at execution
    IFETCH_SIZE, DECODE_SIZE, DISPATCH_SIZE, ROB_SIZE,
    FETCH_WIDTH, DECODE_WIDTH, DISPATCH_WIDTH,
    MAX_READ,           \* replies taken from a bus in a cycle
    MISPREDICT_PENALTY,
    dib_way,
    LowerRoom           \* requests the ITLB, or the L1I, holds at a time

ASSUME FrontEndAssumption ==
    /\ Traces \subseteq Seq(Ip)
    /\ {IFETCH_SIZE, DECODE_SIZE, DISPATCH_SIZE, ROB_SIZE, FETCH_WIDTH,
        DECODE_WIDTH, DISPATCH_WIDTH, MAX_READ, dib_way,
        LowerRoom} \subseteq Nat \ {0}
    /\ MISPREDICT_PENALTY \in Nat
    /\ \A a, b \in Ip : line_of[a] = line_of[b] => page_of[a] = page_of[b]

VARIABLES
    pc,                 \* handler that runs next; "idle" between two cycles
    trace, read,        \* the trace, and how many of it have been read
    promoted, decoded, dispatched, retired,  \* how many have gone that far
    inst,               \* what IFETCH_BUFFER keeps of each
    toRead,             \* instrs_to_read_this_cycle
    fetch_stall,
    resume,             \* cycles to fetch_resume_cycle; Never while it is 0
    mispredicted,       \* instructions with branch_mispredicted set
    DIB,                \* windows in the decoded instruction buffer
    asked,              \* [ITLB, L1I]: requests the two have not answered
    PROCESSED,          \* [ITLB, L1I]: answers on the two buses
    budget,             \* what is left of a loop of handle_memory_return
    arrived             \* history: answers that came, or were still on a bus,
                        \* while it was in IFETCH_BUFFER

feVars == <<pc, trace, read, promoted, decoded, dispatched, retired, inst, toRead, fetch_stall,
            resume, mispredicted, DIB, asked, PROCESSED, budget, arrived>>

Never == -1
Smaller(a, b) == IF a < b THEN a ELSE b

IFETCH_BUFFER == promoted + 1 .. read
DISPATCHED == retired + 1 .. dispatched         \* the ROB

Page(n) == page_of[trace[n]]
Line(n) == line_of[trace[n]]
Window(n) == window_of[trace[n]]

(* IFETCH_BUFFER is a ring of IFETCH_SIZE + 1 places.                      *)
Place(n) == n % (IFETCH_SIZE + 1)

(* What place s holds: the last instruction that was put there.            *)
Holds(n, s) == Place(n) = s /\ n + IFETCH_SIZE + 1 > read

Fresh == [translated |-> "no", fetched |-> "no", pa |-> FALSE]

FrontEndInit ==
    /\ pc = "idle"
    /\ trace \in Traces /\ read = 0
    /\ promoted = 0 /\ decoded = 0 /\ dispatched = 0 /\ retired = 0
    /\ inst = <<>>
    /\ toRead = 0
    /\ fetch_stall = FALSE /\ resume = Never
    /\ mispredicted = {}
    /\ DIB = {}
    /\ asked = [b \in {"ITLB", "L1I"} |-> {}]
    /\ PROCESSED = [b \in {"ITLB", "L1I"} |-> <<>>]
    /\ budget = [width |-> 0, read |-> 0]
    /\ arrived = <<>>

OnBus == UNION {{<<bus, PROCESSED[bus][i].address>> : i \in DOMAIN PROCESSED[bus]} :
                bus \in {"ITLB", "L1I"}}

buffers == <<promoted, decoded, dispatched, retired>>
stallVars == <<fetch_stall, resume, mispredicted>>
memoryVars == <<asked, PROCESSED, arrived>>

-----------------------------------------------------------------------------
(* The main loop reads the trace after the cycle, init_instruction for     *)
(* each: a misprediction stops it until further notice, a branch that is   *)
(* taken ends it for this cycle.                                           *)
init_instruction ==
    /\ pc = "idle" /\ ~fetch_stall /\ toRead > 0
    /\ read < Len(trace)
    /\ read' = read + 1
    /\ inst' = Append(inst, Fresh)
    /\ arrived' = Append(arrived, OnBus)
    /\ fetch_stall' = (Branch[trace[read + 1]] \in {"direct", "indirect"})
    /\ mispredicted' = IF fetch_stall' THEN mispredicted \cup {read + 1} ELSE mispredicted
    /\ toRead' = IF Branch[trace[read + 1]] = "none" THEN toRead - 1 ELSE 0
    /\ UNCHANGED <<pc, trace, buffers, resume, DIB, asked, PROCESSED, budget>>

(* operate() begins: the room of IFETCH_BUFFER bounds what the main loop   *)
(* may read after it.  The back end retires in order, and not before a     *)
(* branch has executed.  One cycle nearer to fetch_resume_cycle.           *)
BeginCycle ==
    /\ pc = "idle"
    /\ ~fetch_stall /\ read < Len(trace) => toRead = 0
    /\ toRead' = Smaller(FETCH_WIDTH, IFETCH_SIZE - Cardinality(IFETCH_BUFFER))
    /\ retired' \in retired .. dispatched
    /\ retired + 1 .. retired' \cap mispredicted = {}
    /\ resume' = IF resume > 0 THEN resume - 1 ELSE resume
    /\ pc' = "execute"
    /\ UNCHANGED <<trace, read, promoted, decoded, dispatched, inst, fetch_stall, mispredicted,
                   DIB, memoryVars, budget>>

(* do_complete_execution of a mispredicted branch that is in the ROB.      *)
do_complete_execution ==
    \E n \in mispredicted \cap DISPATCHED :
        /\ mispredicted' = mispredicted \ {n}
        /\ resume' = MISPREDICT_PENALTY

complete_inflight_instruction ==
    /\ pc = "execute"
    /\ do_complete_execution \/ UNCHANGED <<mispredicted, resume>>
    /\ pc' = "ITLB"
    /\ budget' = [width |-> FETCH_WIDTH, read |-> MAX_READ]
    /\ UNCHANGED <<trace, read, buffers, inst, toRead, fetch_stall, DIB, memoryVars>>

-----------------------------------------------------------------------------
(* handle_memory_return: a reply is given to the places it names, as far   *)
(* as the budget goes, and only if what is there wants it.                 *)
WantsAnyPage(n, bus, address) ==   \* mutant: a place named by the reply takes it
    IF bus = "ITLB" THEN inst[n].translated # "no"
    ELSE inst[n].fetched # "no" /\ inst[n].translated = "completed"

Wants(n, bus, address) ==
    IF bus = "ITLB"
    THEN Page(n) = address /\ inst[n].translated # "no"
    ELSE inst[n].pa /\ Line(n) = address
         /\ inst[n].fetched # "no" /\ inst[n].translated = "completed"

Served(i, bus) ==
    IF bus = "ITLB" THEN [i EXCEPT !.translated = "completed", !.pa = TRUE]
    ELSE [i EXCEPT !.fetched = "completed"]

(* The first reply has one instruction fewer to serve.                     *)
Shortened(replies) == [replies EXCEPT ![1].waiters = Tail(@)]

Remaining(bus) == budget.width > 0 /\ budget.read > 0 /\ PROCESSED[bus] # <<>>

(* One round of the inner loop, with the end of the outer one's round when *)
(* the reply has nobody left to serve.                                     *)
ServeOne(bus) ==
    /\ pc = bus /\ Remaining(bus)
    /\ LET reply == Head(PROCESSED[bus])
           n == CHOOSE m \in 1 .. read : Holds(m, Head(reply.waiters))
           wanted == Wants(n, bus, reply.address)
           last == Len(reply.waiters) = 1
       IN  /\ inst' = IF wanted THEN [inst EXCEPT ![n] = Served(@, bus)] ELSE inst
           /\ PROCESSED' = [PROCESSED EXCEPT ![bus] =
                    IF last THEN Tail(@) ELSE Shortened(@)]
           /\ budget' = [width |-> IF wanted THEN budget.width - 1 ELSE budget.width,
                         read |-> IF last THEN budget.read - 1 ELSE budget.read]
    /\ UNCHANGED <<pc, trace, read, buffers, toRead, stallVars, DIB, asked, arrived>>

EndServing(bus) ==
    /\ pc = bus /\ ~Remaining(bus)
    /\ pc' = IF bus = "ITLB" THEN "L1I" ELSE "dispatch"
    /\ budget' = [width |-> FETCH_WIDTH, read |-> MAX_READ]
    /\ UNCHANGED <<trace, read, buffers, inst, toRead, stallVars, DIB, memoryVars>>

-----------------------------------------------------------------------------
dispatch_instruction ==
    /\ pc = "dispatch"
    /\ dispatched' = Smaller(dispatched + DISPATCH_WIDTH,
                             Smaller(decoded, retired + ROB_SIZE))
    /\ pc' = "decode"
    /\ budget' = [width |-> DECODE_WIDTH, read |-> 0]
    /\ UNCHANGED <<trace, read, promoted, decoded, retired, inst, toRead, stallVars, DIB, memoryVars>>

(* do_dib_update: the window is brought in, in place of any other.         *)
do_dib_update(dib, w) ==
    IF w \in dib THEN {dib}
    ELSE IF Cardinality(dib) < dib_way THEN {dib \cup {w}}
    ELSE {(dib \ {v}) \cup {w} : v \in dib}

CanDecode ==
    /\ budget.width > 0
    /\ decoded < promoted
    /\ decoded - dispatched < DISPATCH_SIZE

(* decode_instruction, one instruction.  A direct branch finds out here,   *)
(* and will not do so again at execution.                                  *)
decode_instruction ==
    /\ pc = "decode" /\ CanDecode
    /\ LET n == decoded + 1 IN
       /\ DIB' \in do_dib_update(DIB, Window(n))
       /\ IF n \in mispredicted /\ Branch[trace[n]] = "direct"
          THEN mispredicted' = mispredicted \ {n} /\ resume' = MISPREDICT_PENALTY
          ELSE UNCHANGED <<mispredicted, resume>>
       /\ decoded' = n
    /\ budget' = [budget EXCEPT !.width = @ - 1]
    /\ UNCHANGED <<pc, trace, read, promoted, dispatched, retired, inst, toRead, fetch_stall, memoryVars>>

Fetched(n) == inst[n].translated = "completed" /\ inst[n].fetched = "completed"

(* How many leave IFETCH_BUFFER: the longest run at its front that is      *)
(* fetched, within the width and the room of DECODE_BUFFER.                *)
Leaving ==
    LET bound == Smaller(FETCH_WIDTH,
                         Smaller(read - promoted, DECODE_SIZE - (promoted - decoded)))
    IN  CHOOSE k \in 0 .. bound :
            /\ \A n \in promoted + 1 .. promoted + k : Fetched(n)
            /\ k < bound => ~Fetched(promoted + k + 1)

(* After decode has run out of budget, instructions or room.               *)
promote_to_decode ==
    /\ pc = "decode" /\ ~CanDecode
    /\ promoted' = promoted + Leaving
    /\ pc' = "fetch"
    /\ budget' = [width |-> 0, read |-> 0]
    /\ UNCHANGED <<trace, read, decoded, dispatched, retired, inst, toRead, stallVars, DIB, memoryVars>>

-----------------------------------------------------------------------------
(* A request of a bus names the places begin .. end - 1.                   *)
Places(begin, end) == [i \in 1 .. end - begin |-> Place(begin + i - 1)]

(* add_rq of the cache below takes the packet.  What it merges with one    *)
(* that waits there comes back here as two answers, one after the other.   *)
Accepted(bus, address, waiters) ==
    /\ Cardinality(asked[bus]) < LowerRoom
    /\ asked' = [asked EXCEPT ![bus] = @ \cup {[address |-> address, waiters |-> waiters]}]

(* The group asked for: from the first instruction in need to the first    *)
(* after it that is elsewhere.  A group that could still grow is left      *)
(* alone unless nothing is in front of it.                                 *)
IsGroup(begin, end, needing, alike) ==
    /\ begin \in needing
    /\ \A n \in promoted + 1 .. begin - 1 : n \notin needing
    /\ end \in begin + 1 .. read + 1
    /\ begin .. end - 1 \subseteq alike
    /\ end <= read => end \notin alike
    /\ end <= read \/ begin = promoted + 1

(* instruction_pa is 0 until the ITLB has answered: that is no line.      *)
NeedsFetch == {n \in IFETCH_BUFFER : inst[n].translated = "completed" /\ inst[n].fetched = "no"}
SameLine(m) == {n \in IFETCH_BUFFER :
                    inst[n].pa = inst[m].pa /\ (inst[m].pa => Line(n) = Line(m))}

NeedsTranslation == {n \in IFETCH_BUFFER : inst[n].translated = "no"}
SamePage(m) == {n \in IFETCH_BUFFER : Page(m) = Page(n)}

FetchGroup(begin, end) == IsGroup(begin, end, NeedsFetch, SameLine(begin))
PageGroupWaits(begin, end) ==   \* mutant: the last group always waits to grow
    IsGroup(begin, end, NeedsTranslation, SamePage(begin)) /\ end <= read

PageGroup(begin, end) == IsGroup(begin, end, NeedsTranslation, SamePage(begin))

EndOfStallKeepsCycle ==   \* mutant: fetch_resume_cycle is left as it is
    IF fetch_stall /\ resume = 0
    THEN fetch_stall' = FALSE /\ UNCHANGED resume
    ELSE UNCHANGED <<fetch_stall, resume>>

(* The stall ends when the penalty has passed, whatever is in the buffer.  *)
EndOfStall ==
    IF fetch_stall /\ resume = 0
    THEN fetch_stall' = FALSE /\ resume' = Never
    ELSE UNCHANGED <<fetch_stall, resume>>

AskL1IForgetsRefusal ==   \* mutant: the group is marked when add_rq returns -2 as well
    \E begin, end \in promoted + 1 .. read + 1 :
        /\ FetchGroup(begin, end)
        /\ Accepted("L1I", Line(begin), Places(begin, end)) \/ UNCHANGED asked
        /\ inst' = [n \in DOMAIN inst |->
                IF n \in begin .. end - 1 THEN [inst[n] EXCEPT !.fetched = "inflight"] ELSE inst[n]]

(* do_fetch_instruction marks its group only if the L1I took the request.  *)
AskL1I ==
    \E begin, end \in promoted + 1 .. read + 1 :
        /\ FetchGroup(begin, end)
        /\ Accepted("L1I", Line(begin), Places(begin, end))
        /\ inst' = [n \in DOMAIN inst |->
                IF n \in begin .. end - 1 THEN [inst[n] EXCEPT !.fetched = "inflight"] ELSE inst[n]]

fetch_instruction ==
    /\ pc = "fetch"
    /\ EndOfStall
    /\ AskL1I \/ UNCHANGED <<inst, asked>>
    /\ pc' = "translate"
    /\ UNCHANGED <<trace, read, buffers, toRead, mispredicted, DIB, PROCESSED, budget, arrived>>

AskITLB ==
    \E begin, end \in promoted + 1 .. read + 1 :
        /\ PageGroup(begin, end)
        /\ Accepted("ITLB", Page(begin), Places(begin, end))
        /\ inst' = [n \in DOMAIN inst |->
                IF n \in begin .. end - 1 THEN [inst[n] EXCEPT !.translated = "inflight"] ELSE inst[n]]

translate_fetch ==
    /\ pc = "translate"
    /\ AskITLB \/ UNCHANGED <<inst, asked>>
    /\ pc' = "dib"
    /\ UNCHANGED <<trace, read, buffers, toRead, stallVars, DIB, PROCESSED, budget, arrived>>

(* The places check_dib scans, by their distance from the front: it stops  *)
(* at FETCH_WIDTH or at the end, except when FETCH_WIDTH places reach past *)
(* the end of the ring and the end iterator does not; the two then compare *)
(* wrongly, and stale places are scanned as well.                          *)
ScanLength ==
    LET front == Place(promoted + 1)
        held == read - promoted
    IN  IF front + FETCH_WIDTH > IFETCH_SIZE /\ front + held <= IFETCH_SIZE
        THEN FETCH_WIDTH ELSE Smaller(held, FETCH_WIDTH)

Scanned == {n \in 1 .. read : \E i \in 1 .. ScanLength : Holds(n, Place(promoted + i))}

(* do_check_dib: what hits needs neither translation nor fetch, even if it *)
(* has been asked for.                                                     *)
check_dib ==
    /\ pc = "dib"
    /\ inst' = [n \in DOMAIN inst |->
            IF n \in Scanned /\ Window(n) \in DIB
            THEN [inst[n] EXCEPT !.translated = "completed", !.fetched = "completed"]
            ELSE inst[n]]
    /\ pc' = "idle"
    /\ UNCHANGED <<trace, read, buffers, toRead, stallVars, DIB, memoryVars, budget>>

-----------------------------------------------------------------------------
(* The ITLB or L1I answers between two cycles, in any order.               *)
return_data(bus) ==
    /\ pc = "idle"
    /\ \E p \in asked[bus] :
           /\ asked' = [asked EXCEPT ![bus] = @ \ {p}]
           /\ PROCESSED' = [PROCESSED EXCEPT ![bus] = Append(@, p)]
           /\ arrived' = [n \in DOMAIN arrived |->
                   IF n \in IFETCH_BUFFER THEN arrived[n] \cup {<<bus, p.address>>}
                   ELSE arrived[n]]
    /\ UNCHANGED <<pc, trace, read, buffers, inst, toRead, stallVars, DIB, budget>>

Handlers ==
    \/ BeginCycle
    \/ complete_inflight_instruction
    \/ \E bus \in {"ITLB", "L1I"} : ServeOne(bus) \/ EndServing(bus)
    \/ dispatch_instruction
    \/ decode_instruction
    \/ promote_to_decode
    \/ fetch_instruction
    \/ translate_fetch
    \/ check_dib

FrontEndNext ==
    \/ init_instruction
    \/ Handlers
    \/ \E bus \in {"ITLB", "L1I"} : return_data(bus)

FrontEndSpec == FrontEndInit /\ [][FrontEndNext]_feVars

(* The main loop runs the core and reads the trace for ever; the caches    *)
(* answer, and take what they refused before; the back end moves on.       *)
FrontEndFairness ==
    /\ WF_feVars(Handlers)
    /\ WF_feVars(init_instruction)
    /\ SF_feVars(return_data("ITLB")) /\ SF_feVars(return_data("L1I"))
    /\ SF_feVars(fetch_instruction /\ AskL1I) /\ SF_feVars(translate_fetch /\ AskITLB)
    /\ SF_feVars(complete_inflight_instruction /\ do_complete_execution)
    /\ SF_feVars(BeginCycle /\ retired' = dispatched)

FairFrontEnd == FrontEndSpec /\ FrontEndFairness

-----------------------------------------------------------------------------
Bus == {"ITLB", "L1I"}
Handler == {"idle", "execute", "ITLB", "L1I", "dispatch", "decode", "fetch", "translate", "dib"}
Mark == {"no", "inflight", "completed"}
InstRecord == [translated : Mark, fetched : Mark, pa : BOOLEAN]
Address == {page_of[ip] : ip \in Ip} \cup {line_of[ip] : ip \in Ip}
PlaceNumber == 0 .. IFETCH_SIZE             \* the places of IFETCH_BUFFER
Packet == {p \in [address : Address, waiters : Seq(PlaceNumber)] : p.waiters # <<>>}
Budget == [width : (0 .. FETCH_WIDTH) \cup (0 .. DECODE_WIDTH), read : 0 .. MAX_READ]

(* Every variable has its type, and every buffer, the DIB and the two      *)
(* caches below hold no more than they have room for.                      *)
FrontEndTypeOK ==
    /\ pc \in Handler
    /\ trace \in Traces
    /\ {retired, dispatched, decoded, promoted, read} \subseteq 0 .. Len(trace)
    /\ retired <= dispatched /\ dispatched <= decoded /\ decoded <= promoted /\ promoted <= read
    /\ Cardinality(IFETCH_BUFFER) <= IFETCH_SIZE
    /\ promoted - decoded <= DECODE_SIZE /\ decoded - dispatched <= DISPATCH_SIZE
    /\ Cardinality(DISPATCHED) <= ROB_SIZE
    /\ inst \in [1 .. read -> InstRecord]
    /\ toRead \in 0 .. FETCH_WIDTH
    /\ fetch_stall \in BOOLEAN /\ resume \in Never .. MISPREDICT_PENALTY
    /\ mispredicted \subseteq 1 .. read
    /\ DIB \subseteq {window_of[ip] : ip \in Ip} /\ Cardinality(DIB) <= dib_way
    /\ asked \in [Bus -> SUBSET Packet] /\ PROCESSED \in [Bus -> Seq(Packet)]
    /\ \A bus \in Bus : Cardinality(asked[bus]) <= LowerRoom
    /\ budget \in Budget
    /\ arrived \in [1 .. read -> SUBSET (Bus \X Address)]

(* A reply finds the places of a packet, not its instructions: a place may *)
(* have been left through a DIB hit and taken by another instruction since.*)
(* Still, an instruction goes to decode only when the ITLB has answered    *)
(* for its page and the L1I for its line while it was in the buffer, or    *)
(* its window had been decoded before.                                     *)
FetchedForReal ==
    [][\A n \in promoted + 1 .. promoted' :
          \/ {<<"ITLB", Page(n)>>, <<"L1I", Line(n)>>} \subseteq arrived[n]
          \/ \E m \in 1 .. decoded : Window(m) = Window(n)]_feVars

(* Some packet, asked or come back, names the place of n for what it needs.*)
Awaits(n, bus, address) ==
    \E p \in asked[bus] \cup {PROCESSED[bus][i] : i \in DOMAIN PROCESSED[bus]} :
        /\ p.address = address
        /\ \E i \in DOMAIN p.waiters : p.waiters[i] = Place(n)

(* Nothing in IFETCH_BUFFER waits for an answer nobody was asked for: marks*)
(* are set in groups, taken back by DIB hits, set again over them, and     *)
(* refused calls must leave none.  What waits for the ITLB is always still *)
(* to be answered.  What waits for the L1I is not, in one case: an answer  *)
(* to a place used again may translate an instruction out of turn, its     *)
(* group is translated again, and handle_memory_return passes it over when *)
(* the L1I answers before the ITLB does.  Both have answered for it then.  *)
WaitersAreAsked ==
    \A n \in IFETCH_BUFFER :
        /\ inst[n].translated = "inflight" => Awaits(n, "ITLB", Page(n))
        /\ inst[n].fetched = "inflight" =>
               \/ Awaits(n, "L1I", Line(n))
               \/ {<<"ITLB", Page(n)>>, <<"L1I", Line(n)>>} \subseteq arrived[n]

(* Reading stands still for one branch at a time, the last instruction     *)
(* read, and as long as fetch_stall is set either that branch is still to  *)
(* find out or the cycle to resume in is known: never neither, which would *)
(* stop the core, and never both.                                          *)
StallHasCause ==
    /\ fetch_stall <=> (mispredicted # {} \/ resume # Never)
    /\ mispredicted # {} => mispredicted = {read} /\ resume = Never

(* The answers of both have come and the L1I's was passed over: nobody is  *)
(* asked for n again.                                                      *)
FetchLost(n) ==
    /\ inst[n].fetched = "inflight" /\ ~Awaits(n, "L1I", Line(n))
    /\ {<<"ITLB", Page(n)>>, <<"L1I", Line(n)>>} \subseteq arrived[n]

FrontLost == promoted < read /\ FetchLost(promoted + 1)

(* Every instruction read gets to the ROB, and the trace is read on:       *)
(* through refused requests, DIB hits, groups that wait to grow, full      *)
(* buffers and mispredictions, unless the lost fetch of WaitersAreAsked    *)
(* reaches the front of IFETCH_BUFFER, which stops the core for good.      *)
EveryInstructionDispatched ==
    <>[](dispatched = Len(trace) \/ FrontLost)
=============================================================================
