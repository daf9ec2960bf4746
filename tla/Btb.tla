--------------------------------- MODULE Btb ---------------------------------
(***************************************************************************)
(* The branch target buffer of one core (btb/basic_btb): a return address  *)
(* stack kept in a ring, a table that learns how long the instruction at a *)
(* call site is, a table of indirect targets, and one set of the BTB       *)
(* proper.  init_instruction asks for a prediction and reports the outcome *)
(* of the same branch before it looks at another one, so a branch is one   *)
(* action that does both.                                                  *)
(*                                                                         *)
(* The program calls and returns in a nested way, from wherever its trace  *)
(* begins: it may return from calls made before.  Addresses are numbers,   *)
(* since a return is predicted by adding a size to one.  A branch that is  *)
(* not taken has target 0, as init_instruction sets it.                    *)
(***************************************************************************)
EXTENDS Integers, Sequences

CONSTANTS
    RAS_SIZE,           \* BASIC_BTB_RAS_SIZE
    WAYS,               \* BASIC_BTB_WAYS
    CallIp,             \* addresses of calls,
    IndirectIp,         \* of indirect branches, calls or not,
    ConditionalIp,      \* and of conditional branches; the others jump
    BranchIp,
    CallSize,           \* [CallIp -> length of the instruction]
    tracker_of,         \* [CallIp \cup {0} -> basic_btb_call_size_tracker_hash]
    hash_of,            \* [IndirectIp -> [histories -> basic_btb_indirect_hash]]
    HISTORY,            \* bits of the history the hash looks at
    Goal,               \* where branches go
    Elsewhere,          \* where a return goes whose call is not in the trace
    MaxDepth, MaxUses   \* bounds: open calls, uses of entries of the BTB

ASSUME BtbAssumption ==
    /\ {RAS_SIZE, WAYS, MaxDepth, MaxUses} \subseteq Nat \ {0}
    /\ HISTORY \in Nat /\ 2 ^ HISTORY \in Nat \ {0}   \* the provers know no powers
    /\ CallIp \cup IndirectIp \cup ConditionalIp \subseteq BranchIp
    /\ ConditionalIp \cap (CallIp \cup IndirectIp) = {}
    /\ BranchIp \cup Goal \subseteq Nat \ {0}
    /\ Elsewhere \in Nat /\ \A ip \in CallIp \cup {0} : Elsewhere > ip + 10
    /\ \A ip \in CallIp : CallSize[ip] \in 1 .. 10 /\ ip + CallSize[ip] > 10

VARIABLES
    basic_btb_ras, basic_btb_ras_index,
    basic_btb_call_instr_sizes,
    basic_btb_conditional_history, basic_btb_indirect,
    basic_btb,              \* [way -> entry], one set
    basic_btb_lru_counter,
    callers,                \* history: the program's open calls, newest first
    kept,                   \* history: how many of them the ring has room for
    known,                  \* history: [tracker -> the call last returned from]
    outcome                 \* history: [ip -> the target last time, 0 if none]

rasVars == <<basic_btb_ras, basic_btb_ras_index>>
returnVars == <<basic_btb_call_instr_sizes, known>>
stackVars == <<callers, kept>>
indirectVars == <<basic_btb_conditional_history, basic_btb_indirect>>
tableVars == <<basic_btb, basic_btb_lru_counter, outcome>>
btbVars == <<rasVars, returnVars, stackVars, indirectVars, tableVars>>

BtbWay == 0 .. WAYS - 1
Slot == 0 .. RAS_SIZE - 1
Tracker == {tracker_of[ip] : ip \in CallIp \cup {0}}
Histories == 0 .. 2 ^ HISTORY - 1
IndirectEntry == {hash_of[ip][x] : ip \in IndirectIp, x \in Histories}
DirectIp == BranchIp \ IndirectIp

BtbInit ==
    /\ basic_btb_ras = [s \in Slot |-> 0] /\ basic_btb_ras_index = 0
    /\ basic_btb_call_instr_sizes = [t \in Tracker |-> 4]
    /\ basic_btb_conditional_history = 0
    /\ basic_btb_indirect = [h \in IndirectEntry |-> 0]
    /\ basic_btb = [w \in BtbWay |-> [ip_tag |-> 0, target |-> 0, always_taken |-> FALSE, lru |-> 0]]
    /\ basic_btb_lru_counter = 0
    /\ callers = <<>> /\ kept = 0
    /\ known = [t \in Tracker |-> 0]
    /\ outcome = [ip \in DirectIp |-> 0]

-----------------------------------------------------------------------------
(* The return address stack.                                               *)
push_basic_btb_ras(ip) ==
    LET next == IF basic_btb_ras_index + 1 = RAS_SIZE THEN 0 ELSE basic_btb_ras_index + 1
    IN  /\ basic_btb_ras_index' = next
        /\ basic_btb_ras' = [basic_btb_ras EXCEPT ![next] = ip]

peek_basic_btb_ras == basic_btb_ras[basic_btb_ras_index]

PopsWithoutWrap ==   \* mutant: the index stops at 0
    /\ basic_btb_ras' = [basic_btb_ras EXCEPT ![basic_btb_ras_index] = 0]
    /\ basic_btb_ras_index' = IF basic_btb_ras_index = 0 THEN 0 ELSE basic_btb_ras_index - 1

pop_basic_btb_ras ==
    /\ basic_btb_ras' = [basic_btb_ras EXCEPT ![basic_btb_ras_index] = 0]
    /\ basic_btb_ras_index' = IF basic_btb_ras_index = 0 THEN RAS_SIZE - 1
                              ELSE basic_btb_ras_index - 1

(* btb_prediction of a return.                                             *)
ReturnPrediction ==
    peek_basic_btb_ras + basic_btb_call_instr_sizes[tracker_of[peek_basic_btb_ras]]

basic_btb_abs_addr_dist(a, b) == IF a > b THEN a - b ELSE b - a

TracksTheTop(call_ip, target) ==   \* mutant: the tracker of the call below is set
    LET below == basic_btb_ras'[basic_btb_ras_index']
    IN  IF basic_btb_abs_addr_dist(call_ip, target) <= 10
        THEN [basic_btb_call_instr_sizes EXCEPT
                ![tracker_of[below]] = basic_btb_abs_addr_dist(call_ip, target)]
        ELSE basic_btb_call_instr_sizes

(* The size the popped call seems to have, if it is near enough to be one. *)
Recalibrated(call_ip, target) ==
    IF basic_btb_abs_addr_dist(call_ip, target) <= 10
    THEN [basic_btb_call_instr_sizes EXCEPT
            ![tracker_of[call_ip]] = basic_btb_abs_addr_dist(call_ip, target)]
    ELSE basic_btb_call_instr_sizes

Returned(target) ==
    /\ pop_basic_btb_ras
    /\ basic_btb_call_instr_sizes' = Recalibrated(peek_basic_btb_ras, target)
    /\ UNCHANGED <<indirectVars, tableVars>>

Return ==
    /\ callers # <<>>
    /\ Returned(Head(callers) + CallSize[Head(callers)])
    /\ callers' = Tail(callers)
    /\ kept' = IF kept > 0 THEN kept - 1 ELSE 0
    /\ known' = IF kept > 0 THEN [known EXCEPT ![tracker_of[Head(callers)]] = Head(callers)]
                ELSE known

(* From a call made before the trace begins.                               *)
ReturnToElsewhere ==
    /\ callers = <<>>
    /\ Returned(Elsewhere)
    /\ UNCHANGED <<stackVars, known>>

-----------------------------------------------------------------------------
(* The BTB, for branches that are not returns nor indirect: whatever hits  *)
(* is used once by the prediction; the update then allocates, for a taken  *)
(* branch, or changes the entry.                                           *)
Hits(ip) == {w \in BtbWay : basic_btb[w].ip_tag = ip}

(* basic_btb_get_lru_entry.                                                *)
IsLru(w) ==
    /\ \A v \in BtbWay : basic_btb[w].lru <= basic_btb[v].lru
    /\ \A v \in 0 .. w - 1 : basic_btb[w].lru < basic_btb[v].lru

KeepsTarget(w, target) ==   \* mutant: a branch not taken leaves the target
    [basic_btb[w] EXCEPT
        !.target = IF target = 0 THEN @ ELSE target,
        !.always_taken = @ /\ target # 0,
        !.lru = basic_btb_lru_counter]

Changed(w, target) ==
    [basic_btb[w] EXCEPT
        !.target = target,
        !.always_taken = @ /\ target # 0,
        !.lru = basic_btb_lru_counter]

Allocated(ip, target) ==
    [ip_tag |-> ip, target |-> target, always_taken |-> TRUE, lru |-> basic_btb_lru_counter]

UseTable(ip, target) ==
    /\ outcome' = [outcome EXCEPT ![ip] = target]
    /\ IF Hits(ip) = {} /\ target = 0
       THEN UNCHANGED <<basic_btb, basic_btb_lru_counter>>
       ELSE /\ basic_btb_lru_counter < MaxUses
            /\ basic_btb_lru_counter' = basic_btb_lru_counter + 1
            /\ \E w \in BtbWay :
                 IF Hits(ip) = {}
                 THEN /\ IsLru(w)
                      /\ basic_btb' = [basic_btb EXCEPT ![w] = Allocated(ip, target)]
                 ELSE /\ w \in Hits(ip)
                      /\ basic_btb' = [basic_btb EXCEPT ![w] = Changed(w, target)]

(* The indirect table, at the place the history gives.                     *)
UseIndirect(ip, target) ==
    basic_btb_indirect' =
        [basic_btb_indirect EXCEPT ![hash_of[ip][basic_btb_conditional_history]] = target]

Call(ip) ==
    /\ Len(callers) < MaxDepth
    /\ push_basic_btb_ras(ip)
    /\ callers' = <<ip>> \o callers
    /\ kept' = IF kept < RAS_SIZE THEN kept + 1 ELSE kept
    /\ \E target \in Goal :
          IF ip \in IndirectIp
          THEN UseIndirect(ip, target) /\ UNCHANGED tableVars
          ELSE UseTable(ip, target) /\ UNCHANGED basic_btb_indirect
    /\ UNCHANGED <<returnVars, basic_btb_conditional_history>>

Conditional(ip) ==
    /\ \E target \in Goal \cup {0} :
          /\ UseTable(ip, target)
          /\ basic_btb_conditional_history' =
                (2 * basic_btb_conditional_history + (IF target # 0 THEN 1 ELSE 0)) % 2 ^ HISTORY
    /\ UNCHANGED <<rasVars, returnVars, stackVars, basic_btb_indirect>>

Jump(ip) ==
    /\ \E target \in Goal :
          IF ip \in IndirectIp
          THEN UseIndirect(ip, target) /\ UNCHANGED tableVars
          ELSE UseTable(ip, target) /\ UNCHANGED basic_btb_indirect
    /\ UNCHANGED <<rasVars, returnVars, stackVars, basic_btb_conditional_history>>

BtbNext ==
    \/ Return \/ ReturnToElsewhere
    \/ \E ip \in CallIp : Call(ip)
    \/ \E ip \in ConditionalIp : Conditional(ip)
    \/ \E ip \in BranchIp \ (CallIp \cup ConditionalIp) : Jump(ip)

BtbSpec == BtbInit /\ [][BtbNext]_btbVars

-----------------------------------------------------------------------------
BtbEntry == [ip_tag : DirectIp \cup {0}, target : Goal \cup {0},
             always_taken : BOOLEAN, lru : 0 .. MaxUses]

(* Every variable has its type: the ring and its index, the sizes, the     *)
(* history and the indirect table, the entries of the BTB and its counter, *)
(* and what is kept of the program's past.                                 *)
BtbTypeOK ==
    /\ basic_btb_ras \in [Slot -> CallIp \cup {0}]
    /\ basic_btb_ras_index \in Slot
    /\ basic_btb_call_instr_sizes \in [Tracker -> 0 .. 10]
    /\ basic_btb_conditional_history \in Histories
    /\ basic_btb_indirect \in [IndirectEntry -> Goal \cup {0}]
    /\ basic_btb \in [BtbWay -> BtbEntry]
    /\ basic_btb_lru_counter \in 0 .. MaxUses
    /\ callers \in Seq(CallIp) /\ Len(callers) <= MaxDepth
    /\ kept \in 0 .. RAS_SIZE /\ kept <= Len(callers)
    /\ known \in [Tracker -> CallIp \cup {0}]
    /\ outcome \in [DirectIp -> Goal \cup {0}]

(* The slot k places below the top.                                        *)
Below(k) == IF basic_btb_ras_index >= k THEN basic_btb_ras_index - k
            ELSE basic_btb_ras_index - k + RAS_SIZE

S == INSTANCE ReturnStack
     WITH places <- RAS_SIZE, CallSite <- CallIp, NoCall <- 0,
          open <- [k \in 1 .. RAS_SIZE |-> basic_btb_ras[Below(k - 1)]]

(* The ring, with an index that wraps both ways, slots that are zeroed     *)
(* when they are popped and no count of what is in it, is a stack that     *)
(* forgets its oldest call: also after it ran over, and after returns it   *)
(* has no call for.                                                        *)
ImplementsReturnStack == S!StackSpec

(* A return goes where it is predicted to go when the ring still has its   *)
(* call and the size of the instruction there was seen by a return before, *)
(* however many calls and returns were nested in between.                  *)
ReturnPredicted ==
    kept > 0 /\ known[tracker_of[Head(callers)]] = Head(callers) =>
        ReturnPrediction = Head(callers) + CallSize[Head(callers)]

(* What the BTB has for a branch is what that branch did last, and it is   *)
(* called always taken only if it was taken then: an entry found by its    *)
(* tag is the only one of its branch, though entries come and go.          *)
KnowsLastOutcome ==
    \A w \in BtbWay : basic_btb[w].ip_tag # 0 =>
        /\ basic_btb[w].target = outcome[basic_btb[w].ip_tag]
        /\ basic_btb[w].always_taken => basic_btb[w].target # 0
=============================================================================
