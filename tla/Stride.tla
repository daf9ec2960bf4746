------------------------------- MODULE Stride -------------------------------
(***************************************************************************)
(* The stride prefetcher (prefetcher/stride): a table of instructions,     *)
(* each with the address it used last, its stride and a confidence, and    *)
(* replacement bits that order the table.  An access updates the table and *)
(* may ask for two lines, one into this cache and one further ahead into   *)
(* the next.                                                               *)
(*                                                                         *)
(* An entry given to another instruction keeps the stride it had, and one  *)
(* whose confidence has gone down to 0 is allocated anew by its own        *)
(* instruction.                                                            *)
(***************************************************************************)
EXTENDS Integers

CONSTANTS
    IPT_NUM,
    LoadIp, NoIp,       \* instructions, and IPT_L1::ip before any
    Addr,               \* [LoadIp -> the addresses it uses, numbers]
    PageSize,           \* addresses in a page
    L1_STRIDE_DISTANCE, L2_STRIDE_DISTANCE,
    SP_CONF_MAX,
    Watched             \* the instruction the history is kept for

ASSUME StrideAssumption ==
    /\ {IPT_NUM, PageSize, L1_STRIDE_DISTANCE, L2_STRIDE_DISTANCE} \subseteq Nat \ {0}
    /\ SP_CONF_MAX = 3
    /\ \A ip \in LoadIp : Addr[ip] \subseteq Nat \ {0}
    /\ NoIp \notin LoadIp /\ Watched \in LoadIp

VARIABLES
    ipt,                \* [1 .. IPT_NUM -> IPT_L1]
    asked_lines,        \* what the last access asked prefetch_line for
    lastOf,             \* history: where Watched was last, 0 before it ran
    strides             \* history: how often it moved by each distance, 2 for more

strideVars == <<ipt, asked_lines, lastOf, strides>>

Index == 1 .. IPT_NUM
Distances == {a - b : a, b \in Addr[Watched]}

StrideInit ==
    /\ ipt = [i \in Index |-> [ip |-> NoIp, last_addr |-> 0, stride |-> 0, conf |-> 0,
                               rplc_bits |-> i - 1]]
    /\ asked_lines = {}
    /\ lastOf = 0
    /\ strides = [d \in Distances |-> 0]

update_conf(stride, last_stride, conf) ==
    IF stride = 0 THEN conf
    ELSE IF stride = last_stride
    THEN IF conf < SP_CONF_MAX THEN conf + 1 ELSE conf
    ELSE IF conf > 0 THEN conf - 1 ELSE 0

HitIndex(ip) == {i \in Index : ipt[i].conf # 0 /\ ipt[i].ip = ip}

TriggersEarly(e, new_stride) ==   \* mutant: a confidence of 1 is enough
    /\ e.conf >= 1 /\ e.stride # 0
    /\ e.stride = new_stride \/ (e.conf >= 3 /\ new_stride # 0)

trigger_prefetch(e, new_stride) ==
    /\ e.conf >= 2 /\ e.stride # 0
    /\ e.stride = new_stride \/ (e.conf >= 3 /\ new_stride # 0)

(* prefetcher_cache_operate asks only within the page.                     *)
Asked(ip, addr, stride) ==
    {r \in {[ip |-> ip, fill |-> "FILL_L1", address |-> addr + stride * L1_STRIDE_DISTANCE],
            [ip |-> ip, fill |-> "FILL_L2", address |-> addr + stride * L2_STRIDE_DISTANCE]} :
        r.address > 0 /\ r.address \div PageSize = addr \div PageSize}

(* Entry i becomes the one used last.                                      *)
MostRecent(t, i) ==
    [j \in Index |-> IF j = i THEN [t[j] EXCEPT !.rplc_bits = IPT_NUM - 1]
                     ELSE IF t[j].rplc_bits > t[i].rplc_bits
                     THEN [t[j] EXCEPT !.rplc_bits = @ - 1] ELSE t[j]]

Observed(ip, addr) ==
    IF ip # Watched THEN UNCHANGED <<lastOf, strides>>
    ELSE /\ lastOf' = addr
         /\ strides' = IF lastOf = 0 THEN strides
                       ELSE [strides EXCEPT ![addr - lastOf] = IF @ = 2 THEN 2 ELSE @ + 1]

StrideHit(ip, addr) ==
    \E i \in HitIndex(ip) :
        LET e == ipt[i]
            new_stride == addr - e.last_addr
            trained == [e EXCEPT !.last_addr = addr,
                                 !.conf = update_conf(new_stride, e.stride, e.conf),
                                 !.stride = IF e.conf <= 1 THEN new_stride ELSE @]
        IN  /\ \A j \in HitIndex(ip) : j <= i
            /\ asked_lines' = IF trigger_prefetch(e, new_stride) THEN Asked(ip, addr, e.stride) ELSE {}
            /\ ipt' = MostRecent([ipt EXCEPT ![i] = IF new_stride = 0 THEN e ELSE trained], i)

(* The entry a new instruction gets: its own, else the least recent of     *)
(* those without confidence, else the least recent.                        *)
Replaceable(ip) ==
    LET own == {i \in Index : ipt[i].ip = ip}
        doubtful == {i \in Index : ipt[i].conf < 2}
    IN  IF own # {} THEN {i \in own : \A j \in own : j <= i}
        ELSE IF doubtful # {}
        THEN {i \in doubtful : \A j \in doubtful : ipt[i].rplc_bits < ipt[j].rplc_bits
                                                   \/ (ipt[i].rplc_bits = ipt[j].rplc_bits /\ i <= j)}
        ELSE {i \in Index : ipt[i].rplc_bits = 0}

StrideMiss(ip, addr) ==
    /\ HitIndex(ip) = {}
    /\ \E i \in Replaceable(ip) :
          ipt' = MostRecent([ipt EXCEPT ![i].ip = ip, ![i].last_addr = addr, ![i].conf = 1], i)
    /\ asked_lines' = {}

prefetcher_cache_operate(ip, addr) ==
    /\ StrideHit(ip, addr) \/ StrideMiss(ip, addr)
    /\ Observed(ip, addr)

StrideNext == \E ip \in LoadIp : \E addr \in Addr[ip] : prefetcher_cache_operate(ip, addr)

StrideSpec == StrideInit /\ [][StrideNext]_strideVars

-----------------------------------------------------------------------------
StrideTypeOK ==
    /\ \A i \in Index : /\ ipt[i].ip \in LoadIp \cup {NoIp}
                        /\ ipt[i].conf \in 0 .. SP_CONF_MAX
                        /\ ipt[i].rplc_bits \in 0 .. IPT_NUM - 1

(* A line is only asked for at a distance that is a multiple of a stride   *)
(* this very instruction has made twice or more, though entries pass from  *)
(* one instruction to another with their stride in them.                   *)
AsksAfterTwo ==
    \A r \in asked_lines : r.ip = Watched =>
        \E d \in Distances : strides[d] = 2 /\ r \in Asked(Watched, lastOf, d)
=============================================================================
