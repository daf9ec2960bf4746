------------------------------ MODULE MCCache ------------------------------
(***************************************************************************)
(* Instances of Cache for TLC.  An L2 or LLC: lines are written back to it *)
(* and prefetched into it.  An L1D: two addresses share a line, stores     *)
(* arrive as RFO packets in the write queue, and prefetches carry virtual  *)
(* addresses; a TLB or L1I does less than that, it is only read.           *)
(***************************************************************************)
EXTENDS Cache, TLC

CONSTANTS a1, a2, a3, v1

(* Every address is a line of its own. *)
SameLine == [a \in Addr |-> a]

(* a1 and a2 are two words of the line a1. *)
TwoWords == [a \in Addr |-> IF a = a2 THEN a1 ELSE a]

OneSet == [l \in Line |-> 0]

(* The prefetcher works with physical addresses, or with the virtual one v1. *)
Physical == [a \in Prefetchable |-> a]
Virtual  == [v \in Prefetchable |-> a3]

NoFunction == [x \in {} |-> x]

Symmetry == Permutations(Requester)

=============================================================================
