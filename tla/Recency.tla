------------------------------ MODULE Recency ------------------------------
(***************************************************************************)
(* What a least-recently-used set of ways promises, whatever it counts     *)
(* with.  The ways in use are ordered by their last use, an access makes   *)
(* its way the most recent one, and a fill of a full set evicts the way    *)
(* nobody has used for longest.  LruPolicy, the counters of                *)
(* replacement/lru/lru.cc, is shown to implement it.                       *)
(***************************************************************************)
CONSTANT Way            \* the ways of one set

VARIABLES
    inUse,              \* ways that hold a line
    newer               \* <<a, b>>: both in use, a used after b

recencyVars == <<inUse, newer>>

RecencyTypeOK == inUse \subseteq Way /\ newer \subseteq inUse \X inUse

RecencyInit == inUse = {} /\ newer = {}

(* The way every other way in use is newer than.                           *)
Oldest(w) == w \in inUse /\ \A v \in inUse \ {w} : <<v, w>> \in newer

(* The order once w has been used: the others keep theirs.                 *)
Promoted(w) ==
    {p \in newer : p[1] # w /\ p[2] # w} \cup ({w} \X (inUse \ {w}))

Touch(w) ==
    /\ w \in inUse
    /\ newer' = Promoted(w)
    /\ UNCHANGED inUse

Occupy(w) ==
    /\ IF inUse = Way THEN Oldest(w) ELSE w \notin inUse
    /\ inUse' = inUse \cup {w}
    /\ newer' = Promoted(w)

RecencyNext == \E w \in Way : Touch(w) \/ Occupy(w)

RecencySpec == RecencyInit /\ [][RecencyNext]_recencyVars
=============================================================================
