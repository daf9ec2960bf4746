------------------------------ MODULE ReadyFifo ------------------------------
(***************************************************************************)
(* What a queue with delays promises: members leave in the order they came,*)
(* each only after it has waited out its delay, and never more than        *)
(* capacity are held.  DelayQueue, the ring of inc/delay_queue.hpp, is     *)
(* shown to implement it.                                                  *)
(***************************************************************************)
EXTENDS Integers, Sequences

CONSTANTS capacity, Member, Delay

VARIABLES
    members,            \* oldest first
    waits,              \* what each still has to wait
    ready               \* how many may leave before the next tick

fifoVars == <<members, waits, ready>>

FifoInit == members = <<>> /\ waits = <<>> /\ ready = 0

Push(m, d) ==
    /\ Len(members) < capacity
    /\ members' = Append(members, m)
    /\ waits' = Append(waits, d)
    /\ UNCHANGED ready

Pop ==
    /\ ready > 0
    /\ members' = Tail(members)
    /\ waits' = Tail(waits)
    /\ ready' = ready - 1

(* A member may leave once it and everything before it is ready.           *)
Tick ==
    /\ waits' = [i \in DOMAIN waits |-> IF waits[i] > 0 THEN waits[i] - 1 ELSE 0]
    /\ ready' \in 0 .. Len(waits)
    /\ \A i \in 1 .. ready' : waits'[i] = 0
    /\ ready' < Len(waits) => waits'[ready' + 1] > 0
    /\ UNCHANGED members

FifoNext == (\E m \in Member, d \in Delay : Push(m, d)) \/ Pop \/ Tick

FifoSpec == FifoInit /\ [][FifoNext]_fifoVars
=============================================================================
