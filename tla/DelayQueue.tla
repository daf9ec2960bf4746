----------------------------- MODULE DelayQueue -----------------------------
(***************************************************************************)
(* The queue under RQ, WQ, PQ and VAPQ of a cache, RQ of the page table    *)
(* walker and the DECODE and DISPATCH buffers of a core: a ring of members *)
(* (inc/circular_buffer.hpp) and, beside it, a ring of delays              *)
(* (inc/delay_queue.hpp).  Both have one place more than the queue's size, *)
(* so that a full ring differs from an empty one.                          *)
(*                                                                         *)
(* A delay that is no longer positive is kept at 0: the code lets it go    *)
(* negative and only asks for its sign.  clear() has no caller.            *)
(***************************************************************************)
EXTENDS Integers, Sequences

CONSTANTS
    sz,                 \* delay_queue::sz
    Latency,            \* the latencies members are pushed with
    Item, NoItem        \* values, and the content of a place never used

ASSUME DelayQueueAssumption ==
    /\ sz \in Nat \ {0}
    /\ Latency \subseteq Nat /\ Latency # {}
    /\ NoItem \notin Item /\ Item # {}

VARIABLES
    buf,                \* _buf
    delays,             \* _delays
    end_ready           \* _end_ready, a position in _buf

ringVars == <<buf, delays, end_ready>>

Pos == 0 .. sz

(* circ_inc: n is never more than a turn in either direction.              *)
circ_inc(base, n) ==
    LET new == base + n
    IN  IF new < 0 THEN new + (sz + 1) ELSE IF new > sz THEN new - (sz + 1) ELSE new

DistanceIgnoresWrap(r, p, q) == p - q   \* mutant: the iterators' positions

(* Iterator p minus iterator q of ring r.                                  *)
Distance(r, p, q) ==
    IF p < r.head /\ r.head <= q THEN (sz + 1) + (p - q)
    ELSE IF q < r.head /\ r.head <= p THEN (sz + 1) - (p - q)
    ELSE p - q

occupancy(r) == Distance(r, r.tail, r.head)

(* begin() != end_ready(): iterators differ when one is less.              *)
Less(r, p, q) == Distance(r, q, p) > 0

has_ready == Less(buf, buf.head, end_ready) \/ Less(buf, end_ready, buf.head)

PushedBack(r, x) ==
    [r EXCEPT !.entry[r.tail] = x, !.tail = circ_inc(r.tail, 1)]

PoppedFront(r) == [r EXCEPT !.head = circ_inc(r.head, 1)]

DelayQueueInit ==
    /\ buf = [entry |-> [p \in Pos |-> NoItem], head |-> 0, tail |-> 0]
    /\ delays = [entry |-> [p \in Pos |-> 0], head |-> 0, tail |-> 0]
    /\ end_ready = 0

(* push_back and, with latency 0, push_back_ready; callers look at full()  *)
(* or at the occupancy first.                                              *)
push_back(x, latency) ==
    /\ occupancy(buf) # sz
    /\ buf' = PushedBack(buf, x)
    /\ delays' = PushedBack(delays, latency)
    /\ UNCHANGED end_ready

(* Every caller asks has_ready() before.                                   *)
pop_front ==
    /\ has_ready
    /\ buf' = PoppedFront(buf)
    /\ delays' = PoppedFront(delays)
    /\ UNCHANGED end_ready

(* std::partition_point, a binary search for the first of the n delays of  *)
(* ring r that is positive, counted from 0.                                *)
partition_point(r, n) ==
    LET Bisect[len \in 0 .. n] ==
            [first \in Nat |->
                LET half == len \div 2
                IN  IF len = 0 THEN first
                    ELSE IF r.entry[circ_inc(r.head, first + half)] <= 0
                    THEN Bisect[len - half - 1][first + half + 1]
                    ELSE Bisect[half][first]]
    IN  Bisect[n][0]

(* The delays of the members in the ring, lowered by a cycle.              *)
Lowered(r) ==
    [r EXCEPT !.entry = [p \in Pos |->
        IF (\E i \in 0 .. occupancy(r) - 1 : p = circ_inc(r.head, i)) /\ r.entry[p] > 0
        THEN r.entry[p] - 1 ELSE r.entry[p]]]

operate ==
    /\ delays' = Lowered(delays)
    /\ end_ready' = circ_inc(buf.head, partition_point(delays', occupancy(delays')))
    /\ UNCHANGED buf

DelayQueueNext ==
    \/ \E x \in Item, latency \in Latency : push_back(x, latency)
    \/ pop_front
    \/ operate

DelayQueueSpec == DelayQueueInit /\ [][DelayQueueNext]_ringVars

-----------------------------------------------------------------------------
RingOf(V) == [entry: [Pos -> V], head: Pos, tail: Pos]

DelayQueueTypeOK ==
    /\ buf \in RingOf(Item \cup {NoItem})
    /\ delays \in RingOf(Nat)
    /\ end_ready \in Pos

(* The content of a ring, oldest first.                                    *)
Content(r) ==
    [i \in 1 .. occupancy(r) |-> r.entry[circ_inc(r.head, i - 1)]]

F == INSTANCE ReadyFifo
     WITH capacity <- sz, Member <- Item, Delay <- Latency,
          members <- Content(buf), waits <- Content(delays),
          ready <- Distance(buf, end_ready, buf.head)

(* Two rings that wrap around, an end iterator computed by binary search   *)
(* once a cycle and compared by a distance that adjusts for the wrap: as   *)
(* long as every member is pushed with the same latency, they behave as    *)
(* the queue the class promises, whatever is pushed and popped in between. *)
ImplementsReadyFifo == F!FifoSpec

(* "end_ready() will always point to the first non-ready member": nothing  *)
(* in front of it still has a delay to wait out.                           *)
OnlyReadyReleased ==
    \A i \in 1 .. Distance(buf, end_ready, buf.head) : Content(delays)[i] <= 0
=============================================================================
