----------------------------- MODULE ReturnStack -----------------------------
(***************************************************************************)
(* What a return address stack of a fixed size promises: the calls not yet *)
(* returned from, newest first, as many as there are places; NoCall fills  *)
(* the rest.  A call too many pushes the oldest one out, and a return too  *)
(* many finds NoCall.  Btb is shown to implement it with a ring.           *)
(***************************************************************************)
EXTENDS Integers

CONSTANTS
    places,             \* how many calls are kept
    CallSite, NoCall

VARIABLE open           \* [1 .. places -> CallSite \cup {NoCall}]

StackInit == open = [k \in 1 .. places |-> NoCall]

PushCall(ip) == open' = [k \in 1 .. places |-> IF k = 1 THEN ip ELSE open[k - 1]]

PopCall == open' = [k \in 1 .. places |-> IF k = places THEN NoCall ELSE open[k + 1]]

StackNext == (\E ip \in CallSite : PushCall(ip)) \/ PopCall

StackSpec == StackInit /\ [][StackNext]_open
=============================================================================
