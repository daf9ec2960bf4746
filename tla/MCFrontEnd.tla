----------------------------- MODULE MCFrontEnd -----------------------------
(***************************************************************************)
(* Instance of FrontEnd for TLC: two pages, three lines, branches of every *)
(* kind that is known at a different time, and an IFETCH_BUFFER of two, so *)
(* that each place is used three times while replies are late.             *)
(***************************************************************************)
EXTENDS FrontEnd

CONSTANTS a1, a2, a3, a4, a5, b1

PageOf == [i \in Ip |-> IF i = b1 THEN "q" ELSE "p"]
LineOf == [i \in Ip |-> IF i = b1 THEN "lb" ELSE IF i \in {a3, a4} THEN "la2" ELSE "la1"]
WindowOf == [i \in Ip |-> IF i = a2 THEN a1 ELSE i]
BranchOf == [i \in Ip |-> CASE i = b1 -> "indirect" [] i = a3 -> "direct"
                            [] i = a2 -> "taken" [] OTHER -> "none"]

(* Loops over a page, branches to the other page and back, and, the last    *)
(* one, six instructions of a page, in which the answer of L1I may come to  *)
(* a place whose next instruction is not translated yet: FetchLost.         *)
TheTraces == {<<a1, a1, a1, b1, b1>>, <<a1, a2, a3, a1, a2>>, <<a1, a1, b1, a1, b1>>,
              <<b1, b1, a3, a1, a1>>, <<a3, a3, a1, a1, b1>>, <<a2, a1, a1, a4, a5, a1>>}
=============================================================================
