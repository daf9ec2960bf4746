------------------------- MODULE MCPageTableWalker -------------------------
(***************************************************************************)
(* Instances of PageTableWalker for TLC: tables of two entries.  The two   *)
(* pages have all tables in common that a walk reads but the lower ones.   *)
(***************************************************************************)
EXTENDS PageTableWalker

Page(i2, i0) == [k \in 0 .. 4 |-> IF k = 2 THEN i2 ELSE IF k = 0 THEN i0 ELSE 0]

TwoPages == {Zero, Page(1, 0)}
OnlyZero == {Zero}

OneWay == [k \in 1 .. 4 |-> 1]

(* The free list in some order that is not the order of memory.             *)
Shuffled == <<3, 8, 1, 11, 5, 9, 2, 7, 10, 4, 6, 12>>

=============================================================================
