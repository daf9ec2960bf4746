------------------------------ MODULE MCOooCpu ------------------------------
(* Programs of a few instructions over one register and one address.       *)
EXTENDS OooCpu
CONSTANTS r, a

Alu   == [src |-> {r}, dst |-> {r}, load |-> None, store |-> None]
Chase == [src |-> {r}, dst |-> {r}, load |-> a, store |-> None]
Load  == [src |-> {}, dst |-> {}, load |-> a, store |-> None]
Store == [src |-> {r}, dst |-> {}, load |-> None, store |-> a]
Amo   == [src |-> {}, dst |-> {r}, load |-> a, store |-> a]

Kinds  == {Alu, Chase, Load, Store, Amo}
NoAmos == {Alu, Chase, Load, Store}
=============================================================================
