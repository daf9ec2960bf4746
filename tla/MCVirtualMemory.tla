-------------------------- MODULE MCVirtualMemory --------------------------
(***************************************************************************)
(* VirtualMemory for TLC with one table to a physical page, as config.sh   *)
(* sets it up by default and champsim_config_8C.json does.                 *)
(***************************************************************************)
EXTENDS VirtualMemory

TwoPages == {v \in [0 .. 1 -> 0 .. 1] : v[1] = 0}

Shuffled == <<3, 1, 4, 2, 6, 5>>

=============================================================================
