-------------------------------- MODULE MCDib --------------------------------
(* A DIB set of two entries and three windows.                             *)
EXTENDS Dib
=============================================================================
