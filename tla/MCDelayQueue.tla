---------------------------- MODULE MCDelayQueue ----------------------------
(* DelayQueue with members pushed with two latencies, as promote_to_decode *)
(* pushes into DECODE_BUFFER; everything is fixed by the .cfg.             *)
EXTENDS DelayQueue
=============================================================================
