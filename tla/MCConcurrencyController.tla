---------------------- MODULE MCConcurrencyController ----------------------
(* One or eight cores and a check of twenty-two nodes: the limit of the     *)
(* latency tests of one core rises from five through the machine's maximum  *)
(* of twenty and is cut again, that of eight cores is bounded by the number *)
(* of nodes, and speed tests start with one slot and with four.  The runs   *)
(* that show a disagreement use seven nodes and up to sixteen cores.        *)
EXTENDS ConcurrencyController
=============================================================================
