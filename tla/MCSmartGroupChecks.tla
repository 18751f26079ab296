------------------------ MODULE MCSmartGroupChecks ------------------------
(* Two groups that share a profile or do not, one airport.  Four goroutines *)
(* are enough for three starts: with fewer, Fresh would have nothing to     *)
(* choose from in FinishBatch, which TLC reports.                           *)
EXTENDS SmartGroupChecks

SharedOrOwn ==
  {[g \in Group |-> 1], CHOOSE f \in [Group -> 1 .. 2] : \A g, h \in Group : g # h => f[g] # f[h]}
=============================================================================
