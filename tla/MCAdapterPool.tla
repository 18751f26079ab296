--------------------------- MODULE MCAdapterPool ---------------------------
(* Two nodes with two versions of their links and a pool of one adapter, so *)
(* that every acquire of another node evicts.  No symmetry: the run checks  *)
(* liveness.                                                                *)
EXTENDS AdapterPool
=============================================================================
