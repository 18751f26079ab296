-------------------------- MODULE MCNodeCheckJobs --------------------------
(* One job, two airports, and two owners: a new one may be reserved while  *)
(* the old one is on its way out.                                          *)
EXTENDS NodeCheckJobs
=============================================================================
