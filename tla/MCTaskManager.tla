--------------------------- MODULE MCTaskManager ---------------------------
(* One task, and one goroutine that reloads the cache: tasks share no state *)
(* but the mutex and the reload, which treats each by itself.  Restarts,    *)
(* clean-ups and the reload's steps fall anywhere between the other steps.  *)
EXTENDS TaskManager
=============================================================================
