---------------------------- MODULE MCLiveTasks ----------------------------
(* One task, of either kind: two tasks meet only in the buffers, and a      *)
(* buffer of one event is full as soon as anything waits in it.             *)
EXTENDS LiveTasks

CONSTANT t1

MCEvent == [task : Task, kind : {"active", "ended"}]
=============================================================================
