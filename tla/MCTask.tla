------------------------------- MODULE MCTask -------------------------------
(***************************************************************************)
(* Task for TLC: the kernel and two tasks.  MCTask.cfg has pages for two   *)
(* adjoining stacks of two pages, so that a stack in the middle leaves     *)
(* task_create a slot and no stack.  MCTaskLive.cfg has two stacks of one  *)
(* page that do not adjoin: tasks that store in each other's stacks would  *)
(* only add panics, which the liveness properties exempt.                  *)
(***************************************************************************)
EXTENDS Task

MCPages == 0 .. 3
MCPagesLive == {0, 2}
=============================================================================
