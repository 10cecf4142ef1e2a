------------------------------ MODULE MCReactor -------------------------------
(* Reactor on small instances: two workers and three tasks, so that a task can *)
(* spawn onto the other worker while a third one keeps that worker busy.       *)
EXTENDS Reactor
===============================================================================
