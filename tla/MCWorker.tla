------------------------------- MODULE MCWorker -------------------------------
(* Worker on small instances: two tasks, one socket and one pool job, each     *)
(* task waiting once.  Two tasks are enough for two waiters on one socket, for *)
(* a task that schedules another one, and for a fiber that is used again.      *)
(* Safety: one task may yield and sleep, and somebody shuts the worker down.   *)
(* Liveness: nobody yields and nobody shuts the worker down.                   *)
EXTENDS Worker
===============================================================================
