----------------------------- MODULE MCThreadPool -----------------------------
(* ThreadPool on a small instance: three jobs on two workers, so that one      *)
(* queue gets two of them and, with a limit of two, is full for the sentinel   *)
(* or for the second job.  The ticket counter wraps after two.                 *)
EXTENDS ThreadPool
===============================================================================
