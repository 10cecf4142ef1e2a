----------------------------- MODULE MCAsyncFile ------------------------------
(* AsyncFile on small instances: two fibers of two operations each on a pool   *)
(* of two threads; one of the fibers may abandon its waits.                    *)
EXTENDS AsyncFile
===============================================================================
