------------------------------- MODULE MCQueue --------------------------------
(* Queue on a small instance.  Two producers of three items against a limit    *)
(* of two make put() refuse; a semaphore that holds one token loses posts; two *)
(* consumers take each other's tokens.                                         *)
EXTENDS Queue
===============================================================================
