--------------------------- MODULE MCThreadedStream ---------------------------
(* ThreadedStream on a small instance: two threads of two writes each, two     *)
(* calls of __del__, and a writer that may or may not be done in time.         *)
EXTENDS ThreadedStream
===============================================================================
