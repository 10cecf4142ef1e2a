----------------------------- MODULE MCTcpServer ------------------------------
(* TcpServer on small instances: two clients and three shutdown() calls, one   *)
(* of them waiting; a wake pair of two bytes, read one byte at a time, so      *)
(* that it can be full and can be left non-empty.                              *)
EXTENDS TcpServer
===============================================================================
