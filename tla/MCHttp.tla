------------------------------ MODULE MCHttp ------------------------------
(* Small instance of Http for TLC.                                         *)
EXTENDS Http
===========================================================================
