-------------------------- MODULE MCNonblockWriter --------------------------
(* A small serial port and vectors of one to three bytes. *)
EXTENDS NonblockWriter
=============================================================================
