-------------------------- MODULE MCWritePipeline --------------------------
(* A small instance of WritePipeline for TLC.                               *)
EXTENDS WritePipeline

CONSTANTS u1, u2

MCUser == {u1, u2}
============================================================================
