----------------------------- MODULE MCH1Client -----------------------------
(* H1Client for TLC: two pipelined requests, and two attempts to get each response. *)
EXTENDS H1Client
=============================================================================
