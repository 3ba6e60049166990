------------------------------ MODULE MCClient ------------------------------
(***************************************************************************)
(* Two endpoints for QUIC: one that is given up while the other is tried.  *)
(***************************************************************************)
EXTENDS Client

MCAttempts == 1 .. 2
=============================================================================
