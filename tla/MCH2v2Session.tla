--------------------------- MODULE MCH2v2Session ----------------------------
(* H2v2Session for TLC: two requests, of which one can follow the other or be refused.      *)
EXTENDS H2v2Session
=============================================================================
