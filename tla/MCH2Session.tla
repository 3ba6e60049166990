---------------------------- MODULE MCH2Session -----------------------------
(* H2Session for TLC: two requests, for which the peer allows none, one or both at a  *)
(* time, and changes its mind, so that nghttp2 holds some back and starts them later. *)
EXTENDS H2Session
=============================================================================
