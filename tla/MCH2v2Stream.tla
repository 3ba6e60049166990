---------------------------- MODULE MCH2v2Stream ----------------------------
(* H2v2Stream for TLC: three units of body in frames of at most two, and writes of two     *)
(* units in chunks of one, so that a frame arrives behind one that is half read, and a     *)
(* Staged write takes two chunks.                                                          *)
EXTENDS H2v2Stream
=============================================================================
