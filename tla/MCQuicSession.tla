--------------------------- MODULE MCQuicSession ---------------------------
(* QuicSession for TLC: two streams of the peer, or one of each side.      *)
EXTENDS QuicSession

MCRemotes == {{1, 2}, {1}}
=============================================================================
