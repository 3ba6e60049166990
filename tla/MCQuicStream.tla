---------------------------- MODULE MCQuicStream ----------------------------
(***************************************************************************)
(* QuicStream for TLC.  Three units of body for both directions together   *)
(* let a write be cut into chunks and be acknowledged in parts while some  *)
(* of the incoming body is buffered, and let either direction have all     *)
(* three.                                                                  *)
(***************************************************************************)
EXTENDS QuicStream
=============================================================================
