---------------------------- MODULE MCQuicServer ----------------------------
(***************************************************************************)
(* One client that connects again, or whose Initials come more than once,  *)
(* and two sessions.                                                       *)
(***************************************************************************)
EXTENDS QuicServer

MCSessions == 1 .. 2
=============================================================================
