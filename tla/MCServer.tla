------------------------------ MODULE MCServer ------------------------------
(* The server with three connections, see Server.cfg. *)
EXTENDS Server
=============================================================================
