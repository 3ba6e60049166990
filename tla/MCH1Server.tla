----------------------------- MODULE MCH1Server -----------------------------
(* The HTTP/1.1 server session with three pipelined requests, see H1Server.cfg. *)
EXTENDS H1Server
=============================================================================
