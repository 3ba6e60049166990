----------------------------- MODULE MCH2Stream -----------------------------
(***************************************************************************)
(* H2Stream for TLC.  The constants are given by the .cfg files: three     *)
(* units of body in frames of at most two let a frame arrive behind one    *)
(* that is half read, and a read take less than, as much as, and more than *)
(* what is there.                                                          *)
(***************************************************************************)
EXTENDS H2Stream
=============================================================================
