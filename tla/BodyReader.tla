----------------------------- MODULE BodyReader -----------------------------
(***************************************************************************)
(* What a Reader promises of a body, whatever the protocol: the contract   *)
(* of src/include/anyhttp/common.hpp and docs/end-of-body.rst.  The reader *)
(* is given the body as it arrives, each unit once and in order; it is     *)
(* told the end only when the peer has ended the body and all of it was    *)
(* given out; otherwise, when there can be no more, it is told that the    *)
(* body was cut; and what it was told about the end never changes.         *)
(*                                                                         *)
(* H2Stream, H2v2Stream and QuicStream implement it.                       *)
(***************************************************************************)
EXTENDS Naturals, Sequences

VARIABLES
    arrived,    \* units of the body that have arrived, numbered from 1
    ended,      \* the peer has ended the body
    cut,        \* no more of it will arrive, or be kept
    given,      \* what the reader was given
    told        \* what the last read said: "nothing", "data", "eof" or "partial"

vars == <<arrived, ended, cut, given, told>>

Init ==
    /\ arrived = 0 /\ ended = FALSE /\ cut = FALSE
    /\ given = <<>> /\ told = "nothing"

\* Some of the body arrives, which it does not do behind its end.
Arrive ==
    /\ arrived' \in Nat /\ arrived' >= arrived
    /\ ended => ended' /\ arrived' = arrived
    /\ cut => cut'

\* A read completes with the next units ...
Give ==
    /\ told \in {"nothing", "data"} /\ told' = "data"
    /\ Len(given') > Len(given) /\ Len(given') <= arrived'
    /\ given' = [i \in 1 .. Len(given') |-> i]

\* ... or with the end of the body ...
TellEnd ==
    /\ told # "partial" /\ told' = "eof"
    /\ ended' /\ Len(given) = arrived'
    /\ UNCHANGED given

\* ... or with the news that it was cut.
TellCut ==
    /\ told # "eof" /\ told' = "partial"
    /\ cut'
    /\ UNCHANGED given

Next == Arrive /\ (Give \/ TellEnd \/ TellCut \/ UNCHANGED <<given, told>>)

Spec == Init /\ [][Next]_vars
=============================================================================
