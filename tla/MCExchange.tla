----------------------------- MODULE MCExchange -----------------------------
(* A small instance of Exchange for TLC.                                   *)
EXTENDS Exchange
CONSTANTS p1, p2, p3

\* Mail of p1 to p2 may be delivered again, in any later round.
OneChannel == {<<p1, p2>>}
=============================================================================
