-------------------------------- MODULE MCHub --------------------------------
(* Small instances of Hub for TLC.                                         *)
EXTENDS Hub, TLC

\* Members are interchangeable.
Symmetric == Permutations(Member)
=============================================================================
