------------------------------ MODULE MCStore ------------------------------
(* Small instances of Store for TLC.                                       *)
EXTENDS Store, TLC

\* Requests and readers are interchangeable.
Symmetric == Permutations(Request) \cup Permutations(Reader)
=============================================================================
