--------------------------- MODULE MCCustodyLive ---------------------------
(* Liveness of Custody in one run: either nothing goes wrong, ever, and     *)
(* whatever can happen does; or anything may go wrong and only what the     *)
(* runtime owes is fair.                                                    *)
EXTENDS Custody

VARIABLE calm   \* which of the two, chosen at the start

LiveSpec ==
  /\ Init /\ calm \in BOOLEAN
  /\ [][/\ (calm /\ Undisturbed) \/ (~calm /\ Next)
        /\ UNCHANGED calm]_<<vars, calm>>
  /\ WF_vars(calm /\ Undisturbed)
  /\ \A p \in Party : WF_vars(~calm /\ Driven(p)) /\ WF_vars(~calm /\ HttpError(p))
  /\ WF_vars(~calm /\ Conclude)

\* Without faults a requested key comes to be served and a requested refresh
\* reaches every shard: no refusal and no waiting in a circle keeps a ceremony
\* from completing.
CeremoniesComplete ==
  \A i \in Instance :
    /\ calm /\ kind[i] = "dkg" ~> active = i
    /\ \A p \in Party : calm /\ kind[i] = "refresh" ~> i \in deltas[p]
=============================================================================
