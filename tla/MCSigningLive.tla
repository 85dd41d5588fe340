--------------------------- MODULE MCSigningLive ---------------------------
(* Liveness of Signing in one run: either nothing goes wrong after the      *)
(* start, and whatever can happen does; or anything may go wrong and only   *)
(* what the runtime owes is fair.                                           *)
EXTENDS MCSigning

VARIABLE calm   \* which of the two, chosen at the start

LiveSpec ==
  /\ Init /\ calm \in BOOLEAN
  /\ [][/\ (calm /\ Quiet) \/ (~calm /\ Next)
        /\ UNCHANGED calm]_<<vars, calm>>
  /\ WF_vars(calm /\ Quiet)
  /\ \A r \in Request : WF_vars(~calm /\ Handling(r))
  /\ \A p \in Party : WF_vars(~calm /\ Reply(p)) /\ WF_vars(~calm /\ HttpError(p))

\* Every request is answered, whatever fails.
EveryRequestEnds == \A r \in Request : pc[r] = "checked" ~> pc[r] \in Ended

\* With t parties up and provisioned from the start and no fault after it, a
\* transaction everybody allows is signed or refused as busy, whoever of the
\* others is down or has no shard.
ReadyPartiesSign ==
  \A r \in Request :
    (/\ calm /\ pc[r] = "checked"
     /\ Cardinality(up \cap Shards) >= Threshold
     /\ \A p \in Party : Digest[r] \in Allow[p])
    ~> pc[r] \in {"signed", "busy"}
=============================================================================
