------------------------------ MODULE Exchange ------------------------------
(***************************************************************************)
(* The round driver of one ceremony (sovra-mpc, Exchange): the members     *)
(* send signed envelopes through a relay nobody trusts and collect each    *)
(* round from every peer.                                                  *)
(*                                                                         *)
(* The relay may delay, reorder, lose and repeat envelopes and may hand    *)
(* over envelopes of another ceremony, of a party outside this one,        *)
(* misaddressed or altered ones.  A signature verifies exactly on what its *)
(* sender signed.  A payload is "made" (what the sender computed for that  *)
(* round and recipient) or "altered".                                      *)
(***************************************************************************)
EXTENDS Naturals, FiniteSets

CONSTANTS
  Member,     \* the participants: the roster for dkg and refresh, t to sign
  Outsider,   \* roster parties that are not participants
  Repeated,   \* bound: the pairs from, to whose mail may be delivered again
  Ceremony    \* "dkg", "refresh" or "sign"

LastRound == 3
Round == 1 .. LastRound
ASSUME CeremonyAssumption == Ceremony \in {"dkg", "refresh", "sign"}
ASSUME MemberAssumption ==
  Member \cap Outsider = {} /\ Repeated \subseteq Member \X Member

Both == {"broadcast", "p2p"}

\* The kinds a party puts into the outbox of each round of its ceremony.
Sends(r) ==
  IF Ceremony = "sign"
  THEN IF r = 3 THEN {"broadcast"} ELSE {"p2p"}
  ELSE IF r = 2 \/ (r = 3 /\ Ceremony = "dkg") THEN Both ELSE {"p2p"}

\* Mutant: every round waits for both kinds.
ExpectBoth(r) == Both

\* The kinds recv_round waits for in each round.
Expect(r) ==
  IF Ceremony = "sign"
  THEN IF r < 3 THEN {"p2p"} ELSE {"broadcast"}
  ELSE IF r = 1 \/ (r = 3 /\ Ceremony = "refresh") THEN {"p2p"} ELSE Both

Envelope == [run : {"this", "other"}, round : Round,
             from : Member \cup Outsider, to : Member,
             kind : Both, body : {"made", "altered"}]

VARIABLES
  round,    \* 0 not joined, r in recv_round of round r, LastRound + 1 done
  failed,   \* members whose run ended in an error
  inbox,    \* envelopes filed for the current round
  ahead,    \* verified envelopes of later rounds
  signed,   \* envelopes of this ceremony signed so far
  wire      \* those the relay still holds

vars == <<round, failed, inbox, ahead, signed, wire>>

TypeOK ==
  /\ round \in [Member -> 0 .. LastRound + 1]
  /\ failed \subseteq Member
  /\ inbox \in [Member -> SUBSET Envelope]
  /\ ahead \in [Member -> SUBSET Envelope]
  /\ signed \subseteq Envelope
  /\ wire \subseteq signed

Init ==
  /\ round = [p \in Member |-> 0]
  /\ failed = {}
  /\ inbox = [p \in Member |-> {}]
  /\ ahead = [p \in Member |-> {}]
  /\ signed = {}
  /\ wire = {}

-----------------------------------------------------------------------------
Peers(p) == Member \ {p}

\* send_round: a broadcast fans out to every peer, a p2p payload to its own.
Outbox(p, r) ==
  {[run |-> "this", round |-> r, from |-> p, to |-> q, kind |-> k,
    body |-> "made"] : q \in Peers(p), k \in Sends(r)}

\* Mutant: broadcasts alone complete a round.
CompleteOnBroadcasts(p) ==
  \A q \in Peers(p), k \in Expect(round[p]) :
    k = "broadcast" => \E e \in inbox[p] : e.from = q /\ e.kind = k

\* complete: every peer has delivered every expected kind.
Complete(p) ==
  \A q \in Peers(p), k \in Expect(round[p]) :
    \E e \in inbox[p] : e.from = q /\ e.kind = k

Running(p) == p \notin failed /\ round[p] \in Round

\* Mutant: off by one at the end of the schedule.
RoundsLeftPastLast(p) == round[p] <= LastRound

\* A round follows the one p has completed.
RoundsLeft(p) == round[p] < LastRound

\* The envelope is of this ceremony (instance, op), to p, from a peer.
Ours(p, e) == e.run = "this" /\ e.to = p /\ e.from \in Peers(p)

\* Mutant: the signature is not checked.
VerifiesAnything(e) == TRUE

\* verify: the signature covers every field.  Of another run, whatever that
\* run's parties signed.
Verifies(e) == e \in signed \/ (e.run = "other" /\ e.body = "made")

\* file: of an expected kind, the first of its sender and kind.
Filed(have, r, es) ==
  {e \in es : /\ e.round = r /\ e.kind \in Expect(r)
              /\ ~\E f \in have : f.from = e.from /\ f.kind = e.kind}

\* Mutant: mail of a later round is dropped like late mail.
AheadOfNothing(r, es) == {}

\* The envelopes of a later round than r, which are kept for it.
AheadOf(r, es) == {e \in es : e.round > r}
-----------------------------------------------------------------------------
\* The runner starts: it has joined the relay and sends round 1.
Start(p) ==
  /\ p \notin failed /\ round[p] = 0
  /\ round' = [round EXCEPT ![p] = 1]
  /\ signed' = signed \cup Outbox(p, 1)
  /\ wire' = wire \cup Outbox(p, 1)
  /\ UNCHANGED <<failed, inbox, ahead>>

\* recv inside recv_round: the round is not complete and an envelope arrives.
\* The relay may keep a copy to deliver again.
Arrives(p, e) ==
  /\ Running(p) /\ ~Complete(p)
  /\ e.to = p
  /\ \/ wire' = wire \ {e}
     \/ wire' = wire /\ <<e.from, e.to>> \in Repeated

\* admit: foreign traffic is dropped, the rest authenticated and then filed,
\* buffered, or dropped as late, unexpected or repeated.
Admit(p, e) ==
  /\ Arrives(p, e)
  /\ Ours(p, e) => Verifies(e)
  /\ LET admitted == IF Ours(p, e) THEN {e} ELSE {}
     IN  /\ inbox' = [inbox EXCEPT ![p] = @ \cup Filed(@, round[p], admitted)]
         /\ ahead' = [ahead EXCEPT ![p] = @ \cup AheadOf(round[p], admitted)]
  /\ UNCHANGED <<round, failed, signed>>

\* admit: an envelope that claims to be ours and does not verify aborts.
AbortForged(p, e) ==
  /\ Arrives(p, e)
  /\ Ours(p, e) /\ ~Verifies(e)
  /\ failed' = failed \cup {p}
  /\ UNCHANGED <<round, inbox, ahead, signed>>

\* The round is complete: compute, send the next one, drain the buffer.
Advance(p) ==
  /\ Running(p) /\ Complete(p) /\ RoundsLeft(p)
  /\ LET r == round[p] + 1
     IN  /\ round' = [round EXCEPT ![p] = r]
         /\ signed' = signed \cup Outbox(p, r)
         /\ wire' = wire \cup Outbox(p, r)
         /\ inbox' = [inbox EXCEPT ![p] = Filed({}, r, ahead[p])]
         /\ ahead' = [ahead EXCEPT ![p] = AheadOf(r, @)]
  /\ UNCHANGED failed

\* The connection dies while a round, the first or the next, is being sent: some
\* envelopes are out, the run has failed.
SendFails(p) ==
  /\ p \notin failed
  /\ round[p] = 0 \/ (Running(p) /\ Complete(p) /\ RoundsLeft(p))
  /\ LET r == round[p] + 1
     IN  /\ round' = [round EXCEPT ![p] = r]
         /\ \E out \in SUBSET Outbox(p, r) :
              signed' = signed \cup out /\ wire' = wire \cup out
  /\ failed' = failed \cup {p}
  /\ UNCHANGED <<inbox, ahead>>

\* The last round is in and the local phase passes.
Finish(p) ==
  /\ Running(p) /\ Complete(p) /\ round[p] = LastRound
  /\ round' = [round EXCEPT ![p] = LastRound + 1]
  /\ UNCHANGED <<failed, inbox, ahead, signed, wire>>

\* The run ends in an error: the round's deadline, a relay error, a payload
\* that does not open or decode, an abort of the protocol library.
Fail(p) ==
  /\ p \notin failed /\ round[p] \in 0 .. LastRound
  /\ failed' = failed \cup {p}
  /\ UNCHANGED <<round, inbox, ahead, signed, wire>>

\* What the relay may hand over to p that no member signed for this ceremony.
Stray == [p \in Member |->
  {e \in Envelope : /\ e.to = p
                    /\ \/ e.run = "other" /\ e.body = "made"
                       \/ e.run = "this" /\ (e.from \in Outsider \/ e.body = "altered")}]

Next == \E p \in Member :
  \/ Start(p) \/ Advance(p) \/ SendFails(p) \/ Finish(p) \/ Fail(p)
  \/ \E e \in wire \cup Stray[p] : Admit(p, e) \/ AbortForged(p, e)

Spec == Init /\ [][Next]_vars

\* What is owed: the runner goes on, and the relay delivers what it was given,
\* in any order, as long as the connections hold.
Delivered(p) == \E e \in wire : Admit(p, e) /\ e \notin wire'
Progress == \E p \in Member : Start(p) \/ Advance(p) \/ Finish(p) \/ Delivered(p)
FairSpec == Spec /\ WF_vars(Progress)
-----------------------------------------------------------------------------
(* Properties                                                              *)

\* Exchange implements Rounds: finishing and failing change no round sent.
Sent == [p \in Member |-> IF round[p] > LastRound THEN LastRound ELSE round[p]]
R == INSTANCE Rounds WITH round <- Sent

\* A member sends its next round only after every peer sent the current one,
\* whatever the relay delivers, repeats or makes up.
KeepsRounds == R!Spec

\* Everything filed or buffered was signed by its sender for this ceremony and
\* this recipient, in the round it is used for or a later one.
OnlyGenuine ==
  \A p \in Member : \A e \in inbox[p] \cup ahead[p] :
    /\ e \in signed /\ e.to = p
    /\ p \notin failed => e.round >= round[p] \/ round[p] > LastRound

\* recv_round never throws away mail it will need: what a running member has
\* been sent for this round or the next is filed, buffered or still in transit.
NothingNeededDropped ==
  \A p \in Member : \A e \in signed :
    (Running(p) /\ e.to = p /\ e.round >= round[p])
      => e \in inbox[p] \cup ahead[p] \cup wire

\* The buffer only ever holds the next round: a peer cannot get two rounds
\* ahead of a member that has not sent its own.
AheadIsNext ==
  \A p \in Member : Running(p) =>
    \A e \in ahead[p] : e.round = round[p] + 1

\* A member is done only when every member has sent its last round.
DoneMeansAllSent ==
  \A p, q \in Member : round[p] > LastRound => round[q] >= LastRound

\* Unless a member fails, all finish, however mail overtakes mail: no round
\* waits for what nobody sends or for what was thrown away.
AllFinish == <>(failed # {} \/ \A p \in Member : round[p] > LastRound)
=============================================================================
