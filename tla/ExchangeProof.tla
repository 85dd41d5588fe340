--------------------------- MODULE ExchangeProof ---------------------------
(***************************************************************************)
(* Exchange implements Rounds, for any set of members and any behaviour of *)
(* the relay.                                                              *)
(***************************************************************************)
EXTENDS Exchange, TLAPS

\* What is signed: only for this ceremony, unaltered, by a member that has
\* reached the round it is for.
SignedInv ==
  \A e \in signed :
    /\ e.run = "this" /\ e.body = "made"
    /\ e.from \in Member /\ e.from # e.to
    /\ e.kind \in Expect(e.round)
    /\ e.round <= round[e.from]

\* What is filed is signed and, while p collects, of its current round; what
\* is buffered is signed and of a later one.
HeldInv ==
  \A p \in Member :
    /\ inbox[p] \cup ahead[p] \subseteq {e \in signed : e.to = p}
    /\ Running(p) => \A e \in inbox[p] : e.round = round[p]
    /\ Running(p) => \A e \in ahead[p] : e.round > round[p]
    /\ round[p] = 0 => inbox[p] = {} /\ ahead[p] = {}

IndInv == TypeOK /\ SignedInv /\ HeldInv /\ DoneMeansAllSent

\* What p still needs has not been dropped, from before p joins.
KeptInv ==
  \A p \in Member : \A e \in signed :
    (p \notin failed /\ round[p] \in 0 .. 3 /\ e.to = p /\ e.round >= round[p])
      => e \in inbox[p] \cup ahead[p] \cup wire

LEMMA ExpectSomething ==
  ASSUME NEW r \in Round
  PROVE  /\ Expect(r) # {} /\ Expect(r) \subseteq Both
         /\ Sends(r) = Expect(r)
  BY CeremonyAssumption DEF Round, LastRound, Expect, Sends, Both

LEMMA OutboxFacts ==
  ASSUME NEW p \in Member, NEW r \in Round
  PROVE  /\ Outbox(p, r) \subseteq Envelope
         /\ \A e \in Outbox(p, r) : /\ e.run = "this" /\ e.body = "made"
                                    /\ e.from = p /\ e.round = r
                                    /\ e.from # e.to /\ e.kind \in Expect(r)
  BY ExpectSomething DEF Outbox, Envelope, Peers

\* A member that has collected a round has an envelope of every peer.
LEMMA CompleteMeansSent ==
  ASSUME IndInv, NEW p \in Member, Running(p), Complete(p), NEW q \in Member
  PROVE  round[q] >= round[p]
<1>1. CASE q = p
  BY <1>1 DEF IndInv, TypeOK, Running, Round, LastRound
<1>2. CASE q # p
  <2>1. PICK k : k \in Expect(round[p])
    BY ExpectSomething DEF Running
  <2>2. PICK e \in inbox[p] : e.from = q
    BY <1>2, <2>1 DEF Complete, Peers
  <2>3. e \in signed /\ e.round = round[p]
    BY <2>2 DEF IndInv, HeldInv
  <2>4. QED
    BY <2>2, <2>3 DEF IndInv, SignedInv, TypeOK, Running, Round, LastRound
<1>3. QED
  BY <1>1, <1>2

-----------------------------------------------------------------------------
LEMMA InitInv == Init => IndInv
  BY DEF Init, IndInv, TypeOK, SignedInv, HeldInv, DoneMeansAllSent, LastRound,
         Running, Round

\* What a party admits into its inbox or buffer is signed, its own and of the
\* round it is put under.
LEMMA AdmittedFacts ==
  ASSUME IndInv, NEW p \in Member, NEW e \in wire \cup Stray[p], Admit(p, e)
  PROVE  /\ \A q \in Member \ {p} : inbox'[q] = inbox[q] /\ ahead'[q] = ahead[q]
         /\ \A f \in inbox'[p] : \/ f \in inbox[p]
                                 \/ f \in signed /\ f.to = p /\ f.round = round[p]
         /\ \A f \in ahead'[p] : \/ f \in ahead[p]
                                 \/ f \in signed /\ f.to = p /\ f.round > round[p]
         /\ inbox' \in [Member -> SUBSET Envelope]
         /\ ahead' \in [Member -> SUBSET Envelope]
  <1>1. e \in Envelope
    BY DEF IndInv, TypeOK, Stray
  <1>2. Ours(p, e) => e \in signed /\ e.to = p
    BY DEF Admit, Ours, Verifies
  <1> DEFINE adm == IF Ours(p, e) THEN {e} ELSE {}
  <1>3. /\ inbox' = [inbox EXCEPT ![p] = inbox[p] \cup Filed(inbox[p], round[p], adm)]
        /\ ahead' = [ahead EXCEPT ![p] = ahead[p] \cup AheadOf(round[p], adm)]
    BY DEF Admit
  <1>4. \A f \in Filed(inbox[p], round[p], adm) :
          f \in Envelope /\ f \in signed /\ f.to = p /\ f.round = round[p]
    BY <1>1, <1>2 DEF Filed
  <1>5. \A f \in AheadOf(round[p], adm) :
          f \in Envelope /\ f \in signed /\ f.to = p /\ f.round > round[p]
    BY <1>1, <1>2 DEF AheadOf
  <1> DEFINE fi == Filed(inbox[p], round[p], adm)
             la == AheadOf(round[p], adm)
  <1> HIDE DEF adm, fi, la
  <1>6. /\ inbox' = [inbox EXCEPT ![p] = inbox[p] \cup fi]
        /\ ahead' = [ahead EXCEPT ![p] = ahead[p] \cup la]
        /\ fi \subseteq Envelope /\ la \subseteq Envelope
        /\ \A f \in fi : f \in signed /\ f.to = p /\ f.round = round[p]
        /\ \A f \in la : f \in signed /\ f.to = p /\ f.round > round[p]
    BY <1>3, <1>4, <1>5 DEF fi, la
  <1>7. inbox \in [Member -> SUBSET Envelope] /\ ahead \in [Member -> SUBSET Envelope]
    BY DEF IndInv, TypeOK
  <1>8. inbox'[p] = inbox[p] \cup fi /\ ahead'[p] = ahead[p] \cup la
    BY <1>6, <1>7
  <1>9. QED
    BY <1>6, <1>7, <1>8

LEMMA NextInv == IndInv /\ [Next]_vars => IndInv'
<1> SUFFICES ASSUME IndInv, [Next]_vars PROVE IndInv'
  OBVIOUS
<1>0. TypeOK /\ SignedInv /\ HeldInv /\ DoneMeansAllSent
  BY DEF IndInv
<1> USE DEF LastRound, Round
<1>1. CASE UNCHANGED vars
  BY <1>0, <1>1 DEF vars, IndInv, TypeOK, SignedInv, HeldInv, DoneMeansAllSent, Running
<1>2. ASSUME NEW p \in Member, Start(p) PROVE IndInv'
  <2> DEFINE out == Outbox(p, 1)
  <2>1. /\ out \subseteq Envelope
        /\ \A e \in out : e.run = "this" /\ e.body = "made" /\ e.from = p /\ e.round = 1
                         /\ e.from # e.to /\ e.kind \in Expect(1)
    BY OutboxFacts
  <2>2. /\ p \notin failed /\ round[p] = 0
        /\ round' = [round EXCEPT ![p] = 1]
        /\ signed' = signed \cup out /\ wire' = wire \cup out
        /\ failed' = failed /\ inbox' = inbox /\ ahead' = ahead
    BY <1>2 DEF Start
  <2> HIDE DEF out
  <2>3. TypeOK'
    BY <1>0, <2>1, <2>2 DEF TypeOK
  <2>4. SignedInv'
    BY <1>0, <2>1, <2>2 DEF TypeOK, SignedInv, Envelope
  <2>5. HeldInv'
    BY <1>0, <2>1, <2>2 DEF TypeOK, HeldInv, Running
  <2>6. DoneMeansAllSent'
    BY <1>0, <2>1, <2>2 DEF TypeOK, DoneMeansAllSent
  <2>7. QED
    BY <2>3, <2>4, <2>5, <2>6 DEF IndInv
<1>3. ASSUME NEW p \in Member, NEW e \in wire \cup Stray[p], Admit(p, e)
      PROVE  IndInv'
  <2>1. /\ round' = round /\ failed' = failed /\ signed' = signed
        /\ wire' \subseteq wire /\ Running(p)
    BY <1>3 DEF Admit, Arrives
  <2>2. TypeOK'
    BY <1>0, <1>3, <2>1, AdmittedFacts DEF TypeOK
  <2>3. SignedInv' /\ DoneMeansAllSent'
    BY <1>0, <2>1 DEF SignedInv, DoneMeansAllSent
  <2>4. HeldInv'
    BY <1>0, <1>3, <2>1, AdmittedFacts DEF HeldInv, Running, TypeOK
  <2>5. QED
    BY <2>2, <2>3, <2>4 DEF IndInv
<1>4. ASSUME NEW p \in Member, NEW e \in wire \cup Stray[p], AbortForged(p, e)
      PROVE  IndInv'
  <2>1. /\ round' = round /\ inbox' = inbox /\ ahead' = ahead
        /\ failed' = failed \cup {p} /\ signed' = signed /\ wire' \subseteq wire
    BY <1>4 DEF AbortForged, Arrives
  <2>2. QED
    BY <1>0, <2>1 DEF IndInv, TypeOK, SignedInv, HeldInv, DoneMeansAllSent, Running
<1>5. ASSUME NEW p \in Member, Advance(p) PROVE IndInv'
  <2> DEFINE r == round[p] + 1
             out == Outbox(p, r)
             file == Filed({}, r, ahead[p])
             later == AheadOf(r, ahead[p])
  <2>1. /\ Running(p) /\ Complete(p) /\ round[p] < 3 /\ round[p] \in 1 .. 3
        /\ round' = [round EXCEPT ![p] = r]
        /\ signed' = signed \cup out /\ wire' = wire \cup out
        /\ inbox' = [inbox EXCEPT ![p] = file]
        /\ ahead' = [ahead EXCEPT ![p] = later]
        /\ failed' = failed
    BY <1>5 DEF Advance, RoundsLeft, Running
  <2>2. /\ file \subseteq ahead[p] /\ later \subseteq ahead[p]
        /\ \A e \in file : e.round = r
        /\ \A e \in later : e.round > r
    BY DEF Filed, AheadOf
  <2>3. /\ out \subseteq Envelope /\ r \in 2 .. 3
        /\ \A e \in out : e.run = "this" /\ e.body = "made" /\ e.from = p /\ e.round = r
                         /\ e.from # e.to /\ e.kind \in Expect(r)
    BY <2>1, OutboxFacts
  <2> HIDE DEF r, out, file, later
  <2>4. TypeOK'
    BY <1>0, <2>1, <2>2, <2>3 DEF TypeOK
  <2>r. r = round[p] + 1
    BY DEF r
  <2>5. SignedInv'
    BY <1>0, <2>1, <2>3, <2>r DEF TypeOK, SignedInv, Envelope
  <2>6. HeldInv'
    BY <1>0, <2>1, <2>2, <2>3, <2>r DEF TypeOK, HeldInv, Running
  <2>7. DoneMeansAllSent'
    BY <1>0, <2>1, <2>3, <2>r DEF TypeOK, DoneMeansAllSent
  <2>8. QED
    BY <2>4, <2>5, <2>6, <2>7 DEF IndInv
<1>6. ASSUME NEW p \in Member, SendFails(p) PROVE IndInv'
  <2> DEFINE r == round[p] + 1
  <2>1. PICK out \in SUBSET Outbox(p, r) :
          signed' = signed \cup out /\ wire' = wire \cup out
    BY <1>6 DEF SendFails
  <2>2. /\ round[p] \in 0 .. 2
        /\ round' = [round EXCEPT ![p] = r]
        /\ inbox' = inbox /\ ahead' = ahead /\ failed' = failed \cup {p}
    BY <1>6 DEF SendFails, RoundsLeft, Running
  <2>3. /\ out \subseteq Envelope /\ r \in 1 .. 3
        /\ \A e \in out : e.run = "this" /\ e.body = "made" /\ e.from = p /\ e.round = r
                         /\ e.from # e.to /\ e.kind \in Expect(r)
    BY <2>1, <2>2, OutboxFacts
  <2>r. r = round[p] + 1
    OBVIOUS
  <2> HIDE DEF r
  <2>4. TypeOK'
    BY <1>0, <2>1, <2>2, <2>3 DEF TypeOK
  <2>5. SignedInv'
    BY <1>0, <2>1, <2>2, <2>3, <2>r DEF TypeOK, SignedInv, Envelope
  <2>6. HeldInv'
    BY <1>0, <2>1, <2>2, <2>3, <2>r DEF TypeOK, HeldInv, Running
  <2>7. DoneMeansAllSent'
    BY <1>0, <2>2, <2>3, <2>r DEF TypeOK, DoneMeansAllSent
  <2>8. QED
    BY <2>4, <2>5, <2>6, <2>7 DEF IndInv
<1>7. ASSUME NEW p \in Member, Finish(p) PROVE IndInv'
  <2>1. /\ Running(p) /\ round[p] = 3
        /\ round' = [round EXCEPT ![p] = 4]
        /\ UNCHANGED <<failed, inbox, ahead, signed, wire>>
    BY <1>7 DEF Finish
  <2>2. \A q \in Member : round[q] >= 3
    BY <1>7, <2>1, CompleteMeansSent DEF Finish
  <2>3. TypeOK' /\ SignedInv'
    BY <1>0, <2>1 DEF TypeOK, SignedInv, Envelope
  <2>4. HeldInv'
    BY <1>0, <2>1 DEF TypeOK, HeldInv, Running
  <2>5. DoneMeansAllSent'
    BY <1>0, <2>1, <2>2 DEF TypeOK, DoneMeansAllSent
  <2>6. QED
    BY <2>3, <2>4, <2>5 DEF IndInv
<1>8. ASSUME NEW p \in Member, Fail(p) PROVE IndInv'
  BY <1>0, <1>8 DEF Fail, IndInv, TypeOK, SignedInv, HeldInv, DoneMeansAllSent, Running
<1>9. QED
  BY <1>1, <1>2, <1>3, <1>4, <1>5, <1>6, <1>7, <1>8 DEF Next
-----------------------------------------------------------------------------
LEMMA KeptNext == IndInv /\ KeptInv /\ [Next]_vars => KeptInv'
<1> SUFFICES ASSUME IndInv, KeptInv, [Next]_vars PROVE KeptInv'
  OBVIOUS
<1>0. TypeOK /\ SignedInv /\ HeldInv
  BY DEF IndInv
<1> USE DEF LastRound, Round
<1>1. CASE UNCHANGED vars
  BY <1>1 DEF vars, KeptInv
<1>2. ASSUME NEW p \in Member, Start(p) PROVE KeptInv'
  BY <1>0, <1>2 DEF Start, KeptInv, TypeOK, HeldInv, Envelope
<1>3. ASSUME NEW p \in Member, NEW e \in wire \cup Stray[p], Admit(p, e)
      PROVE  KeptInv'
  <2>1. /\ UNCHANGED <<round, failed, signed>> /\ Running(p)
        /\ wire \ {e} \subseteq wire'
    BY <1>3 DEF Admit, Arrives
  <2>2. \A q \in Member : inbox[q] \subseteq inbox'[q] /\ ahead[q] \subseteq ahead'[q]
    BY <1>0, <1>3 DEF Admit, TypeOK
  <2>3. ASSUME e \in signed, e.to = p, e.round >= round[p]
        PROVE  e \in inbox'[p] \cup ahead'[p]
    <3>1. Ours(p, e) /\ e \in Envelope /\ e.kind \in Expect(e.round)
      BY <1>0, <2>3 DEF SignedInv, Ours, Peers, TypeOK
    <3>2. /\ inbox'[p] = inbox[p] \cup Filed(inbox[p], round[p], {e})
          /\ ahead'[p] = ahead[p] \cup AheadOf(round[p], {e})
      BY <1>0, <1>3, <3>1 DEF Admit, TypeOK
    <3>3. CASE e.round > round[p]
      BY <3>2, <3>3 DEF AheadOf
    <3>4. CASE e.round = round[p]
      <4>1. CASE \E f \in inbox[p] : f.from = e.from /\ f.kind = e.kind
        <5>1. PICK f \in inbox[p] : f.from = e.from /\ f.kind = e.kind
          BY <4>1
        <5>2. f \in Envelope /\ f.run = e.run /\ f.body = e.body /\ f.to = e.to
                /\ f.round = e.round
          BY <1>0, <2>1, <2>3, <3>4, <5>1 DEF HeldInv, SignedInv, TypeOK
        <5>3. f = e
          BY <3>1, <5>1, <5>2 DEF Envelope
        <5>4. QED
          BY <2>2, <5>1, <5>3
      <4>2. CASE ~\E f \in inbox[p] : f.from = e.from /\ f.kind = e.kind
        BY <3>1, <3>2, <3>4, <4>2 DEF Filed
      <4>3. QED
        BY <4>1, <4>2
    <3>5. QED
      BY <1>0, <2>3, <3>1, <3>3, <3>4 DEF TypeOK, Envelope
  <2>4. ASSUME NEW q \in Member, NEW f \in signed,
               q \notin failed, round[q] \in 0 .. 3, f.to = q, f.round >= round[q]
        PROVE  f \in inbox'[q] \cup ahead'[q] \cup wire'
    <3>1. f \in inbox[q] \cup ahead[q] \cup wire
      BY <2>4 DEF KeptInv
    <3>2. CASE f # e \/ f \notin wire
      BY <2>1, <2>2, <3>1, <3>2
    <3>3. CASE f = e
      <4>1. q = p
        BY <1>3, <2>4, <3>3 DEF Admit, Arrives
      <4>2. QED
        BY <2>3, <2>4, <3>3, <4>1
    <3>4. QED
      BY <3>2, <3>3
  <2>5. QED
    BY <2>1, <2>4 DEF KeptInv
<1>4. ASSUME NEW p \in Member, NEW e \in wire \cup Stray[p], AbortForged(p, e)
      PROVE  KeptInv'
  <2>1. /\ UNCHANGED <<round, inbox, ahead, signed>> /\ failed' = failed \cup {p}
        /\ wire \ {e} \subseteq wire' /\ e.to = p
    BY <1>4 DEF AbortForged, Arrives
  <2>2. QED
    BY <2>1 DEF KeptInv
<1>5. ASSUME NEW p \in Member, Advance(p) PROVE KeptInv'
  <2>1. /\ Running(p) /\ round[p] \in 1 .. 3
        /\ round' = [round EXCEPT ![p] = round[p] + 1]
        /\ inbox' = [inbox EXCEPT ![p] = Filed({}, round[p] + 1, ahead[p])]
        /\ ahead' = [ahead EXCEPT ![p] = AheadOf(round[p] + 1, ahead[p])]
        /\ failed' = failed
    BY <1>5 DEF Advance, Running
  <2>2. signed \subseteq signed' /\ wire \subseteq wire' /\ signed' \ signed \subseteq wire'
    BY <1>5 DEF Advance
  <2>3. ASSUME NEW e \in signed, e.to = p, e.round >= round[p] + 1
        PROVE  e \in inbox'[p] \cup ahead'[p] \cup wire
    <3>1. e \in ahead[p] \cup wire /\ e \in Envelope /\ e.kind \in Expect(e.round)
      BY <1>0, <2>1, <2>3 DEF KeptInv, HeldInv, SignedInv, TypeOK, Running, Envelope
    <3>2. inbox'[p] = Filed({}, round[p] + 1, ahead[p])
          /\ ahead'[p] = AheadOf(round[p] + 1, ahead[p])
      BY <1>0, <2>1 DEF TypeOK
    <3>3. e.round = round[p] + 1 \/ e.round > round[p] + 1
      BY <2>1, <2>3, <3>1 DEF Envelope
    <3>4. QED
      BY <3>1, <3>2, <3>3 DEF Filed, AheadOf
  <2>4. ASSUME NEW q \in Member, NEW f \in signed',
               q \notin failed', round'[q] \in 0 .. 3, f.to = q, f.round >= round'[q]
        PROVE  f \in inbox'[q] \cup ahead'[q] \cup wire'
    <3>1. CASE f \notin signed
      BY <2>2, <2>4, <3>1
    <3>2. CASE f \in signed /\ q = p
      BY <1>0, <2>1, <2>2, <2>3, <2>4, <3>2 DEF TypeOK
    <3>3. CASE f \in signed /\ q # p
      BY <1>0, <2>1, <2>2, <2>4, <3>3 DEF KeptInv, TypeOK
    <3>4. QED
      BY <3>1, <3>2, <3>3
  <2>5. QED
    BY <2>4 DEF KeptInv
<1>6. ASSUME NEW p \in Member, SendFails(p) PROVE KeptInv'
  <2>1. /\ round' = [round EXCEPT ![p] = round[p] + 1]
        /\ inbox' = inbox /\ ahead' = ahead /\ failed' = failed \cup {p}
    BY <1>6 DEF SendFails
  <2>2. PICK out : signed' = signed \cup out /\ wire' = wire \cup out
    BY <1>6 DEF SendFails
  <2>3. QED
    BY <1>0, <2>1, <2>2 DEF KeptInv, TypeOK
<1>7. ASSUME NEW p \in Member, Finish(p) PROVE KeptInv'
  BY <1>0, <1>7 DEF Finish, KeptInv, TypeOK
<1>8. ASSUME NEW p \in Member, Fail(p) PROVE KeptInv'
  BY <1>8 DEF Fail, KeptInv
<1>9. QED
  BY <1>1, <1>2, <1>3, <1>4, <1>5, <1>6, <1>7, <1>8 DEF Next

\* Everything below rests on this: the two invariants hold throughout.
THEOREM Invariant == Spec => [](IndInv /\ KeptInv)
<1>1. Init => KeptInv
  BY DEF Init, KeptInv
<1>2. QED
  BY <1>1, InitInv, NextInv, KeptNext, PTL DEF Spec

\* Type correctness: whatever the relay hands over, only envelopes are filed or
\* buffered and nothing is in transit that was not signed.
THEOREM TypeCorrect == Spec => []TypeOK
<1>1. IndInv => TypeOK
  BY DEF IndInv
<1>2. QED
  BY <1>1, Invariant, PTL

\* recv_round never throws away an envelope its member still needs: not when
\* it comes a round early, not when it comes between two copies of another.
THEOREM NothingNeededDroppedHolds == Spec => []NothingNeededDropped
<1>1. IndInv /\ KeptInv => NothingNeededDropped
  BY DEF IndInv, TypeOK, KeptInv, NothingNeededDropped, Running, Round, LastRound
<1>2. QED
  BY <1>1, Invariant, PTL

\* Only envelopes signed for this ceremony and recipient are ever filed or
\* buffered, and never for a round that is over (admit, file).
THEOREM OnlyGenuineHolds == Spec => []OnlyGenuine
<1>1. IndInv => OnlyGenuine
  <2> SUFFICES ASSUME IndInv, NEW p \in Member, NEW e \in inbox[p] \cup ahead[p]
               PROVE  /\ e \in signed /\ e.to = p
                      /\ p \notin failed => e.round >= round[p] \/ round[p] > LastRound
    BY DEF OnlyGenuine
  <2>1. e \in signed /\ e.to = p /\ e.round \in Round /\ round[p] \in 0 .. 4
    BY DEF IndInv, TypeOK, HeldInv, Envelope, LastRound
  <2>2. p \notin failed /\ round[p] \in Round => e.round >= round[p]
    BY <2>1 DEF IndInv, HeldInv, Running, Round, LastRound
  <2>3. QED
    BY <2>1, <2>2 DEF Round, LastRound
<1>2. QED
  BY <1>1, Invariant, PTL

\* A member that returns from its last recv_round knows that every member has
\* sent its last round: nobody is left behind that it should have waited for.
THEOREM DoneMeansAllSentHolds == Spec => []DoneMeansAllSent
  BY Invariant, PTL DEF IndInv
-----------------------------------------------------------------------------
\* The round driver implements the abstract rounds: with any relay, a member
\* sends round r + 1 only after every member has sent round r.
THEOREM KeepsRoundsHolds == Spec => KeepsRounds
<1> USE DEF LastRound, Round
<1>1. Init => R!Init
  BY DEF Init, R!Init, Sent
<1>2. IndInv /\ [Next]_vars => [R!Next]_Sent
  <2> SUFFICES ASSUME IndInv, [Next]_vars PROVE [R!Next]_Sent
    OBVIOUS
  <2>0. round \in [Member -> 0 .. 4]
    BY DEF IndInv, TypeOK
  <2>1. CASE round' = round
    BY <2>1 DEF Sent
  <2>2. ASSUME NEW p \in Member, round[p] = 0, round' = [round EXCEPT ![p] = 1] PROVE R!Join(p)
    <3>1. Sent[p] = 0 /\ round' = [round EXCEPT ![p] = 1]
      BY <2>0, <2>2 DEF Sent
    <3>2. \A q \in Member : Sent'[q] = IF q = p THEN 1 ELSE Sent[q]
      BY <2>0, <3>1 DEF Sent
    <3>3. Sent' = [Sent EXCEPT ![p] = 1]
      BY <3>2 DEF Sent
    <3>4. QED
      BY <3>1, <3>3 DEF R!Join
  <2>3. ASSUME NEW p \in Member, Running(p), Complete(p), RoundsLeft(p),
               round' = [round EXCEPT ![p] = round[p] + 1]
        PROVE  R!Proceed(p)
    <3>1. \A q \in Member : round[q] >= round[p]
      BY <2>3, CompleteMeansSent
    <3>2. Sent[p] \in 1 .. 2 /\ Sent[p] = round[p]
      BY <2>0, <2>3 DEF Sent, Running, RoundsLeft
    <3>3. \A q \in Member : Sent[q] >= Sent[p]
      BY <2>0, <3>1, <3>2 DEF Sent
    <3>4. \A q \in Member : Sent'[q] = IF q = p THEN Sent[p] + 1 ELSE Sent[q]
      BY <2>0, <2>3, <3>2 DEF Sent
    <3>5. Sent' = [Sent EXCEPT ![p] = Sent[p] + 1]
      BY <3>4 DEF Sent
    <3>6. QED
      BY <3>2, <3>3, <3>5 DEF R!Proceed
  <2>4. ASSUME NEW p \in Member, Finish(p) PROVE UNCHANGED Sent
    BY <2>0, <2>4 DEF Finish, Sent
  <2>5. ASSUME NEW p \in Member, SendFails(p) PROVE R!Join(p) \/ R!Proceed(p)
    <3>1. CASE round[p] = 0
      <4>1. round' = [round EXCEPT ![p] = 1]
        BY <2>0, <2>5, <3>1 DEF SendFails
      <4>2. QED
        BY <2>2, <3>1, <4>1
    <3>2. CASE Running(p) /\ Complete(p) /\ RoundsLeft(p)
      BY <2>3, <2>5, <3>2 DEF SendFails
    <3>3. QED
      BY <2>5, <3>1, <3>2 DEF SendFails
  <2>6. QED
    BY <2>1, <2>2, <2>3, <2>4, <2>5
    DEF Next, vars, R!Next, Start, Advance, Admit, AbortForged, Fail
<1>3. QED
  BY <1>1, <1>2, Invariant, PTL DEF Spec, KeepsRounds, R!Spec

\* The reorder buffer of recv_round never holds mail for more than the next
\* round.
THEOREM AheadIsNextHolds == Spec => []AheadIsNext
<1>1. IndInv /\ R!Together => AheadIsNext
  <2> SUFFICES ASSUME IndInv, R!Together, NEW p \in Member, Running(p),
                      NEW e \in ahead[p]
               PROVE  e.round = round[p] + 1
    BY DEF AheadIsNext
  <2>1. /\ e \in signed /\ e.round > round[p] /\ e.round \in 1 .. 3
        /\ round[p] \in 1 .. 3
    BY DEF IndInv, TypeOK, HeldInv, Envelope, Running, Round, LastRound
  <2>2. e.from \in Member /\ e.round <= round[e.from] /\ round[e.from] \in 0 .. 4
    BY <2>1 DEF IndInv, SignedInv, TypeOK, LastRound
  <2>3. Sent[e.from] <= Sent[p] + 1
    BY <2>2 DEF R!Together
  <2>4. Sent[p] = round[p] /\ Sent[e.from] >= e.round
    BY <2>1, <2>2 DEF Sent, LastRound
  <2>5. QED
    BY <2>1, <2>2, <2>3, <2>4 DEF Sent, LastRound
<1>2. R!Spec => []R!Together
  BY R!TogetherHolds
<1>3. QED
  BY <1>1, <1>2, Invariant, KeepsRoundsHolds, PTL DEF KeepsRounds
=============================================================================
