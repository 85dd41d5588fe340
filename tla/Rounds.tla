------------------------------- MODULE Rounds -------------------------------
(***************************************************************************)
(* What a ceremony promises, whatever carries its messages: its members    *)
(* move through the rounds together.  A member sends round r + 1 only when *)
(* every member has sent round r.  A member that fails just stops.         *)
(* Exchange implements this with envelopes; Custody with message counts.   *)
(***************************************************************************)
EXTENDS Naturals, TLAPS

CONSTANTS Member, LastRound

VARIABLE round   \* round[p]: the last round p has sent, 0 before it joins

Init == round = [p \in Member |-> 0]

Join(p) ==
  /\ round[p] = 0
  /\ round' = [round EXCEPT ![p] = 1]

Proceed(p) ==
  /\ round[p] \in 1 .. LastRound - 1
  /\ \A q \in Member : round[q] >= round[p]
  /\ round' = [round EXCEPT ![p] = @ + 1]

Next == \E p \in Member : Join(p) \/ Proceed(p)

Spec == Init /\ [][Next]_round

\* No member is ever more than one round ahead of another (send_round of round
\* r + 1 follows recv_round of round r): mail for more than the next round
\* cannot arrive.
Together == \A p, q \in Member : round[p] <= round[q] + 1

\* The rounds of every ceremony stay within one of each other, for any number
\* of members and rounds.
THEOREM TogetherHolds == Spec => []Together
<1> DEFINE Inv == round \in [Member -> Nat] /\ Together
<1>1. Init => Inv
  BY DEF Init, Together
<1>2. Inv /\ [Next]_round => Inv'
  <2> SUFFICES ASSUME Inv, [Next]_round PROVE Inv'
    OBVIOUS
  <2>1. CASE UNCHANGED round
    BY <2>1 DEF Together
  <2>2. ASSUME NEW p \in Member, Join(p) PROVE Inv'
    BY <2>2 DEF Join, Together
  <2>3. ASSUME NEW p \in Member, Proceed(p) PROVE Inv'
    BY <2>3 DEF Proceed, Together
  <2>4. QED
    BY <2>1, <2>2, <2>3 DEF Next
<1>3. QED
  BY <1>1, <1>2, PTL DEF Spec
=============================================================================
