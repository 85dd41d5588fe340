----------------------------- MODULE MCCustody -----------------------------
(* Small instances of Custody for TLC.                                     *)
EXTENDS Custody, TLC

\* Cosigners and instances are interchangeable.
Symmetric == Permutations(Party) \cup Permutations(Instance)

\* Each ceremony keeps the abstract rounds, however its members are crashed,
\* restarted, asked late or cut off: a member that failed and was asked again
\* never re-enters, and nobody passes a member that has not sent.
Rounds(i) == INSTANCE Rounds WITH Member <- Party, round <- sent[i]
CeremoniesKeepRounds ==
  /\ \A i \in Instance : Rounds(i)!Init
  /\ [][\A i \in Instance : sent'[i] = sent[i] \/ Rounds(i)!Next]_sent

\* The store of every party is a slot: a key is claimed once and its shard
\* replaced generation by generation, a generation being the refreshes folded
\* in, however late a DKG or refresh reaches the party.
Slots(p) == INSTANCE Slot WITH Key <- Instance, NoKey <- NoInst, key <- meta[p],
              gen <- IF shard[p] = NoInst THEN 0 ELSE 1 + Cardinality(deltas[p])
StoresKeepSlots ==
  /\ \A p \in Party : Slots(p)!Init
  /\ [][\A p \in Party : UNCHANGED <<meta[p], shard[p], deltas[p]>>
                              \/ Slots(p)!Next]_storeVars
=============================================================================
