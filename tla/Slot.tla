-------------------------------- MODULE Slot --------------------------------
(***************************************************************************)
(* What one party's shard store promises, whatever happens to the process  *)
(* that writes it: a key is claimed once, its shard then replaced one      *)
(* generation at a time, and only the operator or a disk failure takes     *)
(* them away, both together.  Store implements this with files; Custody    *)
(* uses it for the store of every party.                                   *)
(***************************************************************************)
EXTENDS Naturals

CONSTANTS Key, NoKey

VARIABLES
  key,   \* the key of the metadata, NoKey while there is none
  gen    \* the generation of the shard, 0 while there is none

slotVars == <<key, gen>>

Init == key = NoKey /\ gen = 0

\* A DKG announces its key; the shard is not there yet.
Claim(k) ==
  /\ key = NoKey /\ gen = 0
  /\ key' = k
  /\ UNCHANGED gen

\* The shard arrives, or the next generation of it.
Replace ==
  /\ key # NoKey
  /\ gen' = gen + 1
  /\ UNCHANGED key

Lose == key' = NoKey /\ gen' = 0

Next == (\E k \in Key : Claim(k)) \/ Replace \/ Lose

Spec == Init /\ [][Next]_slotVars
=============================================================================
