------------------------------- MODULE Policy -------------------------------
(***************************************************************************)
(* The signing policy of a cosigner (sovra-policy): how its file is read   *)
(* and how a decoded transaction is judged, as the code does it, and what  *)
(* the file means, as a reference.                                         *)
(*                                                                         *)
(* A file is a function from the keys it contains to their values: lists   *)
(* are sequences, and a ceiling has the form it is written in ("string" or *)
(* "integer") beside its number.                                           *)
(***************************************************************************)
EXTENDS Naturals, Sequences

CONSTANTS
  Address,
  Star,    \* the list entry "*"
  None     \* no recipient (contract creation), no chain id, no key

ASSUME NamesAssumption ==
  Star \notin Address /\ None \notin Address /\ None \notin Nat

Listed(list) == {list[i] : i \in DOMAIN list}

-----------------------------------------------------------------------------
(* The file                                                                *)

Required == {"allowed_chain_ids", "allowed_recipients", "max_value_wei",
             "allow_calldata"}
Keys == Required \cup {"allow_contract_creation"}

\* Recipients::deserialize: "*" stands alone, every other entry is an address.
RecipientsParse(list) ==
  IF Star \in Listed(list) THEN Len(list) = 1 ELSE Listed(list) \subseteq Address

Recipients(list) ==
  [any |-> Star \in Listed(list), list |-> Listed(list) \ {Star}]

\* deny_unknown_fields, required keys, and a ceiling written as a string.
Parses(file) ==
  /\ Required \subseteq DOMAIN file /\ DOMAIN file \subseteq Keys
  /\ RecipientsParse(file["allowed_recipients"])
  /\ file["max_value_wei"].form = "string"

\* The types of the values in a file that parses.
Typed(file) ==
  /\ file["allowed_recipients"] \in Seq(Address \cup {Star})
  /\ file["max_value_wei"].wei \in Nat
  /\ file["allow_calldata"] \in BOOLEAN
  /\ "allow_contract_creation" \in DOMAIN file => file["allow_contract_creation"] \in BOOLEAN

\* The Policy of a file that parses.
Parsed(file) ==
  [chains     |-> Listed(file["allowed_chain_ids"]),
   recipients |-> Recipients(file["allowed_recipients"]),
   max        |-> file["max_value_wei"].wei,
   calldata   |-> file["allow_calldata"],
   creation   |-> IF "allow_contract_creation" \in DOMAIN file
                  THEN file["allow_contract_creation"] ELSE FALSE]

-----------------------------------------------------------------------------
(* The verdict on a view [chain, to, value, data] of a transaction         *)

\* Mutant: the allowlist is also consulted for contract creation, so a policy
\* with "*" allows it whatever its knob says.
DestinationWithoutKnob(policy, view) ==
  IF policy.recipients.any THEN "Allow"
  ELSE IF view.to \in policy.recipients.list THEN "Allow" ELSE "Recipient"

\* The match on tx.to: the knob for a creation, the allowlist for a call.
Destination(policy, view) ==
  IF view.to = None
  THEN IF policy.creation THEN "Allow" ELSE "ContractCreation"
  ELSE IF policy.recipients.any \/ view.to \in policy.recipients.list
       THEN "Allow" ELSE "Recipient"

\* evaluate_ethereum: the first violated rule in a fixed order.
Evaluate(policy, view) ==
  IF view.chain \notin policy.chains THEN "ChainId"
  ELSE IF Destination(policy, view) # "Allow" THEN Destination(policy, view)
  ELSE IF view.value > policy.max THEN "ValueCeiling"
  ELSE IF ~policy.calldata /\ view.data THEN "Calldata"
  ELSE "Allow"

-----------------------------------------------------------------------------
(* The reference: what the lines of a file permit                          *)

Permits(file, view) ==
  /\ view.chain \in Listed(file["allowed_chain_ids"])
  /\ view.to # None => \/ file["allowed_recipients"] = <<Star>>
                       \/ view.to \in Listed(file["allowed_recipients"])
  /\ view.to = None => /\ "allow_contract_creation" \in DOMAIN file
                       /\ file["allow_contract_creation"]
  /\ view.value <= file["max_value_wei"].wei
  /\ view.data => file["allow_calldata"]
=============================================================================
