----------------------------- MODULE MCTransfer -----------------------------
(* A small instance of Transfer for TLC: 2-of-3.                           *)
EXTENDS Transfer, TLC
CONSTANTS p1, p2, p3, a1, a2, q1, c1, c2

\* p1 and p2 allow any call up to a ceiling; p3 one recipient and creation.
OpenFile ==
  [allowed_chain_ids |-> <<1>>, allowed_recipients |-> <<Star>>,
   max_value_wei |-> [form |-> "string", wei |-> 1], allow_calldata |-> TRUE]
ListFile ==
  [allowed_chain_ids |-> <<1, 2>>, allowed_recipients |-> <<a1>>,
   max_value_wei |-> [form |-> "string", wei |-> 2], allow_calldata |-> FALSE,
   allow_contract_creation |-> TRUE]
Files == p1 :> OpenFile @@ p2 :> OpenFile @@ p3 :> ListFile

\* A payment with an access list, which is refused for the legacy type.
Payment(type) ==
  [type |-> type, to |-> a1, value |-> 1, data |-> FALSE, accessList |-> TRUE]
Payments == {Payment("eip2930"), Payment("legacy")}

\* Bytes brought along: a call that is allowed, one whose priority fee is too
\* high, a creation, a transaction without chain id, one with something behind
\* it, and nothing.
Call(tip) ==
  [type |-> "eip1559", chain |-> 1, nonce |-> 0, to |-> a2, value |-> 0,
   data |-> FALSE, gas |-> 1, fee |-> 1, tip |-> tip]
Bare(chain, to) ==
  [type |-> "legacy", chain |-> chain, nonce |-> 0, to |-> to, value |-> 0,
   data |-> to = None, gas |-> 1, fee |-> 1, tip |-> 0]
Brought ==
  {EncodeUnsigned(Call(1)), EncodeUnsigned(Call(2)),
   EncodeUnsigned(Bare(1, None)), EncodeUnsigned(Bare(None, a1)),
   [EncodeUnsigned(Bare(1, a1)) EXCEPT !.trailing = TRUE],
   [lead |-> "none", body |-> Garbled, trailing |-> FALSE]}
Foreign == {[tx |-> Bare(1, a1), key |-> Other, sig |-> 0]}
=============================================================================
