------------------------------ MODULE Transfer ------------------------------
(***************************************************************************)
(* The life of a transaction: POST /v1/prepare asks the node for nonce,    *)
(* fees and gas and returns unsigned bytes; POST /v1/sign turns bytes,     *)
(* prepared here or made elsewhere, into a signed transaction if enough    *)
(* cosigners' policies allow it; POST /v1/broadcast relays signed bytes to *)
(* the node and waits for the receipt.  The calls are not serialised, the  *)
(* node mines and forgets transactions in between, answers get lost, and   *)
(* the orchestrator restarts.                                              *)
(*                                                                         *)
(* One call of /v1/sign is one step here: Signing models its concurrency.  *)
(* A digest is the transaction it is of; a signed transaction's hash is    *)
(* the transaction with its signature, and two runs over one digest give   *)
(* two signatures.  The chain is not reorganised.                          *)
(***************************************************************************)
EXTENDS Policy, FiniteSets

CONSTANTS
  Party, Threshold,
  File,        \* of each party: its policy file
  Prep,        \* calls of /v1/prepare
  Wanted,      \* the bodies they come with
  Cast,        \* calls of /v1/broadcast
  Outside,     \* unsigned bytes that callers bring along
  Alien,       \* transactions signed by other keys
  Wallet, Other,  \* the wallet's key, and any other
  Garbled,     \* what no decoder accepts
  NodeChain,   \* the chain id of the node
  MaxSigned,   \* bound: signatures made
  MaxNonce     \* bound: transactions mined

ASSUME TransferAssumption ==
  /\ IsFiniteSet(Party) /\ Threshold \in 1 .. Cardinality(Party)
  /\ DOMAIN File = Party
  /\ Wallet # None /\ Wallet # Other
  /\ NodeChain \in Nat /\ MaxSigned \in Nat /\ MaxNonce \in Nat
  /\ \A s \in Alien : s.key # Wallet

VARIABLES
  active,    \* the orchestrator's key, or None
  cache,     \* signed transactions it would return again
  prep,      \* of each prepare: "new", "nonce", "fees", then its answer
  want,      \* of each prepare: its body
  nonce,     \* of each prepare: the nonce it read
  drafts,    \* unsigned bytes returned to callers
  signed,    \* signed transactions returned to callers
  cast,      \* of each broadcast: "new", where it waits, then its answer
  subject,   \* of each broadcast: the signed transaction
  pool,      \* the node's pending transactions of the wallet
  mined,     \* the chain: the wallet's transactions in nonce order
  \* history
  entered,   \* broadcasts whose submission the node took
  before,    \* of each broadcast: mined when it began
  dropped    \* transactions the node has ever dropped or replaced

keyVars  == <<active, cache, signed>>
prepVars == <<prep, want, nonce, drafts>>
castVars == <<cast, subject>>
apiVars  == <<keyVars, prepVars, castVars>>
nodeVars == <<pool, mined>>
history  == <<entered, before, dropped>>
vars     == <<apiVars, nodeVars, history>>

-----------------------------------------------------------------------------
(* Answers: the status of every way a call ends (ApiError::into_response)  *)

Status ==
  [Prepared |-> 200, Enrich |-> 502, Prepare |-> 400, DkgNotInitialized |-> 409,
   Confirmed |-> 200, Pending |-> 202, Rejected |-> 400, SignerMismatch |-> 400,
   Decode |-> 400, Rpc |-> 502, HashMismatch |-> 500]

Answers == DOMAIN Status
\* A call that nobody will answer: its caller or the orchestrator is gone.
Over == Answers \cup {"gone"}

-----------------------------------------------------------------------------
(* Transactions and their bytes                                            *)

Lead == [legacy |-> "list", eip2930 |-> "01", eip1559 |-> "02"]

\* What EthTx can represent: only EIP-1559 has a priority fee.
Tx ==
  {tx \in [type : DOMAIN Lead, chain : Nat \cup {None}, nonce : Nat,
           to : Address \cup {None}, value : Nat, data : BOOLEAN,
           gas : Nat, fee : Nat, tip : Nat] :
     tx.type # "eip1559" => tx.tip = 0}

\* The body of /v1/prepare: no nonce, gas or fee is the caller's.
Body == [type : DOMAIN Lead, to : Address \cup {None}, value : Nat, data : BOOLEAN,
         accessList : BOOLEAN]

\* encoded_for_signing: the type byte, or an RLP list for legacy.
EncodeUnsigned(tx) == [lead |-> Lead[tx.type], body |-> tx, trailing |-> FALSE]

\* decode_dispatch and decode_strict: a known type, its own fields, and nothing
\* behind them.
Decodes(b) ==
  /\ b.lead \in {"01", "02", "list"}
  /\ b.body # Garbled
  /\ ~b.trailing

\* The types of the inputs, which serde and the decoders enforce.
ASSUME InputAssumption ==
  /\ \A p \in Party : Parses(File[p]) => Typed(File[p])
  /\ Wanted \subseteq Body
  /\ \A b \in Outside : Decodes(b) => b.body \in Tx

\* validate_unsigned: replay protection, gas, and the two fees of EIP-1559.
Valid(tx) ==
  /\ tx.chain # None /\ tx.chain # 0
  /\ tx.gas # 0
  /\ tx.type = "eip1559" => tx.tip <= tx.fee

\* policy_view: a missing chain id is shown as 0.
View(tx) ==
  [chain |-> IF tx.chain = None THEN 0 ELSE tx.chain,
   to |-> tx.to, value |-> tx.value, data |-> tx.data]

\* vet: each cosigner decodes, validates and judges the bytes itself; without a
\* policy that parses it does not run.
Vets(p, b) ==
  /\ Parses(File[p])
  /\ Decodes(b) /\ Valid(b.body)
  /\ Evaluate(Parsed(File[p]), View(b.body)) = "Allow"

-----------------------------------------------------------------------------
Init ==
  /\ active = None /\ cache = {}
  /\ prep = [q \in Prep |-> "new"]
  /\ nonce = [q \in Prep |-> 0]
  /\ drafts = {} /\ signed = {}
  /\ cast = [c \in Cast |-> "new"]
  /\ subject = [c \in Cast |-> None]
  /\ pool = {} /\ mined = <<>>
  /\ entered = {} /\ dropped = {}
  /\ before = [c \in Cast |-> FALSE]
  /\ want = [q \in Prep |-> None]

Mined == {mined[i] : i \in DOMAIN mined}

-----------------------------------------------------------------------------
(* The node (external): what eth_* calls find and do                       *)

\* Mutant: the nonce is asked for without the pending transactions.
LatestNonce == Len(mined)

\* eth_getTransactionCount at "pending": the first nonce that is free.
PendingNonce ==
  CHOOSE n \in Len(mined) .. Len(mined) + Cardinality(pool) :
    /\ \A s \in pool : s.tx.nonce # n
    /\ \A m \in Len(mined) .. n - 1 : \E s \in pool : s.tx.nonce = m

\* What the node has at s's nonce gives way to s.
Take(s) ==
  LET rivals == {r \in pool \ {s} : r.tx.nonce = s.tx.nonce}
  IN  /\ pool' = (pool \ rivals) \cup {s}
      /\ dropped' = dropped \cup rivals

\* The node may take s: right chain, nonce not used up.
Admits(s) == s.tx.chain = NodeChain /\ s.tx.nonce >= Len(mined)

\* The next nonce is mined.
Mine(s) ==
  /\ s \in pool /\ s.tx.nonce = Len(mined) /\ Len(mined) < MaxNonce
  /\ mined' = Append(mined, s)
  /\ pool' = pool \ {s}
  /\ UNCHANGED <<apiVars, history>>

\* The node forgets a pending transaction.
Drop(s) ==
  /\ s \in pool
  /\ pool' = pool \ {s}
  /\ dropped' = dropped \cup {s}
  /\ UNCHANGED <<apiVars, mined, entered, before>>

-----------------------------------------------------------------------------
(* The orchestrator                                                        *)

\* DKG or startup recovery ends with the wallet's key.
Activate ==
  /\ active = None
  /\ active' = Wallet
  /\ UNCHANGED <<cache, signed, prepVars, castVars, nodeVars, history>>

\* A restart: key and cache are gone, and so is every handler.
Restart ==
  /\ active # None
  /\ active' = None /\ cache' = {}
  /\ prep' = [q \in Prep |-> IF prep[q] \in {"nonce", "fees"} THEN "gone" ELSE prep[q]]
  /\ cast' = [c \in Cast |-> IF cast[c] \in {"new"} \cup Over THEN cast[c] ELSE "gone"]
  /\ want' = [q \in Prep |-> None] /\ nonce' = [q \in Prep |-> 0]
  /\ UNCHANGED <<signed, drafts, subject, nodeVars, history>>

\* The handler answers; its locals are gone.
EndPrep(q, how) ==
  /\ prep' = [prep EXCEPT ![q] = how]
  /\ want' = [want EXCEPT ![q] = None]
  /\ nonce' = [nonce EXCEPT ![q] = 0]

\* /v1/prepare: the guards before the first RPC call.
BeginPrepare(q, w) ==
  /\ prep[q] = "new"
  /\ \/ active = None /\ EndPrep(q, "DkgNotInitialized")
     \/ active # None /\ w.type = "legacy" /\ w.accessList /\ EndPrep(q, "Prepare")
     \/ /\ active # None /\ ~(w.type = "legacy" /\ w.accessList)
        /\ prep' = [prep EXCEPT ![q] = "nonce"]
        /\ want' = [want EXCEPT ![q] = w]
        /\ UNCHANGED nonce
  /\ UNCHANGED <<keyVars, drafts, castVars, nodeVars, history>>

\* enrich: chain id and nonce.
ReadNonce(q) ==
  /\ prep[q] = "nonce"
  /\ nonce' = [nonce EXCEPT ![q] = PendingNonce]
  /\ prep' = [prep EXCEPT ![q] = "fees"]
  /\ UNCHANGED <<keyVars, want, drafts, castVars, nodeVars, history>>

\* Mutant: every type carries the priority fee.
BuiltTipKept(q, gas, fee, tip) ==
  [type |-> want[q].type, chain |-> NodeChain, nonce |-> nonce[q],
   to |-> want[q].to, value |-> want[q].value, data |-> want[q].data,
   gas |-> gas, fee |-> fee, tip |-> tip]

\* The transaction of an intent, with the fees and the gas the node named.
Built(q, gas, fee, tip) ==
  [type |-> want[q].type, chain |-> NodeChain, nonce |-> nonce[q],
   to |-> want[q].to, value |-> want[q].value, data |-> want[q].data,
   gas |-> gas, fee |-> fee,
   tip |-> IF want[q].type = "eip1559" THEN tip ELSE 0]

\* enrich ends with fees and gas; prepare validates what they make.
EndPrepare(q) ==
  /\ prep[q] = "fees"
  /\ \E gas \in 0 .. 1, tip \in 1 .. 2 :
       LET tx == Built(q, gas, 1, tip)
       IN  IF Valid(tx)
           THEN /\ EndPrep(q, "Prepared")
                /\ drafts' = drafts \cup {EncodeUnsigned(tx)}
           ELSE EndPrep(q, "Prepare") /\ UNCHANGED drafts
  /\ UNCHANGED <<keyVars, castVars, nodeVars, history>>

\* One of the RPC calls fails.
EnrichFails(q) ==
  /\ prep[q] \in {"nonce", "fees"}
  /\ EndPrep(q, "Enrich")
  /\ UNCHANGED <<keyVars, drafts, castVars, nodeVars, history>>

\* finalize: the signature recovers to the active key.
Finalizes(key) == key = active

\* /v1/sign of a transaction whose signature is kept: it is returned again.
CacheHit(b) == \E s \in cache : s.tx = b.body

\* Runs that signed tx: each gives a signature of its own.
Attempts(tx) == Cardinality({s \in signed : s.tx = tx})

\* /v1/sign: decoded and validated here, vetted by each of Threshold cosigners,
\* signed, finalized, kept and returned.
Sign(b) ==
  /\ Decodes(b) /\ Valid(b.body)
  /\ ~CacheHit(b) /\ active # None
  /\ \E S \in SUBSET Party :
       Cardinality(S) = Threshold /\ \A p \in S : Vets(p, b)
  /\ Cardinality(signed) < MaxSigned
  /\ \E key \in {Wallet, Other} :
       /\ Finalizes(key)
       /\ LET s == [tx |-> b.body, key |-> key, sig |-> Attempts(b.body)]
          IN  signed' = signed \cup {s} /\ cache' = cache \cup {s}
  /\ UNCHANGED <<active, prepVars, castVars, nodeVars, history>>

EndCast(c, how) == cast' = [cast EXCEPT ![c] = how]

\* The recovered sender is the active key's address.
Own(s) == s.key = active

\* /v1/broadcast: the guards before the first RPC call.
BeginCast(c, s) ==
  /\ cast[c] = "new"
  /\ \/ /\ \/ active = None /\ EndCast(c, "DkgNotInitialized")
           \/ active # None /\ s = Garbled /\ EndCast(c, "Decode")
           \/ active # None /\ s # Garbled /\ ~Own(s) /\ EndCast(c, "SignerMismatch")
        /\ UNCHANGED <<subject, before>>
     \/ /\ active # None /\ s # Garbled /\ Own(s) /\ EndCast(c, "send")
        /\ subject' = [subject EXCEPT ![c] = s]
        /\ before' = [before EXCEPT ![c] = s \in Mined]
  /\ UNCHANGED <<keyVars, prepVars, nodeVars, entered, dropped>>

\* eth_sendRawTransaction is answered with the hash.
Accepted(c) ==
  /\ cast[c] = "send" /\ Admits(subject[c])
  /\ Take(subject[c])
  /\ entered' = entered \cup {c}
  /\ EndCast(c, "poll")
  /\ UNCHANGED <<keyVars, prepVars, subject, mined, before>>

\* It is answered with a hash that is not the transaction's.
WrongEcho(c) ==
  /\ cast[c] = "send" /\ Admits(subject[c])
  /\ Take(subject[c])
  /\ entered' = entered \cup {c}
  /\ EndCast(c, "HashMismatch")
  /\ UNCHANGED <<keyVars, prepVars, subject, mined, before>>

\* Mutant: a refusal is passed on without a look at the receipts.
RefusedAtOnce == "Rejected"

\* After a refusal the receipt is looked up once.
AfterRefusal == "recheck"

\* It is answered with an error: stale nonce, known already, no funds, ...
Refused(c) ==
  /\ cast[c] = "send"
  /\ EndCast(c, AfterRefusal)
  /\ UNCHANGED <<keyVars, prepVars, subject, nodeVars, history>>

\* The answer does not come: the node may have the transaction or not.
SendBroken(c) ==
  /\ cast[c] = "send"
  /\ EndCast(c, "Rpc")
  /\ \/ UNCHANGED <<pool, entered, dropped>>
     \/ /\ Admits(subject[c])
        /\ Take(subject[c])
        /\ entered' = entered \cup {c}
  /\ UNCHANGED <<keyVars, prepVars, subject, mined, before>>

\* The one look after a refusal.
Recheck(c) ==
  /\ cast[c] = "recheck"
  /\ EndCast(c, IF subject[c] \in Mined THEN "Confirmed" ELSE "Rejected")
  /\ UNCHANGED <<keyVars, prepVars, subject, nodeVars, history>>

\* A look in the loop: the receipt, or on to the deadline.
Poll(c) ==
  /\ cast[c] = "poll"
  /\ EndCast(c, IF subject[c] \in Mined THEN "Confirmed" ELSE "missed")
  /\ UNCHANGED <<keyVars, prepVars, subject, nodeVars, history>>

\* Mutant: only a receipt ends the loop.
NoDeadline(c) == FALSE

\* Instant::now() >= deadline, which some look at the clock finds.
DeadlinePassed(c) == cast[c] = "missed"

\* No receipt, and the time for it is over.
GiveUp(c) ==
  /\ DeadlinePassed(c)
  /\ EndCast(c, "Pending")
  /\ UNCHANGED <<keyVars, prepVars, subject, nodeVars, history>>

\* No receipt yet: sleep, and look again.
PollAgain(c) ==
  /\ cast[c] = "missed"
  /\ EndCast(c, "poll")
  /\ UNCHANGED <<keyVars, prepVars, subject, nodeVars, history>>

\* The lookup of a receipt fails.
PollFails(c) ==
  /\ cast[c] \in {"recheck", "poll"}
  /\ EndCast(c, "Rpc")
  /\ UNCHANGED <<keyVars, prepVars, subject, nodeVars, history>>

\* The caller of a broadcast hangs up and its handler is dropped.
ClientGone(c) ==
  /\ cast[c] \notin {"new"} \cup Over
  /\ EndCast(c, "gone")
  /\ UNCHANGED <<keyVars, prepVars, subject, nodeVars, history>>

-----------------------------------------------------------------------------
Preparing(q) == ReadNonce(q) \/ EndPrepare(q) \/ EnrichFails(q)

\* The node's answer to a broadcast's call, and what the handler does next.
Casting(c) ==
  \/ Accepted(c) \/ WrongEcho(c) \/ Refused(c) \/ SendBroken(c)
  \/ Recheck(c) \/ Poll(c) \/ GiveUp(c) \/ PollAgain(c) \/ PollFails(c)

Next ==
  \/ Activate \/ Restart
  \/ \E q \in Prep, w \in Wanted : BeginPrepare(q, w)
  \/ \E q \in Prep : Preparing(q)
  \/ \E b \in drafts \cup Outside : Sign(b)
  \/ \E c \in Cast, s \in signed \cup Alien \cup {Garbled} : BeginCast(c, s)
  \/ \E c \in Cast : Casting(c) \/ ClientGone(c)
  \/ \E s \in pool : Mine(s) \/ Drop(s)

Spec == Init /\ [][Next]_vars

\* The node answers every call in the end, or the call fails; and a loop that
\* goes on for ever comes to a look at the clock after the deadline.
FairSpec == Spec /\ \A c \in Cast : WF_vars(Casting(c)) /\ SF_vars(GiveUp(c))
-----------------------------------------------------------------------------
(* Properties                                                              *)

Signed == [tx : Tx, key : {Wallet, Other}, sig : Nat]

TypeOK ==
  /\ active \in {Wallet, None}
  /\ prep \in [Prep -> {"new", "nonce", "fees"} \cup Over]
  /\ \A q \in Prep : want[q] \in (IF prep[q] \in {"nonce", "fees"} THEN Body ELSE {None})
  /\ nonce \in [Prep -> Nat]
  /\ \A b \in drafts : b.body \in Tx /\ b = EncodeUnsigned(b.body)
  /\ \A s \in signed : s \in Signed
  /\ cache \subseteq signed
  /\ cast \in [Cast -> {"new", "send", "recheck", "poll", "missed"} \cup Over]
  /\ pool \subseteq signed /\ Mined \subseteq signed
  /\ entered \subseteq Cast /\ dropped \subseteq signed
  /\ before \in [Cast -> BOOLEAN]

\* Whatever reaches the node was signed by the wallet, is protected against
\* replay, and is permitted by the files of a quorum of cosigners as they are
\* written: no bytes brought along, wrong signature or foreign transaction
\* slips through prepare, sign and broadcast.
OnlyApproved ==
  \A s \in pool \cup Mined :
    /\ s.key = Wallet /\ s.tx.chain # None
    /\ \E S \in SUBSET Party :
         /\ Cardinality(S) = Threshold
         /\ \A p \in S : Permits(File[p], View(s.tx))

\* What the status of a broadcast says is so: 200 means mined, 202 that the node
\* took this submission, and a 4xx that it did not, whatever was lost or mined
\* while the handler waited; and a transaction that was mined before the call is
\* neither refused nor called pending (broadcast.rs: "idempotent re-submit"), if
\* the call passes the guards that come before the first look at the node.
AnswerTrue ==
  \A c \in Cast : cast[c] \in Answers =>
    /\ Status[cast[c]] = 200 => subject[c] \in Mined
    /\ Status[cast[c]] = 202 => c \in entered /\ ~before[c]
    /\ Status[cast[c]] \in 400 .. 499 => c \notin entered /\ ~before[c]

\* A nonce that a caller was told is taken, by a 200 or a 202, is not given to
\* another transaction unless the node has dropped the first.
NonceNotReused ==
  [][\A q \in Prep, c \in Cast :
       /\ ReadNonce(q)
       /\ cast[c] \in {"Confirmed", "Pending"} /\ subject[c] \notin dropped
       => nonce'[q] # subject[c].tx.nonce]_vars

\* Every broadcast is answered, mined or not: the deadline ends the wait for
\* the receipt as long as each call to the node ends.
BroadcastEnds == \A c \in Cast : cast[c] # "new" ~> cast[c] \in Over
=============================================================================
