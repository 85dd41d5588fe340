--------------------------- MODULE TransferProof ---------------------------
(***************************************************************************)
(* What a policy allows is what its file permits, and nothing else reaches *)
(* the node, for any files, thresholds, callers and bytes; a broadcast's   *)
(* answer is true; and a nonce that is taken is not handed out again.      *)
(***************************************************************************)
EXTENDS Transfer, FiniteSetTheorems, WellFoundedInduction, TLAPS

\* Only a list that is "*" alone opens the recipients.
LEMMA StarAlone ==
  ASSUME NEW list \in Seq(Address \cup {Star}), RecipientsParse(list)
  PROVE  Star \in Listed(list) <=> list = <<Star>>
<1>1. ASSUME Star \in Listed(list) PROVE list = <<Star>>
  <2>1. Len(list) = 1
    BY <1>1 DEF RecipientsParse
  <2>2. PICK i \in DOMAIN list : list[i] = Star
    BY <1>1 DEF Listed
  <2>3. list[1] = Star
    BY <2>1, <2>2
  <2>4. QED
    BY <2>1, <2>3
<1>2. ASSUME list = <<Star>> PROVE Star \in Listed(list)
  <2>1. 1 \in DOMAIN list /\ list[1] = Star
    BY <1>2
  <2>2. QED
    BY <2>1 DEF Listed
<1>3. QED
  BY <1>1, <1>2

\* Policy::evaluate allows a transaction exactly if the lines of the file it was
\* parsed from permit it: the order of the checks, the "*" and the defaulted knob
\* change nothing.
THEOREM EvaluateIsPermits ==
  ASSUME NEW file, NEW view, Parses(file), Typed(file),
         view.value \in Nat, view.to \in Address \cup {None}
  PROVE  Evaluate(Parsed(file), view) = "Allow" <=> Permits(file, view)
<1> DEFINE list == file["allowed_recipients"]
<1>1. Star \in Listed(list) <=> list = <<Star>>
  BY StarAlone DEF Parses, Typed
<1>2. view.to # None => (view.to \in Listed(list) \ {Star} <=> view.to \in Listed(list))
  BY NamesAssumption
<1>3. Destination(Parsed(file), view) = "Allow" <=>
        IF view.to = None
        THEN "allow_contract_creation" \in DOMAIN file /\ file["allow_contract_creation"]
        ELSE list = <<Star>> \/ view.to \in Listed(list)
  BY <1>1, <1>2 DEF Destination, Parsed, Recipients, Typed
<1>4. view.value > Parsed(file).max <=> ~(view.value <= file["max_value_wei"].wei)
  BY DEF Parsed, Typed
<1>5. QED
  BY <1>3, <1>4 DEF Evaluate, Permits, Parsed, Typed

-----------------------------------------------------------------------------
(* Only what a quorum permits reaches the node                             *)

\* Replay protected, and permitted by the files of a quorum.
Approved(tx) ==
  /\ tx.chain # None
  /\ \E S \in SUBSET Party :
       /\ Cardinality(S) = Threshold
       /\ \A p \in S : Permits(File[p], View(tx))

\* The fields a policy looks at have their types.
Sized(tx) == tx.value \in Nat /\ tx.to \in Address \cup {None}

KeyInv == active \in {Wallet, None}
DraftInv ==
  /\ DOMAIN prep = Prep /\ DOMAIN want = Prep
  /\ \A q \in Prep : prep[q] \in {"nonce", "fees"} => Sized(want[q])
  /\ \A b \in drafts : Sized(b.body)
SignedInv == \A s \in signed : s.key = Wallet /\ Approved(s.tx)
CastInv ==
  /\ DOMAIN cast = Cast /\ DOMAIN subject = Cast
  /\ \A c \in Cast : cast[c] = "send" => subject[c] \in signed
NodeInv == pool \subseteq signed /\ mined \in Seq(signed)

IndInv == KeyInv /\ DraftInv /\ SignedInv /\ CastInv /\ NodeInv

\* A cosigner lets pass only what its file permits.
LEMMA VetsPermits ==
  ASSUME NEW p \in Party, NEW b, Vets(p, b), Sized(b.body)
  PROVE  Permits(File[p], View(b.body))
<1>1. Parses(File[p]) /\ Typed(File[p])
  BY InputAssumption DEF Vets
<1>2. View(b.body).value \in Nat /\ View(b.body).to \in Address \cup {None}
  BY DEF View, Sized
<1>3. Evaluate(Parsed(File[p]), View(b.body)) = "Allow"
  BY DEF Vets
<1>4. QED
  BY <1>1, <1>2, <1>3, EvaluateIsPermits

LEMMA InitInd == Init => IndInv
BY DEF Init, IndInv, KeyInv, DraftInv, SignedInv, CastInv, NodeInv

\* /v1/sign adds only a signature that the wallet made and a quorum vetted.
LEMMA SignInd ==
  ASSUME IndInv, NEW b \in drafts \cup Outside, Sign(b)
  PROVE  IndInv'
<1>1. Sized(b.body)
  BY InputAssumption DEF IndInv, DraftInv, Sign, Sized, Tx
<1>2. Approved(b.body)
  <2>1. b.body.chain # None
    BY DEF Sign, Valid
  <2>2. PICK S \in SUBSET Party : Cardinality(S) = Threshold /\ \A p \in S : Vets(p, b)
    BY DEF Sign
  <2>3. \A p \in S : Permits(File[p], View(b.body))
    BY <1>1, <2>2, VetsPermits
  <2>4. QED
    BY <2>1, <2>2, <2>3 DEF Approved
<1>3. PICK key \in {Wallet, Other} :
        /\ key = active
        /\ signed' = signed \cup {[tx |-> b.body, key |-> key, sig |-> Attempts(b.body)]}
  BY DEF Sign, Finalizes
<1>4. key = Wallet
  BY <1>3 DEF Sign, IndInv, KeyInv
<1>5. SignedInv'
  <2>1. ASSUME NEW s \in signed' PROVE s.key = Wallet /\ Approved(s.tx)
    <3>1. CASE s \in signed
      BY <3>1 DEF IndInv, SignedInv
    <3>2. CASE s = [tx |-> b.body, key |-> key, sig |-> Attempts(b.body)]
      <4>1. s.key = Wallet /\ s.tx = b.body
        BY <3>2, <1>4
      <4>2. QED
        BY <4>1, <1>2
    <3>3. QED
      BY <1>3, <2>1, <3>1, <3>2
  <2>2. QED
    BY <2>1 DEF SignedInv, Approved
<1>6. signed \subseteq signed'
  BY <1>3
<1>7. NodeInv'
  <2>1. Seq(signed) \subseteq Seq(signed')
    BY <1>6
  <2>2. QED
    BY <1>6, <2>1 DEF Sign, IndInv, NodeInv, nodeVars
<1>8. KeyInv' /\ DraftInv'
  BY DEF Sign, IndInv, KeyInv, DraftInv, Sized, prepVars
<1>9. CastInv'
  BY <1>6 DEF Sign, IndInv, CastInv, castVars
<1>10. QED
  BY <1>5, <1>7, <1>8, <1>9 DEF IndInv

\* The key comes and goes, and handlers with it; nothing is signed.
LEMMA KeyInd ==
  ASSUME IndInv, Activate \/ Restart
  PROVE  IndInv'
<1>1. CASE Activate
  <2>1. KeyInv'
    BY <1>1 DEF Activate, KeyInv
  <2>2. QED
    BY <1>1, <2>1 DEF Activate, IndInv, DraftInv, SignedInv, Approved, Sized, CastInv,
      NodeInv, prepVars, castVars, nodeVars
<1>2. CASE Restart
  <2>1. KeyInv' /\ SignedInv' /\ NodeInv'
    BY <1>2 DEF Restart, IndInv, KeyInv, SignedInv, Approved, NodeInv, nodeVars
  <2>2. DraftInv'
    <3>1. \A q \in Prep : prep'[q] \notin {"nonce", "fees"}
      BY <1>2 DEF Restart
    <3>2. QED
      BY <1>2, <3>1 DEF Restart, IndInv, DraftInv, Sized
  <2>3. CastInv'
    <3>1. \A c \in Cast : cast'[c] # "send"
      BY <1>2 DEF Restart, Over, Answers, Status
    <3>2. QED
      BY <1>2, <3>1 DEF Restart, IndInv, CastInv
  <2>4. QED
    BY <2>1, <2>2, <2>3 DEF IndInv
<1>3. QED
  BY <1>1, <1>2

\* A step of /v1/prepare keeps the fields of its body, and signs nothing.
LEMMA PrepInd ==
  ASSUME IndInv, NEW q \in Prep,
         (\E w \in Wanted : BeginPrepare(q, w)) \/ Preparing(q)
  PROVE  IndInv'
<1>1. DraftInv'
  <2>1. ASSUME NEW w \in Wanted, BeginPrepare(q, w) PROVE DraftInv'
    <3>1. Sized(w)
      BY InputAssumption DEF Sized, Body
    <3>2. QED
      BY <2>1, <3>1 DEF BeginPrepare, EndPrep, IndInv, DraftInv, Sized
  <2>2. CASE ReadNonce(q)
    BY <2>2 DEF ReadNonce, IndInv, DraftInv, Sized
  <2>3. CASE EndPrepare(q)
    <3>1. PICK gas \in 0 .. 1, tip \in 1 .. 2 :
            LET tx == Built(q, gas, 1, tip)
            IN  IF Valid(tx)
                THEN /\ EndPrep(q, "Prepared")
                     /\ drafts' = drafts \cup {EncodeUnsigned(tx)}
                ELSE EndPrep(q, "Prepare") /\ UNCHANGED drafts
      BY <2>3 DEF EndPrepare
    <3>2. Sized(want[q])
      BY <2>3 DEF EndPrepare, IndInv, DraftInv
    <3>3. Sized(EncodeUnsigned(Built(q, gas, 1, tip)).body)
      BY <3>2 DEF EncodeUnsigned, Built, Sized
    <3>4. drafts' \subseteq drafts \cup {EncodeUnsigned(Built(q, gas, 1, tip))}
      BY <3>1
    <3>5. \A b \in drafts' : Sized(b.body)
      BY <3>3, <3>4 DEF IndInv, DraftInv
    <3>6. EndPrep(q, "Prepared") \/ EndPrep(q, "Prepare")
      BY <3>1
    <3>7. QED
      BY <3>5, <3>6 DEF EndPrep, IndInv, DraftInv, Sized
  <2>4. CASE EnrichFails(q)
    BY <2>4 DEF EnrichFails, EndPrep, IndInv, DraftInv, Sized
  <2>5. QED
    BY <2>1, <2>2, <2>3, <2>4 DEF Preparing
<1>2. UNCHANGED <<keyVars, castVars, nodeVars>>
  BY DEF BeginPrepare, Preparing, ReadNonce, EndPrepare, EnrichFails
<1>3. QED
  BY <1>1, <1>2 DEF IndInv, KeyInv, SignedInv, Approved, CastInv, NodeInv,
    keyVars, castVars, nodeVars

\* A broadcast submits only what the wallet signed: bytes signed by another key
\* do not pass the sender check.
LEMMA BeginCastInd ==
  ASSUME IndInv, NEW c \in Cast, NEW s \in signed \cup Alien \cup {Garbled},
         BeginCast(c, s)
  PROVE  IndInv'
<1>1. Own(s) /\ active # None /\ s # Garbled => s \in signed
  BY TransferAssumption DEF Own, IndInv, KeyInv
<1>2. CastInv'
  BY <1>1 DEF BeginCast, EndCast, IndInv, CastInv, keyVars
<1>3. UNCHANGED <<keyVars, prepVars, nodeVars>>
  BY DEF BeginCast
<1>4. QED
  BY <1>2, <1>3 DEF IndInv, KeyInv, DraftInv, Sized, SignedInv, Approved, NodeInv,
    keyVars, prepVars, nodeVars

\* What follows the submission puts at most that transaction into the pool.
LEMMA CastingInd ==
  ASSUME IndInv, NEW c \in Cast, Casting(c) \/ ClientGone(c)
  PROVE  IndInv'
<1>1. UNCHANGED <<keyVars, prepVars, subject, mined>>
  BY DEF Casting, ClientGone, Accepted, WrongEcho, Refused, SendBroken, Recheck, Poll,
    GiveUp, PollAgain, PollFails, nodeVars
<1>2. \E how : how # "send" /\ EndCast(c, how)
  BY DEF Casting, ClientGone, Accepted, WrongEcho, Refused, SendBroken, Recheck, Poll,
    GiveUp, PollAgain, PollFails, AfterRefusal
<1>3. CastInv'
  BY <1>1, <1>2 DEF EndCast, IndInv, CastInv, keyVars
<1>4. pool' \subseteq signed
  <2>1. CASE UNCHANGED pool
    BY <2>1 DEF IndInv, NodeInv
  <2>2. CASE cast[c] = "send" /\ Take(subject[c])
    <3>1. subject[c] \in signed
      BY <2>2 DEF IndInv, CastInv
    <3>2. QED
      BY <2>2, <3>1 DEF Take, IndInv, NodeInv
  <2>3. QED
    BY <2>1, <2>2 DEF Casting, ClientGone, Accepted, WrongEcho, Refused, SendBroken,
      Recheck, Poll, GiveUp, PollAgain, PollFails, nodeVars
<1>5. QED
  BY <1>1, <1>3, <1>4 DEF IndInv, KeyInv, DraftInv, Sized, SignedInv, Approved, NodeInv,
    keyVars, prepVars

\* The node mines and forgets only what it holds.
LEMMA NodeInd ==
  ASSUME IndInv, NEW s \in pool, Mine(s) \/ Drop(s)
  PROVE  IndInv'
<1>1. UNCHANGED apiVars
  BY DEF Mine, Drop
<1>2. s \in signed
  BY DEF IndInv, NodeInv
<1>3. mined' = mined \/ mined' = Append(mined, s)
  BY DEF Mine, Drop
<1>4. mined' \in Seq(signed)
  BY <1>2, <1>3 DEF IndInv, NodeInv
<1>5. pool' \subseteq signed
  BY DEF Mine, Drop, IndInv, NodeInv
<1>6. NodeInv'
  BY <1>1, <1>4, <1>5 DEF NodeInv, apiVars, keyVars
<1>7. QED
  BY <1>1, <1>6 DEF IndInv, KeyInv, DraftInv, Sized, SignedInv, Approved, CastInv,
    apiVars, keyVars, prepVars, castVars

LEMMA NextInd == IndInv /\ [Next]_vars => IndInv'
<1> SUFFICES ASSUME IndInv, [Next]_vars PROVE IndInv'
  OBVIOUS
<1>1. CASE Activate \/ Restart
  BY <1>1, KeyInd
<1>2. ASSUME NEW q \in Prep, (\E w \in Wanted : BeginPrepare(q, w)) \/ Preparing(q)
      PROVE  IndInv'
  BY <1>2, PrepInd
<1>3. ASSUME NEW b \in drafts \cup Outside, Sign(b) PROVE IndInv'
  BY <1>3, SignInd
<1>4. ASSUME NEW c \in Cast, NEW s \in signed \cup Alien \cup {Garbled}, BeginCast(c, s)
      PROVE  IndInv'
  BY <1>4, BeginCastInd
<1>5. ASSUME NEW c \in Cast, Casting(c) \/ ClientGone(c) PROVE IndInv'
  BY <1>5, CastingInd
<1>6. ASSUME NEW s \in pool, Mine(s) \/ Drop(s) PROVE IndInv'
  BY <1>6, NodeInd
<1>7. CASE UNCHANGED vars
  BY <1>7 DEF vars, apiVars, keyVars, prepVars, castVars, nodeVars, IndInv, KeyInv,
    DraftInv, Sized, SignedInv, Approved, CastInv, NodeInv
<1>8. QED
  BY <1>1, <1>2, <1>3, <1>4, <1>5, <1>6, <1>7 DEF Next

LEMMA IndApproved == IndInv => OnlyApproved
<1> SUFFICES ASSUME IndInv PROVE OnlyApproved
  OBVIOUS
<1>1. pool \cup Mined \subseteq signed
  BY DEF IndInv, NodeInv, Mined
<1>2. QED
  BY <1>1 DEF OnlyApproved, IndInv, SignedInv, Approved

\* Nothing but the wallet's own transactions, each permitted by the files of a
\* quorum, is ever in the node's pool or on the chain, whatever bytes callers
\* bring to /v1/sign and /v1/broadcast and whenever the orchestrator restarts.
THEOREM OnlyApprovedHolds == Spec => []OnlyApproved
<1>1. Init => IndInv
  BY InitInd
<1>2. IndInv /\ [Next]_vars => IndInv'
  BY NextInd
<1>3. IndInv => OnlyApproved
  BY IndApproved
<1>4. QED
  BY <1>1, <1>2, <1>3, PTL DEF Spec

-----------------------------------------------------------------------------
(* The first free nonce                                                    *)

\* A set of numbers that is not empty has a least one.
LEMMA LeastNatural ==
  ASSUME NEW T \in SUBSET Nat, T # {}
  PROVE  \E m \in T : \A k \in T : m <= k
<1>1. PICK m \in T : \A k \in T : ~(<<k, m>> \in OpToRel(<, Nat))
  BY NatLessThanWellFounded, WFMin
<1>2. \A k \in T : ~(k < m)
  BY <1>1 DEF OpToRel
<1>3. QED
  BY <1>2

\* Among as many numbers as there are names for, and one more, there is a first
\* that is not taken.
LEMMA FirstFree ==
  ASSUME NEW base \in Nat, NEW S, IsFiniteSet(S), NEW f \in [S -> Nat]
  PROVE  \E n \in base .. base + Cardinality(S) :
           /\ \A s \in S : f[s] # n
           /\ \A m \in base .. n - 1 : \E s \in S : f[s] = m
<1> DEFINE I == base .. base + Cardinality(S)
           U == {f[s] : s \in S}
           T == I \ U
<1>1. Cardinality(S) \in Nat
  BY FS_CardinalityType
<1>2. IsFiniteSet(U) /\ Cardinality(U) <= Cardinality(S) /\ Cardinality(U) \in Nat
  <2>1. f \in Surjection(S, U)
    BY DEF Surjection
  <2>2. QED
    BY <2>1, FS_Surjection, FS_CardinalityType
<1>3. Cardinality(I) = Cardinality(S) + 1
  <2>1. base \in Int /\ base + Cardinality(S) \in Int /\ ~(base > base + Cardinality(S))
    BY <1>1
  <2>2. QED
    BY <1>1, <2>1, FS_Interval
<1>4. T # {}
  <2>1. ASSUME I \subseteq U PROVE FALSE
    <3> HIDE DEF I, U
    <3>1. Cardinality(I) <= Cardinality(U)
      BY <1>2, <2>1, FS_Subset
    <3>2. QED
      BY <3>1, <1>1, <1>2, <1>3
  <2>2. QED
    BY <2>1
<1>5. PICK n \in T : \A k \in T : n <= k
  <2>1. T \in SUBSET Nat
    BY <1>1
  <2> HIDE DEF T
  <2>2. QED
    BY <1>4, <2>1, LeastNatural
<1>6. ASSUME NEW m \in base .. n - 1 PROVE \E s \in S : f[s] = m
  <2>1. m \in I /\ m < n
    BY <1>1, <1>5
  <2>2. m \in U
    BY <1>1, <1>5, <2>1
  <2>3. QED
    BY <2>2
<1>7. QED
  BY <1>5, <1>6

\* What eth_getTransactionCount answers: no pending transaction has that nonce,
\* and it is not one of those used up.
LEMMA PendingNonceFree ==
  ASSUME pool \subseteq Signed, IsFiniteSet(pool), Len(mined) \in Nat
  PROVE  /\ PendingNonce \in Nat /\ PendingNonce >= Len(mined)
         /\ \A s \in pool : s.tx.nonce # PendingNonce
<1> DEFINE f == [s \in pool |-> s.tx.nonce]
           P(n) == /\ \A s \in pool : s.tx.nonce # n
                   /\ \A m \in Len(mined) .. n - 1 : \E s \in pool : s.tx.nonce = m
<1>1. f \in [pool -> Nat]
  BY DEF Signed, Tx
<1>2. PICK n \in Len(mined) .. Len(mined) + Cardinality(pool) :
        /\ \A s \in pool : f[s] # n
        /\ \A m \in Len(mined) .. n - 1 : \E s \in pool : f[s] = m
  <2> HIDE DEF f
  <2>1. QED
    BY <1>1, FirstFree
<1>3. P(n)
  BY <1>2
<1>4. PendingNonce = CHOOSE k \in Len(mined) .. Len(mined) + Cardinality(pool) : P(k)
  BY DEF PendingNonce
<1>5. PendingNonce \in Len(mined) .. Len(mined) + Cardinality(pool) /\ P(PendingNonce)
  <2> HIDE DEF P
  <2>1. QED
    BY <1>3, <1>4
<1>6. Cardinality(pool) \in Nat
  BY FS_CardinalityType
<1>7. QED
  BY <1>5, <1>6

-----------------------------------------------------------------------------
(* Types                                                                   *)

Typing == TypeOK /\ IsFiniteSet(signed)

LEMMA InitTyping == Init => Typing
BY FS_EmptySet DEF Init, Typing, TypeOK, Over, Mined

LEMMA PendingNonceNat ==
  ASSUME IndInv, Typing
  PROVE  /\ PendingNonce \in Nat /\ PendingNonce >= Len(mined)
         /\ \A s \in pool : s.tx.nonce # PendingNonce
<1>1. pool \subseteq Signed
  BY DEF Typing, TypeOK
<1>2. IsFiniteSet(pool)
  BY FS_Subset DEF IndInv, NodeInv, Typing
<1>3. Len(mined) \in Nat
  BY DEF IndInv, NodeInv
<1>4. QED
  BY <1>1, <1>2, <1>3, PendingNonceFree

\* What prepare builds is a transaction.
LEMMA BuiltIsTx ==
  ASSUME Typing, NEW q \in Prep, prep[q] = "fees",
         NEW gas \in 0 .. 1, NEW tip \in 1 .. 2
  PROVE  Built(q, gas, 1, tip) \in Tx
<1>1. want[q] \in Body /\ nonce[q] \in Nat
  BY DEF Typing, TypeOK
<1>2. QED
  BY <1>1, TransferAssumption DEF Built, Tx, Body

LEMMA PrepTyping ==
  ASSUME IndInv, IndInv', Typing, NEW q \in Prep,
         (\E w \in Wanted : BeginPrepare(q, w)) \/ Preparing(q)
  PROVE  Typing'
<1>1. UNCHANGED <<keyVars, castVars, nodeVars, history>>
  BY DEF BeginPrepare, Preparing, ReadNonce, EndPrepare, EnrichFails
<1>2. prep \in [Prep -> {"new", "nonce", "fees"} \cup Over] /\ nonce \in [Prep -> Nat]
      /\ DOMAIN want = Prep
  BY DEF Typing, TypeOK, IndInv, DraftInv
<1>3. {"Prepared", "Enrich", "Prepare", "DkgNotInitialized"} \subseteq Over
  BY DEF Over, Answers, Status
<1>4. "nonce" \notin Over /\ "fees" \notin Over
  BY DEF Over, Answers, Status
<1> DEFINE Goal ==
      /\ prep' \in [Prep -> {"new", "nonce", "fees"} \cup Over]
      /\ \A r \in Prep : want'[r] \in (IF prep'[r] \in {"nonce", "fees"} THEN Body ELSE {None})
      /\ nonce' \in [Prep -> Nat]
<1>5. ASSUME NEW how \in {"Prepared", "Enrich", "Prepare", "DkgNotInitialized"}, EndPrep(q, how)
      PROVE  Goal
  <2>1. prep' \in [Prep -> {"new", "nonce", "fees"} \cup Over] /\ nonce' \in [Prep -> Nat]
    BY <1>2, <1>3, <1>5 DEF EndPrep
  <2>2. \A r \in Prep : /\ prep'[r] = IF r = q THEN how ELSE prep[r]
                        /\ want'[r] = IF r = q THEN None ELSE want[r]
    BY <1>2, <1>5 DEF EndPrep
  <2>3. QED
    BY <2>1, <2>2 DEF Typing, TypeOK
<1> DEFINE Drafts == \A b \in drafts' : b.body \in Tx /\ b = EncodeUnsigned(b.body)
<1>6. ASSUME NEW w \in Wanted, BeginPrepare(q, w) PROVE Goal /\ Drafts
  <2>1. Drafts
    BY <1>6 DEF BeginPrepare, Typing, TypeOK
  <2>2. CASE \E how \in {"Prepared", "Enrich", "Prepare", "DkgNotInitialized"} : EndPrep(q, how)
    BY <1>5, <2>1, <2>2
  <2>3. CASE /\ prep' = [prep EXCEPT ![q] = "nonce"]
             /\ want' = [want EXCEPT ![q] = w]
             /\ UNCHANGED nonce
    <3>1. \A r \in Prep : /\ prep'[r] = IF r = q THEN "nonce" ELSE prep[r]
                          /\ want'[r] = IF r = q THEN w ELSE want[r]
      BY <1>2, <2>3
    <3>2. w \in Body
      BY InputAssumption
    <3>3. prep' \in [Prep -> {"new", "nonce", "fees"} \cup Over] /\ nonce' \in [Prep -> Nat]
      BY <1>2, <2>3
    <3>4. QED
      BY <2>1, <3>1, <3>2, <3>3 DEF Typing, TypeOK
  <2>4. QED
    BY <1>6, <2>2, <2>3 DEF BeginPrepare
<1>7. ASSUME ReadNonce(q) PROVE Goal /\ Drafts
  <2>1. \A r \in Prep : prep'[r] = IF r = q THEN "fees" ELSE prep[r]
    BY <1>2, <1>7 DEF ReadNonce
  <2>2. prep' \in [Prep -> {"new", "nonce", "fees"} \cup Over]
    BY <1>2, <1>7 DEF ReadNonce
  <2>3. nonce' \in [Prep -> Nat]
    BY <1>2, <1>7, PendingNonceNat DEF ReadNonce
  <2>4. UNCHANGED <<want, drafts>> /\ prep[q] = "nonce"
    BY <1>7 DEF ReadNonce
  <2>5. QED
    BY <2>1, <2>2, <2>3, <2>4 DEF Typing, TypeOK
<1>8. ASSUME EndPrepare(q) PROVE Goal /\ Drafts
  <2>1. PICK gas \in 0 .. 1, tip \in 1 .. 2 :
          LET tx == Built(q, gas, 1, tip)
          IN  IF Valid(tx)
              THEN /\ EndPrep(q, "Prepared")
                   /\ drafts' = drafts \cup {EncodeUnsigned(tx)}
              ELSE EndPrep(q, "Prepare") /\ UNCHANGED drafts
    BY <1>8 DEF EndPrepare
  <2> DEFINE tx == Built(q, gas, 1, tip)
  <2>2. tx \in Tx
    BY <1>8, BuiltIsTx DEF EndPrepare
  <2>3. drafts' \subseteq drafts \cup {EncodeUnsigned(tx)}
    BY <2>1
  <2>4. EncodeUnsigned(tx).body = tx
    BY DEF EncodeUnsigned
  <2>5. EndPrep(q, "Prepared") \/ EndPrep(q, "Prepare")
    BY <2>1
  <2> HIDE DEF tx
  <2>6. Drafts
    BY <2>2, <2>3, <2>4 DEF Typing, TypeOK
  <2>7. QED
    BY <1>5, <2>5, <2>6
<1>9. ASSUME EnrichFails(q) PROVE Goal /\ Drafts
  BY <1>5, <1>9 DEF EnrichFails, Typing, TypeOK
<1>10. Goal /\ Drafts
  BY <1>6, <1>7, <1>8, <1>9 DEF Preparing
<1> HIDE DEF Goal, Drafts
<1>11. UNCHANGED <<active, cache, signed, cast, pool, mined, entered, dropped, before>>
  BY <1>1 DEF keyVars, castVars, nodeVars, history
<1>12. QED
  BY <1>10, <1>11 DEF Goal, Drafts, Typing, TypeOK, Mined

LEMMA SignTyping ==
  ASSUME IndInv, IndInv', Typing, NEW b \in drafts \cup Outside, Sign(b)
  PROVE  Typing'
<1>1. PICK key \in {Wallet, Other} :
        LET s == [tx |-> b.body, key |-> key, sig |-> Attempts(b.body)]
        IN  signed' = signed \cup {s} /\ cache' = cache \cup {s}
  BY DEF Sign
<1> DEFINE s == [tx |-> b.body, key |-> key, sig |-> Attempts(b.body)]
<1>2. b.body \in Tx
  BY InputAssumption DEF Sign, Typing, TypeOK
<1>3. Attempts(b.body) \in Nat
  <2> DEFINE A == {r \in signed : r.tx = b.body}
  <2>1. IsFiniteSet(A)
    BY FS_Subset DEF Typing
  <2>2. QED
    BY <2>1, FS_CardinalityType DEF Attempts
<1>4. s \in Signed
  BY <1>2, <1>3 DEF Signed
<1>5. signed' = signed \cup {s} /\ cache' = cache \cup {s}
  BY <1>1
<1>6. IsFiniteSet(signed')
  BY <1>5, FS_AddElement DEF Typing
<1> HIDE DEF s
<1>7. UNCHANGED <<active, prep, want, nonce, drafts, cast, pool, mined, entered, dropped, before>>
  BY DEF Sign, prepVars, castVars, nodeVars, history
<1>8. QED
  BY <1>4, <1>5, <1>6, <1>7 DEF Typing, TypeOK, Mined

LEMMA KeyTyping ==
  ASSUME IndInv, Typing, Activate \/ Restart
  PROVE  Typing'
<1>1. CASE Activate
  BY <1>1 DEF Activate, Typing, TypeOK, Mined, prepVars, castVars, nodeVars, history
<1>2. CASE Restart
  <2>1. UNCHANGED <<drafts, signed, pool, mined, entered, dropped, before>>
        /\ active' = None /\ cache' = {}
    BY <1>2 DEF Restart, nodeVars, history
  <2>2. cast' \in [Cast -> {"new", "send", "recheck", "poll", "missed"} \cup Over]
    BY <1>2 DEF Restart, Typing, TypeOK, Over
  <2>3. prep' \in [Prep -> {"new", "nonce", "fees"} \cup Over]
        /\ \A q \in Prep : prep'[q] \notin {"nonce", "fees"}
    BY <1>2 DEF Restart, Typing, TypeOK, Over
  <2>4. nonce' \in [Prep -> Nat] /\ \A q \in Prep : want'[q] = None
    BY <1>2 DEF Restart
  <2>5. QED
    BY <2>1, <2>2, <2>3, <2>4 DEF Typing, TypeOK, Mined
<1>3. QED
  BY <1>1, <1>2

\* A transaction that is submitted takes the place of what has its nonce.
LEMMA TakeTyping ==
  ASSUME Typing, NEW s \in signed, Take(s), UNCHANGED signed
  PROVE  pool' \subseteq signed' /\ dropped' \subseteq signed'
BY DEF Take, Typing, TypeOK

LEMMA CastTyping ==
  ASSUME IndInv, IndInv', Typing, NEW c \in Cast,
         \/ Casting(c) \/ ClientGone(c)
         \/ \E s \in signed \cup Alien \cup {Garbled} : BeginCast(c, s)
  PROVE  Typing'
<1>1. UNCHANGED <<keyVars, prepVars, mined>>
  BY DEF BeginCast, Casting, ClientGone, Accepted, WrongEcho, Refused, SendBroken, Recheck,
    Poll, GiveUp, PollAgain, PollFails, nodeVars
<1> DEFINE Cs == {"new", "send", "recheck", "poll", "missed"} \cup Over
<1>2. \E how \in Cs : EndCast(c, how)
  BY DEF BeginCast, Casting, ClientGone, Accepted, WrongEcho, Refused, SendBroken, Recheck,
    Poll, GiveUp, PollAgain, PollFails, AfterRefusal, Over, Answers, Status
<1>3. cast' \in [Cast -> Cs]
  <2>1. cast \in [Cast -> Cs]
    BY DEF Typing, TypeOK
  <2> HIDE DEF Cs
  <2>2. QED
    BY <1>2, <2>1 DEF EndCast
<1>4. entered' \subseteq Cast
  BY DEF BeginCast, Casting, ClientGone, Accepted, WrongEcho, Refused, SendBroken, Recheck,
    Poll, GiveUp, PollAgain, PollFails, history, Typing, TypeOK
<1>5. before' \in [Cast -> BOOLEAN]
  <2>1. CASE UNCHANGED before
    BY <2>1 DEF Typing, TypeOK
  <2>2. ASSUME NEW s, before' = [before EXCEPT ![c] = s \in Mined]
        PROVE  before' \in [Cast -> BOOLEAN]
    BY <2>2 DEF Typing, TypeOK
  <2>3. QED
    BY <2>1, <2>2 DEF BeginCast, Casting, ClientGone, Accepted, WrongEcho, Refused,
      SendBroken, Recheck, Poll, GiveUp, PollAgain, PollFails, history
<1>6. pool' \subseteq signed' /\ dropped' \subseteq signed'
  <2>1. CASE UNCHANGED <<pool, dropped>>
    BY <1>1, <2>1 DEF Typing, TypeOK, keyVars
  <2>2. CASE cast[c] = "send" /\ Take(subject[c])
    <3>1. subject[c] \in signed
      BY <2>2 DEF IndInv, CastInv
    <3>2. QED
      BY <1>1, <2>2, <3>1, TakeTyping DEF keyVars
  <2>3. QED
    BY <2>1, <2>2 DEF BeginCast, Casting, ClientGone, Accepted, WrongEcho, Refused,
      SendBroken, Recheck, Poll, GiveUp, PollAgain, PollFails, nodeVars, history
<1>7. UNCHANGED <<active, cache, signed, prep, want, nonce, drafts, mined>>
  BY <1>1 DEF keyVars, prepVars
<1>8. QED
  BY <1>3, <1>4, <1>5, <1>6, <1>7 DEF Typing, TypeOK, Mined

LEMMA NodeTyping ==
  ASSUME IndInv, IndInv', Typing, NEW s \in pool, Mine(s) \/ Drop(s)
  PROVE  Typing'
<1>1. UNCHANGED <<active, cache, signed, prep, want, nonce, drafts, cast, entered, before>>
  BY DEF Mine, Drop, apiVars, keyVars, prepVars, castVars, history
<1>2. pool' \subseteq signed' /\ dropped' \subseteq signed'
  BY <1>1 DEF Mine, Drop, history, Typing, TypeOK
<1>3. Mined' \subseteq signed'
  BY DEF IndInv, NodeInv, Mined
<1>4. QED
  BY <1>1, <1>2, <1>3 DEF Typing, TypeOK

LEMMA NextTyping == IndInv /\ IndInv' /\ Typing /\ [Next]_vars => Typing'
<1> SUFFICES ASSUME IndInv, IndInv', Typing, [Next]_vars PROVE Typing'
  OBVIOUS
<1>1. CASE Activate \/ Restart
  BY <1>1, KeyTyping
<1>2. ASSUME NEW q \in Prep, (\E w \in Wanted : BeginPrepare(q, w)) \/ Preparing(q)
      PROVE  Typing'
  BY <1>2, PrepTyping
<1>3. ASSUME NEW b \in drafts \cup Outside, Sign(b) PROVE Typing'
  BY <1>3, SignTyping
<1>4. ASSUME NEW c \in Cast,
             \/ Casting(c) \/ ClientGone(c)
             \/ \E s \in signed \cup Alien \cup {Garbled} : BeginCast(c, s)
      PROVE  Typing'
  BY <1>4, CastTyping
<1>5. ASSUME NEW s \in pool, Mine(s) \/ Drop(s) PROVE Typing'
  BY <1>5, NodeTyping
<1>6. CASE UNCHANGED vars
  BY <1>6 DEF vars, apiVars, keyVars, prepVars, castVars, nodeVars, history, Typing, TypeOK,
    Mined
<1>7. QED
  BY <1>1, <1>2, <1>3, <1>4, <1>5, <1>6 DEF Next

\* The types of the whole life of a transaction: what prepare returns is a
\* transaction EthTx can represent, with a nonce the node really named (there
\* always is a first free one), and what is signed, cached, pooled, mined and
\* dropped is one of those.
THEOREM TypeCorrect == Spec => []TypeOK
<1>1. Init => IndInv /\ Typing
  BY InitInd, InitTyping
<1>2. IndInv /\ Typing /\ [Next]_vars => IndInv' /\ Typing'
  BY NextInd, NextTyping
<1>3. Typing => TypeOK
  BY DEF Typing
<1>4. QED
  BY <1>1, <1>2, <1>3, PTL DEF Spec

-----------------------------------------------------------------------------
(* What a broadcast answers                                                *)

\* The chain holds one transaction of each nonce.
NonceInv == \A i \in DOMAIN mined : mined[i].tx.nonce = i - 1

\* What is known of broadcast c where it stands: what was mined stays mined, a
\* submission the node took was not mined before, and from then on it is in the
\* pool, on the chain, or among what the node has dropped.
HistoryOf(c) ==
  /\ cast[c] \notin {"Prepared", "Enrich", "Prepare"}
  /\ before[c] => subject[c] \in Mined
  /\ c \in entered => ~before[c] /\ subject[c] \in pool \cup Mined \cup dropped
  /\ cast[c] \in {"new", "DkgNotInitialized", "Decode", "SignerMismatch", "Rejected"} =>
       c \notin entered /\ ~before[c]
  /\ cast[c] \in {"send", "recheck"} => c \notin entered
  /\ cast[c] \in {"poll", "missed", "Pending"} => c \in entered
  /\ cast[c] = "Confirmed" => subject[c] \in Mined
HistoryInv == \A c \in Cast : HistoryOf(c)

Answering == IndInv /\ Typing /\ NonceInv /\ HistoryInv

\* A transaction on the chain has a nonce that is used up: the node takes no
\* second copy of it.
LEMMA MinedNotAdmitted ==
  ASSUME Answering, NEW s \in Mined
  PROVE  s.tx.nonce < Len(mined) /\ s.tx.nonce \in Nat /\ ~Admits(s)
<1>1. Len(mined) \in Nat /\ DOMAIN mined = 1 .. Len(mined)
  BY DEF Answering, IndInv, NodeInv
<1>2. PICK i \in DOMAIN mined : s = mined[i]
  BY DEF Mined
<1>3. s.tx.nonce = i - 1
  BY <1>2 DEF Answering, NonceInv
<1>4. QED
  BY <1>1, <1>2, <1>3 DEF Admits

LEMMA InitAnswering == Init => Answering
<1> SUFFICES ASSUME Init PROVE Answering
  OBVIOUS
<1>1. IndInv /\ Typing
  BY InitInd, InitTyping
<1>2. NonceInv
  BY DEF Init, NonceInv
<1>3. HistoryInv
  BY DEF Init, HistoryInv, HistoryOf
<1>4. QED
  BY <1>1, <1>2, <1>3 DEF Answering

\* A step that leaves the broadcasts and the node alone.
LEMMA ElsewhereAnswering ==
  ASSUME Answering, UNCHANGED <<castVars, nodeVars, history>>
  PROVE  NonceInv' /\ HistoryInv'
BY DEF Answering, NonceInv, HistoryInv, HistoryOf, Mined, castVars, nodeVars, history

\* A restart leaves answers as they are and drops the other handlers.
LEMMA RestartAnswering ==
  ASSUME Answering, Restart
  PROVE  NonceInv' /\ HistoryInv'
<1>1. UNCHANGED <<subject, pool, mined, entered, before, dropped>>
  BY DEF Restart, nodeVars, history
<1>2. \A c \in Cast : cast'[c] = cast[c] \/ cast'[c] = "gone"
  BY DEF Restart
<1>3. ASSUME NEW c \in Cast PROVE HistoryOf(c)'
  <2>1. HistoryOf(c)
    BY DEF Answering, HistoryInv
  <2>2. CASE cast'[c] = cast[c]
    BY <1>1, <2>1, <2>2 DEF HistoryOf, Mined
  <2>3. CASE cast'[c] = "gone"
    BY <1>1, <2>1, <2>3 DEF HistoryOf, Mined
  <2>4. QED
    BY <1>2, <2>2, <2>3
<1>4. QED
  BY <1>1, <1>3 DEF Answering, NonceInv, HistoryInv

\* The node mines or forgets: what a broadcast knows of its transaction stays so.
LEMMA NodeAnswering ==
  ASSUME Answering, NEW s \in pool, Mine(s) \/ Drop(s)
  PROVE  NonceInv' /\ HistoryInv'
<1>1. UNCHANGED <<cast, subject, entered, before>>
  BY DEF Mine, Drop, apiVars, castVars, history
<1>2. mined \in Seq(signed) /\ s \in signed
  BY DEF Answering, IndInv, NodeInv
<1>3. /\ Mined \subseteq Mined' /\ NonceInv'
      /\ pool \cup Mined \cup dropped \subseteq pool' \cup Mined' \cup dropped'
  <2>1. CASE Mine(s)
    <3>1. mined' = Append(mined, s) /\ s.tx.nonce = Len(mined) /\ pool' = pool \ {s}
          /\ UNCHANGED dropped
      BY <2>1 DEF Mine, history
    <3>2. /\ DOMAIN mined' = 1 .. Len(mined) + 1 /\ mined'[Len(mined) + 1] = s
          /\ DOMAIN mined = 1 .. Len(mined)
          /\ \A i \in DOMAIN mined : mined'[i] = mined[i]
          /\ Len(mined) \in Nat
      BY <1>2, <3>1
    <3>3. Mined' = Mined \cup {s}
      BY <3>2 DEF Mined
    <3>4. NonceInv'
      BY <3>1, <3>2 DEF NonceInv, Answering
    <3>5. QED
      BY <3>1, <3>3, <3>4
  <2>2. CASE Drop(s)
    BY <2>2 DEF Drop, Answering, NonceInv, Mined
  <2>3. QED
    BY <2>1, <2>2
<1>4. ASSUME NEW c \in Cast PROVE HistoryOf(c)'
  <2>1. HistoryOf(c)
    BY DEF Answering, HistoryInv
  <2>2. QED
    BY <1>1, <1>3, <2>1 DEF HistoryOf
<1>5. QED
  BY <1>3, <1>4 DEF HistoryInv

\* What gives way in the pool is remembered as dropped.
LEMMA TakeKeeps ==
  ASSUME NEW s, Take(s)
  PROVE  s \in pool' /\ pool \cup dropped \subseteq pool' \cup dropped'
BY DEF Take

\* A broadcast begins: refused at the door it has touched nothing.
LEMMA BeginAnswering ==
  ASSUME Answering, NEW c \in Cast, NEW s, BeginCast(c, s)
  PROVE  NonceInv' /\ HistoryInv'
<1>1. UNCHANGED <<pool, mined, entered, dropped>>
  BY DEF BeginCast, nodeVars
<1>2. DOMAIN cast = Cast /\ DOMAIN subject = Cast /\ DOMAIN before = Cast
  BY DEF Answering, IndInv, CastInv, Typing, TypeOK
<1>3. cast[c] = "new" /\ c \notin entered /\ ~before[c]
  BY DEF BeginCast, Answering, HistoryInv, HistoryOf
<1>4. ASSUME NEW d \in Cast, d # c PROVE HistoryOf(d)'
  <2>1. HistoryOf(d)
    BY DEF Answering, HistoryInv
  <2>2. cast'[d] = cast[d] /\ subject'[d] = subject[d] /\ before'[d] = before[d]
    BY <1>2, <1>4 DEF BeginCast, EndCast
  <2>3. QED
    BY <1>1, <2>1, <2>2 DEF HistoryOf, Mined
<1>5. HistoryOf(c)'
  <2>1. CASE /\ cast'[c] \in {"DkgNotInitialized", "Decode", "SignerMismatch"}
             /\ UNCHANGED before
    BY <1>1, <1>3, <2>1 DEF HistoryOf
  <2>2. CASE /\ cast'[c] = "send" /\ subject'[c] = s /\ before'[c] = (s \in Mined)
    BY <1>1, <1>3, <2>2 DEF HistoryOf, Mined
  <2>3. QED
    BY <1>2, <2>1, <2>2 DEF BeginCast, EndCast
<1>6. QED
  BY <1>1, <1>4, <1>5 DEF Answering, NonceInv, HistoryInv

\* The node's answers, the looks for a receipt, and the end of the wait.
LEMMA CastingAnswering ==
  ASSUME Answering, NEW c \in Cast, Casting(c) \/ ClientGone(c)
  PROVE  NonceInv' /\ HistoryInv'
<1> DEFINE s == subject[c]
           Kept == pool \cup Mined \cup dropped \subseteq pool' \cup Mined' \cup dropped'
<1>1. UNCHANGED <<subject, mined, before>>
  BY DEF Casting, ClientGone, Accepted, WrongEcho, Refused, SendBroken, Recheck, Poll,
    GiveUp, PollAgain, PollFails, nodeVars, history
<1>2. cast \in [Cast -> {"new", "send", "recheck", "poll", "missed"} \cup Over]
  BY DEF Answering, Typing, TypeOK
<1>3. HistoryOf(c)
  BY DEF Answering, HistoryInv
<1>4. Admits(s) => ~before[c]
  BY <1>3, MinedNotAdmitted DEF HistoryOf
<1>5. \E how : EndCast(c, how)
  BY DEF Casting, ClientGone, Accepted, WrongEcho, Refused, SendBroken, Recheck, Poll,
    GiveUp, PollAgain, PollFails
<1>6. \A d \in Cast : d # c => cast'[d] = cast[d]
  BY <1>2, <1>5 DEF EndCast
<1>7. /\ \A d \in Cast : d # c => (d \in entered' <=> d \in entered)
      /\ Kept
  <2>1. CASE UNCHANGED <<entered, pool, dropped>>
    BY <1>1, <2>1 DEF Mined
  <2>2. CASE Take(s) /\ entered' = entered \cup {c}
    BY <1>1, <2>2, TakeKeeps DEF Mined
  <2>3. QED
    BY <2>1, <2>2 DEF Casting, ClientGone, Accepted, WrongEcho, Refused, SendBroken,
      Recheck, Poll, GiveUp, PollAgain, PollFails, nodeVars, history
<1>8. ASSUME NEW d \in Cast, d # c PROVE HistoryOf(d)'
  <2>1. HistoryOf(d)
    BY DEF Answering, HistoryInv
  <2>2. QED
    BY <1>1, <1>6, <1>7, <1>8, <2>1 DEF HistoryOf, Mined
<1>9. HistoryOf(c)'
  <2>1. CASE /\ cast[c] = "send" /\ Admits(s) /\ Take(s) /\ entered' = entered \cup {c}
             /\ cast'[c] \in {"poll", "HashMismatch", "Rpc"}
    <3>1. s \in pool'
      BY <2>1, TakeKeeps
    <3>2. QED
      BY <1>1, <1>3, <1>4, <2>1, <3>1 DEF HistoryOf, Mined
  <2>2. CASE /\ UNCHANGED <<entered, pool, dropped>>
             /\ \/ cast[c] = "send" /\ cast'[c] = "recheck"
                \/ cast'[c] \in {"Rpc", "gone"}
                \/ cast[c] = "recheck" /\ cast'[c] = IF s \in Mined THEN "Confirmed" ELSE "Rejected"
                \/ cast[c] = "poll" /\ cast'[c] = IF s \in Mined THEN "Confirmed" ELSE "missed"
                \/ cast[c] = "missed" /\ cast'[c] \in {"Pending", "poll"}
    BY <1>1, <1>3, <2>2 DEF HistoryOf, Mined
  <2>3. CASE Accepted(c) \/ WrongEcho(c)
    BY <1>2, <2>1, <2>3 DEF Accepted, WrongEcho, EndCast
  <2>4. CASE SendBroken(c)
    <3>1. cast'[c] = "Rpc" /\ cast[c] = "send"
      BY <1>2, <2>4 DEF SendBroken, EndCast
    <3>2. QED
      BY <2>1, <2>2, <2>4, <3>1 DEF SendBroken
  <2>5. CASE Refused(c) \/ PollFails(c) \/ ClientGone(c)
    BY <1>2, <2>2, <2>5 DEF Refused, PollFails, ClientGone, EndCast, AfterRefusal, nodeVars, history
  <2>6. CASE Recheck(c) \/ Poll(c)
    BY <1>2, <2>2, <2>6 DEF Recheck, Poll, EndCast, nodeVars, history
  <2>7. CASE GiveUp(c) \/ PollAgain(c)
    BY <1>2, <2>2, <2>7 DEF GiveUp, DeadlinePassed, PollAgain, EndCast, nodeVars, history
  <2>8. QED
    BY <2>3, <2>4, <2>5, <2>6, <2>7 DEF Casting
<1>10. QED
  BY <1>1, <1>8, <1>9 DEF Answering, NonceInv, HistoryInv

LEMMA NextAnswering == Answering /\ [Next]_vars => Answering'
<1> SUFFICES ASSUME Answering, [Next]_vars PROVE Answering'
  OBVIOUS
<1>1. IndInv' /\ Typing'
  BY NextInd, NextTyping DEF Answering
<1>2. CASE Activate \/ (\E b \in drafts \cup Outside : Sign(b))
           \/ (\E q \in Prep, w \in Wanted : BeginPrepare(q, w)) \/ (\E q \in Prep : Preparing(q))
  <2>1. UNCHANGED <<castVars, nodeVars, history>>
    BY <1>2 DEF Activate, Sign, BeginPrepare, Preparing, ReadNonce, EndPrepare, EnrichFails
  <2>2. QED
    BY <1>1, <2>1, ElsewhereAnswering DEF Answering
<1>3. CASE Restart
  BY <1>1, <1>3, RestartAnswering DEF Answering
<1>4. ASSUME NEW c \in Cast, NEW s \in signed \cup Alien \cup {Garbled}, BeginCast(c, s)
      PROVE  Answering'
  BY <1>1, <1>4, BeginAnswering DEF Answering
<1>5. ASSUME NEW c \in Cast, Casting(c) \/ ClientGone(c) PROVE Answering'
  BY <1>1, <1>5, CastingAnswering DEF Answering
<1>6. ASSUME NEW s \in pool, Mine(s) \/ Drop(s) PROVE Answering'
  BY <1>1, <1>6, NodeAnswering DEF Answering
<1>7. CASE UNCHANGED vars
  BY <1>1, <1>7, ElsewhereAnswering DEF Answering, vars, apiVars
<1>8. QED
  BY <1>2, <1>3, <1>4, <1>5, <1>6, <1>7 DEF Next

LEMMA AnsweringTrue == Answering => AnswerTrue
<1> SUFFICES ASSUME Answering, NEW c \in Cast, cast[c] \in Answers
             PROVE  /\ Status[cast[c]] = 200 => subject[c] \in Mined
                    /\ Status[cast[c]] = 202 => c \in entered /\ ~before[c]
                    /\ Status[cast[c]] \in 400 .. 499 => c \notin entered /\ ~before[c]
  BY DEF AnswerTrue
<1>1. HistoryOf(c)
  BY DEF Answering, HistoryInv
<1>2. CASE cast[c] = "Confirmed"
  BY <1>1, <1>2 DEF HistoryOf, Status
<1>3. CASE cast[c] = "Pending"
  BY <1>1, <1>3 DEF HistoryOf, Status
<1>4. CASE cast[c] \in {"DkgNotInitialized", "Decode", "SignerMismatch", "Rejected"}
  <2>1. Status[cast[c]] \in {400, 409}
    BY <1>4 DEF Status
  <2>2. QED
    BY <1>1, <1>4, <2>1 DEF HistoryOf
<1>5. CASE cast[c] \in {"Rpc", "HashMismatch"}
  <2>1. Status[cast[c]] \in {502, 500}
    BY <1>5 DEF Status
  <2>2. QED
    BY <2>1
<1>6. cast[c] \in {"Confirmed", "Pending", "DkgNotInitialized", "Decode", "SignerMismatch",
                   "Rejected", "Rpc", "HashMismatch"}
  BY <1>1 DEF HistoryOf, Answers, Status
<1>7. QED
  BY <1>2, <1>3, <1>4, <1>5, <1>6

\* What the status of a broadcast says is so: a 200 means mined, a 202 that the
\* node took the submission, a 4xx that it did not and that the transaction was
\* not on the chain when the call came, whatever the node mines, drops, refuses
\* and forgets to answer meanwhile and whichever handlers a restart cuts off.
THEOREM AnswerTrueHolds == Spec => []AnswerTrue
<1>1. Init => Answering
  BY InitAnswering
<1>2. Answering /\ [Next]_vars => Answering'
  BY NextAnswering
<1>3. Answering => AnswerTrue
  BY AnsweringTrue
<1>4. QED
  BY <1>1, <1>2, <1>3, PTL DEF Spec

-----------------------------------------------------------------------------
(* Nonces                                                                  *)

LEMMA NonceStep ==
  ASSUME Answering, NEW q \in Prep, NEW c \in Cast, ReadNonce(q),
         cast[c] \in {"Confirmed", "Pending"}, subject[c] \notin dropped
  PROVE  nonce'[q] # subject[c].tx.nonce
<1>1. nonce'[q] = PendingNonce
  BY DEF ReadNonce, Answering, Typing, TypeOK
<1>2. /\ PendingNonce \in Nat /\ PendingNonce >= Len(mined)
      /\ \A s \in pool : s.tx.nonce # PendingNonce
  BY PendingNonceNat DEF Answering
<1>3. subject[c] \in pool \cup Mined
  BY DEF Answering, HistoryInv, HistoryOf
<1>4. CASE subject[c] \in Mined
  <2>1. subject[c].tx.nonce < Len(mined) /\ subject[c].tx.nonce \in Nat
    BY <1>4, MinedNotAdmitted
  <2>2. Len(mined) \in Nat
    BY DEF Answering, IndInv, NodeInv
  <2>3. QED
    BY <1>1, <1>2, <2>1, <2>2
<1>5. CASE subject[c] \in pool
  BY <1>1, <1>2, <1>5
<1>6. QED
  BY <1>3, <1>4, <1>5

\* A nonce that a caller was told is taken, by the 200 or the 202 of a broadcast,
\* is not read for another transaction by /v1/prepare, for any number of callers
\* and however long ago, unless the node has dropped or replaced the first.
THEOREM NonceNotReusedHolds == Spec => NonceNotReused
<1> DEFINE Step == \A q \in Prep, c \in Cast :
                     /\ ReadNonce(q)
                     /\ cast[c] \in {"Confirmed", "Pending"} /\ subject[c] \notin dropped
                     => nonce'[q] # subject[c].tx.nonce
<1>1. Init => Answering
  BY InitAnswering
<1>2. Answering /\ [Next]_vars => Answering'
  BY NextAnswering
<1>3. Answering => Step
  BY NonceStep
<1>4. Answering /\ [Next]_vars => [Step]_vars
  BY <1>3
<1>5. QED
  BY <1>1, <1>2, <1>4, PTL DEF Spec, NonceNotReused
=============================================================================
