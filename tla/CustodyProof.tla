---------------------------- MODULE CustodyProof ----------------------------
(***************************************************************************)
(* Proofs about Custody, for every set of cosigners and instances, every   *)
(* number of rounds >= 2, and with every fault of the model: late and lost *)
(* requests, failed runs, crashes, restarts and wiped stores.              *)
(*                                                                         *)
(* KeyAgreement is not inductive.  The argument behind the strengthening:  *)
(* a party writes key i only after every party has sent the last round of  *)
(* i, so in particular round 2.  Sending round 2 needs every party to have *)
(* sent round 1, that is to have joined; a party joins an instance at most *)
(* once, is in one instance at a time, and joins only with an empty store. *)
(* Two keys i and j alive at two parties would each need the other party   *)
(* to have gone through both instances in opposite orders (Exclusive).     *)
(***************************************************************************)
EXTENDS Custody, FiniteSetTheorems, TLAPS

\* An instance no ceremony was begun on has left no trace.
Fresh ==
  \A i \in Instance : kind[i] = "unused" =>
    \A p \in Party : <<i, p>> \notin posts /\ sent[i][p] = 0 /\ job[p] # i

\* A request is delivered once: while it is in flight its party has not joined.
JoinOnce ==
  \A i \in Instance, p \in Party :
    <<i, p>> \in posts => sent[i][p] = 0 /\ job[p] # i

\* A running ceremony has sent exactly the rounds its stage says, and only a
\* running cosigner has one.
JobProgress ==
  \A p \in Party : job[p] # NoInst =>
    /\ p \in up
    /\ stage[p] <= LastRound => sent[job[p]][p] = stage[p]
    /\ stage[p] = Saving => \A q \in Party : sent[job[p]][q] = LastRound

\* Nobody is more than one round ahead of anybody, once past the first.
Lockstep ==
  \A i \in Instance, p, q \in Party :
    sent[i][p] >= 2 => sent[i][q] + 1 >= sent[i][p]

\* The store of a party in a ceremony is what the handler found.
JobStore ==
  \A p \in Party : job[p] # NoInst =>
    /\ kind[job[p]] = "dkg" /\ stage[p] <= LastRound => meta[p] = NoInst
    /\ kind[job[p]] = "dkg" /\ stage[p] = Saving => meta[p] = job[p]
    /\ kind[job[p]] = "refresh" /\ stage[p] >= 1 => shard[p] = keyOf[job[p]]

\* A DKG makes the key it is named for, a refresh keeps one a DKG made.
CeremonyKey ==
  \A i \in Instance :
    /\ kind[i] = "dkg" => keyOf[i] = i
    /\ kind[i] = "refresh" => keyOf[i] \in Instance

\* A stored key comes from a DKG in which every party sent every round.
Stored ==
  \A p \in Party : meta[p] # NoInst =>
    /\ kind[meta[p]] = "dkg"
    /\ \A q \in Party : sent[meta[p]][q] = LastRound

\* A shard file lies next to metadata of the same key.
StoreConsistent ==
  \A p \in Party : shard[p] # NoInst => meta[p] = shard[p]

\* Party p is in the DKG i or holds its key.
Alive(i, p) == kind[i] = "dkg" /\ (job[p] = i \/ meta[p] = i)

\* Two parties alive in two DKGs have not both sent round 2 of the other's.
Exclusive ==
  \A i, j \in Instance, p, q \in Party :
    i # j /\ p # q /\ Alive(i, p) /\ Alive(j, q) =>
      ~(sent[j][p] >= 2 /\ sent[i][q] >= 2)

Core ==
  /\ Fresh /\ JoinOnce /\ JobProgress /\ Lockstep /\ JobStore
  /\ CeremonyKey /\ Stored /\ StoreConsistent /\ Exclusive

IndInv == TypeOK /\ Core

-----------------------------------------------------------------------------
(* Type correctness                                                        *)

\* Every step of every process keeps the types of Custody's state.
LEMMA TypeStep == TypeOK /\ [Next]_vars => TypeOK'
<1> SUFFICES ASSUME TypeOK, [Next]_vars PROVE TypeOK'
  OBVIOUS
<1> USE PartyAssumption, RoundAssumption
    DEF TypeOK, Key, Saving, Asking, apiVars, wireVars, procVars, storeVars
<1>1. CASE UNCHANGED vars
  BY <1>1 DEF vars
<1>2. CASE ApiStart
  BY <1>2 DEF ApiStart
<1>3. CASE StartRetry
  BY <1>3 DEF StartRetry
<1>4. CASE ApiDown
  BY <1>4 DEF ApiDown
<1>5. ASSUME NEW k \in Key, StartServe(k) PROVE TypeOK'
  BY <1>5 DEF StartServe
<1>6. ASSUME NEW i \in Instance, BeginDkg(i) PROVE TypeOK'
  BY <1>6 DEF BeginDkg, Begin
<1>7. ASSUME NEW i \in Instance, BeginRefresh(i) PROVE TypeOK'
  BY <1>7 DEF BeginRefresh, Begin
<1>8. CASE Conclude
  BY <1>8 DEF Conclude
<1>9. CASE ClientGone
  BY <1>9 DEF ClientGone
<1>10. ASSUME NEW i \in Instance, NEW p \in Party, PostLost(i, p) PROVE TypeOK'
  BY <1>10 DEF PostLost
<1>11. ASSUME NEW i \in Instance, NEW p \in Party, Accept(i, p) PROVE TypeOK'
  BY <1>11 DEF Accept
<1>12. ASSUME NEW i \in Instance, NEW p \in Party, Refuse(i, p) PROVE TypeOK'
  BY <1>12 DEF Refuse, Answer
<1>13. ASSUME NEW p \in Party, ProbeAnswer(p) PROVE TypeOK'
  BY <1>13 DEF ProbeAnswer
<1>14. ASSUME NEW p \in Party, ProbeError(p) PROVE TypeOK'
  BY <1>14 DEF ProbeError
<1>15. ASSUME NEW p \in Party, HttpError(p) PROVE TypeOK'
  BY <1>15 DEF HttpError
<1>16. ASSUME NEW p \in Party, Dial(p) PROVE TypeOK'
  BY <1>16 DEF Dial
<1>17. ASSUME NEW p \in Party, Advance(p) PROVE TypeOK'
  BY <1>17 DEF Advance, AnsweredRounds
<1>18. ASSUME NEW p \in Party, SaveMeta(p) PROVE TypeOK'
  BY <1>18 DEF SaveMeta
<1>19. ASSUME NEW p \in Party, SaveShard(p) PROVE TypeOK'
  BY <1>19 DEF SaveShard, Answer, Refreshed
<1>20. ASSUME NEW p \in Party, Fail(p) PROVE TypeOK'
  BY <1>20 DEF Fail, Answer
<1>21. ASSUME NEW p \in Party, Crash(p) PROVE TypeOK'
  BY <1>21 DEF Crash
<1>22. ASSUME NEW p \in Party, Restart(p) PROVE TypeOK'
  BY <1>22 DEF Restart
<1>23. ASSUME NEW p \in Party, Wipe(p) PROVE TypeOK'
  BY <1>23 DEF Wipe
<1> QED
  BY <1>1, <1>2, <1>3, <1>4, <1>5, <1>6, <1>7, <1>8, <1>9, <1>10, <1>11,
     <1>12, <1>13, <1>14, <1>15, <1>16, <1>17, <1>18, <1>19, <1>20, <1>21,
     <1>22, <1>23
  DEF Next, Startup, Ceremony, Request, Cosigner

\* The fresh installation is well typed.
LEMMA TypeInit == Init => TypeOK
BY PartyAssumption, RoundAssumption DEF Init, TypeOK, Key, Saving, Asking

\* Every variable of the orchestrator, the wire, the cosigners and the stores
\* keeps its type in every execution.
THEOREM TypeCorrect == Spec => []TypeOK
BY TypeInit, TypeStep, PTL DEF Spec

-----------------------------------------------------------------------------
(* One key                                                                 *)

coreVars == <<kind, keyOf, posts, sent, up, job, stage, meta, shard>>

\* Steps of the orchestrator that start no ceremony disturb nothing in Core.
LEMMA CoreUnaffected == ASSUME IndInv, UNCHANGED coreVars PROVE Core'
BY DEF IndInv, Core, coreVars, Fresh, JoinOnce, JobProgress, Lockstep, JobStore,
       CeremonyKey, Stored, StoreConsistent, Exclusive, Alive

\* A fresh installation satisfies Core.
LEMMA CoreInit == Init => Core
BY PartyAssumption, RoundAssumption
DEF Init, Core, Fresh, JoinOnce, JobProgress, Lockstep, JobStore, CeremonyKey,
    Stored, StoreConsistent, Exclusive, Alive

\* A ceremony some party is in was begun.
LEMMA JobBegun ==
  ASSUME IndInv, NEW p \in Party, job[p] # NoInst
  PROVE  job[p] \in Instance /\ kind[job[p]] \in {"dkg", "refresh"}
<1>1. job[p] \in Instance
  BY DEF IndInv, TypeOK, Key
<1>2. kind[job[p]] # "unused"
  BY <1>1 DEF IndInv, Core, Fresh
<1> QED
  BY <1>1, <1>2 DEF IndInv, TypeOK

\* The orchestrator begins a ceremony on an instance that left no trace.
LEMMA CoreBegin ==
  ASSUME IndInv, NEW i \in Instance, NEW what \in {"dkg", "refresh"},
         NEW k \in Instance, what = "dkg" => k = i, Begin(i, what, k)
  PROVE  Core'
<1> USE PartyAssumption, RoundAssumption
    DEF IndInv, Core, TypeOK, Key, Saving, Begin, procVars, storeVars
<1>1. Fresh' /\ JoinOnce'
  BY DEF Fresh, JoinOnce
<1>2. JobProgress' /\ Lockstep' /\ StoreConsistent'
  BY DEF JobProgress, Lockstep, StoreConsistent
<1>3. JobStore'
  <2> SUFFICES ASSUME NEW p \in Party, job[p] # NoInst
               PROVE  JobStore!(p)'
    BY DEF JobStore
  <2>1. job[p] \in Instance /\ job[p] # i
    BY JobBegun
  <2> QED
    BY <2>1 DEF JobStore
<1>4. CeremonyKey'
  BY DEF CeremonyKey
<1>5. Stored'
  BY DEF Stored
<1>6. \A j \in Instance, p \in Party : Alive(j, p)' => Alive(j, p)
  <2> SUFFICES ASSUME NEW j \in Instance, NEW p \in Party, Alive(j, p)'
               PROVE  Alive(j, p)
    OBVIOUS
  <2>1. j # i
    BY DEF Alive, Fresh, Stored
  <2> QED
    BY <2>1 DEF Alive
<1>7. Exclusive'
  BY <1>6 DEF Exclusive
<1> QED
  BY <1>1, <1>2, <1>3, <1>4, <1>5, <1>7

\* A request is lost or refused: it can no longer be delivered.
LEMMA CoreDropPost ==
  ASSUME IndInv, NEW i \in Instance, NEW p \in Party,
         posts' = posts \ {<<i, p>>},
         UNCHANGED <<kind, keyOf, sent, up, job, stage, meta, shard>>
  PROVE  Core'
BY DEF IndInv, Core, Fresh, JoinOnce, JobProgress, Lockstep, JobStore,
       CeremonyKey, Stored, StoreConsistent, Exclusive, Alive

\* A party joins: nobody can have sent round 2 of what it only joins now.
LEMMA CoreAccept ==
  ASSUME IndInv, NEW i \in Instance, NEW p \in Party, Accept(i, p)
  PROVE  Core'
<1> USE PartyAssumption, RoundAssumption
    DEF IndInv, Core, TypeOK, Key, Saving, Accept, apiVars, storeVars
<1>1. Fresh' /\ JoinOnce'
  BY DEF Fresh, JoinOnce
<1>2. JobProgress' /\ Lockstep'
  BY DEF JobProgress, Lockstep, JoinOnce
<1>3. JobStore'
  BY DEF JobStore, Admissible
<1>4. CeremonyKey' /\ Stored' /\ StoreConsistent'
  BY DEF CeremonyKey, Stored, StoreConsistent
<1>5. \A q \in Party : sent[i][q] < 2
  BY DEF JoinOnce, Lockstep
<1>6. Exclusive'
  BY <1>5 DEF Exclusive, Alive
<1> QED
  BY <1>1, <1>2, <1>3, <1>4, <1>6

\* A party sends round 1 (dialing) or the next round (advancing).
LEMMA CoreSend ==
  ASSUME IndInv, NEW p \in Party, Dial(p) \/ Advance(p)
  PROVE  Core'
<1> USE PartyAssumption, RoundAssumption
    DEF IndInv, Core, TypeOK, Key, Saving, apiVars, storeVars
<1> DEFINE i == job[p]
           r == stage[p]
<1>1. /\ i \in Instance /\ r \in 0 .. LastRound - 1
      /\ sent' = [sent EXCEPT ![i][p] = r + 1]
      /\ stage' = [stage EXCEPT ![p] = r + 1]
      /\ UNCHANGED <<kind, keyOf, posts, up, job, meta, shard>>
      /\ r >= 1 => \A q \in Party \ {p} : sent[i][q] >= r
      /\ r = 0 /\ kind[i] = "refresh" => shard[p] = keyOf[i]
  BY DEF Dial, Anchored, Advance, AnsweredRounds, RoundComplete
<1>2. sent[i][p] = r
  BY <1>1 DEF JobProgress
<1>3. \A h \in Instance, q \in Party :
        sent'[h][q] = IF h = i /\ q = p THEN r + 1 ELSE sent[h][q]
  BY <1>1
<1> HIDE DEF i, r
<1>4. Fresh' /\ JoinOnce'
  BY <1>1, <1>3 DEF Fresh, JoinOnce, i, r
<1>5. JobProgress'
  BY <1>1, <1>2, <1>3 DEF JobProgress, i, r
<1>6. Lockstep'
  BY <1>1, <1>2, <1>3 DEF Lockstep
<1>7. JobStore'
  BY <1>1 DEF JobStore, i, r
<1>8. CeremonyKey' /\ StoreConsistent'
  BY <1>1 DEF CeremonyKey, StoreConsistent
<1>9. Stored'
  BY <1>1, <1>2, <1>3 DEF Stored
<1>10. \A j \in Instance : Alive(j, p) /\ kind[i] = "dkg" => j = i
  BY <1>1 DEF Alive, JobStore, i, r
<1>11. Exclusive'
  <2> SUFFICES ASSUME NEW g \in Instance, NEW h \in Instance,
                      NEW x \in Party, NEW y \in Party,
                      g # h, x # y, Alive(g, x), Alive(h, y),
                      sent'[h][x] >= 2, sent'[g][y] >= 2
               PROVE  FALSE
    BY <1>1 DEF Exclusive, Alive
  <2>1. kind[g] = "dkg" /\ kind[h] = "dkg"
    BY DEF Alive
  <2>2. ~(h = i /\ x = p) /\ ~(g = i /\ y = p)
    BY <1>10, <2>1
  <2> QED
    BY <1>3, <2>2 DEF Exclusive
<1> QED
  BY <1>4, <1>5, <1>6, <1>7, <1>8, <1>9, <1>11

\* A party writes its metadata: every party has sent every round.
LEMMA CoreSaveMeta ==
  ASSUME IndInv, NEW p \in Party, SaveMeta(p)
  PROVE  Core'
<1> USE PartyAssumption, RoundAssumption
    DEF IndInv, Core, TypeOK, Key, Saving, SaveMeta, apiVars, wireVars
<1>1. job[p] \in Instance /\ sent[job[p]][p] = LastRound
  BY DEF JobProgress
<1>2. \A q \in Party : sent[job[p]][q] = LastRound
  BY <1>1 DEF RoundComplete
<1>3. kind[job[p]] \in {"dkg", "refresh"}
  BY JobBegun
<1>4. \/ kind[job[p]] = "dkg" /\ meta[p] = NoInst /\ keyOf[job[p]] = job[p]
      \/ kind[job[p]] = "refresh" /\ meta[p] = keyOf[job[p]]
                                  /\ keyOf[job[p]] \in Instance
  BY <1>1, <1>3 DEF JobStore, CeremonyKey, StoreConsistent
<1>5. Fresh' /\ JoinOnce' /\ Lockstep' /\ CeremonyKey'
  BY DEF Fresh, JoinOnce, Lockstep, CeremonyKey
<1>6. JobProgress'
  BY <1>2 DEF JobProgress
<1>7. JobStore'
  BY <1>1, <1>4 DEF JobStore
<1>8. Stored' /\ StoreConsistent'
  BY <1>2, <1>4 DEF Stored, StoreConsistent
<1>9. \A j \in Instance, q \in Party : Alive(j, q)' => Alive(j, q)
  BY <1>4 DEF Alive
<1>10. Exclusive'
  BY <1>9 DEF Exclusive
<1> QED
  BY <1>5, <1>6, <1>7, <1>8, <1>10

\* A run ends, in success, failure or a crash: the party is in no ceremony.
\* The shard written, if any, is of the key the metadata names.
LEMMA CoreEnd ==
  ASSUME IndInv, NEW p \in Party,
         job' = [job EXCEPT ![p] = NoInst], stage' = [stage EXCEPT ![p] = 0],
         up' \in {up, up \ {p}},
         UNCHANGED <<kind, keyOf, posts, sent, meta>>,
         \/ UNCHANGED shard
         \/ meta[p] # NoInst /\ shard' = [shard EXCEPT ![p] = meta[p]]
  PROVE  Core'
<1> USE PartyAssumption, RoundAssumption DEF IndInv, Core, TypeOK, Key, Saving
<1>1. Fresh' /\ JoinOnce' /\ Lockstep' /\ CeremonyKey' /\ Stored'
  BY DEF Fresh, JoinOnce, Lockstep, CeremonyKey, Stored
<1>2. JobProgress'
  BY DEF JobProgress
<1>3. JobStore' /\ StoreConsistent'
  BY DEF JobStore, StoreConsistent
<1>4. Exclusive'
  BY DEF Exclusive, Alive
<1> QED
  BY <1>1, <1>2, <1>3, <1>4

\* SaveShard is such an end.
LEMMA CoreSaveShard ==
  ASSUME IndInv, NEW p \in Party, SaveShard(p)
  PROVE  Core'
<1> USE PartyAssumption, RoundAssumption
    DEF IndInv, Core, TypeOK, Key, Saving, SaveShard, wireVars
<1>1. job[p] \in Instance /\ kind[job[p]] \in {"dkg", "refresh"}
  BY JobBegun
<1>2. meta[p] = keyOf[job[p]] /\ meta[p] # NoInst
  BY <1>1 DEF JobStore, CeremonyKey, StoreConsistent
<1> QED
  BY <1>2, CoreEnd

\* Restarting a cosigner and losing a store take nothing alive.
LEMMA CoreHost ==
  ASSUME IndInv, NEW p \in Party, Restart(p) \/ Wipe(p)
  PROVE  Core'
<1> USE PartyAssumption, RoundAssumption
    DEF IndInv, Core, TypeOK, Key, Saving, Restart, Wipe, apiVars, wireVars,
        procVars, storeVars
<1>1. Fresh' /\ JoinOnce' /\ Lockstep' /\ CeremonyKey'
  BY DEF Fresh, JoinOnce, Lockstep, CeremonyKey
<1>2. JobProgress' /\ JobStore'
  BY DEF JobProgress, JobStore
<1>3. /\ \A q \in Party : meta'[q] \in {meta[q], NoInst}
      /\ \A q \in Party : shard'[q] # NoInst => meta'[q] = meta[q]
                                               /\ shard'[q] = shard[q]
  <2>1. CASE Restart(p)
    BY <2>1
  <2>2. CASE Wipe(p)
    BY <2>2
  <2> QED
    BY <2>1, <2>2
<1>4. UNCHANGED <<kind, sent>>
  OBVIOUS
<1> HIDE DEF Restart, Wipe
<1>5. Stored'
  BY <1>3, <1>4 DEF Stored
<1>6. StoreConsistent'
  BY <1>3 DEF StoreConsistent
<1>7. UNCHANGED job
  BY DEF Restart, Wipe
<1>8. Exclusive'
  BY <1>3, <1>4, <1>7 DEF Exclusive, Alive
<1> QED
  BY <1>1, <1>2, <1>5, <1>6, <1>8

\* IndInv is kept by every step of every process.
LEMMA InductiveStep == IndInv /\ [Next]_vars => IndInv'
<1> SUFFICES ASSUME IndInv, [Next]_vars PROVE Core'
  BY TypeStep DEF IndInv
<1>1. CASE UNCHANGED vars
  BY <1>1, CoreUnaffected DEF vars, wireVars, procVars, storeVars, coreVars
<1>2. CASE Startup
  BY <1>2, CoreUnaffected DEF Startup, ApiStart, StartRetry, ApiDown, StartServe,
     wireVars, procVars, storeVars, coreVars
<1>3. ASSUME NEW i \in Instance, BeginDkg(i) PROVE Core'
  BY <1>3, CoreBegin DEF BeginDkg
<1>4. ASSUME NEW i \in Instance, BeginRefresh(i) PROVE Core'
  BY <1>4, CoreBegin DEF BeginRefresh
<1>5. CASE Conclude \/ ClientGone
  BY <1>5, CoreUnaffected DEF Conclude, ClientGone, wireVars, procVars, storeVars,
     coreVars
<1>6. ASSUME NEW i \in Instance, NEW p \in Party, Request(i, p) PROVE Core'
  <2>1. CASE Accept(i, p)
    BY <2>1, CoreAccept
  <2>2. CASE PostLost(i, p) \/ Refuse(i, p)
    BY <2>2, CoreDropPost DEF PostLost, Refuse, procVars, storeVars
  <2> QED
    BY <1>6, <2>1, <2>2 DEF Request
<1>7. ASSUME NEW p \in Party, Cosigner(p) PROVE Core'
  <2>1. CASE ProbeAnswer(p) \/ ProbeError(p) \/ HttpError(p)
    BY <2>1, CoreUnaffected DEF ProbeAnswer, ProbeError, HttpError, wireVars,
       procVars, storeVars, coreVars
  <2>2. CASE Dial(p) \/ Advance(p)
    BY <2>2, CoreSend
  <2>3. CASE SaveMeta(p)
    BY <2>3, CoreSaveMeta
  <2>4. CASE SaveShard(p)
    BY <2>4, CoreSaveShard
  <2>5. CASE Fail(p) \/ Crash(p)
    BY <2>5, CoreEnd DEF Fail, Crash, wireVars, storeVars
  <2>6. CASE Restart(p) \/ Wipe(p)
    BY <2>6, CoreHost
  <2> QED
    BY <1>7, <2>1, <2>2, <2>3, <2>4, <2>5, <2>6 DEF Cosigner
<1> QED
  BY <1>1, <1>2, <1>3, <1>4, <1>5, <1>6, <1>7 DEF Next, Ceremony

\* IndInv holds in every state of every execution.
LEMMA Inductive == Spec => []IndInv
<1>1. Init => IndInv
  BY TypeInit, CoreInit DEF IndInv
<1> QED
  BY <1>1, InductiveStep, PTL DEF Spec

\* Two stores with two keys contradict Exclusive.
LEMMA OneKey == IndInv => KeyAgreement
<1> SUFFICES ASSUME IndInv, NEW p \in Party, NEW q \in Party,
                    meta[p] # NoInst, meta[q] # NoInst, meta[p] # meta[q]
             PROVE  FALSE
  BY DEF KeyAgreement
<1>1. meta[p] \in Instance /\ meta[q] \in Instance
  BY DEF IndInv, TypeOK, Key
<1>2. Alive(meta[p], p) /\ Alive(meta[q], q)
  BY DEF IndInv, Core, Stored, Alive
<1>3. sent[meta[q]][p] = LastRound /\ sent[meta[p]][q] = LastRound
  BY DEF IndInv, Core, Stored
<1> QED
  BY <1>1, <1>2, <1>3, RoundAssumption DEF IndInv, Core, Exclusive

\* No two stores ever hold different keys, for any number of cosigners,
\* ceremonies, crashes, wiped stores and late requests.
THEOREM KeyAgreementHolds == Spec => []KeyAgreement
BY Inductive, OneKey, PTL

\* A store only gains a key it lacks or loses the one it has to a wipe.
LEMMA MetaStep ==
  ASSUME IndInv, [Next]_vars, NEW p \in Party, meta[p] # NoInst,
         meta'[p] # meta[p]
  PROVE  Wipe(p)
<1>1. \E q \in Party : SaveMeta(q) \/ Wipe(q)
  BY DEF Next, Startup, ApiStart, StartRetry, ApiDown, StartServe, Ceremony,
     BeginDkg, BeginRefresh, Begin, Conclude, ClientGone, Request, PostLost,
     Accept, Refuse, Cosigner, ProbeAnswer, ProbeError, HttpError, Dial, Advance,
     SaveShard, Fail, Crash, Restart, vars, storeVars
<1>2. PICK q \in Party : SaveMeta(q) \/ Wipe(q)
  BY <1>1
<1>3. q = p
  BY <1>2 DEF SaveMeta, Wipe, IndInv, TypeOK
<1>4. ~SaveMeta(p)
  <2> SUFFICES ASSUME SaveMeta(p) PROVE FALSE
    OBVIOUS
  <2>1. job[p] \in Instance /\ kind[job[p]] \in {"dkg", "refresh"}
    BY JobBegun DEF SaveMeta
  <2>2. meta'[p] = keyOf[job[p]] /\ stage[p] = LastRound
    BY DEF SaveMeta, IndInv, TypeOK
  <2> QED
    BY <2>1, <2>2, PartyAssumption, RoundAssumption
    DEF IndInv, Core, JobStore, CeremonyKey, StoreConsistent
<1> QED
  BY <1>2, <1>3, <1>4

\* No ceremony, however late it is delivered or often it is retried, replaces
\* the key of a store.
THEOREM NoRotationHolds == Spec => NoRotation
<1>1. ASSUME IndInv, [Next]_vars
      PROVE  [\A p \in Party : meta[p] # NoInst =>
                meta'[p] = meta[p] \/ (meta'[p] = NoInst /\ p \notin up)]_meta
  <2> SUFFICES ASSUME NEW p \in Party, meta[p] # NoInst, meta'[p] # meta[p]
               PROVE  meta'[p] = NoInst /\ p \notin up
    OBVIOUS
  <2> QED
    BY <1>1, MetaStep DEF Wipe, IndInv, TypeOK
<1> QED
  BY <1>1, Inductive, PTL DEF Spec, NoRotation

-----------------------------------------------------------------------------
(* The key served                                                          *)

\* Some store holds the key.
Held(k) == \E p \in Party : meta[p] = k

\* Every key the orchestrator learnt of, from answers to a DKG or from startup
\* probes, or that it serves, is held by some store.
LearntHeld ==
  /\ active # NoInst => Held(active)
  /\ op # NoInst => kind[op] # "unused"
  /\ op = NoInst => \A p \in Party : got[p] # "ok"
  /\ \A p \in Party :
       /\ op # NoInst /\ kind[op] = "dkg" /\ got[p] = "ok" => Held(op)
       /\ report[p] # NoInst => Held(report[p])

\* Unless the last copy of a key may be lost, a key once held stays held.
LEMMA HeldStays ==
  ASSUME IndInv, [Next]_vars, TotalLoss = FALSE, NEW k \in Instance, Held(k)
  PROVE  Held(k)'
<1>1. PICK p \in Party : meta[p] = k
  BY DEF Held
<1>2. CASE meta'[p] = k
  BY <1>2 DEF Held
<1>3. CASE meta'[p] # k
  <2>1. Wipe(p)
    BY <1>1, <1>3, MetaStep, PartyAssumption
  <2>2. PICK q \in Party \ {p} : meta[q] = k
    BY <1>1, <2>1 DEF Wipe
  <2>3. meta'[q] = k
    BY <2>1, <2>2 DEF Wipe, IndInv, TypeOK
  <2> QED
    BY <2>3 DEF Held
<1> QED
  BY <1>2, <1>3

\* What startup counts, and the roster, are never empty.
LEMMA QuorumNonempty ==
  /\ Party # {}
  /\ \A S : Cardinality(S) >= Threshold => S # {}
<1>1. Cardinality({}) = 0
  BY FS_EmptySet
<1>2. Cardinality(Party) \in Nat
  BY FS_CardinalityType, ThresholdAssumption
<1>3. Threshold \in Nat /\ Threshold >= 2 /\ Cardinality(Party) >= 2
  BY <1>2, ThresholdAssumption
<1>4. Cardinality({}) # Cardinality(Party)
  BY <1>1, <1>3
<1>5. ASSUME NEW S, Cardinality(S) >= Threshold PROVE S # {}
  <2>1. ~(0 >= Threshold)
    BY <1>3
  <2>2. ~(Cardinality({}) >= Threshold)
    BY <1>1, <2>1
  <2> QED
    BY <1>5, <2>2, Zenon
<1> QED
  BY <1>4, <1>5, Zenon

\* LearntHeld is kept by every step, unless the last copy of a key may be lost.
LEMMA LearntHeldStep ==
  ASSUME IndInv, LearntHeld, [Next]_vars, TotalLoss = FALSE
  PROVE  LearntHeld'
<1> USE PartyAssumption DEF IndInv, TypeOK, Key
<1>1. \A k \in Instance : Held(k) => Held(k)'
  BY HeldStays
<1>2. ASSUME UNCHANGED <<active, op, report, kind>>,
             \A p \in Party : got'[p] # "ok" \/ got'[p] = got[p]
      PROVE  LearntHeld'
  BY <1>1, <1>2 DEF LearntHeld
<1>3. CASE UNCHANGED vars
  BY <1>2, <1>3 DEF vars, apiVars, wireVars
<1>4. CASE ApiStart \/ StartRetry
  BY <1>1, <1>4 DEF ApiStart, StartRetry, LearntHeld, wireVars
<1>5. CASE ApiDown
  BY <1>5 DEF ApiDown, LearntHeld, Asking
<1>6. ASSUME NEW k \in Key, StartServe(k) PROVE LearntHeld'
  <2>1. CASE k = NoInst
    BY <1>1, <1>6, <2>1 DEF StartServe, LearntHeld, wireVars
  <2>2. CASE k # NoInst
    <3>1. Reporting # {}
      BY <1>6, <2>2, QuorumNonempty DEF StartServe, Consensus
    <3>2. PICK p \in Party : report[p] = k
      BY <1>6, <2>2, <3>1 DEF StartServe, Consensus, Reporting
    <3>3. Held(k)'
      BY <1>1, <2>2, <3>2 DEF LearntHeld
    <3> QED
      BY <1>1, <1>6, <3>3 DEF StartServe, LearntHeld, wireVars
  <2> QED
    BY <2>1, <2>2
<1>7. ASSUME NEW i \in Instance, NEW what \in {"dkg", "refresh"},
             NEW k \in Instance, Begin(i, what, k)
      PROVE  LearntHeld'
  BY <1>1, <1>7 DEF Begin, LearntHeld
<1>8. CASE Conclude
  <2>1. CASE active' = active
    BY <1>1, <1>8, <2>1 DEF Conclude, LearntHeld, Asking, wireVars
  <2>2. CASE active' # active
    <3>1. /\ op # NoInst /\ kind[op] = "dkg" /\ active' = keyOf[op]
          /\ \A p \in Party : got[p] = "ok"
      BY <1>8, <2>2 DEF Conclude
    <3>2. op \in Instance /\ active' = op
      BY <3>1 DEF Core, CeremonyKey
    <3>3. Party # {}
      BY QuorumNonempty
    <3>4. Held(op)
      BY <3>1, <3>2, <3>3 DEF LearntHeld
    <3>5. Held(active)'
      BY <1>1, <3>2, <3>4 DEF Held
    <3> QED
      BY <1>1, <1>8, <3>5 DEF Conclude, LearntHeld, Asking, wireVars
  <2> QED
    BY <2>1, <2>2
<1>9. CASE ClientGone
  BY <1>1, <1>9 DEF ClientGone, LearntHeld, Asking, wireVars
<1>10. ASSUME NEW i \in Instance, NEW p \in Party, Request(i, p)
       PROVE  LearntHeld'
  BY <1>2, <1>10 DEF Request, PostLost, Accept, Refuse, Answer, apiVars
<1>11. ASSUME NEW p \in Party, ProbeAnswer(p) PROVE LearntHeld'
  <2>1. meta[p] # NoInst => \E x \in Party : meta'[x] = meta[p]
    BY <1>11 DEF ProbeAnswer, storeVars
  <2>2. /\ UNCHANGED <<active, op, got, kind>>
        /\ \A q \in Party : report'[q] = IF q = p THEN meta[p] ELSE report[q]
    BY <1>11 DEF ProbeAnswer, wireVars
  <2>3. \A q \in Party : (report[q] # NoInst => Held(report[q]))'
    <3> SUFFICES ASSUME NEW q \in Party, report'[q] # NoInst
                 PROVE  \E x \in Party : meta'[x] = report'[q]
      BY DEF Held
    <3>1. CASE q = p
      BY <2>1, <2>2, <3>1 DEF Held
    <3>2. CASE q # p
      <4>1. report'[q] = report[q] /\ report[q] \in Instance
        BY <2>2, <3>2
      <4>2. Held(report[q])
        BY <4>1 DEF LearntHeld
      <4> QED
        BY <1>1, <4>1, <4>2 DEF Held
    <3> QED
      BY <3>1, <3>2
  <2> QED
    BY <1>1, <2>2, <2>3 DEF LearntHeld
<1>12. ASSUME NEW p \in Party, SaveShard(p) PROVE LearntHeld'
  <2>1. job[p] \in Instance /\ stage[p] = Saving
    BY <1>12 DEF SaveShard
  <2>2. kind[job[p]] = "dkg" => Held(job[p])
    BY <2>1 DEF Core, JobStore, Held
  <2>3. /\ UNCHANGED <<active, op, report, kind>>
        /\ \A q \in Party : got'[q] = "ok" =>
             got[q] = "ok" \/ (q = p /\ op = job[p])
    BY <1>12 DEF SaveShard, Answer, wireVars
  <2>4. \A q \in Party : op # NoInst /\ kind[op] = "dkg" /\ got'[q] = "ok"
                         => Held(op)
    BY <2>1, <2>2, <2>3 DEF LearntHeld
  <2>5. op = NoInst => \A q \in Party : got'[q] # "ok"
    BY <2>1, <2>3 DEF LearntHeld
  <2> QED
    BY <1>1, <2>3, <2>4, <2>5 DEF LearntHeld
<1>13. ASSUME NEW p \in Party,
              \/ ProbeError(p) \/ HttpError(p) \/ Dial(p) \/ Advance(p)
              \/ SaveMeta(p) \/ Fail(p) \/ Crash(p) \/ Restart(p) \/ Wipe(p)
       PROVE  LearntHeld'
  BY <1>2, <1>13 DEF ProbeError, HttpError, Dial, Advance, SaveMeta, Fail, Answer,
     Crash, Restart, Wipe, apiVars, wireVars
<1> QED
  BY <1>3, <1>4, <1>5, <1>6, <1>7, <1>8, <1>9, <1>10, <1>11, <1>12, <1>13
  DEF Next, Startup, Ceremony, BeginDkg, BeginRefresh, Cosigner

\* As long as the last copy of a key is never lost, the key the orchestrator
\* serves is the only key in any store.
THEOREM ActiveAgreesHolds ==
  ASSUME TotalLoss = FALSE PROVE Spec => []ActiveAgrees
<1>1. Init => LearntHeld
  BY DEF Init, LearntHeld, Asking
<1>2. IndInv /\ LearntHeld /\ [Next]_vars => LearntHeld'
  BY LearntHeldStep
<1>3. IndInv /\ LearntHeld => ActiveAgrees
  BY OneKey DEF LearntHeld, Held, ActiveAgrees, KeyAgreement
<1> QED
  BY <1>1, <1>2, <1>3, Inductive, PTL DEF Spec

-----------------------------------------------------------------------------
(* Shards: the quorum behind the key, and what a refresh replaces          *)

\* A DKG runs over an empty store; a generation is counted once, and by a
\* ceremony its party took part in.
Shares ==
  \A p \in Party :
    /\ job[p] # NoInst /\ kind[job[p]] = "dkg" => shard[p] = NoInst
    /\ shard[p] = NoInst => deltas[p] = {}
    /\ IsFiniteSet(deltas[p])
    /\ \A i \in deltas[p] : sent[i][p] > 0 /\ job[p] # i

\* The shards of key k, and the stores lost since.
Behind(k) == {p \in Party : shard[p] = k} \cup wiped

\* What the orchestrator was told, and what it serves, is backed by shards.
Backed ==
  /\ active # NoInst => Cardinality(Behind(active)) >= Threshold
  /\ op = NoInst => \A p \in Party : got[p] # "ok"
  /\ \A p \in Party :
       /\ op # NoInst /\ kind[op] = "dkg" /\ got[p] = "ok" => p \in Behind(op)
       /\ op # NoInst /\ kind[op] = "refresh" /\ got[p] = "ok" => op \in deltas[p] \/ p \in wiped
       /\ report[p] # NoInst => p \in Behind(report[p])

\* What the last write of a ceremony does to its store.
LEMMA SaveShardEffect ==
  ASSUME IndInv, Shares, NEW p \in Party, SaveShard(p)
  PROVE  /\ job[p] \in Instance /\ meta[p] = keyOf[job[p]] /\ meta[p] \in Instance
         /\ \A q \in Party : /\ shard'[q] = IF q = p THEN meta[p] ELSE shard[q]
                             /\ deltas'[q] = IF q = p THEN Refreshed(p) ELSE deltas[q]
                             /\ job'[q] = IF q = p THEN NoInst ELSE job[q]
         /\ UNCHANGED <<meta, wiped, kind, sent>>
         /\ \/ kind[job[p]] = "dkg" /\ shard[p] = NoInst /\ meta[p] = job[p] /\ Refreshed(p) = {}
            \/ kind[job[p]] = "refresh" /\ shard[p] = meta[p] /\ Refreshed(p) = deltas[p] \cup {job[p]}
<1> USE PartyAssumption, RoundAssumption DEF IndInv, Core, TypeOK, Key
<1>1. job[p] \in Instance /\ kind[job[p]] \in {"dkg", "refresh"} /\ stage[p] = Saving
  BY JobBegun DEF SaveShard
<1>2. \/ kind[job[p]] = "dkg" /\ meta[p] = job[p] /\ keyOf[job[p]] = job[p] /\ shard[p] = NoInst
      \/ kind[job[p]] = "refresh" /\ shard[p] = keyOf[job[p]] /\ keyOf[job[p]] \in Instance
  BY <1>1 DEF JobStore, CeremonyKey, Shares, Saving
<1>3. meta[p] = keyOf[job[p]] /\ meta[p] \in Instance
  BY <1>1, <1>2 DEF StoreConsistent
<1>4. \A q \in Party : shard'[q] = IF q = p THEN meta[p] ELSE shard[q]
  BY <1>3 DEF SaveShard
<1>5. \A q \in Party : deltas'[q] = IF q = p THEN Refreshed(p) ELSE deltas[q]
  BY DEF SaveShard
<1>6. \A q \in Party : job'[q] = IF q = p THEN NoInst ELSE job[q]
  BY DEF SaveShard
<1>7. UNCHANGED <<meta, wiped, kind, sent>>
  BY DEF SaveShard, wireVars
<1>8. QED
  BY <1>1, <1>2, <1>3, <1>4, <1>5, <1>6, <1>7 DEF Refreshed

\* Stores change by the last write of a ceremony, or are lost.
LEMMA ShardSteps ==
  ASSUME [Next]_vars
  PROVE  \/ UNCHANGED <<shard, deltas, wiped>>
         \/ \E p \in Party : SaveShard(p) \/ Wipe(p)
BY DEF Next, Startup, ApiStart, StartRetry, ApiDown, StartServe, Ceremony,
   BeginDkg, BeginRefresh, Begin, Conclude, ClientGone, Request, PostLost,
   Accept, Refuse, Cosigner, ProbeAnswer, ProbeError, HttpError, Dial, Advance,
   SaveMeta, Fail, Crash, Restart, vars, storeVars

LEMMA WipeEffect ==
  ASSUME IndInv, NEW p \in Party, Wipe(p)
  PROVE  /\ job[p] = NoInst /\ wiped' = wiped \cup {p}
         /\ \A q \in Party : /\ meta'[q] = IF q = p THEN NoInst ELSE meta[q]
                             /\ shard'[q] = IF q = p THEN NoInst ELSE shard[q]
                             /\ deltas'[q] = IF q = p THEN {} ELSE deltas[q]
         /\ UNCHANGED <<kind, sent, job>>
<1>1. job[p] = NoInst
  BY DEF Wipe, IndInv, Core, JobProgress
<1>2. QED
  BY <1>1 DEF Wipe, IndInv, TypeOK, wireVars, procVars

LEMMA SharesStep ==
  ASSUME IndInv, Shares, [Next]_vars
  PROVE  Shares'
<1> USE PartyAssumption, RoundAssumption DEF IndInv, Core, TypeOK, Key
<1>1. ASSUME UNCHANGED <<shard, deltas, kind, sent>>,
             \A q \in Party : job'[q] \in {job[q], NoInst}
      PROVE  Shares'
  BY <1>1 DEF Shares
<1>2. CASE UNCHANGED vars
  BY <1>1, <1>2 DEF vars, wireVars, procVars, storeVars
<1>3. CASE Startup
  BY <1>1, <1>3 DEF Startup, ApiStart, StartRetry, ApiDown, StartServe, wireVars, procVars,
    storeVars
<1>4. CASE Conclude \/ ClientGone
  BY <1>1, <1>4 DEF Conclude, ClientGone, wireVars, procVars, storeVars
<1>5. ASSUME NEW i \in Instance, NEW what, NEW k, Begin(i, what, k) PROVE Shares'
  <2>1. UNCHANGED <<shard, deltas, sent, job>>
    BY <1>5 DEF Begin, procVars, storeVars
  <2>2. \A q \in Party : job[q] # i
    BY <1>5 DEF Begin, Fresh
  <2>3. \A q \in Party : job[q] # NoInst => kind'[job[q]] = kind[job[q]]
    BY <1>5, <2>2 DEF Begin
  <2>4. QED
    BY <2>1, <2>3 DEF Shares
<1>6. ASSUME NEW i \in Instance, NEW p \in Party, PostLost(i, p) \/ Refuse(i, p) PROVE Shares'
  BY <1>1, <1>6 DEF PostLost, Refuse, procVars, storeVars
<1>7. ASSUME NEW i \in Instance, NEW p \in Party, Accept(i, p) PROVE Shares'
  <2>1. UNCHANGED <<shard, deltas, sent, kind>>
    BY <1>7 DEF Accept, storeVars
  <2>2. \A q \in Party : job'[q] = IF q = p THEN i ELSE job[q]
    BY <1>7 DEF Accept
  <2>3. kind[i] = "dkg" => shard[p] = NoInst
    BY <1>7 DEF Accept, Admissible, StoreConsistent
  <2>4. sent[i][p] = 0
    BY <1>7 DEF Accept, JoinOnce
  <2>5. i \notin deltas[p]
    BY <2>4 DEF Shares
  <2>6. QED
    BY <2>1, <2>2, <2>3, <2>5 DEF Shares
<1>8. ASSUME NEW p \in Party, ProbeAnswer(p) \/ ProbeError(p) \/ HttpError(p) PROVE Shares'
  BY <1>1, <1>8 DEF ProbeAnswer, ProbeError, HttpError, wireVars, procVars, storeVars
<1>9. ASSUME NEW p \in Party, Dial(p) \/ Advance(p) PROVE Shares'
  <2>1. UNCHANGED <<shard, deltas, kind, job>> /\ job[p] \in Instance
    BY <1>9 DEF Dial, Advance, storeVars
  <2>2. PICK r \in 0 .. LastRound : r > 0 /\ sent' = [sent EXCEPT ![job[p]][p] = r]
    BY <1>9 DEF Dial, Advance, AnsweredRounds
  <2>3. \A i \in Instance, q \in Party : sent[i][q] > 0 => sent'[i][q] > 0
    BY <2>1, <2>2
  <2>4. QED
    BY <2>1, <2>3 DEF Shares
<1>10. ASSUME NEW p \in Party, SaveMeta(p) PROVE Shares'
  BY <1>1, <1>10 DEF SaveMeta, wireVars
<1>11. ASSUME NEW p \in Party, SaveShard(p) PROVE Shares'
  <2>1. sent[job[p]][p] > 0
    BY <1>11 DEF SaveShard, JobProgress, Saving
  <2>2. IsFiniteSet(Refreshed(p))
    <3>1. IsFiniteSet(deltas[p])
      BY DEF Shares
    <3>2. IsFiniteSet(deltas[p] \cup {job[p]}) /\ IsFiniteSet({})
      BY <3>1, FS_AddElement, FS_EmptySet
    <3>3. Refreshed(p) = {} \/ Refreshed(p) = deltas[p] \cup {job[p]}
      BY <1>11, SaveShardEffect
    <3>4. QED
      BY <3>2, <3>3
  <2>3. \A i \in Refreshed(p) : i \in Instance /\ sent[i][p] > 0
    BY <1>11, <2>1, SaveShardEffect DEF Shares
  <2>4. QED
    BY <1>11, <2>2, <2>3, SaveShardEffect DEF Shares
<1>12. ASSUME NEW p \in Party, Fail(p) \/ Crash(p) \/ Restart(p) PROVE Shares'
  BY <1>1, <1>12 DEF Fail, Crash, Restart, wireVars, storeVars
<1>13. ASSUME NEW p \in Party, Wipe(p) PROVE Shares'
  BY <1>13, WipeEffect, FS_EmptySet DEF Shares
<1>14. QED
  BY <1>2, <1>3, <1>4, <1>5, <1>6, <1>7, <1>8, <1>9, <1>10, <1>11, <1>12, <1>13
  DEF Next, Ceremony, BeginDkg, BeginRefresh, Request, Cosigner

\* What stands behind a key never gets less.
LEMMA BehindGrows ==
  ASSUME IndInv, Shares, [Next]_vars
  PROVE  /\ \A k \in Instance : Behind(k) \subseteq Behind(k)'
         /\ \A i \in Instance, p \in Party : i \in deltas[p] \/ p \in wiped =>
              i \in deltas'[p] \/ p \in wiped'
<1> USE PartyAssumption
<1>1. CASE UNCHANGED <<shard, deltas, wiped>>
  BY <1>1 DEF Behind
<1>2. ASSUME NEW p \in Party, SaveShard(p)
      PROVE  /\ \A k \in Instance : Behind(k) \subseteq Behind(k)'
             /\ \A i \in Instance, q \in Party : i \in deltas[q] \/ q \in wiped =>
                  i \in deltas'[q] \/ q \in wiped'
  <2>1. \A q \in Party : shard[q] # NoInst => shard'[q] = shard[q]
    BY <1>2, SaveShardEffect
  <2>2. \A q \in Party : deltas[q] \subseteq deltas'[q]
    BY <1>2, SaveShardEffect DEF Shares
  <2>3. UNCHANGED wiped
    BY <1>2, SaveShardEffect
  <2>4. QED
    BY <2>1, <2>2, <2>3 DEF Behind
<1>3. ASSUME NEW p \in Party, Wipe(p)
      PROVE  /\ \A k \in Instance : Behind(k) \subseteq Behind(k)'
             /\ \A i \in Instance, q \in Party : i \in deltas[q] \/ q \in wiped =>
                  i \in deltas'[q] \/ q \in wiped'
  BY <1>3, WipeEffect DEF Behind
<1>4. QED
  BY <1>1, <1>2, <1>3, ShardSteps

\* More parties are at least as many.
LEMMA QuorumGrows ==
  ASSUME NEW S, NEW T, S \subseteq T, T \subseteq Party, Cardinality(S) >= Threshold
  PROVE  Cardinality(T) >= Threshold
<1>1. IsFiniteSet(T)
  BY ThresholdAssumption, FS_Subset
<1>2. Cardinality(S) <= Cardinality(T) /\ IsFiniteSet(S)
  BY <1>1, FS_Subset
<1>3. Cardinality(S) \in Nat /\ Cardinality(T) \in Nat /\ Cardinality(Party) \in Nat
  BY <1>1, <1>2, FS_CardinalityType, ThresholdAssumption
<1>4. Threshold \in Nat
  BY <1>3, ThresholdAssumption
<1>5. QED
  BY <1>2, <1>3, <1>4

\* Behind only counts parties.
LEMMA BehindParties == TypeOK => \A k : Behind(k) \subseteq Party
BY DEF TypeOK, Behind

LEMMA BackedStep ==
  ASSUME IndInv, IndInv', Shares, Backed, [Next]_vars
  PROVE  Backed'
<1> USE PartyAssumption DEF IndInv, TypeOK, Key
<1>1. \A k \in Instance : Behind(k) \subseteq Behind(k)'
  BY BehindGrows
<1>2. \A i \in Instance, p \in Party : i \in deltas[p] \/ p \in wiped =>
        i \in deltas'[p] \/ p \in wiped'
  BY BehindGrows
<1>3. ASSUME NEW k \in Instance, Cardinality(Behind(k)) >= Threshold
      PROVE  Cardinality(Behind(k)') >= Threshold
  <2>1. Behind(k) \subseteq Behind(k)' /\ Behind(k)' \subseteq Party
    BY <1>1, BehindParties DEF Behind
  <2>2. QED
    BY <1>3, <2>1, QuorumGrows
<1>4. active # NoInst => Cardinality(Behind(active)') >= Threshold \/ active' # active
  <2>1. ASSUME active # NoInst, active' = active PROVE Cardinality(Behind(active)') >= Threshold
    <3>1. PICK k \in Instance : k = active
      BY <2>1
    <3>2. Cardinality(Behind(k)) >= Threshold
      BY <2>1, <3>1 DEF Backed
    <3>3. Cardinality(Behind(k)') >= Threshold
      BY <1>3, <3>2
    <3>4. QED
      BY <2>1, <3>1, <3>3 DEF Behind
  <2>2. QED
    BY <2>1
<1> DEFINE Served == (active # NoInst => Cardinality(Behind(active)) >= Threshold)'
           Told   == /\ op' = NoInst => \A p \in Party : got'[p] # "ok"
                     /\ \A p \in Party :
                          /\ op' # NoInst /\ kind'[op'] = "dkg" /\ got'[p] = "ok" => p \in Behind(op)'
                          /\ op' # NoInst /\ kind'[op'] = "refresh" /\ got'[p] = "ok" =>
                               op' \in deltas'[p] \/ p \in wiped'
           Probed == \A p \in Party : report'[p] # NoInst => p \in Behind(report[p])'
<1>5. UNCHANGED active => Served
  BY <1>4
<1>6. ASSUME UNCHANGED <<op, kind>>, \A p \in Party : got'[p] # "ok" \/ got'[p] = got[p]
      PROVE  Told
  <2>1. op = NoInst => \A p \in Party : got'[p] # "ok"
    BY <1>6 DEF Backed
  <2>2. ASSUME NEW p \in Party, op # NoInst, kind[op] = "dkg", got'[p] = "ok"
        PROVE  p \in Behind(op)'
    <3>1. PICK k \in Instance : k = op
      BY <2>2
    <3>2. p \in Behind(k)
      BY <1>6, <2>2, <3>1 DEF Backed
    <3>3. QED
      BY <1>1, <1>6, <3>1, <3>2 DEF Behind
  <2>3. ASSUME NEW p \in Party, op # NoInst, kind[op] = "refresh", got'[p] = "ok"
        PROVE  op \in deltas'[p] \/ p \in wiped'
    BY <1>2, <1>6, <2>3 DEF Backed
  <2>4. QED
    BY <1>6, <2>1, <2>2, <2>3
<1>7. ASSUME \A p \in Party : report'[p] \in {report[p], NoInst}
      PROVE  Probed
  <2> SUFFICES ASSUME NEW p \in Party, report'[p] # NoInst
               PROVE  p \in Behind(report[p])'
    OBVIOUS
  <2>1. PICK k \in Instance : k = report[p] /\ report'[p] = k
    BY <1>7
  <2>2. p \in Behind(k)
    BY <2>1 DEF Backed
  <2>3. QED
    BY <1>1, <2>1, <2>2 DEF Behind
<1>8. ASSUME op' = NoInst, \A p \in Party : got'[p] # "ok" PROVE Told
  BY <1>8
<1> HIDE DEF Served, Told, Probed
<1>9. CASE UNCHANGED vars
  <2>1. UNCHANGED <<active, op, kind, got, report>>
    BY <1>9 DEF vars, apiVars, wireVars
  <2>2. Served /\ Told /\ Probed
    BY <1>5, <1>6, <1>7, <2>1
  <2>3. QED
    BY <2>2 DEF Served, Told, Probed, Backed
<1>10. CASE Startup
  <2>1. CASE ApiStart \/ StartRetry
    <3>1. UNCHANGED <<active, op, kind, got>> /\ \A p \in Party : report'[p] = NoInst
      BY <2>1 DEF ApiStart, StartRetry, wireVars
    <3>2. QED
      BY <1>5, <1>6, <1>7, <3>1 DEF Served, Told, Probed, Backed
  <2>2. CASE ApiDown
    BY <1>7, <1>8, <2>2 DEF ApiDown, Asking, Served, Told, Probed, Backed
  <2>3. ASSUME NEW k \in Key, StartServe(k) PROVE Backed'
    <3>1. UNCHANGED <<op, kind, got, shard, wiped>> /\ active' = k /\ \A p \in Party : report'[p] = NoInst
      BY <2>3 DEF StartServe, wireVars, storeVars
    <3>2. Served
      <4>1. CASE k = NoInst
        BY <3>1, <4>1 DEF Served
      <4>2. CASE k # NoInst
        <5>1. Cardinality(Reporting) >= Threshold /\ \A p \in Reporting : report[p] = k
          BY <2>3, <4>2 DEF StartServe, Consensus
        <5>2. Reporting \subseteq Behind(k)
          BY <4>2, <5>1 DEF Reporting, Backed
        <5>3. Cardinality(Behind(k)) >= Threshold
          BY <5>1, <5>2, BehindParties, QuorumGrows
        <5>4. QED
          BY <3>1, <5>3 DEF Served, Behind
      <4>3. QED
        BY <4>1, <4>2
    <3>3. QED
      BY <1>6, <1>7, <3>1, <3>2 DEF Served, Told, Probed, Backed
  <2>4. QED
    BY <1>10, <2>1, <2>2, <2>3 DEF Startup
<1>11. ASSUME NEW i \in Instance, NEW what, NEW k, Begin(i, what, k) PROVE Backed'
  <2>1. UNCHANGED <<active, got, report>> /\ \A p \in Party : got[p] # "ok"
    BY <1>11 DEF Begin, Backed
  <2>2. Told
    BY <2>1 DEF Told
  <2>3. QED
    BY <1>5, <1>7, <2>1, <2>2 DEF Served, Told, Probed, Backed
<1>12. CASE ClientGone
  BY <1>5, <1>7, <1>8, <1>12 DEF ClientGone, Asking, Served, Told, Probed, Backed
<1>13. CASE Conclude
  <2>1. Told /\ Probed
    BY <1>7, <1>8, <1>13 DEF Conclude, Asking
  <2>2. Served
    <3>1. CASE active' = active
      BY <1>5, <3>1
    <3>2. CASE active' # active
      <4>1. /\ op # NoInst /\ kind[op] = "dkg" /\ active' = keyOf[op]
            /\ \A p \in Party : got[p] = "ok"
        BY <1>13, <3>2 DEF Conclude
      <4>2. PICK k \in Instance : op = k /\ active' = k
        BY <4>1 DEF Core, CeremonyKey
      <4>3. Party \subseteq Behind(k)
        BY <4>1, <4>2 DEF Backed
      <4>4. Cardinality(Party) >= Threshold
        <5>1. Cardinality(Party) \in Nat
          BY ThresholdAssumption, FS_CardinalityType
        <5>2. QED
          BY <5>1, ThresholdAssumption
      <4>5. Cardinality(Behind(k)) >= Threshold
        BY <4>3, <4>4, BehindParties, QuorumGrows
      <4>6. UNCHANGED <<shard, wiped>>
        BY <1>13 DEF Conclude, storeVars
      <4>7. QED
        BY <4>2, <4>5, <4>6 DEF Served, Behind
    <3>3. QED
      BY <3>1, <3>2
  <2>3. QED
    BY <2>1, <2>2 DEF Served, Told, Probed, Backed
<1>14. ASSUME NEW i \in Instance, NEW p \in Party, Request(i, p) PROVE Backed'
  <2>1. UNCHANGED <<active, op, kind, report>> /\ \A q \in Party : got'[q] # "ok" \/ got'[q] = got[q]
    BY <1>14 DEF Request, PostLost, Accept, Refuse, Answer, apiVars
  <2>2. QED
    BY <1>5, <1>6, <1>7, <2>1 DEF Served, Told, Probed, Backed
<1>15. ASSUME NEW p \in Party, ProbeAnswer(p) PROVE Backed'
  <2>1. UNCHANGED <<active, op, kind, got, shard, wiped>>
    BY <1>15 DEF ProbeAnswer, wireVars, storeVars
  <2>2. \A q \in Party : report'[q] = IF q = p THEN meta[p] ELSE report[q]
    BY <1>15 DEF ProbeAnswer
  <2>3. meta[p] # NoInst => shard[p] = meta[p]
    BY <1>15 DEF ProbeAnswer, Loadable, Core, StoreConsistent
  <2>4. Probed
    <3> SUFFICES ASSUME NEW q \in Party, report'[q] # NoInst
                 PROVE  q \in Behind(report[q])'
      BY DEF Probed
    <3>1. CASE q = p
      BY <2>1, <2>2, <2>3, <3>1 DEF Behind
    <3>2. CASE q # p
      BY <2>1, <2>2, <3>2 DEF Behind, Backed
    <3>3. QED
      BY <3>1, <3>2
  <2>5. QED
    BY <1>5, <1>6, <2>1, <2>4 DEF Served, Told, Probed, Backed
<1>16. ASSUME NEW p \in Party, SaveShard(p) PROVE Backed'
  <2>1. UNCHANGED <<active, op, kind, report>>
    BY <1>16 DEF SaveShard, wireVars
  <2>2. \A q \in Party : got'[q] = "ok" => got[q] = "ok" \/ (q = p /\ op = job[p])
    BY <1>16 DEF SaveShard, Answer
  <2>3. /\ job[p] \in Instance /\ UNCHANGED wiped
        /\ kind[job[p]] = "dkg" => shard'[p] = job[p]
        /\ kind[job[p]] = "refresh" => job[p] \in deltas'[p]
    BY <1>16, SaveShardEffect
  <2>4. Told
    <3>1. op = NoInst => \A q \in Party : got'[q] # "ok"
      BY <2>2, <2>3 DEF Backed
    <3>2. ASSUME NEW q \in Party, op # NoInst, kind[op] = "dkg", got'[q] = "ok"
          PROVE  q \in Behind(op)'
      <4>1. PICK k \in Instance : k = op
        BY <3>2
      <4>2. CASE got[q] = "ok"
        <5>1. q \in Behind(k)
          BY <3>2, <4>1, <4>2 DEF Backed
        <5>2. QED
          BY <1>1, <2>1, <4>1, <5>1 DEF Behind
      <4>3. CASE q = p /\ op = job[p]
        BY <2>1, <2>3, <3>2, <4>3 DEF Behind
      <4>4. QED
        BY <2>2, <3>2, <4>2, <4>3
    <3>3. ASSUME NEW q \in Party, op # NoInst, kind[op] = "refresh", got'[q] = "ok"
          PROVE  op \in deltas'[q] \/ q \in wiped'
      BY <1>2, <2>2, <2>3, <3>3 DEF Backed
    <3>4. QED
      BY <2>1, <3>1, <3>2, <3>3 DEF Told
  <2>5. QED
    BY <1>5, <1>7, <2>1, <2>4 DEF Served, Told, Probed, Backed
<1>17. ASSUME NEW p \in Party,
              \/ ProbeError(p) \/ HttpError(p) \/ Dial(p) \/ Advance(p)
              \/ SaveMeta(p) \/ Fail(p) \/ Crash(p) \/ Restart(p) \/ Wipe(p)
       PROVE  Backed'
  <2>1. UNCHANGED <<active, op, kind, report>> /\ \A q \in Party : got'[q] # "ok" \/ got'[q] = got[q]
    BY <1>17 DEF ProbeError, HttpError, Dial, Advance, SaveMeta, Fail, Answer,
      Crash, Restart, Wipe, apiVars, wireVars
  <2>2. QED
    BY <1>5, <1>6, <1>7, <2>1 DEF Served, Told, Probed, Backed
<1>18. QED
  BY <1>9, <1>10, <1>11, <1>12, <1>13, <1>14, <1>15, <1>16, <1>17
  DEF Next, Ceremony, BeginDkg, BeginRefresh, Cosigner

\* What stands behind the orchestrator's answers, in every execution.
LEMMA BackedAlways == Spec => [](IndInv /\ Shares /\ Backed)
<1>1. Init => Shares /\ Backed
  BY FS_EmptySet DEF Init, Shares, Backed, Asking
<1>2. IndInv /\ IndInv' /\ Shares /\ Backed /\ [Next]_vars => Shares' /\ Backed'
  BY SharesStep, BackedStep
<1>3. QED
  BY <1>1, <1>2, Inductive, PTL DEF Spec

\* The key served is backed by t complete shards, not counting stores lost
\* since: no DKG is answered before its shard is on disk, no half-written store
\* is counted at startup, and no later ceremony takes a shard away.
THEOREM QuorumBehindActiveHolds == Spec => []QuorumBehindActive
<1>1. Backed => QuorumBehindActive
  BY DEF Backed, QuorumBehindActive, Behind
<1>2. QED
  BY <1>1, BackedAlways, PTL

\* A refresh that the orchestrator reports as done has replaced the shard of
\* every host that still has its store.
THEOREM RefreshReplacesAllHolds == Spec => RefreshReplacesAll
<1> DEFINE Step == (op # NoInst /\ kind[op] = "refresh" /\ Conclude
                      /\ \A p \in Party : got[p] = "ok")
                   => \A p \in Party : op \in deltas[p] \/ p \in wiped
<1>1. Backed => Step
  BY DEF Backed
<1>2. QED
  BY <1>1, BackedAlways, PTL DEF RefreshReplacesAll

-----------------------------------------------------------------------------
(* Ceremonies implement Rounds, stores implement Slot                      *)

\* Any ceremony and any cosigner.
CONSTANTS AnyInstance, AnyParty

R == INSTANCE Rounds WITH Member <- Party, round <- sent[AnyInstance]

Generation ==
  IF shard[AnyParty] = NoInst THEN 0 ELSE 1 + Cardinality(deltas[AnyParty])
S == INSTANCE Slot WITH Key <- Instance, NoKey <- NoInst, key <- meta[AnyParty],
                        gen <- Generation

\* A DKG or refresh, with whatever crashes, late requests and retries around it,
\* keeps to the rounds: a member that failed and is asked again does not
\* re-enter, and nobody passes a member that has not sent.
THEOREM CeremonyIsRounds ==
  ASSUME AnyInstance \in Instance PROVE Spec => R!Spec
<1>1. Init => R!Init
  BY DEF Init, R!Init
<1>2. IndInv /\ [Next]_vars => [R!Next]_(sent[AnyInstance])
  <2> SUFFICES ASSUME IndInv, [Next]_vars, sent'[AnyInstance] # sent[AnyInstance]
               PROVE  R!Next
    OBVIOUS
  <2> USE PartyAssumption, RoundAssumption DEF IndInv, Core, TypeOK, Key
  <2>1. PICK p \in Party : Dial(p) \/ Advance(p)
    BY DEF Next, Startup, ApiStart, StartRetry, ApiDown, StartServe, Ceremony,
       BeginDkg, BeginRefresh, Begin, Conclude, ClientGone, Request, PostLost,
       Accept, Refuse, Cosigner, ProbeAnswer, ProbeError, HttpError, SaveMeta,
       SaveShard, Fail, Crash, Restart, Wipe, vars, wireVars
  <2>2. PICK r \in 0 .. LastRound - 1 :
          /\ r = stage[p] /\ job[p] \in Instance
          /\ sent' = [sent EXCEPT ![job[p]][p] = r + 1]
          /\ r >= 1 => \A q \in Party \ {p} : sent[job[p]][q] >= r
    BY <2>1 DEF Dial, Advance, AnsweredRounds, RoundComplete
  <2>3. job[p] = AnyInstance
    BY <2>2
  <2>4. sent[AnyInstance][p] = r
    BY <2>2, <2>3 DEF JobProgress
  <2>5. sent'[AnyInstance] = [sent[AnyInstance] EXCEPT ![p] = r + 1]
    BY <2>2, <2>3
  <2>6. CASE r = 0
    <3>1. sent'[AnyInstance] = [sent[AnyInstance] EXCEPT ![p] = 1]
      BY <2>5, <2>6
    <3>2. R!Join(p)
      BY <2>4, <2>6, <3>1 DEF R!Join
    <3>3. QED
      BY <3>2 DEF R!Next
  <2>7. CASE r # 0
    <3>1. r \in 1 .. LastRound - 1
      BY <2>2, <2>7
    <3>2. \A q \in Party : sent[AnyInstance][q] >= r
      BY <2>2, <2>3, <2>4, <3>1
    <3>3. R!Proceed(p)
      BY <2>4, <2>5, <3>1, <3>2 DEF R!Proceed
    <3>4. QED
      BY <3>3 DEF R!Next
  <2>8. QED
    BY <2>6, <2>7
<1>3. QED
  BY <1>1, <1>2, Inductive, PTL DEF Spec, R!Spec

\* The store of a cosigner, under every ceremony, crash and loss of the custody
\* core, is a slot: a key is claimed once, its shard replaced one generation at a
\* time, and only a wipe takes them, both together.
THEOREM StoreIsSlot ==
  ASSUME AnyParty \in Party PROVE Spec => S!Spec
<1> DEFINE p == AnyParty
<1>1. Init => S!Init
  BY DEF Init, S!Init, Generation
<1>2. IndInv /\ Shares /\ [Next]_vars => [S!Next]_(S!slotVars)
  <2> SUFFICES ASSUME IndInv, Shares, [Next]_vars PROVE S!Next \/ UNCHANGED <<meta[p], Generation>>
    BY DEF S!slotVars
  <2> USE PartyAssumption, RoundAssumption
  <2>1. CASE UNCHANGED <<meta[p], shard[p], deltas[p]>>
    BY <2>1 DEF Generation
  <2>2. CASE SaveMeta(p)
    <3>1. job[p] \in Instance /\ kind[job[p]] \in {"dkg", "refresh"} /\ stage[p] = LastRound
      BY <2>2, JobBegun DEF SaveMeta
    <3>2. UNCHANGED <<shard, deltas>> /\ meta'[p] = keyOf[job[p]]
      BY <2>2 DEF SaveMeta, IndInv, TypeOK
    <3>3. CASE kind[job[p]] = "dkg"
      <4>1. meta[p] = NoInst /\ shard[p] = NoInst /\ keyOf[job[p]] = job[p]
        BY <3>1, <3>3 DEF IndInv, Core, JobStore, Shares, CeremonyKey
      <4>2. S!Claim(job[p])
        BY <3>1, <3>2, <4>1 DEF S!Claim, Generation
      <4>3. QED
        BY <3>1, <4>2 DEF S!Next
    <3>4. CASE kind[job[p]] = "refresh"
      <4>1. meta[p] = keyOf[job[p]]
        BY <3>1, <3>4 DEF IndInv, Core, JobStore, CeremonyKey, StoreConsistent
      <4>2. QED
        BY <3>2, <4>1 DEF Generation
    <3>5. QED
      BY <3>1, <3>3, <3>4
  <2>3. CASE SaveShard(p)
    <3>1. meta[p] \in Instance /\ shard'[p] = meta[p] /\ UNCHANGED meta /\ deltas'[p] = Refreshed(p)
      BY <2>3, SaveShardEffect
    <3>2. Generation' = 1 + Cardinality(Refreshed(p))
      BY <3>1 DEF Generation
    <3>3. CASE kind[job[p]] = "dkg"
      <4>1. shard[p] = NoInst /\ Refreshed(p) = {}
        BY <2>3, <3>3, SaveShardEffect
      <4>2. Generation = 0 /\ Generation' = 1
        BY <3>2, <4>1, FS_EmptySet DEF Generation
      <4>3. QED
        BY <3>1, <4>2 DEF S!Next, S!Replace
    <3>4. CASE kind[job[p]] = "refresh"
      <4>1. shard[p] # NoInst /\ Refreshed(p) = deltas[p] \cup {job[p]}
        BY <2>3, <3>1, <3>4, SaveShardEffect
      <4>2. job[p] \notin deltas[p] /\ IsFiniteSet(deltas[p])
        BY DEF Shares
      <4>3. Cardinality(deltas[p] \cup {job[p]}) = Cardinality(deltas[p]) + 1
            /\ Cardinality(deltas[p]) \in Nat
        BY <4>2, FS_AddElement, FS_CardinalityType
      <4>4. Generation' = Generation + 1
        BY <3>2, <4>1, <4>3 DEF Generation
      <4>5. QED
        BY <3>1, <4>4 DEF S!Next, S!Replace
    <3>5. QED
      BY <2>3, <3>3, <3>4, SaveShardEffect
  <2>4. CASE Wipe(p)
    BY <2>4, WipeEffect DEF S!Next, S!Lose, Generation
  <2>5. ASSUME NEW q \in Party, q # p, SaveMeta(q) \/ SaveShard(q) \/ Wipe(q)
        PROVE  UNCHANGED <<meta[p], shard[p], deltas[p]>>
    BY <2>5 DEF SaveMeta, SaveShard, Wipe, IndInv, TypeOK
  <2>6. \/ UNCHANGED <<meta, shard, deltas>>
        \/ \E q \in Party : SaveMeta(q) \/ SaveShard(q) \/ Wipe(q)
    BY DEF Next, Startup, ApiStart, StartRetry, ApiDown, StartServe, Ceremony,
       BeginDkg, BeginRefresh, Begin, Conclude, ClientGone, Request, PostLost,
       Accept, Refuse, Cosigner, ProbeAnswer, ProbeError, HttpError, Dial, Advance,
       Fail, Crash, Restart, vars, storeVars
  <2>7. QED
    BY <2>1, <2>2, <2>3, <2>4, <2>5, <2>6
<1>3. QED
  BY <1>1, <1>2, BackedAlways, PTL DEF Spec, S!Spec
=============================================================================
