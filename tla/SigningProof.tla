---------------------------- MODULE SigningProof ----------------------------
(***************************************************************************)
(* No signature without a quorum's consent, no second attempt for a digest *)
(* that is signed, no lock left behind by an answered request: for any     *)
(* parties, threshold, policies and number of concurrent requests.         *)
(***************************************************************************)
EXTENDS Signing, TLAPS

\* The handlers between the first look at the cache and the answer.
Before == {"new", "checked", "probing"}

\* One handler at a time is past try_lock; a free lock has nothing behind it.
LockInv ==
  /\ \A r \in Request : lock = r <=> pc[r] \in {"probing", "posted"}
  /\ lock = None => got = Asking
  /\ lock # None /\ pc[lock] = "probing" => got = Asking

\* A subset is chosen once, with all its parties.
SubsetInv ==
  \A r \in Request : /\ subset[r] = {} \/ Cardinality(subset[r]) = Threshold
                     /\ pc[r] \in Before => subset[r] = {}

\* Whoever works on a request was asked, once, and has vetted it.
JobInv ==
  \A r \in Request, p \in Party :
    /\ <<r, p>> \in posts => p \in subset[r] /\ job[p] # r
    /\ job[p] = r => p \in subset[r] /\ Vet(r, p)
    /\ sent[r][p] >= 1 => Vet(r, p)

\* A signature took a message of every party that was asked.
MadeInv ==
  \A r \in made : /\ subset[r] # {}
                  /\ \A p \in subset[r] : sent[r][p] >= 1

\* A veto is that of a party that was asked.
VetoInv ==
  \A r \in Request :
    /\ lock = r => \A p \in Party : got[p] = "veto" => p \in subset[r] /\ ~Vet(r, p)
    /\ pc[r] = "vetoed" => \E p \in subset[r] : ~Vet(r, p)

\* Who has answered is done with the request.
AnsweredInv ==
  \A r \in Request \ cut : lock = r =>
    \A p \in Party : got[p] # "wait" => job[p] # r /\ <<r, p>> \notin posts

\* An attempt is under way only for a digest without signature.
CacheInv ==
  \A r \in Request : pc[r] = "probing" => Cached(r) = None

IndInv ==
  /\ TypeOK /\ LockInv /\ SubsetInv /\ JobInv /\ MadeInv /\ VetoInv
  /\ AnsweredInv /\ NoLockLeftBehind /\ CacheInv

-----------------------------------------------------------------------------
(* Types                                                                   *)

HandlerTypes ==
  /\ pc \in [Request -> {"new", "checked", "probing", "posted"} \cup Ended]
  /\ lock \in Sig
  /\ got \in [Party -> {"wait", "ok", "veto", "err"}]
  /\ probing \subseteq Party /\ ready \subseteq Party

LEMMA EndType ==
  ASSUME TypeOK, NEW r \in Request, NEW how \in Ended, End(r, how)
  PROVE  HandlerTypes'
BY DEF TypeOK, HandlerTypes, End, Asking, Sig

LEMMA ReleaseType ==
  ASSUME TypeOK, NEW p \in Party, Release(p)
  PROVE  job' \in [Party -> Sig] /\ stage' \in [Party -> 0 .. LastRound]
BY SchemeAssumption DEF TypeOK, Release, Sig

LEMMA CachedType ==
  ASSUME TypeOK, NEW r \in Request
  PROVE  Digest[r] \in Digests /\ Cached(r) \in Sig
BY DEF TypeOK, Cached, Digests

LEMMA TypeNext == TypeOK /\ [Next]_vars => TypeOK'
<1> SUFFICES ASSUME TypeOK, [Next]_vars PROVE TypeOK'
  OBVIOUS
<1> USE SchemeAssumption, RequestAssumption DEF TypeOK, Asking
<1>1. ASSUME NEW r \in Request, Ask(r) PROVE TypeOK'
  <2>1. CASE Cached(r) = None
    BY <1>1, <2>1 DEF Ask, cosVars
  <2>2. CASE Cached(r) # None
    <3>1. HandlerTypes'
      BY <1>1, <2>2, EndType, "signed" \in Ended DEF Ask, Ended
    <3>2. answer' \in [Request -> Sig]
      BY <1>1, <2>2, CachedType DEF Ask
    <3>3. QED
      BY <1>1, <3>1, <3>2 DEF Ask, HandlerTypes, cosVars
  <2>3. QED
    BY <2>1, <2>2
<1>2. ASSUME NEW r \in Request, TryLock(r) PROVE TypeOK'
  <2>1. CASE lock # None
    <3>1. HandlerTypes'
      BY <1>2, <2>1, EndType, "busy" \in Ended DEF TryLock, Ended
    <3>2. QED
      BY <1>2, <2>1, <3>1 DEF TryLock, HandlerTypes, cosVars
  <2>2. CASE lock = None /\ Recheck(r) # None
    <3>1. HandlerTypes'
      BY <1>2, <2>2, EndType, "signed" \in Ended DEF TryLock, Ended
    <3>2. answer' = [answer EXCEPT ![r] = Cached(r)]
      BY <1>2, <2>2 DEF TryLock
    <3>3. answer' \in [Request -> Sig]
      BY <3>2, CachedType
    <3>4. QED
      BY <1>2, <3>1, <3>3 DEF TryLock, HandlerTypes, cosVars
  <2>3. CASE lock = None /\ Recheck(r) = None
    BY <1>2, <2>3 DEF TryLock, Sig, cosVars
  <2>4. QED
    BY <2>1, <2>2, <2>3
<1>3. ASSUME NEW r \in Request, Select(r) PROVE TypeOK'
  <2>1. CASE End(r, "failed") /\ UNCHANGED <<subset, posts>>
    <3>1. HandlerTypes'
      BY <2>1, EndType, "failed" \in Ended DEF Ended
    <3>2. QED
      BY <1>3, <2>1, <3>1 DEF Select, HandlerTypes
  <2>2. ASSUME NEW S \in SUBSET Party,
               subset' = [subset EXCEPT ![r] = S],
               posts' = posts \cup ({r} \X S),
               pc' = [pc EXCEPT ![r] = "posted"],
               UNCHANGED <<lock, got, probing, ready>>
        PROVE  TypeOK'
    <3>1. posts' \subseteq Request \X Party
      BY <2>2
    <3>2. subset' \in [Request -> SUBSET Party]
      BY <2>2
    <3>3. QED
      BY <1>3, <2>2, <3>1, <3>2 DEF Select
  <2>3. QED
    BY <1>3, <2>1, <2>2 DEF Select
<1>4. ASSUME NEW r \in Request, Conclude(r) PROVE TypeOK'
  <2>1. HandlerTypes'
    <3>1. Combine(subset[r]) \in Ended
      BY DEF Combine, Ended
    <3>2. QED
      BY <1>4, <3>1, EndType DEF Conclude
  <2>2. cache' \in [Digests -> Sig] /\ answer' \in [Request -> Sig]
    <3>1. \/ cache' = [cache EXCEPT ![Digest[r]] = r] /\ answer' = [answer EXCEPT ![r] = r]
          \/ UNCHANGED <<cache, answer>>
      BY <1>4 DEF Conclude
    <3>2. Digest[r] \in Digests
      BY CachedType
    <3>3. [cache EXCEPT ![Digest[r]] = r] \in [Digests -> Sig]
      BY <3>2 DEF Sig
    <3>4. [answer EXCEPT ![r] = r] \in [Request -> Sig]
      BY DEF Sig
    <3>5. QED
      BY <3>1, <3>3, <3>4
  <2>3. QED
    BY <1>4, <2>1, <2>2 DEF Conclude, HandlerTypes, cosVars
<1>5. ASSUME NEW r \in Request, ClientGone(r) PROVE TypeOK'
  <2>1. HandlerTypes'
    BY <1>5, EndType, "gone" \in Ended DEF ClientGone, Ended
  <2>2. QED
    BY <1>5, <2>1 DEF ClientGone, HandlerTypes, cosVars
<1>6. ASSUME NEW r \in Request, NEW p \in Party, Accept(r, p) PROVE TypeOK'
  BY <1>6 DEF Accept, Sig, apiVars
<1>7. ASSUME NEW r \in Request, NEW p \in Party, Refuse(r, p) PROVE TypeOK'
  BY <1>7 DEF Refuse, Answer
<1>8. ASSUME NEW r \in Request, NEW p \in Party, PostLost(r, p) PROVE TypeOK'
  BY <1>8 DEF PostLost, apiVars
<1>9. ASSUME NEW p \in Party, Reply(p) \/ HttpError(p) PROVE TypeOK'
  <2>1. CASE Reply(p)
    BY <1>9, <2>1 DEF Reply, Probe, ProbeTimeout, cosVars
  <2>2. CASE HttpError(p)
    <3>1. got' \in [Party -> {"wait", "ok", "veto", "err"}] /\ cut' \subseteq Request
      BY <2>2 DEF HttpError, Sig
    <3>2. QED
      BY <2>2, <3>1 DEF HttpError, cosVars
  <2>3. QED
    BY <1>9, <2>1, <2>2
<1>10. ASSUME NEW p \in Party, Step(p) PROVE TypeOK'
  <2>1. job[p] \in Request
    BY <1>10 DEF Step, Sig
  <2>2. stage[p] + 1 \in 0 .. LastRound
    BY <1>10 DEF Step, MoreToSend
  <2>3. QED
    BY <1>10, <2>1, <2>2 DEF Step, apiVars
<1>11. ASSUME NEW p \in Party, Finish(p) \/ Fail(p) PROVE TypeOK'
  <2>1. job' \in [Party -> Sig] /\ stage' \in [Party -> 0 .. LastRound]
    BY <1>11, ReleaseType DEF Finish, Fail
  <2>2. got' \in [Party -> {"wait", "ok", "veto", "err"}]
    BY <1>11 DEF Finish, Fail, Answer
  <2>3. made' \subseteq Request
    BY <1>11 DEF Finish, Fail, Sig
  <2>4. QED
    BY <1>11, <2>1, <2>2, <2>3 DEF Finish, Fail
<1>12. ASSUME NEW p \in Party, Crash(p) \/ Restart(p) PROVE TypeOK'
  <2>1. job' \in [Party -> Sig] /\ stage' \in [Party -> 0 .. LastRound]
    BY <1>12, ReleaseType DEF Crash, Restart
  <2>2. QED
    BY <1>12, <2>1 DEF Crash, Restart, apiVars
<1>13. CASE ApiRestart
  BY <1>13 DEF ApiRestart, Sig, Ended, cosVars
<1>14. CASE UNCHANGED vars
  BY <1>14 DEF vars, apiVars, cosVars
<1>15. QED
  BY <1>1, <1>2, <1>3, <1>4, <1>5, <1>6, <1>7, <1>8, <1>9, <1>10, <1>11, <1>12, <1>13,
    <1>14 DEF Next, Handler, Run

\* Every state of /v1/sign and its cosigners is well typed.
THEOREM TypeCorrect == Spec => []TypeOK
<1>1. Init => TypeOK
  BY SchemeAssumption DEF Init, TypeOK, Sig, Ended, Asking
<1>2. QED
  BY <1>1, TypeNext, PTL DEF Spec

-----------------------------------------------------------------------------
(* The invariant                                                           *)

LEMMA InitInd == Init => IndInv
<1> SUFFICES ASSUME Init PROVE IndInv
  OBVIOUS
<1>1. TypeOK
  BY SchemeAssumption DEF Init, TypeOK, Sig, Ended, Asking
<1>2. LockInv /\ SubsetInv /\ JobInv /\ MadeInv /\ VetoInv
  BY RequestAssumption DEF Init, LockInv, SubsetInv, JobInv, MadeInv, VetoInv, Asking, Before
<1>3. AnsweredInv /\ NoLockLeftBehind /\ CacheInv
  BY RequestAssumption DEF Init, AnsweredInv, NoLockLeftBehind, CacheInv
<1>4. QED
  BY <1>1, <1>2, <1>3 DEF IndInv

\* Any end of a handler keeps the invariant, if nobody is left behind by an
\* answer and a veto was one.
LEMMA EndInd ==
  ASSUME IndInv, TypeOK', NEW r \in Request, NEW how \in Ended, End(r, how),
         lock # r => subset[r] = {},
         how = "vetoed" => \E p \in subset[r] : ~Vet(r, p),
         UNCHANGED <<subset, cosVars>>, cut \subseteq cut',
         how \in {"signed", "vetoed", "failed"} /\ r \notin cut' =>
           \A p \in Party : job[p] # r /\ <<r, p>> \notin posts
  PROVE  /\ LockInv' /\ SubsetInv' /\ JobInv' /\ MadeInv' /\ VetoInv'
         /\ AnsweredInv' /\ NoLockLeftBehind'
<1> USE DEF IndInv
<1>1. \A x \in Request : pc'[x] = IF x = r THEN how ELSE pc[x]
  BY DEF End, TypeOK
<1>2. LockInv'
  BY <1>1, RequestAssumption DEF End, LockInv, Ended
<1>3. SubsetInv' /\ JobInv' /\ MadeInv'
  BY <1>1 DEF SubsetInv, JobInv, MadeInv, Before, Ended, Vet, cosVars
<1>4. VetoInv'
  BY <1>1, RequestAssumption DEF VetoInv, End, Vet
<1>5. AnsweredInv'
  BY RequestAssumption DEF AnsweredInv, End, cosVars
<1>6. NoLockLeftBehind'
  BY <1>1 DEF NoLockLeftBehind, cosVars
<1>7. QED
  BY <1>2, <1>3, <1>4, <1>5, <1>6

\* Nobody works on a request before it has its subset.
LEMMA Unasked ==
  ASSUME IndInv, NEW r \in Request, subset[r] = {}
  PROVE  \A p \in Party : job[p] # r /\ <<r, p>> \notin posts
BY DEF IndInv, JobInv

LEMMA AskInd ==
  ASSUME IndInv, TypeOK', NEW r \in Request, Ask(r)
  PROVE  IndInv'
<1> USE DEF IndInv
<1>1. subset[r] = {} /\ lock # r
  BY DEF Ask, SubsetInv, LockInv, Before
<1>2. CASE Cached(r) = None
  <2>1. \A x \in Request : pc'[x] = IF x = r THEN "checked" ELSE pc[x]
    BY <1>2 DEF Ask, TypeOK
  <2>2. UNCHANGED <<lock, got, cache, subset, cut, cosVars>>
    BY <1>2 DEF Ask
  <2>3. LockInv' /\ SubsetInv' /\ JobInv' /\ MadeInv'
    BY <1>1, <2>1, <2>2, RequestAssumption DEF LockInv, SubsetInv, JobInv, MadeInv, Before,
      Vet, cosVars, TypeOK, Sig
  <2>4. VetoInv' /\ AnsweredInv' /\ NoLockLeftBehind'
    BY <2>1, <2>2 DEF VetoInv, AnsweredInv, NoLockLeftBehind, Vet, cosVars
  <2>5. CacheInv'
    BY <2>1, <2>2 DEF CacheInv, Cached
  <2>6. QED
    BY <2>3, <2>4, <2>5
<1>3. CASE Cached(r) # None
  <2>1. End(r, "signed") /\ UNCHANGED <<subset, cosVars, cut, cache>>
    BY <1>3 DEF Ask
  <2>2. /\ LockInv' /\ SubsetInv' /\ JobInv' /\ MadeInv' /\ VetoInv'
        /\ AnsweredInv' /\ NoLockLeftBehind'
    BY <1>1, <2>1, EndInd, Unasked, "signed" \in Ended DEF Ended
  <2>3. CacheInv'
    BY <2>1 DEF CacheInv, Cached, End, TypeOK
  <2>4. QED
    BY <2>2, <2>3
<1>4. QED
  BY <1>2, <1>3

LEMMA TryLockInd ==
  ASSUME IndInv, TypeOK', NEW r \in Request, TryLock(r)
  PROVE  IndInv'
<1> USE DEF IndInv
<1>1. subset[r] = {} /\ lock # r /\ UNCHANGED <<subset, cosVars, cut, cache>>
  BY DEF TryLock, SubsetInv, LockInv, Before
<1>2. CASE lock # None \/ Recheck(r) # None
  <2>1. PICK how \in {"busy", "signed"} : End(r, how)
    BY <1>2 DEF TryLock
  <2>2. /\ LockInv' /\ SubsetInv' /\ JobInv' /\ MadeInv' /\ VetoInv'
        /\ AnsweredInv' /\ NoLockLeftBehind'
    BY <1>1, <2>1, EndInd, Unasked, how \in Ended DEF Ended
  <2>3. CacheInv'
    BY <1>1, <2>1 DEF CacheInv, Cached, End, TypeOK
  <2>4. QED
    BY <2>2, <2>3
<1>3. CASE lock = None /\ Recheck(r) = None
  <2>1. \A x \in Request : pc'[x] = IF x = r THEN "probing" ELSE pc[x]
    BY <1>3 DEF TryLock, TypeOK
  <2>2. lock' = r /\ got' = Asking
    BY <1>3 DEF TryLock, LockInv
  <2>3. LockInv' /\ SubsetInv' /\ JobInv' /\ MadeInv'
    BY <1>1, <1>3, <2>1, <2>2, RequestAssumption DEF LockInv, SubsetInv, JobInv, MadeInv,
      Before, Vet, cosVars, Asking
  <2>4. VetoInv' /\ AnsweredInv' /\ NoLockLeftBehind'
    BY <1>1, <1>3, <2>1, <2>2 DEF VetoInv, AnsweredInv, NoLockLeftBehind, Vet, cosVars, Asking
  <2>5. CacheInv'
    BY <1>1, <1>3, <2>1 DEF CacheInv, Cached, Recheck
  <2>6. QED
    BY <2>3, <2>4, <2>5
<1>4. QED
  BY <1>2, <1>3

LEMMA SelectInd ==
  ASSUME IndInv, TypeOK', NEW r \in Request, Select(r)
  PROVE  IndInv'
<1> USE DEF IndInv
<1>1. lock = r /\ pc[r] = "probing" /\ subset[r] = {} /\ UNCHANGED <<cut, cache>>
  BY DEF Select, SubsetInv, Before
<1>2. CASE End(r, "failed") /\ UNCHANGED <<subset, posts>>
  <2>1. UNCHANGED <<subset, cosVars>>
    BY <1>2 DEF Select, cosVars
  <2>2. /\ LockInv' /\ SubsetInv' /\ JobInv' /\ MadeInv' /\ VetoInv'
        /\ AnsweredInv' /\ NoLockLeftBehind'
    BY <1>1, <1>2, <2>1, EndInd, Unasked, "failed" \in Ended DEF Ended
  <2>3. CacheInv'
    BY <1>1, <1>2 DEF CacheInv, Cached, End, TypeOK
  <2>4. QED
    BY <2>2, <2>3
<1>3. ASSUME NEW S \in SUBSET Party,
             Preferred(S),
             subset' = [subset EXCEPT ![r] = S],
             posts' = posts \cup ({r} \X S),
             pc' = [pc EXCEPT ![r] = "posted"],
             UNCHANGED <<lock, got, probing, ready>>
      PROVE  IndInv'
  <2>1. \A x \in Request : /\ pc'[x] = IF x = r THEN "posted" ELSE pc[x]
                           /\ subset'[x] = IF x = r THEN S ELSE subset[x]
    BY <1>3 DEF TypeOK
  <2>2. \A x \in Request, p \in Party :
          <<x, p>> \in posts' <=> <<x, p>> \in posts \/ (x = r /\ p \in S)
    BY <1>3
  <2>3. UNCHANGED <<job, sent, made, lock, got, cut>> /\ got = Asking
    BY <1>1, <1>3, RequestAssumption DEF Select, LockInv
  <2>4. LockInv'
    BY <1>1, <2>1, <2>3, RequestAssumption DEF LockInv
  <2>5. SubsetInv'
    BY <1>3, <2>1 DEF SubsetInv, Preferred, Before
  <2>6. JobInv'
    BY <1>1, <2>1, <2>2, <2>3, Unasked DEF JobInv, Vet
  <2>7. MadeInv'
    BY <1>1, <2>1, <2>3 DEF MadeInv, TypeOK
  <2>8. VetoInv' /\ AnsweredInv' /\ NoLockLeftBehind'
    BY <1>1, <2>1, <2>2, <2>3 DEF VetoInv, AnsweredInv, NoLockLeftBehind, Vet, Asking
  <2>9. CacheInv'
    BY <1>1, <2>1 DEF CacheInv, Cached
  <2>10. QED
    BY <2>4, <2>5, <2>6, <2>7, <2>8, <2>9
<1>4. QED
  BY <1>2, <1>3 DEF Select

LEMMA ConcludeInd ==
  ASSUME IndInv, TypeOK', NEW r \in Request, Conclude(r)
  PROVE  IndInv'
<1> USE DEF IndInv
<1> DEFINE how == Combine(subset[r])
<1>1. /\ lock = r /\ pc[r] = "posted" /\ Settled(r) /\ End(r, how)
      /\ UNCHANGED <<subset, cut, cosVars>>
  BY DEF Conclude
<1>2. how \in Ended
  BY DEF Combine, Ended
<1>3. how = "vetoed" => \E p \in subset[r] : ~Vet(r, p)
  BY <1>1 DEF Combine, VetoInv, TypeOK
<1>4. r \notin cut' => \A p \in Party : job[p] # r /\ <<r, p>> \notin posts
  BY <1>1 DEF Settled, AnsweredInv, JobInv
<1>5. /\ LockInv' /\ SubsetInv' /\ JobInv' /\ MadeInv' /\ VetoInv'
      /\ AnsweredInv' /\ NoLockLeftBehind'
  <2> HIDE DEF how
  <2>1. QED
    BY <1>1, <1>2, <1>3, <1>4, EndInd
<1>6. CacheInv'
  <2>1. \A x \in Request : pc'[x] # "probing"
    BY <1>1, <1>2 DEF End, TypeOK, LockInv, Ended
  <2>2. QED
    BY <2>1 DEF CacheInv
<1>7. QED
  BY <1>5, <1>6

LEMMA ClientGoneInd ==
  ASSUME IndInv, TypeOK', NEW r \in Request, ClientGone(r)
  PROVE  IndInv'
<1> USE DEF IndInv
<1>1. lock = r /\ End(r, "gone") /\ cut' = cut \cup {r} /\ UNCHANGED <<cache, subset, cosVars>>
  BY DEF ClientGone
<1>2. /\ LockInv' /\ SubsetInv' /\ JobInv' /\ MadeInv' /\ VetoInv'
      /\ AnsweredInv' /\ NoLockLeftBehind'
  BY <1>1, EndInd, "gone" \in Ended DEF Ended
<1>3. CacheInv'
  BY <1>1 DEF CacheInv, Cached, End, TypeOK
<1>4. QED
  BY <1>2, <1>3

\* A restart of the orchestrator: every handler under way counts as cut.
LEMMA ApiRestartInd ==
  ASSUME IndInv, TypeOK', ApiRestart
  PROVE  IndInv'
<1> USE DEF IndInv
<1>1. \A x \in Request : pc'[x] = IF pc[x] \in {"new"} \cup Ended THEN pc[x] ELSE "gone"
  BY DEF ApiRestart
<1>2. lock' = None /\ got' = Asking /\ cut \subseteq cut' /\ UNCHANGED <<subset, cosVars>>
  BY DEF ApiRestart
<1>3. LockInv' /\ SubsetInv' /\ JobInv' /\ MadeInv'
  BY <1>1, <1>2, RequestAssumption DEF LockInv, SubsetInv, JobInv, MadeInv, Before, Ended,
    Vet, cosVars
<1>4. VetoInv' /\ AnsweredInv' /\ NoLockLeftBehind' /\ CacheInv'
  BY <1>1, <1>2, RequestAssumption DEF VetoInv, AnsweredInv, NoLockLeftBehind, CacheInv,
    Ended, Vet, cosVars
<1>5. QED
  BY <1>3, <1>4

-----------------------------------------------------------------------------
(* Probes and cosigners                                                    *)

LEMMA ReplyInd ==
  ASSUME IndInv, TypeOK', NEW p \in Party, Reply(p)
  PROVE  IndInv'
<1>1. UNCHANGED <<pc, answer, lock, cache, got, subset, cut, cosVars>>
  BY DEF Reply, Probe, ProbeTimeout
<1>2. QED
  BY <1>1 DEF IndInv, LockInv, SubsetInv, JobInv, MadeInv, VetoInv, AnsweredInv,
    NoLockLeftBehind, CacheInv, Cached, Vet, cosVars

LEMMA HttpErrorInd ==
  ASSUME IndInv, TypeOK', NEW p \in Party, HttpError(p)
  PROVE  IndInv'
<1> USE DEF IndInv
<1>1. /\ lock # None /\ pc[lock] = "posted" /\ cut' = cut \cup {lock}
      /\ UNCHANGED <<pc, lock, cache, subset, cosVars>>
  BY DEF HttpError
<1>2. \A q \in Party : got'[q] = IF q = p THEN "err" ELSE got[q]
  BY DEF HttpError, TypeOK
<1>3. LockInv' /\ SubsetInv' /\ JobInv' /\ MadeInv' /\ CacheInv'
  BY <1>1 DEF LockInv, SubsetInv, JobInv, MadeInv, CacheInv, Cached, Vet, cosVars
<1>4. VetoInv' /\ AnsweredInv' /\ NoLockLeftBehind'
  BY <1>1, <1>2 DEF VetoInv, AnsweredInv, NoLockLeftBehind, Vet, cosVars
<1>5. QED
  BY <1>3, <1>4

\* A party takes a request only once, and only what it has vetted.
LEMMA AcceptInd ==
  ASSUME IndInv, TypeOK', NEW r \in Request, NEW p \in Party, Accept(r, p)
  PROVE  IndInv'
<1> USE DEF IndInv
<1>1. UNCHANGED <<pc, lock, cache, got, subset, cut, sent, made>>
  BY DEF Accept, apiVars
<1>2. \A q \in Party : job'[q] = IF q = p THEN r ELSE job[q]
  BY DEF Accept, TypeOK
<1>3. /\ <<r, p>> \in posts /\ <<r, p>> \notin posts' /\ posts' \subseteq posts /\ Vet(r, p)
  BY DEF Accept
<1>4. LockInv' /\ SubsetInv' /\ MadeInv' /\ VetoInv' /\ CacheInv'
  BY <1>1 DEF LockInv, SubsetInv, MadeInv, VetoInv, CacheInv, Cached, Vet
<1>5. JobInv'
  BY <1>1, <1>2, <1>3 DEF JobInv, Vet
<1>6. AnsweredInv' /\ NoLockLeftBehind'
  BY <1>1, <1>2, <1>3 DEF AnsweredInv, NoLockLeftBehind
<1>7. QED
  BY <1>4, <1>5, <1>6

\* An answer counts only where its request waits for it.
LEMMA AnswerInd ==
  ASSUME IndInv, NEW r \in Request, NEW p \in Party, p \in subset[r],
         NEW res \in {"ok", "veto", "err"}, Answer(r, p, res), res = "veto" => ~Vet(r, p),
         UNCHANGED <<pc, lock, subset, cut>>,
         job'[p] # r, <<r, p>> \notin posts', posts' \subseteq posts,
         \A q \in Party : job'[q] = job[q] \/ job'[q] = None
  PROVE  LockInv' /\ SubsetInv' /\ VetoInv' /\ AnsweredInv' /\ NoLockLeftBehind'
<1> USE DEF IndInv
<1>1. CASE lock = r /\ got[p] = "wait"
  <2>1. \A q \in Party : got'[q] = IF q = p THEN res ELSE got[q]
    BY <1>1 DEF Answer, TypeOK
  <2>2. pc[r] = "posted"
    BY <1>1 DEF LockInv, SubsetInv, Before
  <2>3. LockInv' /\ SubsetInv'
    BY <1>1, <2>2, RequestAssumption DEF LockInv, SubsetInv
  <2>4. VetoInv'
    BY <1>1, <2>1 DEF VetoInv, Vet
  <2>5. AnsweredInv' /\ NoLockLeftBehind'
    BY <1>1, <2>1, RequestAssumption DEF AnsweredInv, NoLockLeftBehind
  <2>6. QED
    BY <2>3, <2>4, <2>5
<1>2. CASE ~(lock = r /\ got[p] = "wait")
  <2>1. got' = got
    BY <1>2 DEF Answer
  <2>2. QED
    BY <2>1, RequestAssumption DEF LockInv, SubsetInv, VetoInv, AnsweredInv,
      NoLockLeftBehind, Vet
<1>3. QED
  BY <1>1, <1>2

LEMMA RefuseInd ==
  ASSUME IndInv, TypeOK', NEW r \in Request, NEW p \in Party, Refuse(r, p)
  PROVE  IndInv'
<1> USE DEF IndInv
<1>1. /\ <<r, p>> \in posts /\ <<r, p>> \notin posts' /\ posts' \subseteq posts
      /\ UNCHANGED <<pc, lock, cache, subset, cut, job, sent, made>>
  BY DEF Refuse
<1>2. p \in subset[r] /\ job[p] # r
  BY <1>1 DEF JobInv
<1>3. PICK res \in {"ok", "veto", "err"} : Answer(r, p, res) /\ (res = "veto" => ~Vet(r, p))
  BY DEF Refuse
<1>4. LockInv' /\ SubsetInv' /\ VetoInv' /\ AnsweredInv' /\ NoLockLeftBehind'
  BY <1>1, <1>2, <1>3, AnswerInd
<1>5. JobInv' /\ MadeInv' /\ CacheInv'
  BY <1>1 DEF JobInv, MadeInv, CacheInv, Cached, Vet
<1>6. QED
  BY <1>4, <1>5

LEMMA PostLostInd ==
  ASSUME IndInv, TypeOK', NEW r \in Request, NEW p \in Party, PostLost(r, p)
  PROVE  IndInv'
<1>1. posts' \subseteq posts /\ UNCHANGED <<pc, lock, cache, got, subset, cut, job, sent, made>>
  BY DEF PostLost, apiVars
<1>2. QED
  BY <1>1 DEF IndInv, LockInv, SubsetInv, JobInv, MadeInv, VetoInv, AnsweredInv,
    NoLockLeftBehind, CacheInv, Cached, Vet

\* Messages come from parties that vetted the request.
LEMMA StepInd ==
  ASSUME IndInv, TypeOK', NEW p \in Party, Step(p)
  PROVE  IndInv'
<1> USE DEF IndInv
<1>1. UNCHANGED <<pc, lock, cache, got, subset, cut, posts, job, made>>
  BY DEF Step, apiVars
<1>2. job[p] \in Request /\ stage[p] \in Nat
  BY DEF Step, TypeOK, Sig
<1>3. \A x \in Request, q \in Party :
        sent'[x][q] = IF x = job[p] /\ q = p THEN stage[p] + 1 ELSE sent[x][q]
  BY <1>2 DEF Step, TypeOK
<1>4. LockInv' /\ SubsetInv' /\ VetoInv' /\ AnsweredInv' /\ NoLockLeftBehind' /\ CacheInv'
  BY <1>1 DEF LockInv, SubsetInv, VetoInv, AnsweredInv, NoLockLeftBehind, CacheInv, Cached, Vet
<1>5. JobInv'
  BY <1>1, <1>2, <1>3 DEF JobInv, Vet
<1>6. MadeInv'
  <2>1. \A x \in Request, q \in Party : sent[x][q] >= 1 => sent'[x][q] >= 1
    BY <1>2, <1>3
  <2>2. QED
    BY <1>1, <2>1 DEF MadeInv, TypeOK
<1>7. QED
  BY <1>4, <1>5, <1>6

\* The last round is in only if every party asked has sent it.
LEMMA FinishInd ==
  ASSUME IndInv, TypeOK', NEW p \in Party, Finish(p)
  PROVE  IndInv'
<1> USE DEF IndInv
<1> DEFINE r == job[p]
<1>1. r \in Request /\ UNCHANGED <<pc, lock, cache, subset, cut, posts, sent>>
  BY DEF Finish, TypeOK, Sig
<1>2. \A q \in Party : job'[q] = IF q = p THEN None ELSE job[q]
  BY DEF Finish, Release, TypeOK
<1>3. p \in subset[r] /\ <<r, p>> \notin posts /\ job'[p] # r
  BY <1>1, <1>2, RequestAssumption DEF JobInv
<1>4. Answer(r, p, "ok") /\ made' = made \cup {r}
  BY DEF Finish
<1>5. LockInv' /\ SubsetInv' /\ VetoInv' /\ AnsweredInv' /\ NoLockLeftBehind'
  <2> HIDE DEF r
  <2>1. QED
    BY <1>1, <1>2, <1>3, <1>4, AnswerInd, "ok" \in {"ok", "veto", "err"}
<1>6. JobInv'
  BY <1>1, <1>2, RequestAssumption DEF JobInv, Vet
<1>7. MadeInv'
  <2>1. \A q \in subset[r] : sent[r][q] >= 1
    BY <1>1, SchemeAssumption DEF Finish, Heard, TypeOK
  <2>2. QED
    BY <1>1, <1>3, <1>4, <2>1 DEF MadeInv
<1>8. CacheInv'
  BY <1>1 DEF CacheInv, Cached
<1>9. QED
  BY <1>5, <1>6, <1>7, <1>8

LEMMA FailInd ==
  ASSUME IndInv, TypeOK', NEW p \in Party, Fail(p)
  PROVE  IndInv'
<1> USE DEF IndInv
<1> DEFINE r == job[p]
<1>1. r \in Request /\ UNCHANGED <<pc, lock, cache, subset, cut, posts, sent, made>>
  BY DEF Fail, TypeOK, Sig
<1>2. \A q \in Party : job'[q] = IF q = p THEN None ELSE job[q]
  BY DEF Fail, Release, TypeOK
<1>3. p \in subset[r] /\ <<r, p>> \notin posts /\ job'[p] # r
  BY <1>1, <1>2, RequestAssumption DEF JobInv
<1>4. Answer(r, p, "err")
  BY DEF Fail
<1>5. LockInv' /\ SubsetInv' /\ VetoInv' /\ AnsweredInv' /\ NoLockLeftBehind'
  <2> HIDE DEF r
  <2>1. QED
    BY <1>1, <1>2, <1>3, <1>4, AnswerInd, "err" \in {"ok", "veto", "err"}
<1>6. JobInv' /\ MadeInv' /\ CacheInv'
  BY <1>1, <1>2, RequestAssumption DEF JobInv, MadeInv, CacheInv, Cached, Vet
<1>7. QED
  BY <1>5, <1>6

\* A crash forgets the run without an answer.
LEMMA CrashInd ==
  ASSUME IndInv, TypeOK', NEW p \in Party, Crash(p) \/ Restart(p)
  PROVE  IndInv'
<1> USE DEF IndInv
<1>1. UNCHANGED <<pc, lock, cache, got, subset, cut, posts, sent, made>>
  BY DEF Crash, Restart, apiVars
<1>2. \A q \in Party : job'[q] = job[q] \/ job'[q] = None
  BY DEF Crash, Restart, Release, TypeOK
<1>3. LockInv' /\ SubsetInv' /\ MadeInv' /\ VetoInv' /\ CacheInv'
  BY <1>1 DEF LockInv, SubsetInv, MadeInv, VetoInv, CacheInv, Cached, Vet
<1>4. JobInv' /\ AnsweredInv' /\ NoLockLeftBehind'
  BY <1>1, <1>2, RequestAssumption DEF JobInv, AnsweredInv, NoLockLeftBehind, Vet
<1>5. QED
  BY <1>3, <1>4

-----------------------------------------------------------------------------
(* The theorems                                                            *)

LEMMA NextInd == IndInv /\ [Next]_vars => IndInv'
<1> SUFFICES ASSUME IndInv, [Next]_vars PROVE IndInv'
  OBVIOUS
<1>0. TypeOK'
  BY TypeNext DEF IndInv
<1>1. ASSUME NEW r \in Request, Handler(r) \/ ClientGone(r) PROVE IndInv'
  BY <1>0, <1>1, AskInd, TryLockInd, SelectInd, ConcludeInd, ClientGoneInd DEF Handler
<1>2. ASSUME NEW r \in Request, NEW p \in Party, Accept(r, p) \/ Refuse(r, p) \/ PostLost(r, p)
      PROVE  IndInv'
  BY <1>0, <1>2, AcceptInd, RefuseInd, PostLostInd
<1>3. ASSUME NEW p \in Party,
             Reply(p) \/ HttpError(p) \/ Run(p) \/ Crash(p) \/ Restart(p)
      PROVE  IndInv'
  BY <1>0, <1>3, ReplyInd, HttpErrorInd, StepInd, FinishInd, FailInd, CrashInd DEF Run
<1>4. CASE ApiRestart
  BY <1>0, <1>4, ApiRestartInd
<1>5. CASE UNCHANGED vars
  BY <1>0, <1>5 DEF vars, apiVars, cosVars, IndInv, LockInv, SubsetInv, JobInv, MadeInv,
    VetoInv, AnsweredInv, NoLockLeftBehind, CacheInv, Cached, Vet
<1>6. QED
  BY <1>1, <1>2, <1>3, <1>4, <1>5 DEF Next

LEMMA Invariance == Spec => []IndInv
BY InitInd, NextInd, PTL DEF Spec

\* A signature exists only of what all of Threshold parties' policies allow,
\* whatever requests race, parties crash and requests arrive late.
THEOREM PolicyRespectedHolds == Spec => []PolicyRespected
<1>1. IndInv => PolicyRespected
  <2> SUFFICES ASSUME IndInv, NEW r \in made
               PROVE  /\ Cardinality(subset[r]) = Threshold
                      /\ \A p \in subset[r] : Digest[r] \in Allow[p]
    BY DEF PolicyRespected
  <2>1. r \in Request /\ subset[r] \subseteq Party
    BY DEF IndInv, TypeOK
  <2>2. QED
    BY <2>1 DEF IndInv, SubsetInv, JobInv, MadeInv, Vet
<1>2. QED
  BY <1>1, Invariance, PTL

\* A request that was denied, or is about to be, never yields a signature.
THEOREM VetoFinalHolds == Spec => []VetoFinal
<1>1. IndInv => VetoFinal
  <2> SUFFICES ASSUME IndInv, NEW r \in made
               PROVE  /\ pc[r] # "vetoed"
                      /\ lock = r => \A p \in Party : got[p] # "veto"
    BY DEF VetoFinal
  <2>1. r \in Request /\ subset[r] \subseteq Party
    BY DEF IndInv, TypeOK
  <2>2. \A p \in subset[r] : Vet(r, p)
    BY <2>1 DEF IndInv, JobInv, MadeInv
  <2>3. QED
    BY <2>1, <2>2 DEF IndInv, VetoInv
<1>2. QED
  BY <1>1, Invariance, PTL

\* A request that was answered by every party it asked leaves no lock behind.
THEOREM NoLockLeftBehindHolds == Spec => []NoLockLeftBehind
<1>1. IndInv => NoLockLeftBehind
  BY DEF IndInv
<1>2. QED
  BY <1>1, Invariance, PTL

\* combine never hides a veto behind another party's error.
THEOREM VetoReportedHolds == Spec => VetoReported
<1>1. IndInv /\ [Next]_vars =>
        [\A r \in Request :
           Conclude(r) /\ (\E p \in Party : got[p] = "veto") => pc'[r] = "vetoed"]_vars
  <2> SUFFICES ASSUME IndInv, NEW r \in Request, Conclude(r),
                      NEW p \in Party, got[p] = "veto"
               PROVE  pc'[r] = "vetoed"
    OBVIOUS
  <2>1. lock = r /\ p \in subset[r]
    BY DEF Conclude, IndInv, VetoInv
  <2>2. Combine(subset[r]) = "vetoed"
    BY <2>1 DEF Combine
  <2>3. QED
    BY <2>2 DEF Conclude, End, IndInv, TypeOK
<1>2. QED
  BY <1>1, Invariance, PTL DEF Spec, VetoReported

\* No attempt is started for a digest whose signature is kept.
THEOREM SignedOnceHolds == Spec => SignedOnce
<1>1. IndInv /\ [Next]_vars =>
        [\A r \in Request : pc[r] # "posted" /\ pc'[r] = "posted" => Cached(r) = None]_vars
  <2> SUFFICES ASSUME IndInv, Next, NEW r \in Request, pc[r] # "posted", pc'[r] = "posted"
               PROVE  Cached(r) = None
    OBVIOUS
  <2>1. ASSUME NEW x \in Request, Handler(x) \/ ClientGone(x)
        PROVE  pc[r] = "probing"
    <3>1. CASE \E how \in Ended : End(x, how)
      BY <3>1 DEF End, Ended, IndInv, TypeOK
    <3>2. CASE Select(x) /\ pc' = [pc EXCEPT ![x] = "posted"]
      BY <3>2 DEF Select, IndInv, TypeOK
    <3>3. CASE \E at \in {"checked", "probing"} : pc' = [pc EXCEPT ![x] = at]
      BY <3>3 DEF IndInv, TypeOK
    <3>4. Combine(subset[x]) \in Ended
      BY DEF Combine, Ended
    <3>5. QED
      BY <2>1, <3>1, <3>2, <3>3, <3>4 DEF Handler, Ask, TryLock, Select, Conclude,
        ClientGone, Ended
  <2>2. ASSUME NEW x \in Request, NEW p \in Party,
               Accept(x, p) \/ Refuse(x, p) \/ PostLost(x, p)
        PROVE  pc' = pc
    BY <2>2 DEF Accept, Refuse, PostLost, apiVars
  <2>3. ASSUME NEW p \in Party, Reply(p) \/ HttpError(p) \/ Run(p) \/ Crash(p) \/ Restart(p)
        PROVE  pc' = pc
    BY <2>3 DEF Reply, Probe, ProbeTimeout, HttpError, Run, Step, Finish, Fail, Crash,
      Restart, apiVars
  <2>4. pc[r] = "probing"
    <3>1. CASE ApiRestart
      BY <3>1 DEF ApiRestart, Ended
    <3>2. QED
      BY <2>1, <2>2, <2>3, <3>1 DEF Next
  <2>5. QED
    BY <2>4 DEF IndInv, CacheInv
<1>2. QED
  BY <1>1, Invariance, PTL DEF Spec, SignedOnce
=============================================================================
