------------------------------ MODULE Signing ------------------------------
(***************************************************************************)
(* POST /v1/sign: concurrent requests at the orchestrator (sovra-api,      *)
(* sign_via), the choice of the signing subset and the merging of answers  *)
(* (sovra-ipc, RemoteBackend), and the cosigners that vet and sign         *)
(* (sovra-cosigner, sign).                                                 *)
(*                                                                         *)
(* The key is active and shards are coherent (Custody).  A transaction is  *)
(* its digest; a request makes at most one attempt, so the attempt's       *)
(* random instance and the signature it yields are named by the request.   *)
(* Signing one digest takes LastRound message rounds, counted as in        *)
(* Custody.                                                                *)
(***************************************************************************)
EXTENDS Naturals, FiniteSets

CONSTANTS
  Party, Threshold,
  Rank,       \* the orchestrator's preference order, a number per party
  Shards,     \* the parties that hold a shard
  Request,    \* calls of /v1/sign, the bound on how many are made
  None,       \* "no request", "no signature"
  Digest,     \* of each request: the digest of its transaction
  Allow,      \* of each party: the digests its policy allows
  LastRound   \* 3 for signing

ASSUME SchemeAssumption ==
  /\ IsFiniteSet(Party) /\ Threshold \in 2 .. Cardinality(Party)
  /\ Shards \subseteq Party
  /\ LastRound \in Nat /\ LastRound >= 2
ASSUME RankAssumption ==
  /\ Rank \in [Party -> Nat]
  /\ \A p, q \in Party : Rank[p] = Rank[q] => p = q
ASSUME RequestAssumption ==
  /\ None \notin Request
  /\ DOMAIN Digest = Request /\ DOMAIN Allow = Party

VARIABLES
  \* orchestrator
  pc,       \* of each request: where its handler is
  answer,   \* of each request: the signature it was answered with, or None
  lock,     \* the request that holds the op lock, or None
  cache,    \* of each digest: the signature kept for it, or None
  probing,  \* readiness probes outstanding
  ready,    \* parties that answered the probe with 200
  got,      \* answers to the POSTs: "wait", "ok", "veto", "err"
  subset,   \* of each request: the parties asked to sign
  cut,      \* requests whose POSTs were not all answered (history)
  \* cosigners
  up, posts, job, stage, sent,
  made      \* requests whose signature some cosigner computed (history)

apiVars  == <<pc, answer, lock, cache, probing, ready, got, subset, cut>>
cosVars  == <<up, posts, job, stage, sent, made>>
vars     == <<apiVars, cosVars>>

Digests == {Digest[r] : r \in Request}
Sig     == Request \cup {None}
Ended   == {"signed", "vetoed", "failed", "busy", "gone"}
Asking  == [p \in Party |-> "wait"]

TypeOK ==
  /\ pc \in [Request -> {"new", "checked", "probing", "posted"} \cup Ended]
  /\ answer \in [Request -> Sig]
  /\ lock \in Sig
  /\ cache \in [Digests -> Sig]
  /\ probing \subseteq Party /\ ready \subseteq Party
  /\ got \in [Party -> {"wait", "ok", "veto", "err"}]
  /\ subset \in [Request -> SUBSET Party]
  /\ cut \subseteq Request
  /\ up \subseteq Party
  /\ posts \subseteq Request \X Party
  /\ job \in [Party -> Sig]
  /\ stage \in [Party -> 0 .. LastRound]
  /\ sent \in [Request -> [Party -> 0 .. LastRound]]
  /\ made \subseteq Request

Init ==
  /\ pc = [r \in Request |-> "new"]
  /\ answer = [r \in Request |-> None]
  /\ lock = None
  /\ cache = [d \in Digests |-> None]
  /\ probing = {} /\ ready = {} /\ got = Asking
  /\ subset = [r \in Request |-> {}]
  /\ cut = {}
  /\ up \in SUBSET Party
  /\ posts = {}
  /\ job = [p \in Party |-> None]
  /\ stage = [p \in Party |-> 0]
  /\ sent = [r \in Request |-> [p \in Party |-> 0]]
  /\ made = {}

-----------------------------------------------------------------------------
(* Orchestrator                                                            *)

Cached(r) == cache[Digest[r]]

\* The handler ends with an outcome; what it held is released.
End(r, how) ==
  /\ pc' = [pc EXCEPT ![r] = how]
  /\ lock' = IF lock = r THEN None ELSE lock
  /\ got' = IF lock = r THEN Asking ELSE got
  /\ probing' = IF lock = r THEN {} ELSE probing
  /\ ready' = IF lock = r THEN {} ELSE ready

\* The first look at the cache, under the read lock of the signer state.
Ask(r) ==
  /\ pc[r] = "new"
  /\ IF Cached(r) = None
     THEN /\ pc' = [pc EXCEPT ![r] = "checked"]
          /\ UNCHANGED <<answer, lock, probing, ready, got>>
     ELSE End(r, "signed") /\ answer' = [answer EXCEPT ![r] = Cached(r)]
  /\ UNCHANGED <<cache, subset, cut, cosVars>>

\* Mutant: the cache is not looked at again under the lock.
RecheckSkipped(r) == None

\* What the second look at the cache, under the op lock, finds.
Recheck(r) == Cached(r)

\* try_lock, and the second look at the cache; then every party is probed.
TryLock(r) ==
  /\ pc[r] = "checked"
  /\ IF lock # None
     THEN End(r, "busy") /\ UNCHANGED answer
     ELSE IF Recheck(r) # None
     THEN End(r, "signed") /\ answer' = [answer EXCEPT ![r] = Cached(r)]
     ELSE /\ pc' = [pc EXCEPT ![r] = "probing"]
          /\ lock' = r
          /\ probing' = Party /\ ready' = {}
          /\ UNCHANGED <<answer, got>>
  /\ UNCHANGED <<cache, subset, cut, cosVars>>

\* Mutant: an unprovisioned party counts as ready.
ReadyWhenAlive(p) == p \in up

\* GET /signer answers 200: alive and provisioned.
IsReady(p) == p \in up /\ p \in Shards

\* GET /signer of p is answered, with 200 or otherwise.
Probe(p) ==
  /\ lock # None /\ pc[lock] = "probing" /\ p \in probing
  /\ probing' = probing \ {p}
  /\ ready' = IF IsReady(p) THEN ready \cup {p} ELSE ready
  /\ UNCHANGED <<pc, answer, lock, cache, got, subset, cut, cosVars>>

\* The probe's 3 seconds pass without an answer.
ProbeTimeout(p) ==
  /\ lock # None /\ pc[lock] = "probing" /\ p \in probing
  /\ probing' = probing \ {p}
  /\ UNCHANGED <<pc, answer, lock, cache, ready, got, subset, cut, cosVars>>

\* select_signers: the first Threshold of the ready parties.
Preferred(S) ==
  /\ S \subseteq ready /\ Cardinality(S) = Threshold
  /\ \A p \in S, q \in ready \ S : Rank[p] < Rank[q]

\* All probes are in: POST /sign to the preferred subset, or give up.
Select(r) ==
  /\ lock = r /\ pc[r] = "probing" /\ probing = {}
  /\ \/ /\ Cardinality(ready) < Threshold
        /\ End(r, "failed")
        /\ UNCHANGED <<subset, posts>>
     \/ \E S \in SUBSET Party :
          /\ Preferred(S)
          /\ subset' = [subset EXCEPT ![r] = S]
          /\ posts' = posts \cup ({r} \X S)
          /\ pc' = [pc EXCEPT ![r] = "posted"]
          /\ UNCHANGED <<lock, got, probing, ready>>
  /\ UNCHANGED <<answer, cache, cut, up, job, stage, sent, made>>

\* Mutant: only a refused connection ends the wait, no timeout does.
HttpErrorNoTimeout(p) ==
  /\ lock # None /\ pc[lock] = "posted" /\ p \in subset[lock]
  /\ got[p] = "wait" /\ p \notin up
  /\ got' = [got EXCEPT ![p] = "err"]
  /\ cut' = cut \cup {lock}
  /\ UNCHANGED <<pc, answer, lock, cache, probing, ready, subset, cosVars>>

\* The orchestrator stops waiting for p: connection error or HTTP timeout.
HttpError(p) ==
  /\ lock # None /\ pc[lock] = "posted" /\ p \in subset[lock]
  /\ got[p] = "wait"
  /\ got' = [got EXCEPT ![p] = "err"]
  /\ cut' = cut \cup {lock}
  /\ UNCHANGED <<pc, answer, lock, cache, probing, ready, subset, cosVars>>

\* Mutant: the first error wins, a veto behind it is masked.
CombineFirstError(S) ==
  IF \E p \in S : got[p] = "err" THEN "failed"
  ELSE IF \E p \in S : got[p] = "veto" THEN "vetoed" ELSE "signed"

\* combine: a veto outranks any other error, an error any signature.
Combine(S) ==
  IF \E p \in S : got[p] = "veto" THEN "vetoed"
  ELSE IF \E p \in S : got[p] = "err" THEN "failed" ELSE "signed"

\* Mutant: the first veto ends the wait for the others.
SettledByVeto(r) == \/ \A p \in subset[r] : got[p] # "wait"
                    \/ \E p \in subset[r] : got[p] = "veto"

\* join_all: every party asked has answered.
Settled(r) == \A p \in subset[r] : got[p] # "wait"

\* All answers are in.  A signature all parties agree on is verified against
\* the active key, cached and returned.
Conclude(r) ==
  /\ lock = r /\ pc[r] = "posted"
  /\ Settled(r)
  /\ End(r, Combine(subset[r]))
  /\ IF Combine(subset[r]) = "signed"
     THEN /\ cache' = [cache EXCEPT ![Digest[r]] = r]
          /\ answer' = [answer EXCEPT ![r] = r]
     ELSE UNCHANGED <<cache, answer>>
  /\ UNCHANGED <<subset, cut, cosVars>>

\* The caller hangs up: the handler is dropped where it waits.
ClientGone(r) ==
  /\ lock = r
  /\ End(r, "gone")
  /\ cut' = cut \cup {r}
  /\ UNCHANGED <<answer, cache, subset, cosVars>>

\* The orchestrator restarts: handlers, lock and cache are gone.
ApiRestart ==
  /\ pc' = [r \in Request |-> IF pc[r] \in {"new"} \cup Ended THEN pc[r] ELSE "gone"]
  /\ cut' = IF lock = None THEN cut ELSE cut \cup {lock}
  /\ lock' = None
  /\ cache' = [d \in Digests |-> None]
  /\ probing' = {} /\ ready' = {} /\ got' = Asking
  /\ UNCHANGED <<answer, subset, cosVars>>

-----------------------------------------------------------------------------
(* Cosigner: POST /sign                                                    *)

Answer(r, p, res) ==
  got' = IF lock = r /\ got[p] = "wait" THEN [got EXCEPT ![p] = res] ELSE got

PostLost(r, p) ==
  /\ <<r, p>> \in posts
  /\ posts' = posts \ {<<r, p>>}
  /\ UNCHANGED <<apiVars, up, job, stage, sent, made>>

\* Mutant: the policy is evaluated and its verdict forgotten.
VetIgnored(r, p) == TRUE

\* vet: this party's own policy allows the decoded transaction.
Vet(r, p) == Digest[r] \in Allow[p]

\* The lock is taken, the transaction vetted, and only then the shard loaded.
Accept(r, p) ==
  /\ <<r, p>> \in posts /\ p \in up
  /\ job[p] = None /\ Vet(r, p) /\ p \in Shards
  /\ posts' = posts \ {<<r, p>>}
  /\ job' = [job EXCEPT ![p] = r]
  /\ stage' = [stage EXCEPT ![p] = 0]
  /\ UNCHANGED <<apiVars, up, sent, made>>

\* 409 busy, 403 veto, 409 no shard, in this order.
Refuse(r, p) ==
  /\ <<r, p>> \in posts /\ p \in up
  /\ \/ job[p] # None /\ Answer(r, p, "err")
     \/ job[p] = None /\ ~Vet(r, p) /\ Answer(r, p, "veto")
     \/ job[p] = None /\ Vet(r, p) /\ p \notin Shards /\ Answer(r, p, "err")
  /\ posts' = posts \ {<<r, p>>}
  /\ UNCHANGED <<pc, answer, lock, cache, probing, ready, subset, cut,
                 up, job, stage, sent, made>>

\* Mutant: a member does not wait for the others.
HeardAlone(p) == TRUE

\* The other members of the subset have sent the round p is in.
Heard(p) == \A q \in subset[job[p]] : sent[job[p]][q] >= stage[p]

\* Mutant: off by one at the end of the run.
MoreToSendPastLast(p) == stage[p] <= LastRound

MoreToSend(p) == stage[p] < LastRound

\* Dial, join, send round 1; then a round further for each round collected.
Step(p) ==
  /\ job[p] # None /\ MoreToSend(p)
  /\ stage[p] >= 1 => Heard(p)
  /\ stage' = [stage EXCEPT ![p] = @ + 1]
  /\ sent' = [sent EXCEPT ![job[p]][p] = stage[p] + 1]
  /\ UNCHANGED <<apiVars, up, posts, job, made>>

Release(p) ==
  /\ job' = [job EXCEPT ![p] = None]
  /\ stage' = [stage EXCEPT ![p] = 0]

\* The last round is in: the signature recovers to the wallet key, the handler
\* answers and frees the lock.
Finish(p) ==
  /\ job[p] # None /\ stage[p] = LastRound /\ Heard(p)
  /\ made' = made \cup {job[p]}
  /\ Answer(job[p], p, "ok")
  /\ Release(p)
  /\ UNCHANGED <<pc, answer, lock, cache, probing, ready, subset, cut,
                 up, posts, sent>>

\* Dial failure, relay error, protocol abort, ttl, dropped request.
Fail(p) ==
  /\ job[p] # None
  /\ Answer(job[p], p, "err")
  /\ Release(p)
  /\ UNCHANGED <<pc, answer, lock, cache, probing, ready, subset, cut,
                 up, posts, sent, made>>

Crash(p) ==
  /\ p \in up
  /\ up' = up \ {p}
  /\ Release(p)
  /\ UNCHANGED <<apiVars, posts, sent, made>>

Restart(p) ==
  /\ p \notin up
  /\ up' = up \cup {p}
  /\ UNCHANGED <<apiVars, posts, job, stage, sent, made>>

-----------------------------------------------------------------------------
Handler(r) == Ask(r) \/ TryLock(r) \/ Select(r) \/ Conclude(r)
Run(p) == Step(p) \/ Finish(p) \/ Fail(p)
Reply(p) == Probe(p) \/ ProbeTimeout(p)

Next ==
  \/ \E r \in Request : Handler(r) \/ ClientGone(r)
  \/ \E r \in Request, p \in Party : Accept(r, p) \/ Refuse(r, p) \/ PostLost(r, p)
  \/ \E p \in Party : Reply(p) \/ HttpError(p) \/ Run(p) \/ Crash(p) \/ Restart(p)
  \/ ApiRestart

Spec == Init /\ [][Next]_vars

\* What the runtime owes a request once its handler is past the first look at
\* the cache; probes and POSTs time out.  Callers owe nothing.
Handling(r) == TryLock(r) \/ Select(r) \/ Conclude(r)

\* No fault after the start: the parties that are up stay up and nothing is
\* lost or times out; parties that were down at the start stay down.
Quiet ==
  \/ \E r \in Request : Handler(r)
  \/ \E r \in Request, p \in Party : Accept(r, p) \/ Refuse(r, p)
  \/ \E p \in Party : Probe(p) \/ Step(p) \/ Finish(p)
-----------------------------------------------------------------------------
(* Properties                                                              *)

\* A signature is computed only if the policy of every one of Threshold parties
\* allows the transaction: no crash, late request or restart lets a run finish
\* without a member that vetted it.
PolicyRespected ==
  \A r \in made :
    /\ Cardinality(subset[r]) = Threshold
    /\ \A p \in subset[r] : Digest[r] \in Allow[p]

\* A veto is final: a request that was denied, or is about to be, never yields
\* a signature, not even at the parties that allowed it.
VetoFinal ==
  \A r \in made :
    /\ pc[r] # "vetoed"
    /\ lock = r => \A p \in Party : got[p] # "veto"

\* A heard veto is not masked by the error of a party that waited in vain.
VetoReported ==
  [][\A r \in Request :
       Conclude(r) /\ (\E p \in Party : got[p] = "veto") => pc'[r] = "vetoed"]_vars

\* Signing is idempotent per digest for the life of the orchestrator: no
\* attempt is started for a digest that has its signature, however requests for
\* it race between the cache and the lock.
SignedOnce ==
  [][\A r \in Request :
       pc[r] # "posted" /\ pc'[r] = "posted" => Cached(r) = None]_vars

\* When a request is answered after hearing from every party it asked, none of
\* them still holds its lock for it: the caller's retry does not find it busy.
\* Not so of a request that a hang-up or a timeout has cut: its parties may go on.
NoLockLeftBehind ==
  \A r \in Request : pc[r] \in {"signed", "vetoed", "failed"} /\ r \notin cut =>
    \A p \in Party : job[p] # r /\ <<r, p>> \notin posts
=============================================================================
