------------------------------ MODULE Custody ------------------------------
(***************************************************************************)
(* The custody core of SOVRA: the orchestrator (sovra-api), its startup    *)
(* recovery, and the cosigners (sovra-cosigner) with their shard stores,   *)
(* running the two ceremonies that write shards: distributed key           *)
(* generation (POST /dkg) and the proactive refresh (POST /refresh).       *)
(*                                                                         *)
(* What is abstracted:                                                     *)
(*  - A ceremony is named by its 32-byte random instance; instances never  *)
(*    repeat.  A wallet key is named by the DKG instance that made it.     *)
(*  - A shard is the key it belongs to plus the set of refresh ceremonies  *)
(*    folded into it: two shards sign together exactly when both agree.    *)
(*  - Round messages are counted, not carried: sent[i][p] is the last      *)
(*    round party p has sent in instance i (Exchange models one round).    *)
(*    A message the hub loses shows as the receiver's failure, which may   *)
(*    happen in any round; messages are never forged (envelope signatures).*)
(*  - Probes that only read (GET /roster, GET /pubkey) and whose outcome   *)
(*    the ceremony's own POST checks again are one step; the probes of     *)
(*    startup recovery, whose outcome is kept, are one step per party.     *)
(***************************************************************************)
EXTENDS Naturals, FiniteSets

CONSTANTS
  Party,       \* the n cosigners of the roster
  Threshold,   \* t: how many shards sign, how many must answer at startup
  Instance,    \* ceremony ids; the bound on how many ceremonies are run
  NoInst,      \* "no ceremony", "no key"
  LastRound,   \* message rounds of a ceremony (3 for DKG and for refresh)
  TotalLoss    \* may a host loss destroy the last copy of a key?

ASSUME PartyAssumption == NoInst \notin Instance
ASSUME RoundAssumption == LastRound \in Nat /\ LastRound >= 2
ASSUME ThresholdAssumption ==
  IsFiniteSet(Party) /\ Threshold \in 2 .. Cardinality(Party)
ASSUME LossAssumption == TotalLoss \in BOOLEAN

VARIABLES
  \* orchestrator process (memory only: a restart forgets all of it)
  api,       \* "down", "starting" (probing the stores), "serving"
  active,    \* SignerCell.active: the key served, or NoInst
  op,        \* the ceremony the op lock is held for, or NoInst
  got,       \* answers of the current ceremony: "wait", "ok", "err"
  pending,   \* startup recovery: parties whose GET /signer is outstanding
  answered,  \* startup recovery: parties that answered 200 or 404
  report,    \* startup recovery: the key reported (NoInst for 404)
  \* requests and relay traffic
  kind,      \* what each instance is: "unused", "dkg" or "refresh"
  keyOf,     \* the key the ceremony makes (dkg) or must preserve (refresh)
  posts,     \* POSTs in flight: pairs <<instance, party>>
  sent,      \* sent[i][p]: last round p has sent in instance i
  \* cosigner processes
  up,        \* the cosigners that are running
  job,       \* the ceremony the cosigner's op lock is held for, or NoInst
  stage,     \* 0 dialing, r waiting for round r, LastRound + 1 saving
  linked,    \* cosigners whose relay connection reaches the current hub
  \* shard stores (disk)
  meta,      \* metadata.json: the key, or NoInst when absent
  shard,     \* shard.bin: the key it belongs to, or NoInst when absent
  deltas,    \* shard.bin: refresh ceremonies folded into it
  wiped      \* stores that were lost or wiped by the operator (history)

apiVars   == <<api, active, op, got, pending, answered, report>>
wireVars  == <<kind, keyOf, posts, sent>>
procVars  == <<up, job, stage, linked>>
storeVars == <<meta, shard, deltas, wiped>>
vars == <<apiVars, wireVars, procVars, storeVars>>

Key    == Instance \cup {NoInst}
Saving == LastRound + 1
Asking == [p \in Party |-> "wait"]

TypeOK ==
  /\ api \in {"down", "starting", "serving"}
  /\ active \in Key
  /\ op \in Key
  /\ got \in [Party -> {"wait", "ok", "err"}]
  /\ pending \subseteq Party
  /\ answered \subseteq Party
  /\ report \in [Party -> Key]
  /\ kind \in [Instance -> {"unused", "dkg", "refresh"}]
  /\ keyOf \in [Instance -> Key]
  /\ posts \subseteq Instance \X Party
  /\ sent \in [Instance -> [Party -> 0 .. LastRound]]
  /\ up \subseteq Party
  /\ job \in [Party -> Key]
  /\ stage \in [Party -> 0 .. Saving]
  /\ linked \subseteq Party
  /\ meta \in [Party -> Key]
  /\ shard \in [Party -> Key]
  /\ deltas \in [Party -> SUBSET Instance]
  /\ wiped \subseteq Party

-----------------------------------------------------------------------------
(* Fresh install: empty stores, every cosigner running, no orchestrator.   *)
Init ==
  /\ api = "down" /\ active = NoInst /\ op = NoInst /\ got = Asking
  /\ pending = {} /\ answered = {} /\ report = [p \in Party |-> NoInst]
  /\ kind = [i \in Instance |-> "unused"]
  /\ keyOf = [i \in Instance |-> NoInst]
  /\ posts = {}
  /\ sent = [i \in Instance |-> [p \in Party |-> 0]]
  /\ up = Party
  /\ job = [p \in Party |-> NoInst]
  /\ stage = [p \in Party |-> 0]
  /\ linked = {}
  /\ meta = [p \in Party |-> NoInst]
  /\ shard = [p \in Party |-> NoInst]
  /\ deltas = [p \in Party |-> {}]
  /\ wiped = {}

-----------------------------------------------------------------------------
(* Orchestrator: startup recovery                                          *)

\* The process starts: the hub's port is bound, then every store is probed.
ApiStart ==
  /\ api = "down"
  /\ api' = "starting"
  /\ pending' = Party /\ answered' = {}
  /\ report' = [p \in Party |-> NoInst]
  /\ UNCHANGED <<active, op, got, wireVars, procVars, storeVars>>

\* Mutant: the shard file is not looked at.
LoadableByMetadata(p) == TRUE

\* load_active: metadata without its shard is the PartialState error.
Loadable(p) == meta[p] # NoInst => shard[p] # NoInst

\* GET /signer answers: the key of a complete store, 404 for an empty one.
\* A half-written store is a 500 and never a report.
ProbeAnswer(p) ==
  /\ api = "starting" /\ p \in pending
  /\ p \in up
  /\ Loadable(p)
  /\ pending' = pending \ {p}
  /\ answered' = answered \cup {p}
  /\ report' = [report EXCEPT ![p] = meta[p]]
  /\ UNCHANGED <<api, active, op, got, wireVars, procVars, storeVars>>

\* The probe fails: host down, request lost, or the half-written store's 500.
ProbeError(p) ==
  /\ api = "starting" /\ p \in pending
  /\ pending' = pending \ {p}
  /\ UNCHANGED <<api, active, op, got, answered, report, wireVars, procVars,
                 storeVars>>

Reporting == {p \in answered : report[p] # NoInst}

\* recover_active's verdicts on the collected reports.
TooFewReachable == Cardinality(answered) < Threshold
FreshInstall    == ~TooFewReachable /\ Reporting = {}
Consensus(k)    == /\ ~TooFewReachable
                   /\ Cardinality(Reporting) >= Threshold
                   /\ \A p \in Reporting : report[p] = k

\* A start that failed for want of reachable cosigners probes again.
StartRetry ==
  /\ api = "starting" /\ pending = {}
  /\ TooFewReachable
  /\ pending' = Party /\ answered' = {}
  /\ report' = [p \in Party |-> NoInst]
  /\ UNCHANGED <<api, active, op, got, wireVars, procVars, storeVars>>

\* Serving begins with no key, or with the key the quorum agrees on.
StartServe(k) ==
  /\ api = "starting" /\ pending = {}
  /\ IF k = NoInst THEN FreshInstall ELSE Consensus(k)
  /\ api' = "serving"
  /\ active' = k
  /\ answered' = {} /\ report' = [p \in Party |-> NoInst]
  /\ UNCHANGED <<op, got, pending, wireVars, procVars, storeVars>>

\* The process ends: refused by the startup gate (inconsistent stores, retries
\* used up), crashed or stopped.  The hub and every relay connection go too.
ApiDown ==
  /\ api # "down"
  /\ api' = "down"
  /\ active' = NoInst /\ op' = NoInst /\ got' = Asking
  /\ pending' = {} /\ answered' = {}
  /\ report' = [p \in Party |-> NoInst]
  /\ linked' = {}
  /\ UNCHANGED <<up, job, stage, wireVars, storeVars>>

-----------------------------------------------------------------------------
(* Orchestrator: ceremonies                                                *)

\* preflight_roster: every party answers GET /roster; the rosters agree.
Preflight == up = Party

\* Take the op lock and POST a ceremony on a fresh instance to every party.
Begin(i, what, key) ==
  /\ api = "serving" /\ op = NoInst
  /\ kind[i] = "unused"
  /\ Preflight
  /\ op' = i
  /\ kind' = [kind EXCEPT ![i] = what]
  /\ keyOf' = [keyOf EXCEPT ![i] = key]
  /\ posts' = posts \cup ({i} \X Party)
  /\ UNCHANGED <<api, active, got, pending, answered, report, sent, procVars,
                 storeVars>>

\* POST /v1/dkg: refused once a key is active.
BeginDkg(i) ==
  /\ active = NoInst
  /\ Begin(i, "dkg", i)

\* GET /pubkey: the key of the shard itself, whatever the metadata says.
Pubkey(p) == shard[p]

\* POST /v1/recover: every party must report the same key, read from its
\* shard; that key is the anchor of the ceremony.
BeginRefresh(i) ==
  \E k \in Instance :
    /\ active # NoInst
    /\ \A p \in Party : Pubkey(p) = k
    /\ Begin(i, "refresh", k)

\* The answer of party p in instance i reaches the orchestrator, if it still
\* waits for it.
Answer(i, p, res) ==
  got' = IF op = i /\ got[p] = "wait" THEN [got EXCEPT ![p] = res] ELSE got

\* The orchestrator stops waiting for p: connection error or the 90 s HTTP
\* timeout.  The request may still be on its way and the cosigner at work.
HttpError(p) ==
  /\ op # NoInst
  /\ got[p] = "wait"
  /\ got' = [got EXCEPT ![p] = "err"]
  /\ UNCHANGED <<api, active, op, pending, answered, report, wireVars,
                 procVars, storeVars>>

\* All answers are in.  They must all be positive (and then agree): a DKG
\* activates the new key, a refresh must return the active one.  The lock is
\* released either way.
Conclude ==
  /\ op # NoInst
  /\ \A p \in Party : got[p] # "wait"
  /\ active' = IF kind[op] = "dkg" /\ (\A p \in Party : got[p] = "ok")
               THEN keyOf[op] ELSE active
  /\ op' = NoInst /\ got' = Asking
  /\ UNCHANGED <<api, pending, answered, report, wireVars, procVars, storeVars>>

\* The caller hangs up: the handler is dropped where it waits, and with it the
\* lock; nothing is recorded.
ClientGone ==
  /\ op # NoInst
  /\ op' = NoInst /\ got' = Asking
  /\ UNCHANGED <<api, active, pending, answered, report, wireVars, procVars,
                 storeVars>>

-----------------------------------------------------------------------------
(* Cosigner: POST /dkg and POST /refresh                                   *)

\* The request never reaches its cosigner.
PostLost(i, p) ==
  /\ <<i, p>> \in posts
  /\ posts' = posts \ {<<i, p>>}
  /\ UNCHANGED <<apiVars, kind, keyOf, sent, procVars, storeVars>>

\* Mutant: the ShardExists check is dropped.
AdmissibleUnchecked(i, p) ==
  \/ kind[i] = "dkg"
  \/ kind[i] = "refresh" /\ shard[p] # NoInst

\* What each handler demands of the store before it dials.
Admissible(i, p) ==
  \/ kind[i] = "dkg" /\ meta[p] = NoInst
  \/ kind[i] = "refresh" /\ shard[p] # NoInst

\* The op lock is free and the store is as the ceremony needs it.
Accept(i, p) ==
  /\ <<i, p>> \in posts /\ p \in up
  /\ job[p] = NoInst
  /\ Admissible(i, p)
  /\ posts' = posts \ {<<i, p>>}
  /\ job' = [job EXCEPT ![p] = i]
  /\ stage' = [stage EXCEPT ![p] = 0]
  /\ UNCHANGED <<apiVars, kind, keyOf, sent, up, linked, storeVars>>

\* 409: busy, a shard exists already (dkg), no shard to refresh (refresh).
Refuse(i, p) ==
  /\ <<i, p>> \in posts /\ p \in up
  /\ job[p] # NoInst \/ ~Admissible(i, p)
  /\ posts' = posts \ {<<i, p>>}
  /\ Answer(i, p, "err")
  /\ UNCHANGED <<api, active, op, pending, answered, report, kind, keyOf, sent,
                 procVars, storeVars>>

\* refresh_party: the ceremony's anchor is the key of the shard at hand.
Anchored(p) == kind[job[p]] = "refresh" => shard[p] = keyOf[job[p]]

\* Dial the hub, join the instance's mailbox, send round 1.  A refresh whose
\* anchor is not this shard's key stops here.  The hub is bound before recovery
\* and served after it: until then a connection attempt is kept waiting.
Dial(p) ==
  /\ job[p] # NoInst /\ stage[p] = 0
  /\ api = "serving"
  /\ Anchored(p)
  /\ stage' = [stage EXCEPT ![p] = 1]
  /\ linked' = linked \cup {p}
  /\ sent' = [sent EXCEPT ![job[p]][p] = 1]
  /\ UNCHANGED <<apiVars, kind, keyOf, posts, up, job, storeVars>>

\* Mutant: nobody waits for the peers.
RoundCompleteEarly(p, r) == TRUE

\* Every peer's message of round r has arrived.
RoundComplete(p, r) == \A q \in Party \ {p} : sent[job[p]][q] >= r

\* Mutant: one round too many.
AnsweredRoundsOffByOne == 1 .. LastRound

\* The rounds whose completion is answered by sending the next one.
AnsweredRounds == 1 .. LastRound - 1

\* Collect round r, send round r + 1.
Advance(p) ==
  /\ job[p] # NoInst
  /\ stage[p] \in AnsweredRounds
  /\ RoundComplete(p, stage[p])
  /\ p \in linked
  /\ stage' = [stage EXCEPT ![p] = @ + 1]
  /\ sent' = [sent EXCEPT ![job[p]][p] = stage[p] + 1]
  /\ UNCHANGED <<apiVars, kind, keyOf, posts, up, job, linked, storeVars>>

\* The last round is in, the local phase passes, and save_shard writes the
\* metadata file; nothing between the run and the write can be interrupted
\* but by a crash.
SaveMeta(p) ==
  /\ job[p] # NoInst
  /\ stage[p] = LastRound
  /\ RoundComplete(p, LastRound)
  /\ stage' = [stage EXCEPT ![p] = Saving]
  /\ meta' = [meta EXCEPT ![p] = keyOf[job[p]]]
  /\ UNCHANGED <<apiVars, wireVars, up, job, linked, shard, deltas, wiped>>

\* Mutant: the handler persists the share it loaded, not the refreshed one.
RefreshedStale(p) == deltas[p]

\* The share the ceremony leaves: fresh from a DKG, re-randomized by a refresh.
Refreshed(p) == IF kind[job[p]] = "dkg" THEN {} ELSE deltas[p] \cup {job[p]}

\* save_shard writes the shard file; the handler answers and frees the lock.
SaveShard(p) ==
  /\ job[p] # NoInst /\ stage[p] = Saving
  /\ shard' = [shard EXCEPT ![p] = keyOf[job[p]]]
  /\ deltas' = [deltas EXCEPT ![p] = Refreshed(p)]
  /\ Answer(job[p], p, "ok")
  /\ job' = [job EXCEPT ![p] = NoInst]
  /\ stage' = [stage EXCEPT ![p] = 0]
  /\ linked' = linked \ {p}
  /\ UNCHANGED <<api, active, op, pending, answered, report, wireVars, up,
                 meta, wiped>>

\* Mutant: no ttl, and a run that is not dropped with its request.
InterruptibleWithoutTtl(p) == p \notin linked

\* The ttl, the relay and the protocol can end a run at any point.
Interruptible(p) == TRUE

\* The handler ends in an error and frees the lock: dial failure, relay error,
\* protocol abort, the run's ttl, a dropped request; or, while saving, an I/O
\* error on the shard file.
Fail(p) ==
  /\ job[p] # NoInst
  /\ Interruptible(p)
  /\ Answer(job[p], p, "err")
  /\ job' = [job EXCEPT ![p] = NoInst]
  /\ stage' = [stage EXCEPT ![p] = 0]
  /\ linked' = linked \ {p}
  /\ UNCHANGED <<api, active, op, pending, answered, report, wireVars, up,
                 storeVars>>

\* The cosigner process dies, between any two writes; the store survives.
Crash(p) ==
  /\ p \in up
  /\ up' = up \ {p}
  /\ job' = [job EXCEPT ![p] = NoInst]
  /\ stage' = [stage EXCEPT ![p] = 0]
  /\ linked' = linked \ {p}
  /\ UNCHANGED <<apiVars, wireVars, storeVars>>

Restart(p) ==
  /\ p \notin up
  /\ up' = up \cup {p}
  /\ UNCHANGED <<apiVars, wireVars, job, stage, linked, storeVars>>

\* The store of a stopped cosigner is lost, or wiped by the operator.
Wipe(p) ==
  /\ p \notin up
  /\ meta[p] # NoInst
  /\ TotalLoss \/ \E q \in Party \ {p} : meta[q] = meta[p]
  /\ meta' = [meta EXCEPT ![p] = NoInst]
  /\ shard' = [shard EXCEPT ![p] = NoInst]
  /\ deltas' = [deltas EXCEPT ![p] = {}]
  /\ wiped' = wiped \cup {p}
  /\ UNCHANGED <<apiVars, wireVars, procVars>>

-----------------------------------------------------------------------------
Startup == ApiStart \/ StartRetry \/ ApiDown \/ (\E k \in Key : StartServe(k))
Ceremony == (\E i \in Instance : BeginDkg(i) \/ BeginRefresh(i))
            \/ Conclude \/ ClientGone
Request(i, p) == PostLost(i, p) \/ Accept(i, p) \/ Refuse(i, p)
Cosigner(p) ==
  \/ ProbeAnswer(p) \/ ProbeError(p) \/ HttpError(p)
  \/ Dial(p) \/ Advance(p) \/ SaveMeta(p) \/ SaveShard(p) \/ Fail(p)
  \/ Crash(p) \/ Restart(p) \/ Wipe(p)

Next == \/ Startup \/ Ceremony
        \/ \E i \in Instance, p \in Party : Request(i, p)
        \/ \E p \in Party : Cosigner(p)

Spec == Init /\ [][Next]_vars

Handler(p) == Dial(p) \/ Advance(p) \/ SaveMeta(p) \/ SaveShard(p) \/ Fail(p)

\* The orchestrator still waits for the answer to the request p works on.
Awaited(p) == op = job[p] /\ got[p] = "wait"

\* What the runtime owes of a handler that holds the cosigner's lock: a run is
\* driven on or ended, by its ttl at the latest.  Of one that still dials nothing
\* is owed but its end once nobody waits for its answer any more, as the server
\* drops the handler of a closed connection: the dial itself has no timeout.
Driven(p) ==
  \/ stage[p] > 0 /\ Handler(p)
  \/ stage[p] = 0 /\ ~Awaited(p) /\ Fail(p)

\* A day without faults: nothing crashes, is lost or times out, and callers ask
\* for a DKG and then for refreshes.
Undisturbed ==
  \/ ApiStart \/ Conclude
  \/ \E k \in Key : StartServe(k)
  \/ \E i \in Instance : BeginDkg(i) \/ BeginRefresh(i)
  \/ \E i \in Instance, p \in Party : Accept(i, p)
  \/ \E p \in Party : ProbeAnswer(p) \/ Dial(p) \/ Advance(p) \/ SaveMeta(p)
                        \/ SaveShard(p)

\* The state a successful DKG leaves: every store complete, the key served.
ProvisionedInit ==
  \E k \in Instance :
    /\ api = "serving" /\ active = k /\ op = NoInst /\ got = Asking
    /\ pending = {} /\ answered = {} /\ report = [p \in Party |-> NoInst]
    /\ kind = [i \in Instance |-> IF i = k THEN "dkg" ELSE "unused"]
    /\ keyOf = [i \in Instance |-> IF i = k THEN k ELSE NoInst]
    /\ posts = {}
    /\ sent = [i \in Instance |-> [p \in Party |-> IF i = k THEN LastRound ELSE 0]]
    /\ up = Party
    /\ job = [p \in Party |-> NoInst] /\ stage = [p \in Party |-> 0]
    /\ linked = {}
    /\ meta = [p \in Party |-> k] /\ shard = [p \in Party |-> k]
    /\ deltas = [p \in Party |-> {}] /\ wiped = {}

\* From there, with every process up throughout: only runs and requests fail.
ProcessesUp ==
  \/ Ceremony
  \/ \E i \in Instance, p \in Party : Request(i, p)
  \/ \E p \in Party : HttpError(p) \/ Handler(p)
ProvisionedSpec == ProvisionedInit /\ [][ProcessesUp]_vars
-----------------------------------------------------------------------------
(* Properties                                                              *)

\* No two stores ever hold different keys: whatever requests are late, runs
\* cut short, hosts crashed, stores wiped or orchestrators restarted, the
\* ShardExists check under the cosigner's lock and a keygen that needs every
\* party twice keep a second key from existing next to the first.
KeyAgreement ==
  \A p, q \in Party : meta[p] # NoInst /\ meta[q] # NoInst => meta[p] = meta[q]

\* As long as some copy of every key survives, the key the orchestrator serves
\* is the only one any store holds: a DKG left over from an earlier attempt
\* never completes behind its back.
ActiveAgrees ==
  active # NoInst => \A p \in Party : meta[p] \in {NoInst, active}

\* The key served is backed by t complete shards, not counting stores lost
\* since: neither a DKG answered before its shard was durable nor a half
\* written store found at startup is taken for a signer.
QuorumBehindActive ==
  active # NoInst =>
    Cardinality({p \in Party : shard[p] = active} \cup wiped) >= Threshold

\* No ceremony replaces the key of a store: only a wiped host ever loses it.
NoRotation ==
  [][\A p \in Party : meta[p] # NoInst =>
       meta'[p] = meta[p] \/ (meta'[p] = NoInst /\ p \notin up)]_meta

\* A refresh that /v1/recover reports as done has replaced every shard: no
\* shard of an earlier generation is left on any host.
RefreshReplacesAll ==
  [][(op # NoInst /\ kind[op] = "refresh" /\ Conclude
        /\ \A p \in Party : got[p] = "ok")
     => \A p \in Party : op \in deltas[p] \/ p \in wiped]_vars

\* No op lock is held for good: not a cosigner's, whatever its peers do and even
\* if the hub never takes its connection, as long as the orchestrator's 90 s end
\* the request; and not the orchestrator's, whatever became of its requests.
LocksReleased ==
  /\ \A p \in Party : job[p] # NoInst ~> job[p] = NoInst
  /\ op # NoInst ~> op = NoInst

-----------------------------------------------------------------------------
(* A claim of the code's comments that the code does not keep              *)

\* refresh.rs of the carbon crate: "so the wallet key is preserved by construction".  With
\* no host lost and no ceremony running, t shards can sign for the key served.
WalletKeyPreserved ==
  active # NoInst /\ wiped = {} /\ (\A p \in Party : job[p] = NoInst) =>
    \E S \in SUBSET Party :
      /\ Cardinality(S) >= Threshold
      /\ \A p, q \in S : shard[p] = active /\ deltas[p] = deltas[q]
=============================================================================
