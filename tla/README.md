# SOVRA: specification and proofs

SOVRA is a t-of-n threshold ECDSA custody service. An orchestrator (`sovra-api`)
holds no key material; n cosigners (`sovra-cosigner`) each hold one shard and
run DKLs23 ceremonies with each other through a relay hub that lives in the
orchestrator's process. This directory models the parts whose correctness
depends on order, failure and time, checks them with TLC and proves the central
facts with TLAPS.

## Inventory of the system

| component | state | operations | talks to |
|---|---|---|---|
| orchestrator, `sovra-api` | op lock, active key, signature cache: all in memory | `/v1/dkg`, `/v1/recover`, `/v1/sign`, `/v1/prepare`, `/v1/broadcast`, startup recovery | cosigners by HTTP, Ethereum by RPC |
| remote backend, `sovra-ipc` `remote.rs` | none | fan-out of POSTs, 90 s timeout, subset selection, `combine` | cosigners |
| relay hub, `sovra-ipc` `hub.rs` | a mailbox per (instance, party) | join/claim, deliver, sweep, remove | cosigners by websocket |
| cosigner, `sovra-cosigner` | op lock; config, policy and roster fixed at start | `/dkg`, `/refresh`, `/sign`, `/signer`, `/pubkey`, `/roster` | hub, its store |
| shard store, `sovra-state` | `metadata.json`, `shard.bin` | `save_shard`, `load_*`; sealer strategy | disk |
| round exchange, `sovra-mpc` | round inbox, look-ahead buffer | `send_round`, `recv_round`, `admit`, `file` | relay trait |
| ceremony drivers, `sovra-mpc-dkls23-carbon` | local to a run | keygen, refresh, sign: three message rounds each | exchange, DKLs23 library |
| policy, `sovra-policy` | none: a file read at start | `evaluate` | cosigner's `vet` |
| Ethereum, `sovra-eth` | none of its own; the node's pool and chain | prepare, encode, finalize, broadcast | RPC node |
| certificates, `sovra-certs` | key, certificate and CSR files | `ensure_ca`, `ensure_leaf`, `generate_csr`, `sign_csr` | disk |
| `sovra-cli`, `sovra-observability`, `xtask` | none | operator tooling | everything |

What is hard: n + 1 processes that crash and restart independently; a POST that
its sender gave up on and its receiver serves anyway; handlers that are dropped
at an await when their caller disconnects; runs that complete at some parties
and fail at others; two-file writes; three timeouts that have to fit together;
mail that arrives before its recipient or a round early; a node that takes a
transaction and loses the answer, mines it while its sender looks away, or never
does. What makes each part
correct: one key ever, backed by a quorum, never replaced (custody); no
signature without t consenting policies, no veto masked or undone, every lock
released (signing); only genuine mail used, nothing needed dropped, members in
step (exchange); no frame of a live ceremony lost, no mailbox leaked (hub); the
old shard intact until the new one is whole (store); nothing on the chain but
what a quorum of policies permits, and answers to callers that are true
(transfer); leaves that chain to their CA however provisioning was interrupted
(certs). `PROJECT.json` lists the
hazards with their lines and the properties that cover them.

## Modules

| module | models | kind |
|---|---|---|
| `Custody` | orchestrator, startup recovery, cosigners and stores for DKG and refresh | specification |
| `Exchange` | the rounds of one ceremony over an untrusted relay | specification |
| `Hub` | mailboxes, sockets and timeouts of one ceremony | specification |
| `Signing` | `/v1/sign`: cache, lock, probes, selection, vetting, combining | specification |
| `Store` | one party's store, file operation by file operation | specification |
| `Policy` | a cosigner's policy file, its parser and `evaluate`, beside what a file permits | operators and their reference |
| `Transfer` | `/v1/prepare`, `/v1/sign` as one step, `/v1/broadcast`, and the node | specification |
| `Certs` | CA, leaves and CSRs, file operation by file operation | specification |
| `Rounds` | what a ceremony promises: members move together | abstract specification |
| `Slot` | what a store promises: claimed once, replaced by generations | abstract specification |
| `CustodyProof`, `ExchangeProof`, `HubProof`, `SigningProof`, `StoreProof`, `TransferProof`, `CertsProof` | theorems | proofs |
| `MCCustody`, `MCExchange`, `MCHub`, `MCSigning`, `MCStore`, `MCTransfer` | instances for TLC | model checking |
| `MCCustodyLive`, `MCSigningLive`, `MCCerts` | the same under fairness, with and without faults | model checking |

How they fit: `Exchange` implements `Rounds` (property `KeepsRounds`, proved),
and `Custody`, which counts messages instead of carrying them, keeps the same
`Rounds` for every ceremony (`CeremoniesKeepRounds`; theorem
`CeremonyIsRounds`). `Store` implements `Slot` (`KeepsSlot`, proved), and every
store in `Custody` is a `Slot` (`StoresKeepSlots`; theorem `StoreIsSlot`). So the two details that `Custody` abstracts from are
replaced by promises that the detailed modules are shown to keep. `Hub` justifies
the exchange's assumption that undisturbed mail arrives, and `Signing` builds
on the coherent shards whose limits `Custody` explores. `Transfer` takes a call of
`/v1/sign` as one step, which `Signing` opens up, and gives the verdicts that
`Signing` only names their rules (`Policy`).

### Custody

A ceremony is its random instance, a wallet key the DKG instance that made it,
a shard its key plus the set of refreshes folded in: two shards sign together
exactly when both agree. Each handler is cut into actions where the code awaits
or where a crash between two writes shows. `Accept`/`Refuse` are the guards of
`dkg` and `refresh` under `try_lock`; `Dial`, `Advance` the run; `SaveMeta` and
`SaveShard` the two writes of `save_shard`; `Fail` every way a handler ends in
an error, its ttl and a dropped request included. The orchestrator's
`preflight_roster` and the fetch of `/pubkey` are one step with the POSTs they
precede (`Begin`), since each cosigner checks the same facts again when it
accepts; the startup probes are a step per party (`ProbeAnswer`,
`ProbeError`), since their results are kept. The roster and the scheme are
taken as consistently configured. `Wipe` is the operator, or a lost disk, any
number of times.

### Exchange

One ceremony of `Member`s. `Admit` is `admit` with `file`: foreign mail dropped,
the rest verified, filed, kept for later, or dropped as late, unexpected or
repeated; `AbortForged` its error. `Advance` is the end of `recv_round`, the
next `send_round` and the draining of the buffer, with no await that receives
in between. A member's first fan-out is part of `Start`; a connection that breaks
in the middle of this or a later fan-out is `SendFails`. `Sends` and `Expect` are taken from the two ends of each of the
three drivers separately, so a round that waits for what nobody sends would show.
The relay may hand over anything that nobody could sign.

### Hub

Frames in order on each socket, a task per socket with `select!` over its two
directions, mailboxes that exist before their party joins, the opportunistic
sweep inside `claim` and `deliver`. Time advances in units of 30 seconds:
60 s ttl = 2, 90 s HTTP timeout = 3, 120 s unclaimed mailbox = 4.

### Signing

`Ask` and `TryLock` are the two looks at the cache around `try_lock`. `Probe`,
`Select`, `HttpError`, `Conclude` are the backend. A cosigner's `Refuse` keeps
the order of the checks: busy, policy, shard. An Ethereum transaction has one
digest; a handler signs it in one run. A policy is the set of digests it allows.

### Store

Each `write_atomic` is create, fill, rename; `SaveSteps` is their order in
`save_shard`. Requests run under the op lock, `GET /signer` reads without it. A
process may restart under another sealer; `Passthrough` opens any bytes, the
seal key only what it sealed (`Opens`), and a share still under a seal does not
decode (`Usable`).

### Policy and Transfer

A policy file is a function from its keys to values; `Parses` is the grammar
(required keys, no unknown ones, `"*"` alone, a ceiling in quotes), `Evaluate` the
rules in their order, `Permits` what the lines of a file say, written without
looking at the code. `Transfer` follows a transaction. `BeginPrepare`,
`ReadNonce`, `EndPrepare` cut `/v1/prepare` where the nonce is read, since nothing
reserves it; `Sign` is decode, validate, cache, `vet` by each of t parties,
finalize; `BeginCast` to `GiveUp` are `/v1/broadcast` RPC call by RPC call. Bytes
are a type byte, fields and whether something follows them; amounts are small
numbers; a signed transaction is told from another one over the same digest by
`sig`. Callers also bring bytes and signed transactions from elsewhere. The node is
external: it admits what has its chain id and an unused nonce, lets a newcomer
replace a pending transaction of the same nonce, mines in nonce order and may
forget what is pending; every call may fail, after it had its effect or before.
`entered`, `before` and `dropped` are history.

### Certs

The three `ensure` functions have one shape: a pair that is there is kept, one
that is missing is made (key first, each by temporary file and rename), half a
pair is refused. `Pair` and `Second` say what differs. CSRs are made where
`--dir` says (`Enrolled`): on a host, or in the CA's own directory as the launcher
on the CA machine and `demo-init.sh` (`DemoInit`) do. `Sign` reads a CSR, mints the
CA if need be and writes the certificate next to the CSR, in place, whatever was
there; it signs on a host too, as the CSR and the CA's directory are separate
arguments. `Copy` is the launcher's: it puts a CSR of a host beside the CA, over one
of the same name, before `Sign` signs it there. A command dies before any file
operation (`Crash`), and the operator deletes any file (`Delete`) or what the last
error named (`Remedy`). Commands run one at a time; leaves and enrolments are not
called `ca`.

Provisioning by `xtask` and enrolment may use one name in one directory, and then
mix: `ensure_leaf` refuses or keeps what the other left, `sign` replaces its
certificate, `csr` its key if that was deleted with the CSR. What survives every
such mix is `ChainsToCa`: a whole certificate beside a complete CA pair was signed
by it. That a pair matches holds where the flows do not share a name
(`LeafPairsMatch`, `CsrPairsMatch`), and does not hold of the certificate beside an
enrolled key, which may be torn or of an earlier key until it is signed again.

## Runs

| run | bounds | shows |
|---|---|---|
| `custody_safety` | 3 parties, t = 2, 2 ceremonies, 3 rounds | type correctness, one key, the one that is served, a quorum behind it, a reported refresh replaced all; ceremonies keep `Rounds`, stores keep `Slot` |
| `custody_live` | 2 parties, 2 ceremonies, 3 rounds, fairness | op locks are released whatever peers and callers do, even if the hub takes no connection; without faults a DKG and a refresh complete |
| `exchange` | 3 members signing, an outsider, mail of another run, repeats on one channel, fairness | only genuine mail is used, none that is needed dropped, `Rounds` implemented; unless a member fails all finish |
| `signing` | 2-of-3, 2 racing requests for one digest, differing policies | policy, veto, cache, locks |
| `signing_live` | 2-of-3 with one unprovisioned party, fairness | every request ends; without faults ready parties sign |
| `hub` | 2 members, 3 rounds, 7 time units, fairness | no needed frame lost, no mailbox leaked, sweep harmless; unless a member fails all finish |
| `store` | 3 requests, a reader, 2 seal keys | whole shards, slots, usable shares, true answers |
| `transfer` | 2-of-3 with two kinds of policy file, a prepare, 2 broadcasts, 6 byte strings and a foreign transaction from elsewhere, 2 signatures, 2 mined, fairness | only what a quorum's files permit reaches the node, answers are true, no nonce told as taken is given out again, every broadcast ends |
| `certs` | 2 leaves, an enrolment in the CA's directory, one on a host under a leaf's name that is copied and signed beside the CA, 2 interruptions or deletions, fairness | whole certificates chain to the CA beside them, nothing is replaced but what is written in place, following the errors ends in a whole set or a certified process |

Why the bounds are enough to be interesting: two ceremonies let an abandoned one
run beside its successor, a third a DKG with two refreshes; three parties
separate "some", "a quorum" and "all"; two requests race for a cache entry; three
rounds are the protocol's own number; the horizon of the hub lets a mailbox
outlive its sender's run; two broadcasts of two signatures meet at one nonce, and
a mined transaction is broadcast again; two mishaps are enough to lose a CA pair,
to lose one file and interrupt the repair, or to lose key and CSR under a
certificate that stays (what the errors name is deleted without counting, and the
theorems have no bound). Symmetry is used only in runs without liveness. Deadlock
checking is off where the bounded requests, ceremonies or clock run out.

Runs that end in a violation are disagreements between the code and what the
repository says of it:

- `custody_wallet`: a refresh is not atomic across parties. Each cosigner
  overwrites its shard when its own run completes, and all checks compare public
  keys only. Two refreshes cut short at different parties leave no two shards of
  one generation: funds are out of reach while every store looks healthy.
- `hub_cut`: the dial is outside the ttl, so the HTTP timeout can cut a live run.
- `store_sealing`: a plaintext shard cannot be refreshed under a new seal key.

More sentences differ from the code on reading alone and have no run.
`docs/PROCESS_ARCHITECTURE.md` line 71 lets `/v1/recover` rebuild a lost party's
shard, while `refresh` asks every party for the public key of the shard it still
has (`remote.rs` 103-119); its line 133 lets any disagreement stop the startup, while
`recover_active` serves a key that a quorum reports beside empty stores
(`orchestrator.rs` 72-96). `sovra-state/src/lib.rs` line 12 calls `PartialState`
"crash evidence", but `load_active` reads without the op lock and sees it between
the two renames of a healthy DKG. `sovra-certs/src/lib.rs` line 268 calls every
survivor in a directory without a CA "by definition orphaned", but an interrupted
first run leaves `.tmp-ca.key.pem`, which `any_leaf` reports as a stale leaf and
`rm certs/*` does not delete (RUN.md line 112); and line 21 calls a certificate
without its key a hard error, but `generate_csr` looks at key and CSR only, so a
new key may come to lie beside an old certificate until the CSR is signed.
Line 19 calls every re-run additive, but `certs sign` replaces a certificate, in
place and not by rename (`sovra-cli/src/certs.rs` line 61): cut short it leaves a
torn one, which `ensure_leaf` takes for a certificate. `Additive` and `LeavesChain`
are stated with these exceptions.

## Fairness

- Cosigner handlers (`Driven` in `Custody`) are weakly fair
  with their failure as one of the steps: the runtime polls a task until it is
  done, and `tokio::time::timeout` ends a run at its ttl. A dial is outside the ttl
  and has no timeout of its own, so it owes nothing while the orchestrator waits
  for its answer. After that (the answer timed out, the caller hung up, the
  orchestrator went down) the connection is closed and the server drops the
  handler, dial and lock included; that the close reaches the cosigner's host is
  assumed.
- `HttpError` is weakly fair: the HTTP client has a 90 s timeout. So is `Reply` in
  `Signing`: a readiness probe is answered or times out.
- `Conclude` and, in `Signing`, `Handling` (`TryLock`, `Select`, `Conclude`): a handler with nothing left to await is polled.
- Callers, crashes, restarts, the operator and the startup loop are not fair.
- `MCCustodyLive` and `MCSigningLive` have a variable `calm`, chosen at the start.
  While it is false everything above may go wrong and only the fairness above is
  assumed: locks are released, requests end. While it is true no step is a fault
  (`Undisturbed`, `Quiet`) and whatever can happen does: ceremonies complete,
  ready parties sign.
- `FairSpec` of `Transfer`: `Casting` is weakly fair, every call to the node ends
  in an answer or an error, and `GiveUp` strongly: a loop that never ends looks at
  the clock after the deadline. The first is an assumption about the node and the
  network, as the RPC provider has no timeout. Prepare, callers and miners owe
  nothing.
- `LiveSpec` of `MCCerts`: from some moment on nothing is interrupted any more and
  the operator does what errors say and runs `xtask certs`, or the enrolment of
  `demo-init.sh`, again until it is through.
- `FairSpec` of `Exchange` and `Hub`: `Progress`, the steps of members that have
  not failed and of a relay that delivers, is weakly fair; failures may happen and
  need not. Their liveness properties allow for a failed member.

## Proofs

Every invariant and action property that a passing run checks is also a theorem,
for arbitrary parties, thresholds, ceremonies, members, requests, files and keys.
In each proof module the inductive invariant is a conjunction of named parts, with
one lemma per action or group of actions; each was checked by TLC on the run's
instance before it was proved.

- `CustodyProof`. `TypeCorrect`, `KeyAgreementHolds`, `NoRotationHolds`,
  `ActiveAgreesHolds`. `KeyAgreement` is not inductive: whether a second key can
  come to be depends on who has joined which DKG. The inductive invariant `Core`
  adds: unused instances have no traffic (`Fresh`); a party joins an instance at
  most once, with its POST consumed (`JoinOnce`); what a running job has sent
  matches its stage (`JobProgress`); members are in step (`Lockstep`); a DKG runs
  only over an empty store, a refresh over its own key (`JobStore`); instances
  carry the right key (`CeremonyKey`); a stored key means that every party sent
  the last round of its DKG (`Stored`), metadata and shard agree
  (`StoreConsistent`), and two DKGs cannot both have passed their middle round
  (`Exclusive`). The argument: a DKG key is stored only after every party sent
  its last round, and each party checked under its lock that it had no key
  before it joined and keeps the lock until it has stored it or failed.
  `ActiveAgreesHolds` assumes `TotalLoss = FALSE`: wiping the last copy of a key
  that is being served lets a new DKG begin after the next restart.
  `QuorumBehindActiveHolds` and `RefreshReplacesAllHolds` need no such assumption.
  They rest on `Shares` (a DKG runs over a store without shard; a refresh is
  folded in at most once, by a party that took part) and `Backed`: every "ok" and
  every startup report the orchestrator holds has a shard behind it, or a store
  lost since. What stands behind a key never gets less (`BehindGrows`).
- `CeremonyIsRounds` and `StoreIsSlot` are the refinements `CeremoniesKeepRounds`
  and `StoresKeepSlots` for an arbitrary ceremony `AnyInstance` and cosigner
  `AnyParty`: the prover does not support the parameterised instances those two
  properties quantify over. The generation of a store is the number of refreshes
  folded in, plus one.
- `Rounds`: `TogetherHolds`, members are never two rounds apart.
- `ExchangeProof`. The invariant `IndInv` ties what is signed to how far its
  sender is (`SignedInv`) and what is held to what is signed (`HeldInv`);
  `KeepsRoundsHolds` is the refinement, `AheadIsNextHolds` follows from it and
  `TogetherHolds`, `NothingNeededDroppedHolds` from the invariant `KeptInv`.
  `TypeCorrect` is part of `IndInv`.
- `HubProof`. `IndInv` holds whatever the timeouts are: the phases of a member and
  its socket task agree (`PhaseInv`), a frame is in one place only and belongs
  there (`SentInv`, `HeldInv`), a member has the rounds it has left behind
  (`RoundInv`), a run is not older than its ttl (`TimeInv`). It yields
  `TypeCorrect` and `ClaimedWhileServedHolds`. `NoFrameLostHolds` needs `LossInv`:
  an unclaimed mailbox is younger than some run that is still under way, and every
  frame sent is somewhere. It assumes `RunTtl < UnclaimedTtl`, true of the defaults
  (60 s and 120 s); the ttl of a run is configured and the age at which mailboxes
  are swept is not, so the assumption is one on the configuration.
- `SigningProof`. `PolicyRespectedHolds`, `VetoFinalHolds`,
  `NoLockLeftBehindHolds`, `VetoReportedHolds`, `SignedOnceHolds`, `TypeCorrect`.
  The invariant: one handler is past `try_lock`, and a free lock has no answers
  behind it (`LockInv`); a subset is chosen once and has t parties (`SubsetInv`);
  who works on a request, or has sent anything for it, was asked and has vetted it
  (`JobInv`); a signature took a message of every party asked (`MadeInv`); a veto
  is that of a party that was asked (`VetoInv`); who has answered is done with the
  request (`AnsweredInv`); a handler that probes has found the cache empty, under
  the lock (`CacheInv`).
- `StoreProof`. `KeepsSlotHolds` is the refinement of `Slot` by `Store`, with
  `StoreTypeCorrect`, `ShardWholeHolds` and `ShareInUseCurrentHolds`. The invariant
  says who holds the lock (`LockInv`), what share a running or saving handler has
  relative to the disk (`RunInv`, `SaveInv`), and what the temporary files hold at
  each step. `StaysUsableHolds` adds that what is being saved is under the seal in
  force (`SealInv`), `SignerAnswerTrueHolds` that the key a reader has in hand
  between its two reads is still the one in the metadata (`ReadInv`): while the
  process is up, metadata are only ever written over nothing or over themselves.
- `TransferProof`. `EvaluateIsPermits` compares `evaluate` with the reference: for
  every file that parses, the verdict is "Allow" exactly if the lines of the file
  permit the transaction; the lemma `StarAlone` says that only `["*"]` opens the
  recipients. `OnlyApprovedHolds` follows from an invariant in four parts: drafts
  have the types a policy compares (`DraftInv`); everything signed is the wallet's
  and was vetted by a quorum (`SignedInv`); a broadcast that is about to submit has
  passed the sender check, so it holds something that was signed here (`CastInv`);
  and the node holds nothing else (`NodeInv`). `OnlyApproved` alone is not
  inductive, as it says nothing of what is signed and not yet submitted. Assumed
  are the types of files and bodies (`InputAssumption`) and that transactions
  signed by others do not carry the wallet's signature (`TransferAssumption`).
  `TypeCorrect` needs that a first free nonce exists: the pool is finite, so some
  number is above all of its nonces (`FirstFree`). `AnswerTrueHolds` and
  `NonceNotReusedHolds` rest on `NonceInv` (the chain has one transaction of each
  nonce) and `HistoryInv` (what is known at each point of a broadcast: what was
  mined stays mined, what entered is pending, mined or dropped); with them a mined
  transaction cannot be admitted again, and the first free nonce is not one the
  chain or the pool has.
- `CertsProof`. `LeavesChainHolds` and `AdditiveHolds`. `LeavesChain` is not
  inductive, as a pair reaches the disk in four file operations that were decided
  before the first. `PenInv` lists what may be left to write and in which state of
  the files: the pair was absent as a whole, the second file will be of the first
  one's key, a CA is made only while no leaf is there, the CA's key is the one a
  certificate in the making beside it was signed with, by `ensure_leaf` or by
  `sign`, and a file written in place is neither the CA's nor a key. Of the names it
  is assumed only that neither leaves nor enrolments are called like the CA; that
  new keys are new is not needed.

Only model-checked: the liveness properties (`LocksReleased`,
`CeremoniesComplete`, `AllFinish`, `EveryRequestEnds`, `ReadyPartiesSign`,
`AllDone`, `BroadcastEnds`, `RemedyWorks`), since reasoning about fairness is
beyond this prover; the quantified forms `CeremoniesKeepRounds` and
`StoresKeepSlots`; and the three violations.

## Not modelled

- The cryptography (DKLs23, signatures, sealing) beyond what it guarantees.
- Loss of power without fsync: completed renames survive the modelled crashes.
- Restoring a backup of an old generation onto a host (RUN.md warns of it).
- Misconfigured rosters and schemes, which `preflight_roster` and
  `assert_scheme` refuse before anything is stored.
- Reorganisations of the chain, a node that lies about receipts, and 64- and 256-bit
  limits of amounts, which the decoders enforce.
- Two provisioning commands at once: nothing in `sovra-certs` excludes it.
- `certs sign --out`, which writes the certificate wherever it is told, and the
  import of certificates on a host, which is done by hand.
- A node that never answers: the RPC provider has no timeout.
- TLS handshakes, configuration, logging, the rest of the command line, the
  in-process test backend.

## Plan

Done: `Custody`, `Exchange` with `Rounds`, `Signing`, `Hub`, `Store` with `Slot`,
`Policy` with `Transfer`, `Certs`, and the proofs above: every safety property of a
passing run is proved. Next: the promise of `Signing` that `Transfer` takes as one
step, stated as a specification of its own and shown to be kept; the link between
`Hub` and the relay `Exchange` assumes; the facts behind the liveness properties
that are safety (what is never stuck, what only decreases).
