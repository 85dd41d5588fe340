------------------------------- MODULE Store -------------------------------
(***************************************************************************)
(* One party's shard store (sovra-state, SignerStore) under the handlers   *)
(* of its cosigner: POST /dkg, /refresh and /sign under the op lock, and   *)
(* GET /signer, which reads the same files without it.                     *)
(*                                                                         *)
(* Every file operation of save_shard is a step: the process may crash, an *)
(* operation fail or a reader look in between.  A file under the pen is    *)
(* Torn.  A shard is its key, its generation and the seal it was written   *)
(* under; a key is named by the request of the DKG that made it.  A        *)
(* completed rename survives a crash of the process (loss of power without *)
(* fsync is not modelled).                                                 *)
(***************************************************************************)
EXTENDS Naturals, Sequences, FiniteSets

CONSTANTS
  Request,    \* POSTs, the bound on how many are made
  Reader,     \* concurrent GET /signer calls
  SealKey,    \* keys seal_key_path may name
  Plain,      \* no seal key: the Passthrough sealer
  None,       \* no file, no key, no request
  Torn        \* a file whose write has begun and not ended

VARIABLES
  up,       \* the cosigner process runs
  sealer,   \* the sealer it was started with
  lock,     \* the request that holds the op lock, or None
  pc,       \* "new", "running", "saving", "done", "failed", "refused"
  kind,     \* "dkg", "refresh" or "sign"
  share,    \* the share a handler holds: loaded, then produced by its run
  at,       \* the next step of save_shard
  disk,     \* the files
  seen,     \* GET /signer: the key read from the metadata, or None
  told      \* GET /signer: its last answer

procVars == <<up, sealer>>
reqVars  == <<lock, pc, kind, share, at>>
readVars == <<seen, told>>
vars == <<procVars, reqVars, disk, readVars>>

Key    == Request
Sealer == SealKey \cup {Plain}
Share  == [key : Key, gen : Nat, seal : Sealer]

ASSUME SealAssumption ==
  /\ {Plain, None, Torn} \cap (Request \cup SealKey) = {}
  /\ None # Torn /\ None \notin Share /\ Torn \notin Share

\* No key looks like one of the other answers of GET /signer.
ASSUME AnswerAssumption == {"absent", "partial", "error"} \cap Request = {}

File   == {"metadata", "shard", "tmp-metadata", "tmp-shard"}
Idle   == [r \in Request |-> None]

TypeOK ==
  /\ up \in BOOLEAN /\ sealer \in Sealer
  /\ lock \in Request \cup {None}
  /\ pc \in [Request -> {"new", "running", "saving", "done", "failed", "refused"}]
  /\ kind \in [Request -> {"dkg", "refresh", "sign"}]
  /\ share \in [Request -> Share \cup {None}]
  /\ at \in [Request -> 1 .. 6]
  /\ disk \in [File -> Key \cup Share \cup {None, Torn}]
  /\ \A f \in {"metadata", "tmp-metadata"} : disk[f] \in Key \cup {None, Torn}
  /\ \A f \in {"shard", "tmp-shard"} : disk[f] \in Share \cup {None, Torn}
  /\ seen \in [Reader -> Key \cup {None}]
  /\ told \in [Reader -> Key \cup {None, "absent", "partial", "error"}]

Init ==
  /\ up = TRUE /\ sealer \in Sealer
  /\ lock = None
  /\ pc = [r \in Request |-> "new"]
  /\ kind \in [Request -> {"dkg", "refresh", "sign"}]
  /\ share = Idle
  /\ at = [r \in Request |-> 1]
  /\ disk = [f \in File |-> None]
  /\ seen = [x \in Reader |-> None]
  /\ told = [x \in Reader |-> None]
-----------------------------------------------------------------------------
(* Handlers                                                                *)

\* ShardSealer::open: Passthrough takes any bytes, a seal key only its own.
Opens(s, c) == c \notin {None, Torn} /\ (s = Plain \/ c.seal = s)

\* Mutant: the op lock is not taken.
FreeAlways == TRUE

\* try_lock succeeds.
Free == lock = None

\* What each handler finds wrong with the store before its run: a DKG any
\* metadata, the others a shard that is missing or does not open.
Unfit(r) == IF kind[r] = "dkg" THEN disk["metadata"] # None
                               ELSE ~Opens(sealer, disk["shard"])

\* The lock is taken and the store looked at: the share is loaded.
Begin(r) ==
  /\ up /\ pc[r] = "new" /\ Free
  /\ ~Unfit(r)
  /\ lock' = r
  /\ pc' = [pc EXCEPT ![r] = "running"]
  /\ share' = [share EXCEPT ![r] = IF kind[r] = "dkg" THEN None ELSE disk["shard"]]
  /\ UNCHANGED <<procVars, kind, at, disk, readVars>>

\* 409 busy, ShardExists, NoShard, or the seal's error.
Refuse(r) ==
  /\ up /\ pc[r] = "new"
  /\ ~Free \/ Unfit(r)
  /\ pc' = [pc EXCEPT ![r] = "refused"]
  /\ UNCHANGED <<procVars, lock, kind, share, at, disk, readVars>>

\* Mutant: only the first shard passes through the sealer.
SealedFirst == IF disk["shard"] = None THEN sealer ELSE Plain

\* The seal save_shard puts on the shard it writes.
Sealed == sealer

\* A share can be used only if opening it undid the seal.
Usable(r) == share[r].seal = sealer

\* The DKG or refresh run completes with a share of its own; it is saved next,
\* with nothing that could be cancelled in between.
RunSaves(r) ==
  /\ pc[r] = "running" /\ kind[r] # "sign"
  /\ kind[r] = "refresh" => Usable(r)
  /\ share' = [share EXCEPT ![r] = IF kind[r] = "dkg"
                 THEN [key |-> r, gen |-> 1, seal |-> Sealed]
                 ELSE [key |-> @.key, gen |-> @.gen + 1, seal |-> Sealed]]
  /\ pc' = [pc EXCEPT ![r] = "saving"]
  /\ at' = [at EXCEPT ![r] = 1]
  /\ UNCHANGED <<procVars, lock, kind, disk, readVars>>

\* The handler ends and drops the lock.
Leave(r, how) ==
  /\ pc' = [pc EXCEPT ![r] = how]
  /\ lock' = IF lock = r THEN None ELSE lock

\* The run of a signature ends well; the store is not touched.
SignEnds(r) ==
  /\ pc[r] = "running" /\ kind[r] = "sign" /\ Usable(r)
  /\ Leave(r, "done")
  /\ UNCHANGED <<procVars, kind, share, at, disk, readVars>>

\* The run fails (a share that does not decode, relay, ttl, caller gone).
RunFails(r) ==
  /\ pc[r] = "running"
  /\ Leave(r, "failed")
  /\ UNCHANGED <<procVars, kind, share, at, disk, readVars>>

-----------------------------------------------------------------------------
(* save_shard                                                              *)

\* Mutant: the shard is written before its metadata.
SaveStepsShardFirst ==
  << <<"create", "shard">>, <<"fill", "shard">>, <<"rename", "shard">>,
     <<"create", "metadata">>, <<"fill", "metadata">>, <<"rename", "metadata">> >>

\* write_atomic of the metadata, then of the shard.
SaveSteps ==
  << <<"create", "metadata">>, <<"fill", "metadata">>, <<"rename", "metadata">>,
     <<"create", "shard">>, <<"fill", "shard">>, <<"rename", "shard">> >>

\* Mutant: the file is written in place.
TmpInPlace(f) == f

\* The temporary file write_atomic fills before the rename.
Tmp(f) == IF f = "metadata" THEN "tmp-metadata" ELSE "tmp-shard"

\* Mutant: the share itself goes into both files.
ContentSame(r, f) == share[r]

Content(r, f) == IF f = "metadata" THEN share[r].key ELSE share[r]

\* fs::write creates or truncates the temporary file, then fills it; rename
\* replaces the target.
Written(r, step) ==
  LET f == step[2]
  IN  IF step[1] = "create" THEN [disk EXCEPT ![Tmp(f)] = Torn]
      ELSE IF step[1] = "fill" THEN [disk EXCEPT ![Tmp(f)] = Content(r, f)]
      ELSE [g \in File |-> IF g = f THEN disk[Tmp(f)]
                           ELSE IF g = Tmp(f) THEN None ELSE disk[g]]

\* One file operation; the last one ends the handler.
Save(r) ==
  /\ pc[r] = "saving"
  /\ disk' = Written(r, SaveSteps[at[r]])
  /\ IF at[r] = Len(SaveSteps)
     THEN Leave(r, "done") /\ UNCHANGED at
     ELSE /\ at' = [at EXCEPT ![r] = @ + 1]
          /\ UNCHANGED <<lock, pc>>
  /\ UNCHANGED <<procVars, kind, share, readVars>>

\* A file operation fails: the handler answers 500 and drops the lock.
SaveFails(r) ==
  /\ pc[r] = "saving"
  /\ Leave(r, "failed")
  /\ UNCHANGED <<procVars, kind, share, at, disk, readVars>>
-----------------------------------------------------------------------------
(* GET /signer: load_active, two reads without the lock                    *)

ReadMetadata(x) ==
  /\ up /\ seen[x] = None
  /\ IF disk["metadata"] \in Key
     THEN /\ seen' = [seen EXCEPT ![x] = disk["metadata"]]
          /\ told' = [told EXCEPT ![x] = None]
     ELSE /\ told' = [told EXCEPT ![x] =
                        IF disk["metadata"] = None THEN "absent" ELSE "error"]
          /\ UNCHANGED seen
  /\ UNCHANGED <<procVars, reqVars, disk>>

\* Mutant: the metadata decides, the shard is not looked at.
VerdictByMetadata(k) == k

\* The answer for metadata of key k: the key, PartialState, the seal's error.
Verdict(k) ==
  IF disk["shard"] = None THEN "partial"
  ELSE IF Opens(sealer, disk["shard"]) THEN k ELSE "error"

ReadShard(x) ==
  /\ up /\ seen[x] # None
  /\ told' = [told EXCEPT ![x] = Verdict(seen[x])]
  /\ seen' = [seen EXCEPT ![x] = None]
  /\ UNCHANGED <<procVars, reqVars, disk>>
-----------------------------------------------------------------------------
(* Process and operator                                                    *)

\* The process dies, between any two steps: the files stay as they are.
Crash ==
  /\ up /\ up' = FALSE
  /\ lock' = None
  /\ pc' = [r \in Request |-> IF pc[r] \in {"running", "saving"} THEN "failed" ELSE pc[r]]
  /\ seen' = [x \in Reader |-> None]
  /\ told' = [x \in Reader |-> None]
  /\ UNCHANGED <<sealer, kind, share, at, disk>>

\* It is started again, perhaps with another seal_key_path.
Restart(s) ==
  /\ ~up /\ up' = TRUE
  /\ sealer' = s
  /\ UNCHANGED <<reqVars, disk, readVars>>

\* The operator wipes the store of a stopped party.
Wipe ==
  /\ ~up
  /\ disk' = [f \in File |-> None]
  /\ UNCHANGED <<procVars, reqVars, readVars>>

Handler(r) == Begin(r) \/ Refuse(r) \/ RunSaves(r) \/ SignEnds(r) \/ RunFails(r)
                \/ Save(r) \/ SaveFails(r)

Next == \/ \E r \in Request : Handler(r)
        \/ \E x \in Reader : ReadMetadata(x) \/ ReadShard(x)
        \/ Crash \/ Wipe \/ \E s \in Sealer : Restart(s)

Spec == Init /\ [][Next]_vars
-----------------------------------------------------------------------------
(* Properties                                                              *)

\* The store as a slot: no shard but that of the metadata's key counts.
ShardGen == IF disk["shard"] \notin {None, Torn} /\ disk["shard"].key = disk["metadata"]
            THEN disk["shard"].gen ELSE 0
S == INSTANCE Slot WITH key <- disk["metadata"], gen <- ShardGen, NoKey <- None

\* Whatever crashes, fails or runs at the same time, a key is claimed once and
\* its shard replaced generation by generation: no DKG writes over a shard, no
\* refresh is lost or based on an old one, no crash takes a shard away.
KeepsSlot == S!Spec

\* What is in the shard file is a whole share of the metadata's key: a reader
\* never meets a half-written one.
ShardWhole ==
  disk["shard"] # None => disk["shard"] # Torn /\ disk["shard"].key = disk["metadata"]

\* A share that can be used stays usable, through every refresh and crash,
\* until the operator changes the seal key or wipes the store.
StaysUsable ==
  [][disk["shard"] \in Share /\ disk["shard"].seal = sealer /\ sealer' = sealer
     => \/ disk'["shard"] \in Share /\ disk'["shard"].seal = sealer
        \/ ~up /\ disk'["shard"] = None]_vars

\* A run works on the share that is in the store, from the load to the end.
ShareInUseCurrent ==
  \A r \in Request : pc[r] = "running" /\ kind[r] # "dkg" => share[r] = disk["shard"]

\* GET /signer answers with a key only if, while it looked, the store held a
\* shard of that key: the two reads never mix two keys.
SignerAnswerTrue ==
  [][\A x \in Reader : seen[x] # None /\ told'[x] \in Key =>
       disk["shard"] \notin {None, Torn} /\ disk["shard"].key = told'[x]]_vars
-----------------------------------------------------------------------------
(* A claim of the documentation that the code does not keep                *)

\* RUN.md: "to enable it on an existing plaintext shard, restart that party
\* with `seal_key_path` set and run the proactive refresh": a refresh of an
\* idle store with a plaintext shard is not refused.
RefreshEnablesSealing ==
  [][\A r \in Request :
       (/\ kind[r] = "refresh" /\ lock = None
        /\ disk["shard"] \in Share /\ disk["shard"].seal = Plain)
       => ~(pc[r] = "new" /\ pc'[r] = "refused")]_vars
=============================================================================
