----------------------------- MODULE StoreProof -----------------------------
(***************************************************************************)
(* Store implements Slot, its shares stay usable and its readers are told  *)
(* the truth, for any number of requests, readers and seal keys.           *)
(***************************************************************************)
EXTENDS Store, TLAPS

\* A handler between its load and its last file operation holds the lock, and
\* the process is up: there is at most one.
LockInv == \A r \in Request : pc[r] \in {"running", "saving"} => lock = r /\ up

\* A run started from what is still on disk: a DKG from nothing, the others
\* from the shard they loaded.
RunInv == \A r \in Request : pc[r] = "running" =>
  IF kind[r] = "dkg" THEN disk["metadata"] = None
  ELSE share[r] = disk["shard"] /\ share[r] \in Share

\* How far a save has come, and that what it replaces is the generation before
\* the one it writes.
SaveInv == \A r \in Request : pc[r] = "saving" =>
  /\ share[r] \in Share
  /\ at[r] = 3 => disk["tmp-metadata"] = share[r].key
  /\ at[r] = 6 => disk["tmp-shard"] = share[r]
  /\ at[r] >= 4 => disk["metadata"] = share[r].key
  /\ \/ /\ disk["shard"] = None /\ share[r].gen = 1
        /\ at[r] <= 3 => disk["metadata"] = None
     \/ /\ disk["shard"] \in Share
        /\ disk["metadata"] = share[r].key
        /\ share[r].gen = disk["shard"].gen + 1

IndInv == TypeOK /\ LockInv /\ ShardWhole /\ disk["metadata"] # Torn
            /\ RunInv /\ SaveInv

-----------------------------------------------------------------------------
\* What each step of save_shard does to the files.
LEMMA SaveStep ==
  ASSUME TypeOK, NEW r \in Request
  PROVE  /\ Len(SaveSteps) = 6
         /\ Written(r, SaveSteps[1]) = [disk EXCEPT !["tmp-metadata"] = Torn]
         /\ Written(r, SaveSteps[2]) = [disk EXCEPT !["tmp-metadata"] = share[r].key]
         /\ Written(r, SaveSteps[3]) = [disk EXCEPT !["metadata"] = disk["tmp-metadata"],
                                                    !["tmp-metadata"] = None]
         /\ Written(r, SaveSteps[4]) = [disk EXCEPT !["tmp-shard"] = Torn]
         /\ Written(r, SaveSteps[5]) = [disk EXCEPT !["tmp-shard"] = share[r]]
         /\ Written(r, SaveSteps[6]) = [disk EXCEPT !["shard"] = disk["tmp-shard"],
                                                    !["tmp-shard"] = None]
<1>1. /\ Len(SaveSteps) = 6
      /\ SaveSteps[1] = <<"create", "metadata">> /\ SaveSteps[2] = <<"fill", "metadata">>
      /\ SaveSteps[3] = <<"rename", "metadata">> /\ SaveSteps[4] = <<"create", "shard">>
      /\ SaveSteps[5] = <<"fill", "shard">> /\ SaveSteps[6] = <<"rename", "shard">>
  BY DEF SaveSteps
<1>2. disk \in [File -> Key \cup Share \cup {None, Torn}]
  BY DEF TypeOK
<1>3. /\ Written(r, <<"create", "metadata">>) = [disk EXCEPT !["tmp-metadata"] = Torn]
      /\ Written(r, <<"create", "shard">>) = [disk EXCEPT !["tmp-shard"] = Torn]
  BY DEF Written, Tmp
<1>4. /\ Written(r, <<"fill", "metadata">>) = [disk EXCEPT !["tmp-metadata"] = share[r].key]
      /\ Written(r, <<"fill", "shard">>) = [disk EXCEPT !["tmp-shard"] = share[r]]
  BY DEF Written, Tmp, Content
<1>5. Written(r, <<"rename", "metadata">>)
        = [disk EXCEPT !["metadata"] = disk["tmp-metadata"], !["tmp-metadata"] = None]
  BY <1>2 DEF Written, Tmp, File
<1>6. Written(r, <<"rename", "shard">>)
        = [disk EXCEPT !["shard"] = disk["tmp-shard"], !["tmp-shard"] = None]
  BY <1>2 DEF Written, Tmp, File
<1>7. QED
  BY <1>1, <1>3, <1>4, <1>5, <1>6

LEMMA InitInv == Init => IndInv
BY SealAssumption DEF Init, IndInv, TypeOK, LockInv, ShardWhole, RunInv, SaveInv,
   Sealer, File, Idle

\* A file operation of a save keeps the invariant.
LEMMA SaveKeeps ==
  ASSUME IndInv, NEW r \in Request, Save(r)
  PROVE  IndInv'
<1> USE SealAssumption
<1>1. /\ pc[r] = "saving" /\ lock = r /\ up
      /\ share[r] \in Share /\ share[r].key \in Key /\ share[r].gen \in Nat
      /\ at[r] \in 1 .. 6
      /\ \A q \in Request \ {r} : pc[q] \notin {"running", "saving"}
  BY DEF Save, IndInv, TypeOK, LockInv, SaveInv, Share
<1>2. disk \in [File -> Key \cup Share \cup {None, Torn}]
  BY DEF IndInv, TypeOK
<1>3. TypeOK
  BY DEF IndInv
<1>4. Len(SaveSteps) = 6
  BY <1>3, SaveStep
<1>5. /\ UNCHANGED <<up, sealer, kind, share, seen, told>>
      /\ \A q \in Request \ {r} : pc'[q] = pc[q]
      /\ pc' \in [Request -> {"new", "running", "saving", "done", "failed", "refused"}]
      /\ lock' \in Request \cup {None}
      /\ at' \in [Request -> 1 .. 6]
      /\ IF at[r] = 6 THEN pc'[r] = "done"
         ELSE at'[r] = at[r] + 1 /\ pc'[r] = "saving" /\ lock' = r
  <2>1. UNCHANGED <<up, sealer, kind, share, seen, told>>
    BY DEF Save, procVars, readVars
  <2>2. CASE at[r] = 6
    BY <1>1, <1>3, <1>4, <2>1, <2>2 DEF Save, TypeOK, Leave
  <2>3. CASE at[r] # 6
    BY <1>1, <1>3, <1>4, <2>1, <2>3 DEF Save, TypeOK
  <2>4. QED
    BY <2>1, <2>2, <2>3
<1>6. LockInv' /\ RunInv'
  BY <1>1, <1>5 DEF LockInv, RunInv
<1>7. /\ at[r] = 3 => disk["tmp-metadata"] = share[r].key
      /\ at[r] = 6 => disk["tmp-shard"] = share[r]
      /\ at[r] >= 4 => disk["metadata"] = share[r].key
      /\ \/ /\ disk["shard"] = None /\ share[r].gen = 1
            /\ at[r] <= 3 => disk["metadata"] = None
         \/ /\ disk["shard"] \in Share
            /\ disk["metadata"] = share[r].key
            /\ share[r].gen = disk["shard"].gen + 1
  BY <1>1 DEF IndInv, SaveInv
<1>8. /\ TypeOK' /\ ShardWhole' /\ disk'["metadata"] # Torn
      /\ pc'[r] = "saving" =>
           /\ at'[r] = 3 => disk'["tmp-metadata"] = share[r].key
           /\ at'[r] = 6 => disk'["tmp-shard"] = share[r]
           /\ at'[r] >= 4 => disk'["metadata"] = share[r].key
           /\ \/ /\ disk'["shard"] = None /\ share[r].gen = 1
                 /\ at'[r] <= 3 => disk'["metadata"] = None
              \/ /\ disk'["shard"] \in Share
                 /\ disk'["metadata"] = share[r].key
                 /\ share[r].gen = disk'["shard"].gen + 1
  <2>1. CASE at[r] = 1
    <3>1. disk' = [disk EXCEPT !["tmp-metadata"] = Torn]
      BY <1>3, <2>1, SaveStep DEF Save
    <3>2. /\ disk' \in [File -> Key \cup Share \cup {None, Torn}]
          /\ disk'["metadata"] = disk["metadata"] /\ disk'["shard"] = disk["shard"]
          /\ disk'["tmp-metadata"] = Torn /\ disk'["tmp-shard"] = disk["tmp-shard"]
      BY <1>1, <1>2, <1>7, <2>1, <3>1 DEF File
    <3>3. TypeOK'
      BY <1>1, <1>5, <1>3, <1>7, <2>1, <3>2 DEF TypeOK, SaveInv
    <3>4. QED
      BY <1>1, <1>5, <1>7, <2>1, <3>2, <3>3 DEF ShardWhole, IndInv
  <2>2. CASE at[r] = 2
    <3>1. disk' = [disk EXCEPT !["tmp-metadata"] = share[r].key]
      BY <1>3, <2>2, SaveStep DEF Save
    <3>2. /\ disk' \in [File -> Key \cup Share \cup {None, Torn}]
          /\ disk'["metadata"] = disk["metadata"] /\ disk'["shard"] = disk["shard"]
          /\ disk'["tmp-metadata"] = share[r].key /\ disk'["tmp-shard"] = disk["tmp-shard"]
      BY <1>1, <1>2, <1>7, <2>2, <3>1 DEF File
    <3>3. TypeOK'
      BY <1>1, <1>5, <1>3, <1>7, <2>2, <3>2 DEF TypeOK, SaveInv
    <3>4. QED
      BY <1>1, <1>5, <1>7, <2>2, <3>2, <3>3 DEF ShardWhole, IndInv
  <2>3. CASE at[r] = 3
    <3>1. disk' = [disk EXCEPT !["metadata"] = disk["tmp-metadata"],
                               !["tmp-metadata"] = None]
      BY <1>3, <2>3, SaveStep DEF Save
    <3>2. /\ disk' \in [File -> Key \cup Share \cup {None, Torn}]
          /\ disk'["metadata"] = share[r].key /\ disk'["shard"] = disk["shard"]
          /\ disk'["tmp-metadata"] = None /\ disk'["tmp-shard"] = disk["tmp-shard"]
      BY <1>1, <1>2, <1>7, <2>3, <3>1 DEF File
    <3>3. TypeOK'
      BY <1>1, <1>5, <1>3, <1>7, <2>3, <3>2 DEF TypeOK, SaveInv
    <3>4. QED
      BY <1>1, <1>5, <1>7, <2>3, <3>2, <3>3 DEF ShardWhole, IndInv, Key
  <2>4. CASE at[r] = 4
    <3>1. disk' = [disk EXCEPT !["tmp-shard"] = Torn]
      BY <1>3, <2>4, SaveStep DEF Save
    <3>2. /\ disk' \in [File -> Key \cup Share \cup {None, Torn}]
          /\ disk'["metadata"] = disk["metadata"] /\ disk'["shard"] = disk["shard"]
          /\ disk'["tmp-metadata"] = disk["tmp-metadata"] /\ disk'["tmp-shard"] = Torn
      BY <1>1, <1>2, <1>7, <2>4, <3>1 DEF File
    <3>3. TypeOK'
      BY <1>1, <1>5, <1>3, <1>7, <2>4, <3>2 DEF TypeOK, SaveInv
    <3>4. QED
      BY <1>1, <1>5, <1>7, <2>4, <3>2, <3>3 DEF ShardWhole, IndInv
  <2>5. CASE at[r] = 5
    <3>1. disk' = [disk EXCEPT !["tmp-shard"] = share[r]]
      BY <1>3, <2>5, SaveStep DEF Save
    <3>2. /\ disk' \in [File -> Key \cup Share \cup {None, Torn}]
          /\ disk'["metadata"] = disk["metadata"] /\ disk'["shard"] = disk["shard"]
          /\ disk'["tmp-metadata"] = disk["tmp-metadata"] /\ disk'["tmp-shard"] = share[r]
      BY <1>1, <1>2, <1>7, <2>5, <3>1 DEF File
    <3>3. TypeOK'
      BY <1>1, <1>5, <1>3, <1>7, <2>5, <3>2 DEF TypeOK, SaveInv
    <3>4. QED
      BY <1>1, <1>5, <1>7, <2>5, <3>2, <3>3 DEF ShardWhole, IndInv
  <2>6. CASE at[r] = 6
    <3>1. disk' = [disk EXCEPT !["shard"] = disk["tmp-shard"],
                               !["tmp-shard"] = None]
      BY <1>3, <2>6, SaveStep DEF Save
    <3>2. /\ disk' \in [File -> Key \cup Share \cup {None, Torn}]
          /\ disk'["metadata"] = disk["metadata"] /\ disk'["shard"] = share[r]
          /\ disk'["tmp-metadata"] = disk["tmp-metadata"] /\ disk'["tmp-shard"] = None
      BY <1>1, <1>2, <1>7, <2>6, <3>1 DEF File
    <3>3. TypeOK'
      BY <1>1, <1>5, <1>3, <1>7, <2>6, <3>2 DEF TypeOK, SaveInv
    <3>4. QED
      BY <1>1, <1>5, <1>7, <2>6, <3>2, <3>3 DEF ShardWhole, IndInv
  <2>7. QED
    BY <1>1, <2>1, <2>2, <2>3, <2>4, <2>5, <2>6
<1>9. SaveInv'
  BY <1>1, <1>5, <1>8 DEF SaveInv
<1>10. QED
  BY <1>6, <1>8, <1>9 DEF IndInv

\* Every step keeps the invariant.
LEMMA StepInv == IndInv /\ [Next]_vars => IndInv'
<1> SUFFICES ASSUME IndInv, [Next]_vars PROVE IndInv'
  OBVIOUS
<1> USE SealAssumption
<1>1. ASSUME NEW r \in Request, Begin(r) PROVE IndInv'
  <2>1. ~Unfit(r) /\ lock = None /\ up
    BY <1>1 DEF Begin, Free
  <2>2. IF kind[r] = "dkg" THEN disk["metadata"] = None ELSE disk["shard"] \in Share
    BY <2>1 DEF Unfit, Opens, IndInv, TypeOK
  <2>3. /\ lock' = r /\ pc' = [pc EXCEPT ![r] = "running"]
        /\ share' = [share EXCEPT ![r] = IF kind[r] = "dkg" THEN None ELSE disk["shard"]]
        /\ UNCHANGED <<up, sealer, kind, at, disk, seen, told>>
    BY <1>1 DEF Begin, procVars, readVars
  <2>4. TypeOK'
    BY <2>2, <2>3 DEF IndInv, TypeOK
  <2>5. \A q \in Request : pc[q] \notin {"running", "saving"}
    BY <2>1 DEF IndInv, LockInv
  <2>6. LockInv' /\ RunInv' /\ SaveInv'
    BY <2>1, <2>2, <2>3, <2>5 DEF IndInv, TypeOK, LockInv, RunInv, SaveInv
  <2>7. QED
    BY <2>3, <2>4, <2>6 DEF IndInv, ShardWhole
<1>2. ASSUME NEW r \in Request, Refuse(r) PROVE IndInv'
  BY <1>2 DEF Refuse, procVars, readVars, IndInv, TypeOK, LockInv, ShardWhole,
     RunInv, SaveInv
<1>3. ASSUME NEW r \in Request, RunSaves(r) PROVE IndInv'
  <2>1. /\ pc[r] = "running" /\ lock = r /\ up
        /\ \A q \in Request \ {r} : pc[q] \notin {"running", "saving"}
    BY <1>3 DEF RunSaves, IndInv, LockInv
  <2> DEFINE s == IF kind[r] = "dkg" THEN [key |-> r, gen |-> 1, seal |-> Sealed]
                  ELSE [key |-> share[r].key, gen |-> share[r].gen + 1, seal |-> Sealed]
  <2>2. /\ share' = [share EXCEPT ![r] = s]
        /\ pc' = [pc EXCEPT ![r] = "saving"] /\ at' = [at EXCEPT ![r] = 1]
        /\ UNCHANGED <<up, sealer, lock, kind, disk, seen, told>>
    BY <1>3 DEF RunSaves, procVars, readVars
  <2>3. kind[r] # "dkg" => share[r] \in Share /\ share[r] = disk["shard"]
    BY <2>1 DEF IndInv, RunInv
  <2>4. Sealed \in Sealer
    BY DEF Sealed, IndInv, TypeOK
  <2>5. s \in Share
    BY <2>3, <2>4 DEF Share, Key
  <2>6. TypeOK'
    BY <2>2, <2>5 DEF IndInv, TypeOK
  <2>7. IF kind[r] = "dkg"
        THEN s.gen = 1 /\ disk["shard"] = None /\ disk["metadata"] = None
        ELSE /\ disk["shard"] \in Share /\ disk["metadata"] = s.key
             /\ s.gen = disk["shard"].gen + 1
    <3>1. CASE kind[r] = "dkg"
      <4>1. disk["metadata"] = None
        BY <2>1, <3>1 DEF IndInv, RunInv
      <4>2. disk["shard"] = None
        BY <4>1 DEF IndInv, ShardWhole, TypeOK, Share, Key
      <4>3. QED
        BY <3>1, <4>1, <4>2
    <3>2. CASE kind[r] # "dkg"
      BY <2>3, <3>2 DEF IndInv, ShardWhole, Share
    <3>3. QED
      BY <3>1, <3>2
  <2> HIDE DEF s
  <2>8. LockInv' /\ RunInv'
    BY <2>1, <2>2 DEF IndInv, TypeOK, LockInv, RunInv
  <2>9. SaveInv'
    BY <2>1, <2>2, <2>5, <2>7 DEF IndInv, TypeOK, SaveInv
  <2>10. QED
    BY <2>2, <2>6, <2>8, <2>9 DEF IndInv, ShardWhole
<1>4. ASSUME NEW r \in Request, SignEnds(r) \/ RunFails(r) \/ SaveFails(r) PROVE IndInv'
  BY <1>4 DEF SignEnds, RunFails, SaveFails, Leave, procVars, readVars, IndInv, TypeOK,
     LockInv, ShardWhole, RunInv, SaveInv
<1>5. ASSUME NEW r \in Request, Save(r) PROVE IndInv'
  BY <1>5, SaveKeeps
<1>6. ASSUME NEW x \in Reader, ReadMetadata(x) \/ ReadShard(x) PROVE IndInv'
  <2>1. UNCHANGED <<up, sealer, lock, pc, kind, share, at, disk>>
    BY <1>6 DEF ReadMetadata, ReadShard, procVars, reqVars
  <2>2. TypeOK'
    BY <1>6, <2>1 DEF ReadMetadata, ReadShard, Verdict, IndInv, TypeOK
  <2>3. QED
    BY <2>1, <2>2 DEF IndInv, LockInv, ShardWhole, RunInv, SaveInv
<1>7. CASE Crash
  BY <1>7 DEF Crash, IndInv, TypeOK, LockInv, ShardWhole, RunInv, SaveInv
<1>8. ASSUME NEW s \in Sealer, Restart(s) PROVE IndInv'
  BY <1>8 DEF Restart, reqVars, readVars, IndInv, TypeOK, LockInv, ShardWhole, RunInv,
     SaveInv
<1>9. CASE Wipe
  BY <1>9 DEF Wipe, procVars, reqVars, readVars, IndInv, TypeOK, LockInv, ShardWhole,
     RunInv, SaveInv, File
<1>10. CASE UNCHANGED vars
  BY <1>10 DEF vars, procVars, reqVars, readVars, IndInv, TypeOK, LockInv, ShardWhole,
     RunInv, SaveInv
<1>11. QED
  BY <1>1, <1>2, <1>3, <1>4, <1>5, <1>6, <1>7, <1>8, <1>9, <1>10 DEF Next, Handler

LEMMA Invariant == Spec => []IndInv
BY InitInv, StepInv, PTL DEF Spec
-----------------------------------------------------------------------------
\* Type correctness of the store.
THEOREM StoreTypeCorrect == Spec => []TypeOK
<1>1. IndInv => TypeOK
  BY DEF IndInv
<1>2. QED
  BY <1>1, Invariant, PTL

\* The shard file is absent or holds a whole share of the metadata's key,
\* however save_shard is cut short.
THEOREM ShardWholeHolds == Spec => []ShardWhole
<1>1. IndInv => ShardWhole
  BY DEF IndInv
<1>2. QED
  BY <1>1, Invariant, PTL

\* Under the op lock, a run works on the share that is in the store.
THEOREM ShareInUseCurrentHolds == Spec => []ShareInUseCurrent
<1>1. IndInv => ShareInUseCurrent
  BY DEF IndInv, RunInv, ShareInUseCurrent
<1>2. QED
  BY <1>1, Invariant, PTL

\* What a file operation of save_shard does to the two files readers see: the
\* renames replace one each, the other operations touch neither.
LEMMA SaveEffect ==
  ASSUME IndInv, NEW r \in Request, Save(r)
  PROVE  /\ pc[r] = "saving"
         /\ \/ disk'["metadata"] = disk["metadata"] /\ disk'["shard"] = disk["shard"]
            \/ at[r] = 3 /\ disk'["metadata"] = share[r].key /\ disk'["shard"] = disk["shard"]
            \/ at[r] = 6 /\ disk'["metadata"] = disk["metadata"] /\ disk'["shard"] = share[r]
<1>1. /\ pc[r] = "saving" /\ at[r] \in 1 .. 6
      /\ disk' = Written(r, SaveSteps[at[r]])
      /\ TypeOK /\ disk \in [File -> Key \cup Share \cup {None, Torn}]
  BY DEF Save, IndInv, TypeOK
<1>2. CASE at[r] = 1
  <2>1. disk' = [disk EXCEPT !["tmp-metadata"] = Torn]
    BY <1>1, <1>2, SaveStep
  <2>2. QED
    BY <1>1, <2>1 DEF File
<1>3. CASE at[r] = 2
  <2>1. disk' = [disk EXCEPT !["tmp-metadata"] = share[r].key]
    BY <1>1, <1>3, SaveStep
  <2>2. QED
    BY <1>1, <2>1 DEF File
<1>4. CASE at[r] = 4
  <2>1. disk' = [disk EXCEPT !["tmp-shard"] = Torn]
    BY <1>1, <1>4, SaveStep
  <2>2. QED
    BY <1>1, <2>1 DEF File
<1>5. CASE at[r] = 5
  <2>1. disk' = [disk EXCEPT !["tmp-shard"] = share[r]]
    BY <1>1, <1>5, SaveStep
  <2>2. QED
    BY <1>1, <2>1 DEF File
<1>6. CASE at[r] = 3
  <2>1. disk["tmp-metadata"] = share[r].key
    BY <1>1, <1>6 DEF IndInv, SaveInv
  <2>2. disk' = [disk EXCEPT !["metadata"] = disk["tmp-metadata"], !["tmp-metadata"] = None]
    BY <1>1, <1>6, SaveStep
  <2>3. QED
    BY <1>1, <1>6, <2>1, <2>2 DEF File
<1>7. CASE at[r] = 6
  <2>1. disk["tmp-shard"] = share[r]
    BY <1>1, <1>7 DEF IndInv, SaveInv
  <2>2. disk' = [disk EXCEPT !["shard"] = disk["tmp-shard"], !["tmp-shard"] = None]
    BY <1>1, <1>7, SaveStep
  <2>3. QED
    BY <1>1, <1>7, <2>1, <2>2 DEF File
<1>8. QED
  BY <1>1, <1>2, <1>3, <1>4, <1>5, <1>6, <1>7

\* Every step of the store is a step of the slot or leaves it alone.
LEMMA StepMaps == IndInv /\ IndInv' /\ [Next]_vars => [S!Next]_S!slotVars
<1> SUFFICES ASSUME IndInv, IndInv', [Next]_vars PROVE [S!Next]_S!slotVars
  OBVIOUS
<1> USE SealAssumption
<1>1. ASSUME disk'["metadata"] = disk["metadata"], disk'["shard"] = disk["shard"]
      PROVE  UNCHANGED S!slotVars
  BY <1>1 DEF S!slotVars, ShardGen
<1>2. ASSUME NEW r \in Request, Save(r) PROVE [S!Next]_S!slotVars
  <2>1. /\ pc[r] = "saving" /\ share[r] \in Share /\ share[r].key \in Key
        /\ share[r].gen \in Nat /\ share[r].key # None
    BY <1>2 DEF Save, IndInv, SaveInv, Share, Key
  <2>2. CASE disk'["metadata"] = disk["metadata"] /\ disk'["shard"] = disk["shard"]
    BY <1>1, <2>2
  <2>3. CASE at[r] = 3 /\ disk'["metadata"] = share[r].key /\ disk'["shard"] = disk["shard"]
    <3>1. CASE disk["shard"] = None
      <4>1. disk["metadata"] = None
        BY <2>1, <2>3, <3>1, SealAssumption DEF IndInv, SaveInv
      <4>2. ShardGen = 0 /\ ShardGen' = 0
        BY <2>3, <3>1 DEF ShardGen
      <4>3. QED
        BY <2>1, <2>3, <4>1, <4>2 DEF S!Next, S!Claim
    <3>2. CASE disk["shard"] # None
      BY <1>1, <2>1, <2>3, <3>2 DEF IndInv, SaveInv
    <3>3. QED
      BY <3>1, <3>2
  <2>4. CASE at[r] = 6 /\ disk'["metadata"] = disk["metadata"] /\ disk'["shard"] = share[r]
    <3>1. disk["metadata"] = share[r].key
      BY <2>1, <2>4 DEF IndInv, SaveInv
    <3>2. ShardGen' = share[r].gen
      BY <2>1, <2>4, <3>1 DEF ShardGen
    <3>3. share[r].gen = ShardGen + 1
      <4>1. CASE disk["shard"] = None
        BY <2>1, <4>1 DEF ShardGen, IndInv, SaveInv
      <4>2. CASE disk["shard"] # None
        BY <2>1, <4>2 DEF ShardGen, IndInv, SaveInv, ShardWhole
      <4>3. QED
        BY <4>1, <4>2
    <3>4. QED
      BY <2>1, <2>4, <3>1, <3>2, <3>3 DEF S!Next, S!Replace
  <2>5. QED
    BY <1>2, <2>2, <2>3, <2>4, SaveEffect
<1>3. CASE Wipe
  <2>1. disk'["metadata"] = None /\ disk'["shard"] = None
    BY <1>3 DEF Wipe, File
  <2>2. QED
    BY <2>1 DEF S!Next, S!Lose, ShardGen
<1>4. ASSUME disk' = disk PROVE UNCHANGED S!slotVars
  BY <1>1, <1>4
<1>5. QED
  <2>1. CASE UNCHANGED vars
    BY <1>4, <2>1 DEF vars
  <2>2. ASSUME NEW r \in Request, Handler(r) PROVE [S!Next]_S!slotVars
    BY <1>2, <1>4, <2>2 DEF Handler, Begin, Refuse, RunSaves, SignEnds, RunFails, SaveFails
  <2>3. ASSUME NEW x \in Reader, ReadMetadata(x) \/ ReadShard(x) PROVE [S!Next]_S!slotVars
    BY <1>4, <2>3 DEF ReadMetadata, ReadShard
  <2>4. CASE Crash
    BY <1>4, <2>4 DEF Crash
  <2>5. ASSUME NEW s \in Sealer, Restart(s) PROVE [S!Next]_S!slotVars
    BY <1>4, <2>5 DEF Restart
  <2>6. QED
    BY <1>3, <2>1, <2>2, <2>3, <2>4, <2>5 DEF Next

\* The store implements the slot: a key is claimed once, its shard replaced
\* generation by generation, and only a wipe takes them away.
THEOREM KeepsSlotHolds == Spec => KeepsSlot
<1>1. Init => S!Init
  BY DEF Init, S!Init, ShardGen, File
<1>2. QED
  BY <1>1, Invariant, StepMaps, PTL DEF Spec, KeepsSlot, S!Spec
-----------------------------------------------------------------------------
(* What a reader and a later run find                                      *)

\* What is being saved is sealed under the key the process runs with, which
\* cannot change while the handler lives.
SealInv == \A r \in Request : pc[r] = "saving" => share[r].seal = sealer

\* Between its two reads, GET /signer holds the key that is still in the
\* metadata: while the process is up, metadata of a key are never replaced by
\* those of another.
ReadInv == \A x \in Reader : seen[x] # None =>
  up /\ seen[x] \in Key /\ seen[x] = disk["metadata"] /\ told[x] = None

\* What a step may do to the files a reader sees.
LEMMA FileStep ==
  ASSUME IndInv, [Next]_vars
  PROVE  /\ \/ disk'["metadata"] = disk["metadata"]
            \/ disk["metadata"] = None \/ ~up
         /\ \/ disk'["shard"] = disk["shard"]
            \/ ~up /\ disk'["shard"] = None
            \/ \E r \in Request : pc[r] = "saving" /\ disk'["shard"] = share[r]
<1>1. ASSUME NEW r \in Request, Save(r)
      PROVE  disk'["metadata"] = disk["metadata"] \/ disk["metadata"] = None
  <2>1. CASE at[r] = 3 /\ disk'["metadata"] = share[r].key
    BY <1>1, <2>1, SaveEffect DEF IndInv, SaveInv
  <2>2. QED
    BY <1>1, <2>1, SaveEffect
<1>2. CASE Wipe
  BY <1>2 DEF Wipe, File
<1>3. CASE \E r \in Request : Save(r)
  BY <1>1, <1>3, SaveEffect
<1>4. CASE disk' = disk
  BY <1>4
<1>5. QED
  BY <1>2, <1>3, <1>4 DEF Next, vars, Handler, Begin, Refuse, RunSaves, SignEnds, RunFails,
     SaveFails, ReadMetadata, ReadShard, Crash, Restart

LEMMA SealStep == IndInv /\ SealInv /\ [Next]_vars => SealInv'
<1> SUFFICES ASSUME IndInv, SealInv, [Next]_vars, NEW r \in Request, pc'[r] = "saving"
             PROVE  share'[r].seal = sealer'
  BY DEF SealInv
<1>1. CASE RunSaves(r)
  BY <1>1 DEF RunSaves, Sealed, procVars, IndInv, TypeOK
<1>2. CASE pc[r] = "saving" /\ UNCHANGED <<sealer, share[r]>>
  BY <1>2 DEF SealInv
<1>3. ASSUME NEW q \in Request, Handler(q), ~RunSaves(r)
      PROVE  pc[r] = "saving" /\ UNCHANGED <<sealer, share[r]>>
  BY <1>3 DEF Handler, Begin, Refuse, RunSaves, SignEnds, RunFails, Save, SaveFails, Leave,
     procVars, IndInv, TypeOK
<1>4. ASSUME NEW x \in Reader, ReadMetadata(x) \/ ReadShard(x)
      PROVE  pc[r] = "saving" /\ UNCHANGED <<sealer, share[r]>>
  BY <1>4 DEF ReadMetadata, ReadShard, procVars, reqVars
<1>5. ~Crash
  BY DEF Crash, IndInv, TypeOK
<1>6. ~(\E s \in Sealer : Restart(s))
  BY DEF Restart, reqVars, IndInv, LockInv
<1>7. CASE Wipe \/ UNCHANGED vars
  BY <1>2, <1>7 DEF Wipe, vars, procVars, reqVars
<1>8. QED
  BY <1>1, <1>2, <1>3, <1>4, <1>5, <1>6, <1>7 DEF Next

LEMMA ReadStep == IndInv /\ ReadInv /\ [Next]_vars => ReadInv'
<1> SUFFICES ASSUME IndInv, ReadInv, [Next]_vars, NEW x \in Reader, seen'[x] # None
             PROVE  /\ up' /\ seen'[x] \in Key /\ seen'[x] = disk'["metadata"]
                    /\ told'[x] = None
  BY DEF ReadInv
<1>1. CASE UNCHANGED <<up, seen[x], told[x]>>
  <2>1. seen[x] # None /\ up /\ seen[x] \in Key /\ seen[x] = disk["metadata"] /\ told[x] = None
    BY <1>1 DEF ReadInv
  <2>2. disk'["metadata"] = disk["metadata"]
    BY <2>1, FileStep
  <2>3. QED
    BY <1>1, <2>1, <2>2
<1>2. ASSUME NEW y \in Reader, y # x, ReadMetadata(y) \/ ReadShard(y)
      PROVE  UNCHANGED <<up, seen[x], told[x]>>
  BY <1>2 DEF ReadMetadata, ReadShard, procVars, IndInv, TypeOK
<1>3. CASE ReadMetadata(x)
  BY <1>3 DEF ReadMetadata, procVars, IndInv, TypeOK
<1>4. ~ReadShard(x)
  BY DEF ReadShard, IndInv, TypeOK
<1>5. ~Crash
  BY DEF Crash
<1>6. ASSUME NEW s \in Sealer, Restart(s) PROVE FALSE
  BY <1>6 DEF Restart, readVars, ReadInv
<1>7. CASE Wipe \/ UNCHANGED vars \/ \E r \in Request : Handler(r)
  BY <1>1, <1>7 DEF Wipe, vars, procVars, readVars, Handler, Begin, Refuse, RunSaves,
     SignEnds, RunFails, Save, SaveFails
<1>8. QED
  BY <1>1, <1>2, <1>3, <1>4, <1>5, <1>6, <1>7 DEF Next

LEMMA ReadersAndSeals == Spec => [](IndInv /\ SealInv /\ ReadInv)
<1>1. Init => SealInv /\ ReadInv
  BY DEF Init, SealInv, ReadInv
<1>2. QED
  BY <1>1, Invariant, SealStep, ReadStep, PTL DEF Spec

\* A share the process can open stays one it can open: a refresh writes it
\* under the seal in force, and a crash at any file operation leaves the old
\* share or the new one.
THEOREM StaysUsableHolds == Spec => StaysUsable
<1> DEFINE Step == disk["shard"] \in Share /\ disk["shard"].seal = sealer /\ sealer' = sealer
                     => \/ disk'["shard"] \in Share /\ disk'["shard"].seal = sealer
                        \/ ~up /\ disk'["shard"] = None
<1>1. IndInv /\ SealInv /\ [Next]_vars => Step
  BY FileStep DEF IndInv, SaveInv, SealInv
<1>2. QED
  BY <1>1, ReadersAndSeals, PTL DEF Spec, StaysUsable

\* GET /signer reads metadata and shard without the lock, and yet answers only
\* with a key the store holds a shard of.
THEOREM SignerAnswerTrueHolds == Spec => SignerAnswerTrue
<1> DEFINE Step == \A x \in Reader : seen[x] # None /\ told'[x] \in Key =>
                     disk["shard"] \notin {None, Torn} /\ disk["shard"].key = told'[x]
<1>1. IndInv /\ ReadInv /\ [Next]_vars => Step
  <2> SUFFICES ASSUME IndInv, ReadInv, [Next]_vars, NEW x \in Reader, seen[x] # None,
                      told'[x] \in Key
               PROVE  disk["shard"] \notin {None, Torn} /\ disk["shard"].key = told'[x]
    OBVIOUS
  <2> USE SealAssumption, AnswerAssumption DEF Key
  <2>1. told[x] = None /\ seen[x] = disk["metadata"]
    BY DEF ReadInv
  <2>2. told'[x] # told[x]
    BY <2>1
  <2>3. ReadShard(x)
    <3>1. ASSUME NEW y \in Reader, y # x, ReadMetadata(y) \/ ReadShard(y) PROVE FALSE
      BY <2>2, <3>1 DEF ReadMetadata, ReadShard, IndInv, TypeOK
    <3>2. ~ReadMetadata(x)
      BY DEF ReadMetadata
    <3>3. ~Crash
      BY <2>1, <2>2 DEF Crash
    <3>4. QED
      BY <2>2, <3>1, <3>2, <3>3 DEF Next, vars, Wipe, Restart, procVars, readVars, Handler,
         Begin, Refuse, RunSaves, SignEnds, RunFails, Save, SaveFails
  <2>4. told'[x] = Verdict(seen[x])
    BY <2>3 DEF ReadShard, IndInv, TypeOK
  <2>5. disk["shard"] # None /\ Opens(sealer, disk["shard"]) /\ told'[x] = seen[x]
    BY <2>4 DEF Verdict
  <2>6. QED
    BY <2>1, <2>5 DEF Opens, IndInv, ShardWhole
<1>2. QED
  BY <1>1, ReadersAndSeals, PTL DEF Spec, SignerAnswerTrue
=============================================================================
