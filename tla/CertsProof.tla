----------------------------- MODULE CertsProof -----------------------------
(***************************************************************************)
(* Proofs about the provisioning of certificates, for any leaves of xtask, *)
(* any enrolments in the CA's directory and on hosts, under the same names *)
(* or others, and any number of interruptions and deletions.               *)
(*                                                                         *)
(* LeavesChain alone is not inductive: a pair reaches the disk in four     *)
(* file operations, a signed certificate in two, and what the later ones   *)
(* will write was decided before the first.  PenInv says what may be left  *)
(* to do: a pair was absent as a whole when its task began, its second     *)
(* file will be of the key in the first, the CA is only made while no leaf *)
(* is there, and the CA's key does not change under a certificate that is  *)
(* being made or signed beside it.  No step of the argument needs the keys *)
(* to be new.                                                              *)
(***************************************************************************)
EXTENDS Certs, SequenceTheorems, TLAPS

Put(g, c)    == [op |-> "put", file |-> g, content |-> c]
Rename(g, c) == [op |-> "rename", file |-> g, content |-> c]
Tmp(f)       == <<f[1], f[2], f[3], "tmp">>
At(p, ext)   == <<p[1], p[2], ext, "file">>

\* The pair f1, f2 is being written: key k, then content c.
Writing(f1, f2, k, c) ==
  \/ /\ ~Exists(f1) /\ ~Exists(f2)
     /\ \/ pen = <<Put(Tmp(f1), Torn), Rename(f1, Bare(k)), Put(Tmp(f2), Torn), Rename(f2, c)>>
        \/ pen = <<Rename(f1, Bare(k)), Put(Tmp(f2), Torn), Rename(f2, c)>>
  \/ /\ files[f1] = Bare(k) /\ ~Exists(f2)
     /\ \/ pen = <<Put(Tmp(f2), Torn), Rename(f2, c)>>
        \/ pen = <<Rename(f2, c)>>

\* File g is being written in place.
Putting(g, c) == pen = <<Put(g, Torn), Put(g, c)>> \/ pen = <<Put(g, c)>>

MakingCa ==
  /\ \A f \in LeafFiles : ~Exists(f)
  /\ \E k : Writing(CaKey, CaCert, k, [key |-> k, issuer |-> k])

MakingLeaf ==
  \E i \in DOMAIN Leaves : \E k :
    Writing(At(<<Home, Leaves[i]>>, "key"), At(<<Home, Leaves[i]>>, "cert"), k,
            [key |-> k, issuer |-> files[CaKey].key])

MakingCsr ==
  \E e \in Enrolled : \E k : Writing(At(e, "key"), At(e, "csr"), k, Bare(k))

Signing ==
  \E p \in Signable : \E k :
    Putting(At(p, "cert"), [key |-> k, issuer |-> files[CaKey].key])

Copying ==
  \E e \in Enrolled : e[1] # Home /\ \E c : Putting(At(<<Home, e[2]>>, "csr"), c)

PenInv == pen = <<>> \/ MakingCa \/ MakingLeaf \/ MakingCsr \/ Signing \/ Copying

\* What a command may still have to do.
Task ==
  {[do |-> "ca"]} \cup {[do |-> "leaf", at |-> <<Home, Leaves[i]>>] : i \in DOMAIN Leaves}
    \cup {[do |-> "csr", at |-> e] : e \in Enrolled}
    \cup {[do |-> "read", at |-> p] : p \in Signable}
    \cup {[do |-> "sign", at |-> p] : p \in Signable}
    \cup {[do |-> "copy", at |-> e] : e \in {e \in Enrolled : e[1] # Home}}

DiskInv == DOMAIN files = File /\ todo \in Seq(Task)

IndInv == DiskInv /\ PenInv /\ LeavesChain

-----------------------------------------------------------------------------
(* Files                                                                   *)

LEMMA Names ==
  /\ CaKey \in File /\ CaCert \in File
  /\ \A i \in DOMAIN Leaves : \A ext \in {"key", "cert"} : At(<<Home, Leaves[i]>>, ext) \in LeafFiles
  /\ \A p \in Signable : \A ext \in {"key", "cert", "csr"} : At(p, ext) \in File
  /\ LeafFiles \subseteq File
<1>1. \A p \in Place : \A ext \in {"key", "cert", "csr"} : At(p, ext) \in File
  BY DEF File, At
<1>2. \A i \in DOMAIN Leaves : <<Home, Leaves[i]>> \in Place
  BY DEF Place
<1>3. <<Home, Ca>> \in Place /\ Signable \subseteq Place
  BY DEF Place
<1>4. CaKey = At(<<Home, Ca>>, "key") /\ CaCert = At(<<Home, Ca>>, "cert")
  BY DEF CaKey, CaCert, At
<1>5. ASSUME NEW i \in DOMAIN Leaves, NEW ext \in {"key", "cert"}
      PROVE  At(<<Home, Leaves[i]>>, ext) \in LeafFiles
  <2>1. At(<<Home, Leaves[i]>>, ext) \in File
    BY <1>1, <1>2
  <2>2. At(<<Home, Leaves[i]>>, ext) = <<Home, Leaves[i], ext, "file">>
    BY DEF At
  <2>3. Leaves[i] # Ca
    BY CertsAssumption
  <2>4. PICK f : f = <<Home, Leaves[i], ext, "file">>
    OBVIOUS
  <2>5. f[1] = Home /\ f[2] = Leaves[i] /\ f[3] = ext /\ f[4] = "file"
    BY <2>4
  <2>6. f \in LeafFiles
    BY <2>1, <2>2, <2>3, <2>4, <2>5 DEF LeafFiles
  <2>7. QED
    BY <2>2, <2>4, <2>6
<1>6. QED
  BY <1>1, <1>3, <1>4, <1>5 DEF LeafFiles

\* What is enrolled is named, and goes by another name than the CA.
LEMMA SignableNames ==
  /\ Enrolled \subseteq Signable
  /\ \A e \in Enrolled : <<Home, e[2]>> \in Signable
  /\ \A p \in Signable : \E e \in Enrolled : p[2] = e[2]
  /\ \A p \in Signable : p[2] # Ca
<1>1. \A p \in Signable : \E e \in Enrolled : p[2] = e[2]
  BY DEF Signable
<1>2. QED
  BY <1>1, CertsAssumption DEF Signable

\* The parts of a file's name.
LEMMA AtParts ==
  ASSUME NEW p, NEW ext
  PROVE  At(p, ext)[1] = p[1] /\ At(p, ext)[2] = p[2] /\ At(p, ext)[3] = ext /\ At(p, ext)[4] = "file"
BY DEF At

\* The CA's files are nobody else's.
LEMMA CaApart ==
  /\ CaKey # CaCert /\ CaKey \notin LeafFiles /\ CaCert \notin LeafFiles
  /\ CaKey[4] = "file" /\ CaCert[4] = "file"
  /\ \A p \in Signable : \A ext : At(p, ext) \notin {CaKey, CaCert}
<1>1. /\ CaKey[2] = Ca /\ CaCert[2] = Ca /\ CaKey[3] = "key" /\ CaCert[3] = "cert"
      /\ CaKey[4] = "file" /\ CaCert[4] = "file"
  BY DEF CaKey, CaCert
<1>2. \A f \in LeafFiles : f[2] # Ca
  BY DEF LeafFiles
<1>3. \A p \in Signable : \A ext : At(p, ext)[2] # Ca
  BY SignableNames, AtParts
<1>4. QED
  BY <1>1, <1>2, <1>3

-----------------------------------------------------------------------------
(* One file operation                                                      *)

LEMMA PutEffect ==
  ASSUME Write, NEW g, NEW c, Head(pen) = Put(g, c)
  PROVE  \A f \in File : files'[f] = IF f = g THEN c ELSE files[f]
<1> DEFINE w == Head(pen)
<1>1. w.file = g /\ w.content = c /\ w.op = "put"
  BY DEF Put
<1>2. files' = [f \in File |->
        IF f = w.file THEN w.content
        ELSE IF w.op = "rename" /\ f = <<w.file[1], w.file[2], w.file[3], "tmp">>
             THEN None ELSE files[f]]
  BY DEF Write
<1> HIDE DEF w
<1>3. QED
  BY <1>1, <1>2

LEMMA RenameEffect ==
  ASSUME Write, NEW g, NEW c, Head(pen) = Rename(g, c)
  PROVE  \A f \in File : files'[f] = IF f = g THEN c
                                     ELSE IF f = Tmp(g) THEN None ELSE files[f]
<1> DEFINE w == Head(pen)
<1>1. w.file = g /\ w.content = c /\ w.op = "rename"
  BY DEF Rename
<1>2. files' = [f \in File |->
        IF f = w.file THEN w.content
        ELSE IF w.op = "rename" /\ f = <<w.file[1], w.file[2], w.file[3], "tmp">>
             THEN None ELSE files[f]]
  BY DEF Write
<1> HIDE DEF w
<1>3. QED
  BY <1>1, <1>2 DEF Tmp

\* Of the complete files, an operation on a pair changes none, or makes the first
\* one, or, with the first one there, the second.
LEMMA WritingStep ==
  ASSUME Write, NEW f1 \in File, NEW f2 \in File, f1 # f2, f1[4] = "file", f2[4] = "file", NEW k, NEW c,
         Writing(f1, f2, k, c)
  PROVE  \/ /\ \A f \in File : f[4] = "file" => files'[f] = files[f]
            /\ Writing(f1, f2, k, c)'
         \/ /\ \A f \in File : f[4] = "file" /\ f # f1 => files'[f] = files[f]
            /\ ~Exists(f1) /\ ~Exists(f2) /\ files'[f1] = Bare(k)
            /\ Writing(f1, f2, k, c)'
         \/ /\ \A f \in File : f[4] = "file" /\ f # f2 => files'[f] = files[f]
            /\ ~Exists(f2) /\ files[f1] = Bare(k) /\ files'[f2] = c
            /\ pen' = <<>>
<1>1. Tmp(f1)[4] = "tmp" /\ Tmp(f2)[4] = "tmp"
  BY DEF Tmp
<1>2. pen' = Tail(pen)
  BY DEF Write
<1>3. CASE /\ ~Exists(f1) /\ ~Exists(f2)
           /\ pen = <<Put(Tmp(f1), Torn), Rename(f1, Bare(k)), Put(Tmp(f2), Torn), Rename(f2, c)>>
  <2>1. Head(pen) = Put(Tmp(f1), Torn)
    BY <1>3
  <2>2. pen' = <<Rename(f1, Bare(k)), Put(Tmp(f2), Torn), Rename(f2, c)>>
    BY <1>2, <1>3
  <2>3. \A f \in File : f[4] = "file" => files'[f] = files[f]
    BY <1>1, <2>1, PutEffect
  <2>4. ~Exists(f1)' /\ ~Exists(f2)'
    BY <1>3, <2>3 DEF Exists
  <2>5. QED
    BY <2>2, <2>3, <2>4 DEF Writing
<1>4. CASE /\ ~Exists(f1) /\ ~Exists(f2)
           /\ pen = <<Rename(f1, Bare(k)), Put(Tmp(f2), Torn), Rename(f2, c)>>
  <2>1. Head(pen) = Rename(f1, Bare(k))
    BY <1>4
  <2>2. pen' = <<Put(Tmp(f2), Torn), Rename(f2, c)>>
    BY <1>2, <1>4
  <2>3. \A f \in File : f[4] = "file" /\ f # f1 => files'[f] = files[f]
    BY <1>1, <2>1, RenameEffect
  <2>4. files'[f1] = Bare(k) /\ ~Exists(f2)'
    BY <1>4, <2>1, <2>3, RenameEffect DEF Exists
  <2>5. QED
    BY <1>4, <2>2, <2>3, <2>4 DEF Writing
<1>5. CASE /\ files[f1] = Bare(k) /\ ~Exists(f2)
           /\ pen = <<Put(Tmp(f2), Torn), Rename(f2, c)>>
  <2>1. Head(pen) = Put(Tmp(f2), Torn)
    BY <1>5
  <2>2. pen' = <<Rename(f2, c)>>
    BY <1>2, <1>5
  <2>3. \A f \in File : f[4] = "file" => files'[f] = files[f]
    BY <1>1, <2>1, PutEffect
  <2>4. files'[f1] = Bare(k) /\ ~Exists(f2)'
    BY <1>5, <2>3 DEF Exists
  <2>5. QED
    BY <2>2, <2>3, <2>4 DEF Writing
<1>6. CASE /\ files[f1] = Bare(k) /\ ~Exists(f2)
           /\ pen = <<Rename(f2, c)>>
  <2>1. Head(pen) = Rename(f2, c)
    BY <1>6
  <2>2. pen' = <<>>
    BY <1>2, <1>6
  <2>3. \A f \in File : f[4] = "file" /\ f # f2 => files'[f] = files[f]
    BY <1>1, <2>1, RenameEffect
  <2>4. files'[f2] = c
    BY <2>1, RenameEffect
  <2>5. QED
    BY <1>6, <2>2, <2>3, <2>4
<1>7. QED
  BY <1>3, <1>4, <1>5, <1>6 DEF Writing

-----------------------------------------------------------------------------
(* What a step has to leave alone                                          *)

LEMMA ChainKept ==
  ASSUME ChainsToCa,
         \A f \in {CaKey, CaCert} : files'[f] = files[f] \/ files'[f] = None,
         \A f \in LeafFiles : f[3] = "cert" =>
            files'[f] = files[f] \/ ~Whole(f)' \/ files'[f].issuer = files[CaKey].key
  PROVE  ChainsToCa'
<1> SUFFICES ASSUME Exists(CaKey)', Exists(CaCert)'
             PROVE  /\ files'[CaCert] = [key |-> files'[CaKey].key, issuer |-> files'[CaKey].key]
                    /\ \A f \in LeafFiles : f[3] = "cert" /\ Whole(f)' =>
                         files'[f].issuer = files'[CaKey].key
  BY DEF ChainsToCa, LeafFiles
<1>1. files'[CaKey] = files[CaKey] /\ files'[CaCert] = files[CaCert]
  BY DEF Exists
<1>2. Exists(CaKey) /\ Exists(CaCert)
  BY <1>1 DEF Exists
<1>3. ASSUME NEW f \in LeafFiles, f[3] = "cert", Whole(f)'
      PROVE  files'[f].issuer = files'[CaKey].key
  <2>1. CASE files'[f] = files[f]
    BY <1>1, <1>2, <1>3, <2>1 DEF ChainsToCa, Whole
  <2>2. CASE files'[f].issuer = files[CaKey].key
    BY <1>1, <2>2
  <2>3. QED
    BY <1>3, <2>1, <2>2
<1>4. QED
  BY <1>1, <1>2, <1>3 DEF ChainsToCa

LEMMA LeafPairsKept ==
  ASSUME LeafPairsMatch,
         \A i \in DOMAIN Leaves : \A ext \in {"key", "cert"} : XtaskOnly(i) =>
            \/ files'[At(<<Home, Leaves[i]>>, ext)] = files[At(<<Home, Leaves[i]>>, ext)]
            \/ files'[At(<<Home, Leaves[i]>>, ext)] = None
  PROVE  LeafPairsMatch'
<1> SUFFICES ASSUME NEW i \in DOMAIN Leaves, XtaskOnly(i),
                    Exists(<<Home, Leaves[i], "cert", "file">>)',
                    Exists(<<Home, Leaves[i], "key", "file">>)'
             PROVE  files'[<<Home, Leaves[i], "cert", "file">>].key =
                      files'[<<Home, Leaves[i], "key", "file">>].key
  BY DEF LeafPairsMatch, XtaskOnly
<1>1. PICK f, g : f = <<Home, Leaves[i], "cert", "file">> /\ g = <<Home, Leaves[i], "key", "file">>
  OBVIOUS
<1>2. f = At(<<Home, Leaves[i]>>, "cert") /\ g = At(<<Home, Leaves[i]>>, "key")
  BY <1>1 DEF At
<1>3. files'[f] = files[f] /\ files'[g] = files[g]
  BY <1>1, <1>2 DEF Exists
<1>4. QED
  BY <1>1, <1>3 DEF LeafPairsMatch, Exists

LEMMA CsrPairsKept ==
  ASSUME CsrPairsMatch,
         \A e \in Enrolled : \A ext \in {"key", "csr"} : EnrolOnly(e) =>
            files'[At(e, ext)] = files[At(e, ext)] \/ files'[At(e, ext)] = None
  PROVE  CsrPairsMatch'
<1> SUFFICES ASSUME NEW e \in Enrolled, EnrolOnly(e), Exists(At(e, "csr"))', Exists(At(e, "key"))'
             PROVE  files'[At(e, "csr")].key = files'[At(e, "key")].key
  BY DEF CsrPairsMatch, EnrolOnly, At, CsrOf
<1>1. PICK f, g : f = At(e, "csr") /\ g = At(e, "key")
  OBVIOUS
<1>2. files'[f] = files[f] /\ files'[g] = files[g]
  BY <1>1 DEF Exists
<1>3. QED
  BY <1>1, <1>2 DEF CsrPairsMatch, Exists, At, CsrOf

LEMMA SameFiles ==
  ASSUME LeavesChain, UNCHANGED files
  PROVE  LeavesChain'
BY ChainKept, LeafPairsKept, CsrPairsKept DEF LeavesChain

\* What a command may not do to a complete file.
Kept == \A f \in File : f[4] = "file" /\ Exists(f) =>
          \/ files'[f] = files[f]
          \/ Head(pen).op = "put" /\ f[3] \in {"cert", "csr"} /\ f # CaCert

-----------------------------------------------------------------------------
(* A file operation of each kind of task                                   *)

LEMMA CaStep ==
  ASSUME IndInv, Write, MakingCa
  PROVE  PenInv' /\ LeavesChain' /\ Kept
<1>1. PICK k : Writing(CaKey, CaCert, k, [key |-> k, issuer |-> k])
  BY DEF MakingCa
<1>2. PICK c : c = [key |-> k, issuer |-> k]
  OBVIOUS
<1>3. /\ CaKey \in File /\ CaCert \in File /\ CaKey # CaCert
      /\ CaKey \notin LeafFiles /\ CaCert \notin LeafFiles
  BY Names, CaApart
<1>4. CaKey[4] = "file" /\ CaCert[4] = "file"
  BY CaApart
<1>5. \A f \in LeafFiles : f \in File /\ f[4] = "file" /\ ~Exists(f)
  BY DEF MakingCa, LeafFiles
<1>6. Bare(k).key = k
  BY DEF Bare
<1>7. \/ /\ \A f \in File : f[4] = "file" => files'[f] = files[f]
         /\ Writing(CaKey, CaCert, k, c)'
      \/ /\ \A f \in File : f[4] = "file" /\ f # CaKey => files'[f] = files[f]
         /\ ~Exists(CaKey) /\ ~Exists(CaCert) /\ files'[CaKey] = Bare(k)
         /\ Writing(CaKey, CaCert, k, c)'
      \/ /\ \A f \in File : f[4] = "file" /\ f # CaCert => files'[f] = files[f]
         /\ ~Exists(CaCert) /\ files[CaKey] = Bare(k) /\ files'[CaCert] = c
         /\ pen' = <<>>
  BY <1>1, <1>2, <1>3, <1>4, WritingStep
<1>8. \A f \in LeafFiles : files'[f] = files[f] /\ ~Exists(f)'
  <2>1. \A f \in LeafFiles : files'[f] = files[f]
    BY <1>3, <1>5, <1>7
  <2>2. QED
    BY <1>5, <2>1 DEF Exists
<1>9. PenInv'
  <2>1. CASE Writing(CaKey, CaCert, k, c)'
    <3>1. Writing(CaKey, CaCert, k, [key |-> k, issuer |-> k])'
      BY <1>2, <2>1
    <3>2. MakingCa'
      BY <1>8, <3>1 DEF MakingCa, LeafFiles
    <3>3. QED
      BY <3>2 DEF PenInv
  <2>2. CASE pen' = <<>>
    BY <2>2 DEF PenInv
  <2>3. QED
    BY <1>7, <2>1, <2>2
<1>10. Kept
  BY <1>3, <1>7 DEF Kept, Exists
<1>11. ChainsToCa'
  <2>1. Exists(CaKey)' /\ Exists(CaCert)' =>
          files'[CaCert] = [key |-> files'[CaKey].key, issuer |-> files'[CaKey].key]
    <3>1. CASE \A f \in File : f[4] = "file" => files'[f] = files[f]
      BY <1>3, <1>4, <3>1 DEF IndInv, LeavesChain, ChainsToCa, Exists
    <3>2. CASE ~Exists(CaCert)'
      BY <3>2
    <3>3. CASE files'[CaKey] = Bare(k) /\ files'[CaCert] = c
      BY <1>2, <1>6, <3>3
    <3>4. QED
      BY <1>3, <1>4, <1>7, <3>1, <3>2, <3>3 DEF Exists
  <2>2. QED
    BY <1>8, <2>1 DEF ChainsToCa, LeafFiles, Exists, Whole
<1>12. LeafPairsMatch'
  BY <1>8, Names, LeafPairsKept DEF IndInv, LeavesChain
<1>13. CsrPairsMatch'
  <2>1. \A e \in Enrolled : \A ext \in {"key", "csr"} : files'[At(e, ext)] = files[At(e, ext)]
    BY <1>7, Names, SignableNames, CaApart, AtParts
  <2>2. QED
    BY <2>1, CsrPairsKept DEF IndInv, LeavesChain
<1>14. QED
  BY <1>9, <1>10, <1>11, <1>12, <1>13 DEF LeavesChain

LEMMA LeafStep ==
  ASSUME IndInv, Write, MakingLeaf
  PROVE  PenInv' /\ LeavesChain' /\ Kept
<1>0. PICK i \in DOMAIN Leaves : \E k :
        Writing(At(<<Home, Leaves[i]>>, "key"), At(<<Home, Leaves[i]>>, "cert"), k,
                [key |-> k, issuer |-> files[CaKey].key])
  BY DEF MakingLeaf
<1>1. PICK k :
        Writing(At(<<Home, Leaves[i]>>, "key"), At(<<Home, Leaves[i]>>, "cert"), k,
                [key |-> k, issuer |-> files[CaKey].key])
  BY <1>0
<1>2. PICK c : c = [key |-> k, issuer |-> files[CaKey].key]
  OBVIOUS
<1>3. PICK f1, f2 : f1 = At(<<Home, Leaves[i]>>, "key") /\ f2 = At(<<Home, Leaves[i]>>, "cert")
  OBVIOUS
<1>4. f1 = <<Home, Leaves[i], "key", "file">> /\ f2 = <<Home, Leaves[i], "cert", "file">>
  BY <1>3 DEF At
<1>5. f1 \in LeafFiles /\ f2 \in LeafFiles
  BY <1>3, Names
<1>6. /\ f1 # f2 /\ f1[4] = "file" /\ f2[4] = "file" /\ f1[3] = "key" /\ f2[3] = "cert"
      /\ f1[2] = Leaves[i] /\ f2[2] = Leaves[i] /\ f1[1] = Home /\ f2[1] = Home
  BY <1>4
<1>7. /\ CaKey \in File /\ CaCert \in File /\ CaKey \notin {f1, f2} /\ CaCert \notin {f1, f2}
      /\ f1 \in File /\ f2 \in File /\ CaKey[4] = "file" /\ CaCert[4] = "file"
  BY <1>5, Names, CaApart
<1>8. \A f \in LeafFiles : f \in File /\ f[4] = "file"
  BY DEF LeafFiles
<1>9. Bare(k).key = k
  BY DEF Bare
<1>10. \/ /\ \A f \in File : f[4] = "file" => files'[f] = files[f]
          /\ Writing(f1, f2, k, c)'
       \/ /\ \A f \in File : f[4] = "file" /\ f # f1 => files'[f] = files[f]
          /\ ~Exists(f1) /\ ~Exists(f2) /\ files'[f1] = Bare(k)
          /\ Writing(f1, f2, k, c)'
       \/ /\ \A f \in File : f[4] = "file" /\ f # f2 => files'[f] = files[f]
          /\ ~Exists(f2) /\ files[f1] = Bare(k) /\ files'[f2] = c
          /\ pen' = <<>>
  BY <1>1, <1>2, <1>3, <1>6, <1>7, WritingStep
<1>11. files'[CaKey] = files[CaKey] /\ files'[CaCert] = files[CaCert]
  BY <1>7, <1>10
<1>12. PenInv'
  <2>1. CASE Writing(f1, f2, k, c)'
    <3>1. c = [key |-> k, issuer |-> files'[CaKey].key]
      BY <1>2, <1>11
    <3>2. Writing(At(<<Home, Leaves[i]>>, "key"), At(<<Home, Leaves[i]>>, "cert"), k,
                  [key |-> k, issuer |-> files[CaKey].key])'
      BY <1>3, <2>1, <3>1
    <3>3. MakingLeaf'
      BY <3>2 DEF MakingLeaf
    <3>4. QED
      BY <3>3 DEF PenInv
  <2>2. CASE pen' = <<>>
    BY <2>2 DEF PenInv
  <2>3. QED
    BY <1>10, <2>1, <2>2
<1>13. Kept
  BY <1>7, <1>10 DEF Kept, Exists
<1>14. ChainsToCa'
  <2>1. \A f \in LeafFiles : f[3] = "cert" =>
          files'[f] = files[f] \/ files'[f].issuer = files[CaKey].key
    BY <1>2, <1>6, <1>8, <1>10
  <2>2. QED
    BY <1>11, <2>1, ChainKept DEF IndInv, LeavesChain
<1>15. LeafPairsMatch'
  <2>1. CASE \A f \in File : f[4] = "file" => files'[f] = files[f]
    BY <1>8, <2>1, Names, LeafPairsKept DEF IndInv, LeavesChain
  <2>2. SUFFICES ASSUME NEW j \in DOMAIN Leaves, XtaskOnly(j), NEW f \in LeafFiles, NEW g \in LeafFiles,
                        f = <<Home, Leaves[j], "cert", "file">>, g = <<Home, Leaves[j], "key", "file">>,
                        Exists(f)', Exists(g)',
                        ~(\A h \in File : h[4] = "file" => files'[h] = files[h])
                 PROVE  files'[f].key = files'[g].key
    BY <2>1, Names DEF LeafPairsMatch, XtaskOnly, At
  <2>3. CASE Leaves[j] = Leaves[i]
    <3>1. f = f2 /\ g = f1
      BY <1>4, <2>2, <2>3
    <3>2. QED
      BY <1>2, <1>7, <1>8, <1>9, <1>10, <1>6, <2>2, <3>1 DEF Exists
  <2>4. CASE Leaves[j] # Leaves[i]
    <3>1. f[2] = Leaves[j] /\ g[2] = Leaves[j]
      BY <2>2
    <3>2. files'[f] = files[f] /\ files'[g] = files[g]
      BY <1>6, <1>8, <1>10, <2>4, <3>1
    <3>3. QED
      BY <2>2, <3>2 DEF IndInv, LeavesChain, LeafPairsMatch, Exists
  <2>5. QED
    BY <2>3, <2>4
<1>16. CsrPairsMatch'
  <2>1. ASSUME NEW e \in Enrolled, NEW ext \in {"key", "csr"}, EnrolOnly(e)
        PROVE  files'[At(e, ext)] = files[At(e, ext)]
    <3>1. PICK f : f = At(e, ext)
      OBVIOUS
    <3>2. f[1] = e[1] /\ f[2] = e[2] /\ f[3] = ext /\ f[4] = "file" /\ f \in File
      BY <3>1, AtParts, Names, SignableNames
    <3>3. f # f1 /\ f # f2
      BY <1>6, <2>1, <3>2 DEF EnrolOnly
    <3>4. QED
      BY <1>10, <3>1, <3>2, <3>3
  <2>2. QED
    BY <2>1, CsrPairsKept DEF IndInv, LeavesChain
<1>17. QED
  BY <1>12, <1>13, <1>14, <1>15, <1>16 DEF LeavesChain

\* Key and CSR of an enrolment, beside the CA or elsewhere.
LEMMA CsrStep ==
  ASSUME IndInv, Write, MakingCsr
  PROVE  PenInv' /\ LeavesChain' /\ Kept
<1>0. PICK e \in Enrolled : \E k : Writing(At(e, "key"), At(e, "csr"), k, Bare(k))
  BY DEF MakingCsr
<1>1. PICK k : Writing(At(e, "key"), At(e, "csr"), k, Bare(k))
  BY <1>0
<1>2. PICK f1, f2, c : f1 = At(e, "key") /\ f2 = At(e, "csr") /\ c = Bare(k)
  OBVIOUS
<1>3. /\ f1 # f2 /\ f1[4] = "file" /\ f2[4] = "file" /\ f1[3] = "key" /\ f2[3] = "csr"
      /\ f1[1] = e[1] /\ f2[1] = e[1] /\ f1[2] = e[2] /\ f2[2] = e[2]
  BY <1>2 DEF At
<1>4. /\ f1 \in File /\ f2 \in File /\ CaKey \in File /\ CaCert \in File
      /\ CaKey \notin {f1, f2} /\ CaCert \notin {f1, f2} /\ CaKey[4] = "file" /\ CaCert[4] = "file"
  BY <1>2, Names, SignableNames, CaApart
<1>5. \A f \in LeafFiles : f \in File /\ f[4] = "file"
  BY DEF LeafFiles
<1>6. \/ /\ \A f \in File : f[4] = "file" => files'[f] = files[f]
         /\ Writing(f1, f2, k, c)'
      \/ /\ \A f \in File : f[4] = "file" /\ f # f1 => files'[f] = files[f]
         /\ ~Exists(f1) /\ ~Exists(f2) /\ files'[f1] = Bare(k)
         /\ Writing(f1, f2, k, c)'
      \/ /\ \A f \in File : f[4] = "file" /\ f # f2 => files'[f] = files[f]
         /\ ~Exists(f2) /\ files[f1] = Bare(k) /\ files'[f2] = c
         /\ pen' = <<>>
  BY <1>1, <1>2, <1>3, <1>4, WritingStep
<1>7. PenInv'
  <2>1. CASE Writing(f1, f2, k, c)'
    <3>1. Writing(At(e, "key"), At(e, "csr"), k, Bare(k))'
      BY <1>2, <2>1
    <3>2. MakingCsr'
      BY <3>1 DEF MakingCsr
    <3>3. QED
      BY <3>2 DEF PenInv
  <2>2. CASE pen' = <<>>
    BY <2>2 DEF PenInv
  <2>3. QED
    BY <1>6, <2>1, <2>2
<1>8. Kept
  BY <1>4, <1>6 DEF Kept, Exists
<1>9. ChainsToCa'
  <2>1. files'[CaKey] = files[CaKey] /\ files'[CaCert] = files[CaCert]
    BY <1>4, <1>6
  <2>2. \A f \in LeafFiles : f[3] = "cert" => files'[f] = files[f]
    BY <1>3, <1>5, <1>6
  <2>3. QED
    BY <2>1, <2>2, ChainKept DEF IndInv, LeavesChain
<1>10. LeafPairsMatch'
  <2>1. ASSUME NEW i \in DOMAIN Leaves, NEW ext \in {"key", "cert"}, XtaskOnly(i)
        PROVE  files'[At(<<Home, Leaves[i]>>, ext)] = files[At(<<Home, Leaves[i]>>, ext)]
    <3>1. PICK f \in LeafFiles : f = At(<<Home, Leaves[i]>>, ext)
      BY Names
    <3>2. f[2] = Leaves[i]
      BY <3>1 DEF At
    <3>3. f # f1 /\ f # f2
      BY <1>3, <2>1, <3>2 DEF XtaskOnly
    <3>4. QED
      BY <1>5, <1>6, <3>1, <3>3
  <2>2. QED
    BY <2>1, LeafPairsKept DEF IndInv, LeavesChain
<1>11. CsrPairsMatch'
  <2>1. CASE \A f \in File : f[4] = "file" => files'[f] = files[f]
    BY <2>1, Names, SignableNames, AtParts, CsrPairsKept DEF IndInv, LeavesChain
  <2>2. SUFFICES ASSUME NEW d \in Enrolled, EnrolOnly(d), NEW f \in File, NEW g \in File,
                        f = At(d, "csr"), g = At(d, "key"), Exists(f)', Exists(g)',
                        ~(\A h \in File : h[4] = "file" => files'[h] = files[h])
                 PROVE  files'[f].key = files'[g].key
    <3>1. \A d \in Enrolled : /\ At(d, "csr") \in File /\ At(d, "key") \in File
                              /\ CsrOf(d) = At(d, "csr") /\ <<d[1], d[2], "key", "file">> = At(d, "key")
      BY Names, SignableNames DEF At, CsrOf
    <3>2. CsrPairsMatch' <=> \A d \in Enrolled :
            EnrolOnly(d) /\ Exists(At(d, "csr"))' /\ Exists(At(d, "key"))' =>
              files'[At(d, "csr")].key = files'[At(d, "key")].key
      BY <3>1 DEF CsrPairsMatch, EnrolOnly
    <3>3. QED
      BY <2>1, <3>1, <3>2
  <2>3. f[4] = "file" /\ g[4] = "file" /\ f[3] = "csr" /\ g[3] = "key"
    BY <2>2, AtParts
  <2>4. CASE d[1] = e[1] /\ d[2] = e[2]
    <3>1. f = f2 /\ g = f1
      BY <1>2, <2>2, <2>4 DEF At
    <3>2. QED
      BY <1>2, <1>3, <1>6, <2>2, <2>3, <3>1 DEF Exists
  <2>5. CASE ~(d[1] = e[1] /\ d[2] = e[2])
    <3>1. f[1] = d[1] /\ f[2] = d[2] /\ g[1] = d[1] /\ g[2] = d[2]
      BY <2>2, AtParts
    <3>2. files'[f] = files[f] /\ files'[g] = files[g]
      BY <1>3, <1>6, <2>3, <2>5, <3>1
    <3>3. Exists(f) /\ Exists(g)
      BY <2>2, <3>2 DEF Exists
    <3>4. files[f].key = files[g].key
      BY <2>2, <3>3 DEF IndInv, LeavesChain, CsrPairsMatch, At, CsrOf
    <3>5. QED
      BY <3>2, <3>4
  <2>6. QED
    BY <2>4, <2>5
<1>12. QED
  BY <1>7, <1>8, <1>9, <1>10, <1>11 DEF LeavesChain

\* An operation in place writes its file only, torn or as it will be.
LEMMA PuttingStep ==
  ASSUME Write, NEW g, NEW c, Putting(g, c)
  PROVE  /\ \A f \in File : f # g => files'[f] = files[f]
         /\ g \in File => files'[g] \in {Torn, c}
         /\ pen' = <<>> \/ Putting(g, c)'
         /\ Head(pen).op = "put"
<1>1. PICK x : x = Put(g, c)
  OBVIOUS
<1>2. x = Put(g, c) /\ (pen = <<Put(g, Torn), x>> \/ pen = <<x>>)
  BY <1>1 DEF Putting
<1>3. PICK y \in {Torn, c} : Head(pen) = Put(g, y)
  BY <1>2
<1>4. \A f \in File : files'[f] = IF f = g THEN y ELSE files[f]
  BY <1>3, PutEffect
<1>5. pen' = <<>> \/ pen' = <<x>>
  <2>1. CASE pen = <<Put(g, Torn), x>>
    BY <2>1 DEF Write
  <2>2. CASE pen = <<x>>
    BY <2>2 DEF Write
  <2>3. QED
    BY <1>2, <2>1, <2>2
<1>6. Head(pen).op = "put"
  BY <1>3 DEF Put
<1>7. QED
  BY <1>2, <1>3, <1>4, <1>5, <1>6 DEF Putting

LEMMA SigningStep ==
  ASSUME IndInv, Write, Signing
  PROVE  PenInv' /\ LeavesChain' /\ Kept
<1>0. PICK p \in Signable : \E k : Putting(At(p, "cert"), [key |-> k, issuer |-> files[CaKey].key])
  BY DEF Signing
<1>1. PICK k : Putting(At(p, "cert"), [key |-> k, issuer |-> files[CaKey].key])
  BY <1>0
<1>2. PICK g, c : g = At(p, "cert") /\ c = [key |-> k, issuer |-> files[CaKey].key]
  OBVIOUS
<1>3. /\ g[1] = p[1] /\ g[2] = p[2] /\ g[3] = "cert" /\ g[4] = "file" /\ g \in File
      /\ g \notin {CaKey, CaCert}
  BY <1>2, AtParts, Names, CaApart
<1>4. /\ \A f \in File : f # g => files'[f] = files[f]
      /\ files'[g] \in {Torn, c}
      /\ pen' = <<>> \/ Putting(g, c)'
      /\ Head(pen).op = "put"
  BY <1>1, <1>2, <1>3, PuttingStep
<1>5. files'[CaKey] = files[CaKey] /\ files'[CaCert] = files[CaCert]
  BY <1>3, <1>4, Names
<1>6. PenInv'
  <2>1. CASE Putting(g, c)'
    <3>1. c = [key |-> k, issuer |-> files'[CaKey].key]
      BY <1>2, <1>5
    <3>2. Putting(At(p, "cert"), [key |-> k, issuer |-> files[CaKey].key])'
      BY <1>2, <2>1, <3>1
    <3>3. Signing'
      BY <3>2 DEF Signing
    <3>4. QED
      BY <3>3 DEF PenInv
  <2>2. CASE pen' = <<>>
    BY <2>2 DEF PenInv
  <2>3. QED
    BY <1>4, <2>1, <2>2
<1>7. Kept
  BY <1>3, <1>4 DEF Kept
<1>8. ChainsToCa'
  <2>1. files'[g] = Torn \/ files'[g].issuer = files[CaKey].key
    BY <1>2, <1>4
  <2>2. ~Whole(g)' \/ files'[g].issuer = files[CaKey].key
    BY <2>1 DEF Whole
  <2>3. \A f \in LeafFiles : files'[f] = files[f] \/ ~Whole(f)' \/ files'[f].issuer = files[CaKey].key
    <3>1. SUFFICES ASSUME NEW f \in LeafFiles
                   PROVE  files'[f] = files[f] \/ ~Whole(f)' \/ files'[f].issuer = files[CaKey].key
      OBVIOUS
    <3>2. CASE f = g
      BY <2>2, <3>2
    <3>3. CASE f # g
      BY <1>4, <3>3, Names
    <3>4. QED
      BY <3>2, <3>3
  <2>4. QED
    BY <1>5, <2>3, ChainKept DEF IndInv, LeavesChain
<1>9. LeafPairsMatch'
  <2>1. ASSUME NEW i \in DOMAIN Leaves, NEW ext \in {"key", "cert"}, XtaskOnly(i)
        PROVE  files'[At(<<Home, Leaves[i]>>, ext)] = files[At(<<Home, Leaves[i]>>, ext)]
    <3>1. PICK f \in LeafFiles : f = At(<<Home, Leaves[i]>>, ext)
      BY Names
    <3>2. f[2] = Leaves[i]
      BY <3>1 DEF At
    <3>3. f # g
      BY <1>3, <2>1, <3>2, SignableNames DEF XtaskOnly
    <3>4. QED
      BY <1>4, <3>1, <3>3, Names
  <2>2. QED
    BY <2>1, LeafPairsKept DEF IndInv, LeavesChain
<1>10. CsrPairsMatch'
  <2>1. \A e \in Enrolled : \A ext \in {"key", "csr"} : files'[At(e, ext)] = files[At(e, ext)]
    BY <1>3, <1>4, Names, SignableNames, AtParts
  <2>2. QED
    BY <2>1, CsrPairsKept DEF IndInv, LeavesChain
<1>11. QED
  BY <1>6, <1>7, <1>8, <1>9, <1>10 DEF LeavesChain

LEMMA CopyStep ==
  ASSUME IndInv, Write, Copying
  PROVE  PenInv' /\ LeavesChain' /\ Kept
<1>0. PICK e \in Enrolled : e[1] # Home /\ \E c : Putting(At(<<Home, e[2]>>, "csr"), c)
  BY DEF Copying
<1>1. PICK c : Putting(At(<<Home, e[2]>>, "csr"), c)
  BY <1>0
<1>2. PICK g : g = At(<<Home, e[2]>>, "csr")
  OBVIOUS
<1>3. /\ g[1] = Home /\ g[2] = e[2] /\ g[3] = "csr" /\ g[4] = "file" /\ g \in File
      /\ g \notin {CaKey, CaCert}
  <2>1. g[1] = Home /\ g[2] = e[2] /\ g[3] = "csr" /\ g[4] = "file"
    BY <1>2 DEF At
  <2>2. QED
    BY <1>2, <2>1, Names, SignableNames, CaApart
<1>4. /\ \A f \in File : f # g => files'[f] = files[f]
      /\ pen' = <<>> \/ Putting(g, c)'
      /\ Head(pen).op = "put"
  BY <1>1, <1>2, <1>3, PuttingStep
<1>5. files'[CaKey] = files[CaKey] /\ files'[CaCert] = files[CaCert]
  BY <1>3, <1>4, Names
<1>6. PenInv'
  <2>1. CASE Putting(g, c)'
    <3>1. Putting(At(<<Home, e[2]>>, "csr"), c)'
      BY <1>2, <2>1
    <3>2. Copying'
      BY <1>0, <3>1 DEF Copying
    <3>3. QED
      BY <3>2 DEF PenInv
  <2>2. CASE pen' = <<>>
    BY <2>2 DEF PenInv
  <2>3. QED
    BY <1>4, <2>1, <2>2
<1>7. Kept
  BY <1>3, <1>4 DEF Kept
<1>8. \A f \in LeafFiles : files'[f] = files[f]
  BY <1>3, <1>4, Names DEF LeafFiles
<1>9. ChainsToCa'
  BY <1>5, <1>8, ChainKept DEF IndInv, LeavesChain
<1>10. LeafPairsMatch'
  BY <1>8, Names, LeafPairsKept DEF IndInv, LeavesChain
<1>11. CsrPairsMatch'
  <2>1. ASSUME NEW d \in Enrolled, NEW ext \in {"key", "csr"}, EnrolOnly(d)
        PROVE  files'[At(d, ext)] = files[At(d, ext)]
    <3>1. PICK f : f = At(d, ext)
      OBVIOUS
    <3>2. f[1] = d[1] /\ f[2] = d[2] /\ f \in File
      BY <3>1, AtParts, Names, SignableNames
    <3>3. f # g
      BY <1>0, <1>3, <2>1, <3>2 DEF EnrolOnly
    <3>4. QED
      BY <1>4, <3>1, <3>2, <3>3
  <2>2. QED
    BY <2>1, CsrPairsKept DEF IndInv, LeavesChain
<1>12. QED
  BY <1>6, <1>7, <1>9, <1>10, <1>11 DEF LeavesChain

LEMMA WriteStep ==
  ASSUME IndInv, Write
  PROVE  IndInv' /\ Kept
<1>1. PenInv' /\ LeavesChain' /\ Kept
  BY CaStep, LeafStep, CsrStep, SigningStep, CopyStep DEF IndInv, PenInv, Write
<1>2. DiskInv'
  BY DEF IndInv, DiskInv, Write
<1>3. QED
  BY <1>1, <1>2 DEF IndInv

-----------------------------------------------------------------------------
(* A task begins                                                           *)

LEMMA TwoAndTwo ==
  ASSUME NEW u, NEW v, NEW x, NEW y
  PROVE  <<u, v>> \o <<x, y>> = <<u, v, x, y>>
<1> DEFINE S == {u, v, x, y}
           s == <<u, v>> \o <<x, y>>
<1>1. <<u, v>> \in Seq(S) /\ <<x, y>> \in Seq(S) /\ <<u, v, x, y>> \in Seq(S)
  OBVIOUS
<1>2. Len(<<u, v>>) = 2 /\ Len(<<x, y>>) = 2 /\ Len(<<u, v, x, y>>) = 4
  OBVIOUS
<1>3. s \in Seq(S) /\ Len(s) = 4
  BY <1>1, <1>2, ConcatProperties
<1>4. \A i \in 1 .. 4 : s[i] = <<u, v, x, y>>[i]
  BY <1>1, <1>2, ConcatProperties
<1> HIDE DEF s
<1>5. s = <<u, v, x, y>>
  BY <1>1, <1>2, <1>3, <1>4, SeqEqual
<1>6. QED
  BY <1>5 DEF s

LEMMA AtomicPair ==
  ASSUME NEW f1, NEW f2, NEW k, NEW c, ~Exists(f1), ~Exists(f2), UNCHANGED files,
         pen' = Atomic(f1, Bare(k)) \o Atomic(f2, c)
  PROVE  Writing(f1, f2, k, c)'
<1>1. pen' = <<Put(Tmp(f1), Torn), Rename(f1, Bare(k)), Put(Tmp(f2), Torn), Rename(f2, c)>>
  <2>1. \A f, x : Atomic(f, x) = <<Put(Tmp(f), Torn), Rename(f, x)>>
    BY DEF Atomic, Put, Rename, Tmp
  <2>2. QED
    BY <2>1, TwoAndTwo
<1>2. QED
  BY <1>1 DEF Writing, Exists

\* The tasks that make pairs, and their files.
LEMMA PairOf ==
  ASSUME NEW task \in Task, task.do \in {"ca", "leaf", "csr"}
  PROVE  \/ /\ task.do = "ca" /\ Pair(task)[1] = CaKey /\ Pair(task)[2] = CaCert
         \/ /\ task.do = "leaf"
            /\ \E i \in DOMAIN Leaves : /\ Pair(task)[1] = At(<<Home, Leaves[i]>>, "key")
                                        /\ Pair(task)[2] = At(<<Home, Leaves[i]>>, "cert")
         \/ /\ task.do = "csr"
            /\ \E e \in Enrolled : Pair(task)[1] = At(e, "key") /\ Pair(task)[2] = At(e, "csr")
<1>1. CASE task = [do |-> "ca"]
  BY <1>1 DEF Pair
<1>2. ASSUME NEW i \in DOMAIN Leaves, task = [do |-> "leaf", at |-> <<Home, Leaves[i]>>]
      PROVE  /\ task.do = "leaf"
             /\ Pair(task)[1] = At(<<Home, Leaves[i]>>, "key")
             /\ Pair(task)[2] = At(<<Home, Leaves[i]>>, "cert")
  BY <1>2 DEF Pair, At
<1>3. ASSUME NEW e \in Enrolled, task = [do |-> "csr", at |-> e]
      PROVE  task.do = "csr" /\ Pair(task)[1] = At(e, "key") /\ Pair(task)[2] = At(e, "csr")
  BY <1>3 DEF Pair, At
<1>4. \A p : /\ [do |-> "read", at |-> p].do = "read" /\ [do |-> "sign", at |-> p].do = "sign"
             /\ [do |-> "copy", at |-> p].do = "copy"
  OBVIOUS
<1>5. QED
  BY <1>1, <1>2, <1>3, <1>4 DEF Task

LEMMA EnsureInd ==
  ASSUME IndInv, Ensure
  PROVE  IndInv'
<1>1. PICK task : task = Head(todo)
  OBVIOUS
<1>2. task \in Task /\ task.do \in {"ca", "leaf", "csr"} /\ Tail(todo) \in Seq(Task)
  BY <1>1 DEF IndInv, DiskInv, Ensure
<1>3. UNCHANGED files /\ pen = <<>>
  BY DEF Ensure, Abort
<1>4. DiskInv'
  <2>1. todo' = Tail(todo) \/ todo' = <<>>
    BY DEF Ensure, Abort
  <2>2. <<>> \in Seq(Task)
    OBVIOUS
  <2>3. QED
    BY <1>2, <1>3, <2>1, <2>2 DEF IndInv, DiskInv
<1>5. LeavesChain'
  BY <1>3, SameFiles DEF IndInv
<1>6. CASE UNCHANGED pen
  BY <1>3, <1>4, <1>5, <1>6 DEF IndInv, PenInv
<1>7. CASE /\ Absent(Pair(task)) /\ (task.do = "ca" => AnyLeaf = {})
           /\ \E k : pen' = Atomic(Pair(task)[1], Bare(k)) \o Atomic(Pair(task)[2], Second(task, k))
  <2>0. PICK k : pen' = Atomic(Pair(task)[1], Bare(k)) \o Atomic(Pair(task)[2], Second(task, k))
    BY <1>7
  <2>1. PICK f1, f2, c : f1 = Pair(task)[1] /\ f2 = Pair(task)[2] /\ c = Second(task, k)
    OBVIOUS
  <2>2. ~Exists(f1) /\ ~Exists(f2)
    BY <1>7, <2>1 DEF Absent
  <2>3. Writing(f1, f2, k, c)'
    BY <1>3, <2>0, <2>1, <2>2, AtomicPair
  <2>4. CASE task.do = "ca" /\ f1 = CaKey /\ f2 = CaCert
    <3>1. c = [key |-> k, issuer |-> k]
      BY <2>1, <2>4 DEF Second
    <3>2. \A f \in LeafFiles : ~Exists(f)
      <4>1. \A f \in LeafFiles : f \in File /\ f[1] = Home /\ f \notin {CaKey, CaCert}
        BY CaApart DEF LeafFiles
      <4>2. QED
        BY <1>7, <2>4, <4>1 DEF AnyLeaf
    <3>3. \A f \in LeafFiles : ~Exists(f)'
      BY <1>3, <3>2 DEF Exists
    <3>4. Writing(CaKey, CaCert, k, [key |-> k, issuer |-> k])'
      BY <2>3, <2>4, <3>1
    <3>5. MakingCa'
      BY <3>3, <3>4 DEF MakingCa, LeafFiles
    <3>6. QED
      BY <1>4, <1>5, <3>5 DEF IndInv, PenInv
  <2>5. ASSUME NEW i \in DOMAIN Leaves, task.do = "leaf",
               f1 = At(<<Home, Leaves[i]>>, "key"), f2 = At(<<Home, Leaves[i]>>, "cert")
        PROVE  IndInv'
    <3>1. c = [key |-> k, issuer |-> files'[CaKey].key]
      BY <1>3, <2>1, <2>5 DEF Second
    <3>2. Writing(At(<<Home, Leaves[i]>>, "key"), At(<<Home, Leaves[i]>>, "cert"), k,
                  [key |-> k, issuer |-> files[CaKey].key])'
      BY <2>3, <2>5, <3>1
    <3>3. MakingLeaf'
      BY <3>2 DEF MakingLeaf
    <3>4. QED
      BY <1>4, <1>5, <3>3 DEF IndInv, PenInv
  <2>6. ASSUME NEW e \in Enrolled, task.do = "csr", f1 = At(e, "key"), f2 = At(e, "csr")
        PROVE  IndInv'
    <3>1. c = Bare(k)
      BY <2>1, <2>6 DEF Second
    <3>2. Writing(At(e, "key"), At(e, "csr"), k, Bare(k))'
      BY <2>3, <2>6, <3>1
    <3>3. MakingCsr'
      BY <3>2 DEF MakingCsr
    <3>4. QED
      BY <1>4, <1>5, <3>3 DEF IndInv, PenInv
  <2>7. QED
    BY <1>2, <2>1, <2>4, <2>5, <2>6, PairOf
<1>8. QED
  BY <1>1, <1>6, <1>7 DEF Ensure, Abort

LEMMA ReadCsrInd ==
  ASSUME IndInv, ReadCsr
  PROVE  IndInv'
<1>1. UNCHANGED files /\ pen' = <<>> /\ (todo' = Tail(todo) \/ todo' = <<>>)
  BY DEF ReadCsr, Abort
<1>2. Tail(todo) \in Seq(Task) /\ <<>> \in Seq(Task)
  BY DEF ReadCsr, IndInv, DiskInv
<1>3. DiskInv' /\ PenInv'
  BY <1>1, <1>2 DEF IndInv, DiskInv, PenInv
<1>4. QED
  BY <1>1, <1>3, SameFiles DEF IndInv

LEMMA SignCsrInd ==
  ASSUME IndInv, SignCsr
  PROVE  IndInv'
<1>1. PICK task : task = Head(todo)
  OBVIOUS
<1>2. task \in Task /\ task.do = "sign" /\ Tail(todo) \in Seq(Task) /\ UNCHANGED files
  BY <1>1 DEF IndInv, DiskInv, SignCsr
<1>3. PICK p \in Signable : task.at = p
  BY <1>2 DEF Task
<1>4. PICK k : k = files[CsrOf(p)].key
  OBVIOUS
<1>5. PICK c : c = [key |-> k, issuer |-> files'[CaKey].key]
  OBVIOUS
<1>6. pen' = <<Put(At(p, "cert"), Torn), Put(At(p, "cert"), c)>>
  BY <1>1, <1>2, <1>3, <1>4, <1>5 DEF SignCsr, InPlace, Put, At
<1>7. Putting(At(p, "cert"), [key |-> k, issuer |-> files[CaKey].key])'
  BY <1>5, <1>6 DEF Putting
<1>8. PenInv'
  BY <1>7 DEF PenInv, Signing
<1>9. DiskInv'
  BY <1>2 DEF SignCsr, IndInv, DiskInv
<1>10. QED
  BY <1>2, <1>8, <1>9, SameFiles DEF IndInv

LEMMA CopyCsrInd ==
  ASSUME IndInv, CopyCsr
  PROVE  IndInv'
<1>1. PICK task : task = Head(todo)
  OBVIOUS
<1>2. task \in Task /\ task.do = "copy" /\ Tail(todo) \in Seq(Task) /\ UNCHANGED files
  BY <1>1 DEF IndInv, DiskInv, CopyCsr, Abort
<1>3. PICK e \in Enrolled : e[1] # Home /\ task.at = e
  BY <1>2 DEF Task
<1>4. PICK c : c = files[CsrOf(e)]
  OBVIOUS
<1>5. PenInv'
  <2>1. CASE pen' = InPlace(CsrOf(<<Home, e[2]>>), c)
    <3>1. CsrOf(<<Home, e[2]>>) = At(<<Home, e[2]>>, "csr")
      BY DEF CsrOf, At
    <3>2. Putting(At(<<Home, e[2]>>, "csr"), c)'
      BY <2>1, <3>1 DEF InPlace, Putting, Put
    <3>3. QED
      BY <1>3, <3>2 DEF PenInv, Copying
  <2>2. CASE pen' = <<>>
    BY <2>2 DEF PenInv
  <2>3. QED
    BY <1>1, <1>3, <1>4, <2>1, <2>2 DEF CopyCsr, Abort
<1>6. DiskInv'
  <2>1. todo' = Tail(todo) \/ todo' = <<>>
    BY DEF CopyCsr, Abort
  <2>2. <<>> \in Seq(Task)
    OBVIOUS
  <2>3. QED
    BY <1>2, <2>1, <2>2 DEF IndInv, DiskInv
<1>7. QED
  BY <1>2, <1>5, <1>6, SameFiles DEF IndInv

-----------------------------------------------------------------------------
(* Commands, crashes and the operator                                      *)

LEMMA CommandsAreTasks ==
  ASSUME NEW tasks \in Commands
  PROVE  tasks \in Seq(Task)
<1>1. [do |-> "ca"] \in Task
  BY DEF Task
<1>2. <<[do |-> "ca"]>> \in Seq(Task)
  BY <1>1
<1>3. Provision \in Seq(Task)
  <2> DEFINE leaves == [i \in DOMAIN Leaves |-> [do |-> "leaf", at |-> <<Home, Leaves[i]>>]]
  <2>1. \A i \in DOMAIN Leaves : leaves[i] \in Task
    BY DEF Task
  <2>2. Len(Leaves) \in Nat /\ DOMAIN Leaves = 1 .. Len(Leaves)
    BY CertsAssumption
  <2>3. leaves \in [1 .. Len(Leaves) -> Task]
    BY <2>1, <2>2
  <2> HIDE DEF leaves
  <2>4. leaves \in Seq(Task)
    BY <2>2, <2>3
  <2>5. <<[do |-> "ca"]>> \o leaves \in Seq(Task)
    BY <1>2, <2>4, ConcatProperties
  <2>6. QED
    BY <2>5 DEF Provision, leaves
<1>4. ASSUME NEW e \in Enrolled PROVE Csr(e) \in Seq(Task)
  <2>1. [do |-> "csr", at |-> e] \in Task
    BY DEF Task
  <2>2. QED
    BY <2>1 DEF Csr
<1>5. ASSUME NEW p \in Signable PROVE Sign(p) \in Seq(Task)
  <2>1. [do |-> "sign", at |-> p] \in Task /\ [do |-> "read", at |-> p] \in Task
    BY DEF Task
  <2>2. QED
    BY <1>1, <2>1 DEF Sign
<1>6. ASSUME NEW e \in Enrolled, e[1] # Home PROVE Copy(e) \in Seq(Task)
  <2>1. [do |-> "copy", at |-> e] \in Task
    BY <1>6 DEF Task
  <2>2. QED
    BY <2>1 DEF Copy
<1>7. QED
  BY <1>2, <1>3, <1>4, <1>5, <1>6 DEF Commands

LEMMA InitInd == Init => IndInv
<1> SUFFICES ASSUME Init PROVE IndInv
  OBVIOUS
<1>1. \A f \in File : ~Exists(f)
  BY DEF Init, Exists
<1>2. ChainsToCa
  BY <1>1, Names DEF ChainsToCa
<1>3. LeafPairsMatch
  <2>1. \A i \in DOMAIN Leaves : ~Exists(<<Home, Leaves[i], "cert", "file">>)
    BY <1>1, Names DEF At
  <2>2. QED
    BY <2>1 DEF LeafPairsMatch
<1>4. CsrPairsMatch
  <2>1. \A e \in Enrolled : ~Exists(CsrOf(e))
    BY <1>1, Names, SignableNames DEF At, CsrOf
  <2>2. QED
    BY <2>1 DEF CsrPairsMatch
<1>5. DiskInv /\ PenInv
  BY DEF Init, DiskInv, PenInv
<1>6. QED
  BY <1>2, <1>3, <1>4, <1>5 DEF IndInv, LeavesChain

\* Files that go, one by one or as an error said, break nothing.
LEMMA RemovalInd ==
  ASSUME IndInv, Idle, UNCHANGED <<todo, pen>>, DOMAIN files' = File,
         \A f \in File : files'[f] = files[f] \/ files'[f] = None
  PROVE  IndInv'
<1>1. LeavesChain'
  <2>1. ChainsToCa'
    BY Names, ChainKept DEF IndInv, LeavesChain, Whole
  <2>2. LeafPairsMatch'
    BY Names, LeafPairsKept DEF IndInv, LeavesChain
  <2>3. CsrPairsMatch'
    BY Names, SignableNames, CsrPairsKept DEF IndInv, LeavesChain
  <2>4. QED
    BY <2>1, <2>2, <2>3 DEF LeavesChain
<1>2. PenInv' /\ DiskInv'
  BY DEF Idle, PenInv, IndInv, DiskInv
<1>3. QED
  BY <1>1, <1>2 DEF IndInv

LEMMA NextInd ==
  ASSUME IndInv, [Next]_vars
  PROVE  IndInv'
<1>1. ASSUME NEW tasks \in Commands, Start(tasks) PROVE IndInv'
  <2>1. tasks \in Seq(Task)
    BY CommandsAreTasks
  <2>2. todo' = tasks /\ UNCHANGED files /\ pen' = <<>>
    BY <1>1 DEF Start, Idle
  <2>3. QED
    BY <2>1, <2>2, SameFiles DEF IndInv, DiskInv, PenInv
<1>2. CASE Ensure
  BY <1>2, EnsureInd
<1>3. CASE ReadCsr \/ SignCsr \/ CopyCsr
  BY <1>3, ReadCsrInd, SignCsrInd, CopyCsrInd
<1>4. CASE Write
  BY <1>4, WriteStep
<1>5. CASE Crash
  <2>1. UNCHANGED files /\ todo' = <<>> /\ pen' = <<>>
    BY <1>5 DEF Crash
  <2>2. DiskInv' /\ PenInv'
    BY <2>1 DEF IndInv, DiskInv, PenInv
  <2>3. QED
    BY <2>1, <2>2, SameFiles DEF IndInv
<1>6. CASE Remedy
  BY <1>6, RemovalInd DEF Remedy
<1>7. ASSUME NEW f \in File, Delete(f) PROVE IndInv'
  BY <1>7, RemovalInd DEF Delete, IndInv, DiskInv
<1>8. CASE UNCHANGED vars
  <2>1. UNCHANGED <<files, todo, pen>>
    BY <1>8 DEF vars
  <2>2. PenInv'
    BY <2>1 DEF IndInv, PenInv, MakingCa, MakingLeaf, MakingCsr, Signing, Copying, Writing, Putting, Exists
  <2>3. QED
    BY <2>1, <2>2, SameFiles DEF IndInv, DiskInv
<1>9. QED
  BY <1>1, <1>2, <1>3, <1>4, <1>5, <1>6, <1>7, <1>8 DEF Next, Working

\* However often provisioning and enrolment, in the CA's directory or on hosts,
\* were cut short between two file operations, run again, mixed, and their files
\* deleted one by one: a complete CA pair belongs together, it signed every whole
\* certificate next to it, what ensure_leaf makes of a leaf that nobody enrols
\* belongs together, and so does what generate_csr makes where nobody else writes.
THEOREM LeavesChainHolds == Spec => []LeavesChain
<1>1. Init => IndInv
  BY InitInd
<1>2. IndInv /\ [Next]_vars => IndInv'
  BY NextInd
<1>3. IndInv => LeavesChain
  BY DEF IndInv
<1>4. QED
  BY <1>1, <1>2, <1>3, PTL DEF Spec

-----------------------------------------------------------------------------
(* Additive                                                                *)

LEMMA AdditiveStep ==
  ASSUME IndInv, Next, NEW f \in File, f[4] = "file", Exists(f)
  PROVE  \/ files'[f] = files[f]
         \/ Idle /\ files'[f] = None
         \/ pen # <<>> /\ Head(pen).op = "put" /\ f[3] \in {"cert", "csr"} /\ f # CaCert
<1>1. CASE Write
  <2>1. Kept /\ pen # <<>>
    BY <1>1, WriteStep DEF Write
  <2>2. QED
    BY <2>1 DEF Kept
<1>2. CASE Remedy
  BY <1>2 DEF Remedy
<1>3. ASSUME NEW g \in File, Delete(g)
      PROVE  files'[f] = files[f] \/ (Idle /\ files'[f] = None)
  BY <1>3 DEF Delete, IndInv, DiskInv
<1>4. CASE UNCHANGED files
  BY <1>4
<1>5. QED
  BY <1>1, <1>2, <1>3, <1>4 DEF Next, Working, Start, Ensure, Abort, ReadCsr, SignCsr, CopyCsr, Crash

\* A run of ensure_ca, ensure_leaf, generate_csr or sign_csr, first or repeated,
\* whole or cut short, leaves every private key and the CA's certificate as it
\* found them, and every other complete file but the certificate that `certs sign`
\* or the CSR that the launcher's cp writes in place.
THEOREM AdditiveHolds == Spec => Additive
<1> DEFINE Step == \A f \in File : f[4] = "file" /\ Exists(f) =>
                     \/ files'[f] = files[f]
                     \/ Idle /\ files'[f] = None
                     \/ pen # <<>> /\ Head(pen).op = "put" /\ f[3] \in {"cert", "csr"} /\ f # CaCert
<1>1. Init => IndInv
  BY InitInd
<1>2. IndInv /\ [Next]_vars => IndInv'
  BY NextInd
<1>3. IndInv /\ [Next]_vars => [Step]_files
  BY AdditiveStep DEF vars
<1>4. QED
  BY <1>1, <1>2, <1>3, PTL DEF Spec, Additive
=============================================================================
