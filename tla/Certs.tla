------------------------------- MODULE Certs -------------------------------
(***************************************************************************)
(* Provisioning of the TLS material (sovra-certs) by the operator's        *)
(* commands: `cargo xtask certs`, `sovra-cli certs ca | csr | sign`, the   *)
(* launcher deploy/sovra, which copies a CSR beside the CA before it signs *)
(* it, and demo-init.sh, which enrols in the CA's own directory.  Every    *)
(* pair of files is written in two renames, a signed certificate and a     *)
(* copied CSR in place; a command may die before any file operation, and   *)
(* the operator deletes files one by one.  Commands run one at a time, so  *)
(* the CA and the CSR a command works with are the ones on disk.           *)
(*                                                                         *)
(* A file is <<directory, stem, extension, "file" or "tmp">>, the latter   *)
(* what a file is before its rename; its content is the key it holds or is *)
(* about and, for a certificate, the key that signed it.  Validity, names  *)
(* and usages are left out.                                                *)
(***************************************************************************)
EXTENDS Naturals, Sequences

CONSTANTS
  Serial,    \* numbers of the key pairs made at one place, enough for a new one
  Home,      \* the directory of the CA
  Ca,        \* the stem of the CA's files
  Leaves,    \* stems of the leaves that xtask provisions, a sequence
  Enrolled,  \* <<directory, stem>> where CSRs are made, the CA's directory or a host's
  None, Torn,\* no file; a file whose write has begun and not ended
  MaxMishaps \* bound: interruptions and deletions

ASSUME CertsAssumption ==
  /\ Leaves \in Seq({Leaves[i] : i \in DOMAIN Leaves})
  \* the stems are names of processes
  /\ \A e \in Enrolled : e[2] # Ca
  /\ \A i \in DOMAIN Leaves : Leaves[i] # Ca
  /\ None # Torn
  /\ MaxMishaps \in Nat

VARIABLES
  files,   \* of each file: its content
  todo,    \* the tasks left to the command that runs
  pen,     \* the file operations left to its task
  told,    \* the files the last error tells the operator to delete
  mishaps  \* interruptions and deletions so far

vars == <<files, todo, pen, told, mishaps>>

Idle == todo = <<>> /\ pen = <<>>

\* Where CSRs are, to be signed: where they were made, and beside the CA.
Signable == Enrolled \cup {<<Home, e[2]>> : e \in Enrolled}

Place == {<<Home, Ca>>} \cup Signable \cup {<<Home, Leaves[i]>> : i \in DOMAIN Leaves}
File  == {<<p[1], p[2], ext, tmp>> : p \in Place, ext \in {"key", "cert", "csr"},
                                     tmp \in {"file", "tmp"}}

Init ==
  /\ files = [f \in File |-> None]
  /\ todo = <<>> /\ pen = <<>> /\ told = {} /\ mishaps = 0

Exists(f) == files[f] # None
Whole(f)  == files[f] \notin {None, Torn}
CaKey  == <<Home, Ca, "key", "file">>
CaCert == <<Home, Ca, "cert", "file">>

-----------------------------------------------------------------------------
(* Commands and their tasks                                                *)

\* seed_certs: the CA, then the leaves in order.
Provision ==
  <<[do |-> "ca"]>> \o [i \in DOMAIN Leaves |-> [do |-> "leaf", at |-> <<Home, Leaves[i]>>]]

\* sovra-cli certs csr.
Csr(e) == <<[do |-> "csr", at |-> e]>>

\* sovra-cli certs sign: reads the CSR, then loads or mints the CA.
Sign(p) == <<[do |-> "read", at |-> p], [do |-> "ca"], [do |-> "sign", at |-> p]>>

\* The launcher's sign first copies the CSR of a host beside the CA; its second
\* command is Sign(<<Home, e[2]>>).
Copy(e) == <<[do |-> "copy", at |-> e]>>

\* demo-init.sh: the CA, then CSR and certificate of a process, up to the first error.
DemoInit(e) == <<[do |-> "ca"]>> \o Csr(e) \o Sign(e)

Start(tasks) ==
  /\ Idle
  /\ todo' = tasks /\ told' = {}
  /\ UNCHANGED <<files, pen, mishaps>>

-----------------------------------------------------------------------------
(* ensure_ca, ensure_leaf and generate_csr: a pair is kept if it is there, *)
(* made if both files are missing, and refused if one is                   *)

\* The two files of a task's pair, the key first.
Pair(task) ==
  IF task.do = "ca" THEN <<CaKey, CaCert>>
  ELSE <<<<task.at[1], task.at[2], "key", "file">>,
         <<task.at[1], task.at[2], IF task.do = "csr" THEN "csr" ELSE "cert", "file">>>>

\* Mutant: the absence of the second file is enough to make the pair anew.
AbsentBySecond(pair) == ~Exists(pair[2])

Absent(pair) == ~Exists(pair[1]) /\ ~Exists(pair[2])

\* Mutant: a new CA is made without a look at what is there.
AnyLeafUnchecked == {}

\* any_leaf: every .pem in the directory but the CA's own two, a leftover of an
\* interrupted write included; the directory's order decides which is named.
AnyLeaf == {f \in File : f[1] = Home /\ Exists(f) /\ f \notin {CaKey, CaCert}}

\* Mutant: the two names in the message are swapped.
SurvivorSwapped(pair) == IF Exists(pair[1]) THEN pair[2] ELSE pair[1]

\* half_present: the file that was found.
Survivor(pair) == IF Exists(pair[1]) THEN pair[1] ELSE pair[2]

\* The complete files of leaf pairs in the CA's directory.
LeafFiles == {f \in File : f[1] = Home /\ f[2] # Ca /\ f[3] # "csr" /\ f[4] = "file"}

\* write_atomic: the temporary file, then the rename.  What a temporary file
\* holds is never read.
Atomic(f, c) == <<[op |-> "put", file |-> <<f[1], f[2], f[3], "tmp">>, content |-> Torn],
                  [op |-> "rename", file |-> f, content |-> c]>>

\* A key pair that no file is about: keys of different places differ.
Fresh(f) ==
  LET pairs == {<<f[1], f[2], n>> : n \in Serial}
  IN  CHOOSE k \in pairs : \A g \in File : Whole(g) => k \notin {files[g].key, files[g].issuer}

\* A key, or the CSR of a key.
Bare(k) == [key |-> k, issuer |-> None]

\* What is made of key k beside the key itself: the CA's certificate, signed by
\* itself, a leaf's, signed by the CA, or a CSR.
Second(task, k) ==
  IF task.do = "csr" THEN Bare(k)
  ELSE [key |-> k, issuer |-> IF task.do = "ca" THEN k ELSE files[CaKey].key]

Abort(remedy) == todo' = <<>> /\ told' = remedy /\ UNCHANGED <<files, pen, mishaps>>

Ensure ==
  /\ todo # <<>> /\ pen = <<>> /\ Head(todo).do \in {"ca", "leaf", "csr"}
  /\ LET task == Head(todo)
         pair == Pair(task)
     IN  \/ /\ Exists(pair[1]) /\ Exists(pair[2])
            /\ todo' = Tail(todo)
            /\ UNCHANGED <<files, pen, told, mishaps>>
         \/ /\ Absent(pair) /\ task.do = "ca"
            /\ \E f \in AnyLeaf : Abort({f} \cup LeafFiles)
         \/ /\ Absent(pair) /\ (task.do = "ca" => AnyLeaf = {})
            /\ LET k == Fresh(pair[1])
               IN  pen' = Atomic(pair[1], Bare(k)) \o Atomic(pair[2], Second(task, k))
            /\ todo' = Tail(todo)
            /\ UNCHANGED <<files, told, mishaps>>
         \/ /\ ~Absent(pair) /\ ~(Exists(pair[1]) /\ Exists(pair[2]))
            /\ Abort({Survivor(pair)} \cup (IF task.do = "ca" THEN LeafFiles ELSE {}))

CsrOf(p) == <<p[1], p[2], "csr", "file">>

\* A file that is written in place.
InPlace(f, c) == <<[op |-> "put", file |-> f, content |-> Torn],
                   [op |-> "put", file |-> f, content |-> c]>>

\* sign fails on a CSR that is missing or not whole, before it looks at the CA.
ReadCsr ==
  /\ todo # <<>> /\ pen = <<>> /\ Head(todo).do = "read"
  /\ \/ /\ Whole(CsrOf(Head(todo).at))
        /\ todo' = Tail(todo)
        /\ UNCHANGED <<files, pen, told, mishaps>>
     \/ ~Whole(CsrOf(Head(todo).at)) /\ Abort({})

\* sign_csr, and the certificate next to the CSR, whatever was there.
SignCsr ==
  /\ todo # <<>> /\ pen = <<>> /\ Head(todo).do = "sign"
  /\ LET at == Head(todo).at
     IN  pen' = InPlace(<<at[1], at[2], "cert", "file">>,
                        [key |-> files[CsrOf(at)].key, issuer |-> files[CaKey].key])
  /\ todo' = Tail(todo)
  /\ UNCHANGED <<files, told, mishaps>>

\* The launcher places the CSR in the CA's directory, over a CSR of the same name.
CopyCsr ==
  /\ todo # <<>> /\ pen = <<>> /\ Head(todo).do = "copy"
  /\ LET at == Head(todo).at
     IN  \/ /\ Exists(CsrOf(at))
            /\ pen' = InPlace(CsrOf(<<Home, at[2]>>), files[CsrOf(at)])
            /\ todo' = Tail(todo)
            /\ UNCHANGED <<files, told, mishaps>>
         \/ ~Exists(CsrOf(at)) /\ Abort({})

\* One file operation.
Write ==
  /\ pen # <<>>
  /\ LET w == Head(pen)
     IN  files' = [f \in File |->
           IF f = w.file THEN w.content
           ELSE IF w.op = "rename" /\ f = <<w.file[1], w.file[2], w.file[3], "tmp">>
                THEN None ELSE files[f]]
  /\ pen' = Tail(pen)
  /\ UNCHANGED <<todo, told, mishaps>>

-----------------------------------------------------------------------------
(* Mishaps and the operator                                                *)

Mishap == mishaps < MaxMishaps /\ mishaps' = mishaps + 1

\* The command dies, or a file operation fails: the rest is not done.
Crash ==
  /\ ~Idle /\ Mishap
  /\ todo' = <<>> /\ pen' = <<>>
  /\ UNCHANGED <<files, told>>

\* The operator deletes some file.
Delete(f) ==
  /\ Idle /\ Exists(f) /\ Mishap
  /\ files' = [files EXCEPT ![f] = None]
  /\ told' = {}
  /\ UNCHANGED <<todo, pen>>

\* The operator does what the error says.
Remedy ==
  /\ Idle /\ told # {}
  /\ files' = [f \in File |-> IF f \in told THEN None ELSE files[f]]
  /\ told' = {}
  /\ UNCHANGED <<todo, pen, mishaps>>

Commands ==
  {Provision, <<[do |-> "ca"]>>}
    \cup {Csr(e) : e \in Enrolled} \cup {Sign(p) : p \in Signable}
    \cup {Copy(e) : e \in {e \in Enrolled : e[1] # Home}}

Working == Ensure \/ ReadCsr \/ SignCsr \/ CopyCsr \/ Write

Next == \/ \E tasks \in Commands : Start(tasks)
        \/ Working \/ Crash \/ Remedy
        \/ \E f \in File : Delete(f)

Spec == Init /\ [][Next]_vars
-----------------------------------------------------------------------------
(* Properties                                                              *)

\* A leaf of xtask that nobody enrols.
XtaskOnly(i) == \A e \in Enrolled : e[2] # Leaves[i]

\* An enrolment whose files neither xtask provisions nor the launcher copies over.
EnrolOnly(e) ==
  e[1] = Home => /\ \A i \in DOMAIN Leaves : Leaves[i] # e[2]
                 /\ \A d \in Enrolled : d[2] = e[2] => d[1] = Home

\* A complete CA pair belongs together and signed every whole certificate next to it.
ChainsToCa ==
  Exists(CaKey) /\ Exists(CaCert) =>
    /\ files[CaCert] = [key |-> files[CaKey].key, issuer |-> files[CaKey].key]
    /\ \A f \in LeafFiles : f[3] = "cert" /\ Whole(f) => files[f].issuer = files[CaKey].key

\* The certificate of a leaf that only xtask makes is that of the key beside it.
LeafPairsMatch ==
  \A i \in DOMAIN Leaves :
    LET key  == <<Home, Leaves[i], "key", "file">>
        cert == <<Home, Leaves[i], "cert", "file">>
    IN  XtaskOnly(i) /\ Exists(cert) /\ Exists(key) => files[cert].key = files[key].key

\* The CSR of an enrolment that is left alone is that of the key beside it.
CsrPairsMatch ==
  \A e \in Enrolled :
    LET key == <<e[1], e[2], "key", "file">>
    IN  EnrolOnly(e) /\ Exists(CsrOf(e)) /\ Exists(key) => files[CsrOf(e)].key = files[key].key

\* However provisioning and enrolment, beside the CA or on hosts, were cut short,
\* repeated, mixed and half deleted: every whole certificate next to a complete CA
\* pair was signed by it, and where one of the two flows works alone, what it
\* makes together belongs together.  (A certificate that was signed in place may
\* be torn, or older than the key beside it, as generate_csr does not look at
\* certificates.)
LeavesChain == ChainsToCa /\ LeafPairsMatch /\ CsrPairsMatch

\* "A re-run is always additive" (lib.rs): whatever an earlier command left
\* behind, no command replaces a complete file, and only the operator deletes one.
\* The two exceptions are writes in place: `certs sign` overwrites a leaf's
\* certificate (certs.rs:61), and the launcher's cp a CSR.
Additive ==
  [][\A f \in File : f[4] = "file" /\ Exists(f) =>
       \/ files'[f] = files[f]
       \/ Idle /\ files'[f] = None
       \/ pen # <<>> /\ Head(pen).op = "put" /\ f[3] \in {"cert", "csr"} /\ f # CaCert]_files

\* xtask's whole set is there.  A certificate that sign was writing in place when
\* it was cut short counts: ensure_leaf does not look into it.
Provisioned ==
  /\ Whole(CaKey) /\ Whole(CaCert)
  /\ \A i \in DOMAIN Leaves : \A ext \in {"key", "cert"} :
       LET f == <<Home, Leaves[i], ext, "file">>
       IN  Exists(f) /\ (XtaskOnly(i) => Whole(f))

\* The process has a certificate of its key, by the CA.
Certified(e) ==
  /\ Whole(CaKey) /\ Whole(CaCert) /\ Whole(<<e[1], e[2], "key", "file">>)
  /\ files[<<e[1], e[2], "cert", "file">>] =
       [key |-> files[<<e[1], e[2], "key", "file">>].key, issuer |-> files[CaKey].key]
=============================================================================
