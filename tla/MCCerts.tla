------------------------------ MODULE MCCerts ------------------------------
(* Two leaves of xtask in the CA's directory, an enrolment there, and one   *)
(* on a host under the name of a leaf, to be copied and signed beside it.   *)
EXTENDS Certs

CONSTANTS Host, orchestrator, cosigner0, cosigner1
XtaskLeaves == <<orchestrator, cosigner0>>
CsrPlaces == {<<Home, cosigner1>>, <<Host, cosigner0>>}

VARIABLE calm   \* no mishaps and whims any more, and what the operator is after

\* From some moment on, after whatever command ran last, the operator only runs
\* `xtask certs`, or the steps of demo-init.sh for one process, and does what
\* errors say.
Calm(aim) == /\ Idle /\ calm = "no" /\ calm' = aim
             /\ mishaps' = MaxMishaps
             /\ UNCHANGED <<files, todo, pen, told>>

Demo == {e \in Enrolled : e[1] = Home /\ EnrolOnly(e)}

Repairing ==
  /\ calm # "no" /\ UNCHANGED calm
  /\ \/ Working \/ Remedy
     \/ calm = "xtask" /\ told = {} /\ ~Provisioned /\ Start(Provision)
     \/ calm = "demo" /\ told = {} /\ \E e \in Demo : ~Certified(e) /\ Start(DemoInit(e))

LiveInit == Init /\ calm = "no"

LiveSpec ==
  /\ LiveInit
  /\ [][\/ \E aim \in {"xtask", "demo"} : Calm(aim)
        \/ calm = "no" /\ Next /\ UNCHANGED calm
        \/ Repairing]_<<vars, calm>>
  /\ WF_<<vars, calm>>(Repairing)

\* Whatever was interrupted or deleted: whoever does what the errors say and runs
\* the provisioning again ends up with the whole set, or the enrolment again with
\* a certificate of the key by the CA, and not in a circle of HalfPresent and
\* StaleLeaf.
RemedyWorks == /\ calm = "xtask" ~> Provisioned
               /\ \A e \in Demo : calm = "demo" ~> Certified(e)
=============================================================================
