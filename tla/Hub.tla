--------------------------------- MODULE Hub ---------------------------------
(***************************************************************************)
(* The relay of one ceremony (sovra-ipc, EnvelopeHub and WsEnvelopeRelay): *)
(* store-and-forward mailboxes, the sockets in front of them, and the      *)
(* three timeouts that have to fit together: the run's ttl at a cosigner,  *)
(* the age at which an unclaimed mailbox is swept, and the orchestrator's  *)
(* HTTP timeout.                                                           *)
(*                                                                         *)
(* A frame is its sender, recipient and round; each member sends one to    *)
(* every peer in every round.  Time passes in units of 30 seconds.  Each   *)
(* member dials once: instances are never reused, so the second claim of a *)
(* mailbox that the hub refuses does not occur.                            *)
(***************************************************************************)
EXTENDS Naturals, FiniteSets, Sequences

CONSTANTS
  Member, LastRound,
  RunTtl,        \* 60 s: how long a cosigner's run may last once it dialed
  UnclaimedTtl,  \* 120 s: DEFAULT_UNCLAIMED_TTL
  HttpTimeout,   \* 90 s: how long the orchestrator waits for its POSTs
  Horizon        \* bound on the time modelled

ASSUME MemberAssumption == IsFiniteSet(Member)
ASSUME TimeAssumption ==
  {LastRound, RunTtl, UnclaimedTtl, HttpTimeout, Horizon} \subseteq Nat \ {0}

VARIABLES
  now,       \* time since the orchestrator sent its POSTs
  pc,        \* cosigner: "dialing", "running", "done", "failed"
  started,   \* when its run started
  round,     \* the round it is in, 0 while dialing
  mail,      \* frames its relay client has received
  toHub,     \* frames on its socket the hub has not read yet
  toParty,   \* frames on its socket it has not read yet
  serve,     \* the hub's socket task: "none", "joining", "serving", "ended"
  box,       \* its mailbox: "absent", "unclaimed", "claimed"
  created,   \* when the mailbox was created
  queue      \* frames in the mailbox

partyVars == <<pc, started, round, mail>>
boxVars   == <<box, created, queue>>
vars == <<now, partyVars, toHub, toParty, serve, boxVars>>

Frame == [from : Member, to : Member, round : 1 .. LastRound]

TypeOK ==
  /\ now \in 0 .. Horizon
  /\ pc \in [Member -> {"dialing", "running", "done", "failed"}]
  /\ started \in [Member -> 0 .. Horizon]
  /\ round \in [Member -> 0 .. LastRound]
  /\ mail \in [Member -> SUBSET Frame]
  /\ toHub \in [Member -> Seq(Frame)]
  /\ toParty \in [Member -> Seq(Frame)]
  /\ queue \in [Member -> Seq(Frame)]
  /\ serve \in [Member -> {"none", "joining", "serving", "ended"}]
  /\ box \in [Member -> {"absent", "unclaimed", "claimed"}]
  /\ created \in [Member -> 0 .. Horizon]

Init ==
  /\ now = 0
  /\ pc = [p \in Member |-> "dialing"]
  /\ started = [p \in Member |-> 0]
  /\ round = [p \in Member |-> 0]
  /\ mail = [p \in Member |-> {}]
  /\ toHub = [p \in Member |-> <<>>]
  /\ toParty = [p \in Member |-> <<>>]
  /\ serve = [p \in Member |-> "none"]
  /\ box = [p \in Member |-> "absent"]
  /\ created = [p \in Member |-> 0]
  /\ queue = [p \in Member |-> <<>>]

-----------------------------------------------------------------------------
(* Cosigner                                                                *)

Peers(p) == Member \ {p}

\* The frames of one round, in some order of the recipients.
Batch(p, r) ==
  {s \in [1 .. Cardinality(Peers(p)) -> [from : {p}, to : Peers(p), round : {r}]] :
     \A i, j \in DOMAIN s : s[i] = s[j] => i = j}

\* dial: connect, write the join frame, start the run and its ttl, send round 1.
Dial(p) ==
  /\ pc[p] = "dialing"
  /\ pc' = [pc EXCEPT ![p] = "running"]
  /\ started' = [started EXCEPT ![p] = now]
  /\ round' = [round EXCEPT ![p] = 1]
  /\ serve' = [serve EXCEPT ![p] = "joining"]
  /\ \E s \in Batch(p, 1) : toHub' = [toHub EXCEPT ![p] = s]
  /\ UNCHANGED <<now, mail, toParty, boxVars>>

\* recv takes the next frame off the socket.
Receive(p) ==
  /\ pc[p] = "running" /\ toParty[p] # <<>>
  /\ mail' = [mail EXCEPT ![p] = @ \cup {Head(toParty[p])}]
  /\ toParty' = [toParty EXCEPT ![p] = Tail(@)]
  /\ UNCHANGED <<now, pc, started, round, toHub, serve, boxVars>>

Collected(p) == \A q \in Peers(p) : [from |-> q, to |-> p, round |-> round[p]] \in mail[p]

\* Mutant: off by one at the end of the schedule.
RoundsLeftPastLast(p) == round[p] <= LastRound

RoundsLeft(p) == round[p] < LastRound

\* A round is in: send the next one.
Proceed(p) ==
  /\ pc[p] = "running" /\ Collected(p) /\ RoundsLeft(p)
  /\ round' = [round EXCEPT ![p] = @ + 1]
  /\ \E s \in Batch(p, round[p] + 1) : toHub' = [toHub EXCEPT ![p] = @ \o s]
  /\ UNCHANGED <<now, pc, started, mail, toParty, serve, boxVars>>

\* The last round is in: the relay client is dropped, its socket closes.
Finish(p) ==
  /\ pc[p] = "running" /\ Collected(p) /\ round[p] = LastRound
  /\ pc' = [pc EXCEPT ![p] = "done"]
  /\ UNCHANGED <<now, started, round, mail, toHub, toParty, serve, boxVars>>

\* The dial fails, or the run does: an error, its ttl, the request dropped.
Fail(p) ==
  /\ pc[p] \in {"dialing", "running"}
  /\ pc' = [pc EXCEPT ![p] = "failed"]
  /\ UNCHANGED <<now, started, round, mail, toHub, toParty, serve, boxVars>>

Expired(p) == pc[p] = "running" /\ now >= started[p] + RunTtl

\* Time passes, but no run outlives its ttl.
Tick ==
  /\ now < Horizon
  /\ \A p \in Member : ~Expired(p)
  /\ now' = now + 1
  /\ UNCHANGED <<partyVars, toHub, toParty, serve, boxVars>>

-----------------------------------------------------------------------------
(* Hub                                                                     *)

Closed(p) == pc[p] \in {"done", "failed"}

\* Mutant: the sweep uses the run's ttl, counted from the first frame.
StaleSoon(q) == box[q] = "unclaimed" /\ now - created[q] >= RunTtl \div 2

\* sweep: which mailboxes the next claim or deliver drops.
Stale(q) == box[q] = "unclaimed" /\ now - created[q] >= UnclaimedTtl

SweptBox   == [q \in Member |-> IF Stale(q) THEN "absent" ELSE box[q]]
SweptQueue == [q \in Member |-> IF Stale(q) THEN <<>> ELSE queue[q]]

\* claim: sweep, then take the receiver of the mailbox, which may be new.
Claim(p) ==
  /\ serve[p] = "joining"
  /\ serve' = [serve EXCEPT ![p] = "serving"]
  /\ box' = [SweptBox EXCEPT ![p] = "claimed"]
  /\ queue' = SweptQueue
  /\ created' = [created EXCEPT ![p] = IF SweptBox[p] = "absent" THEN now ELSE @]
  /\ UNCHANGED <<now, partyVars, toHub, toParty>>

\* Mutant: mail for a party that has not joined yet is dropped.
DeliveredIfClaimed(q, f) == IF SweptBox[q] = "claimed" THEN <<f>> ELSE <<>>

\* What deliver adds to the mailbox of q.
Delivered(q, f) == <<f>>

\* The socket task reads a frame and delivers it: sweep, then store.
Deliver(p) ==
  /\ serve[p] = "serving" /\ toHub[p] # <<>>
  /\ toHub' = [toHub EXCEPT ![p] = Tail(@)]
  /\ LET f == Head(toHub[p])
         q == f.to
     IN  /\ queue' = [SweptQueue EXCEPT ![q] = @ \o Delivered(q, f)]
         /\ box' = [SweptBox EXCEPT ![q] = IF @ = "absent" THEN "unclaimed" ELSE @]
         /\ created' = [created EXCEPT ![q] = IF SweptBox[q] = "absent" THEN now ELSE @]
  /\ UNCHANGED <<now, partyVars, toParty, serve>>

\* The socket task takes a frame out of the mailbox and writes it.
Forward(p) ==
  /\ serve[p] = "serving" /\ queue[p] # <<>>
  /\ queue' = [queue EXCEPT ![p] = Tail(@)]
  /\ toParty' = [toParty EXCEPT ![p] = Append(@, Head(queue[p]))]
  /\ UNCHANGED <<now, partyVars, toHub, serve, box, created>>

\* Mutant: the task ends without removing its mailbox.
RemovedKept(p) == box

\* remove: the mailbox goes with the socket task.
Removed(p) == [box EXCEPT ![p] = "absent"]

\* The task ends and with it its mailbox; what it had not read is lost.
EndTask(p) ==
  /\ serve' = [serve EXCEPT ![p] = "ended"]
  /\ toHub' = [toHub EXCEPT ![p] = <<>>]
  /\ box' = Removed(p)
  /\ queue' = [queue EXCEPT ![p] = <<>>]
  /\ UNCHANGED <<now, partyVars, toParty, created>>

\* The peer has closed: the read side ends once everything was read, the write
\* side as soon as a frame meets the closed socket.  select! takes either.
SocketClosed(p) ==
  /\ serve[p] = "serving" /\ Closed(p)
  /\ toHub[p] = <<>> \/ queue[p] # <<>>
  /\ EndTask(p)

\* The peer closed before its join frame was read, or the join is not read.
JoinLost(p) ==
  /\ serve[p] = "joining" /\ pc[p] = "failed"
  /\ serve' = [serve EXCEPT ![p] = "ended"]
  /\ toHub' = [toHub EXCEPT ![p] = <<>>]
  /\ UNCHANGED <<now, partyVars, toParty, boxVars>>

-----------------------------------------------------------------------------
HubStep(p) == Claim(p) \/ Deliver(p) \/ Forward(p) \/ SocketClosed(p) \/ JoinLost(p)
Client(p)  == Receive(p) \/ Proceed(p) \/ Finish(p)

Next == \/ Tick
        \/ \E p \in Member : Dial(p) \/ Client(p) \/ Fail(p) \/ HubStep(p)

Spec == Init /\ [][Next]_vars

\* Cosigners and socket tasks are driven on; nobody owes a failure.
Progress == \E p \in Member : Dial(p) \/ Client(p) \/ HubStep(p)
FairSpec == Spec /\ WF_vars(Progress)
-----------------------------------------------------------------------------
(* Properties                                                              *)

Contents(s) == {s[i] : i \in DOMAIN s}
Failed == \E p \in Member : pc[p] = "failed"

\* The relay loses a frame only of a ceremony that has already failed: mail
\* sent before its recipient joined waits, no mailbox of a live run grows old
\* enough for the sweep, and the end of a member that finished early takes no
\* frame another member still needs.
NoFrameLost ==
  ~Failed =>
    /\ \A q \in Member : ~Stale(q)
    /\ \A p, q \in Member : \A r \in 1 .. round[p] : p # q =>
         [from |-> p, to |-> q, round |-> r] \in
            Contents(toHub[p]) \cup Contents(queue[q]) \cup Contents(toParty[q]) \cup mail[q]

\* A mailbox is claimed exactly while a socket task serves it: a claimed one is
\* never swept, so one left behind would stay for good.
ClaimedWhileServed == \A p \in Member : box[p] = "claimed" <=> serve[p] = "serving"

\* Unless a member fails, all finish, in whatever order they join and leave.
AllDone == <>(Failed \/ \A p \in Member : pc[p] = "done")

-----------------------------------------------------------------------------
(* A claim of the documentation that the code does not keep                *)

\* PROCESS_ARCHITECTURE.md: with a 60 s run and a 90 s HTTP timeout "a live run
\* is never cut mid-flight".  No run is under way when the timeout strikes.
LiveRunNeverCut ==
  [][now < HttpTimeout /\ now' = HttpTimeout =>
       \A p \in Member : pc[p] # "running"]_vars
=============================================================================
