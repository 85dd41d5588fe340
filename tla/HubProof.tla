------------------------------ MODULE HubProof ------------------------------
(***************************************************************************)
(* The relay loses nothing of a ceremony that has not failed, and keeps no *)
(* mailbox without its socket, for any number of members and rounds and    *)
(* any timeouts that fit together.                                         *)
(***************************************************************************)
EXTENDS Hub, TLAPS, FiniteSetTheorems, SequenceTheorems

Fr(p, q, r) == [from |-> p, to |-> q, round |-> r]

\* No frame twice.
Once(s) == \A i, j \in DOMAIN s : s[i] = s[j] => i = j

\* What has passed the hub's reader on its way to q.
Held(q) == Contents(queue[q]) \cup Contents(toParty[q]) \cup mail[q]

\* Phases of a member and of its socket task.
PhaseInv ==
  \A p \in Member :
    /\ pc[p] = "dialing" => serve[p] = "none" /\ round[p] = 0 /\ toHub[p] = <<>>
    /\ pc[p] \in {"running", "done"} => round[p] >= 1 /\ serve[p] # "none"
    /\ serve[p] = "ended" => Closed(p)

\* A member's frames are with it until its task reads them, one by one.
SentInv ==
  \A p \in Member :
    /\ Once(toHub[p])
    /\ \A f \in Contents(toHub[p]) : f.from = p /\ f.to \in Peers(p) /\ f.round <= round[p]

\* What is on the way to q is for q, was sent by a member whose task serves it or
\* did, and is in one place only.
HeldInv ==
  \A q \in Member :
    /\ Once(queue[q]) /\ Once(toParty[q])
    /\ Contents(queue[q]) \cap Contents(toParty[q]) = {}
    /\ (Contents(queue[q]) \cup Contents(toParty[q])) \cap mail[q] = {}
    /\ \A f \in Held(q) : /\ f.to = q /\ f.from \in Peers(q)
                          /\ f.round <= round[f.from]
                          /\ serve[f.from] \in {"serving", "ended"}
                          /\ f \notin Contents(toHub[f.from])

\* A member has the rounds it has left behind.
RoundInv ==
  \A p \in Member : \A q \in Peers(p), r \in 1 .. LastRound :
    (pc[p] = "running" /\ r < round[p]) \/ pc[p] = "done" => Fr(q, p, r) \in mail[p]

TimeInv ==
  \A p \in Member : /\ pc[p] = "running" => now <= started[p] + RunTtl
                    /\ started[p] <= now

\* An unclaimed mailbox is that of a member that has not joined, and a run that
\* is still under way was there before it.
BoxInv ==
  ~Failed =>
    \A q \in Member : box[q] = "unclaimed" =>
      /\ serve[q] \in {"none", "joining"}
      /\ \E p \in Peers(q) : pc[p] = "running" /\ started[p] <= created[q]

\* Nothing is lost.
KeptInv ==
  ~Failed =>
    \A p \in Member : \A q \in Peers(p), r \in 1 .. round[p] :
      Fr(p, q, r) \in Contents(toHub[p]) \cup Held(q)

\* What holds whatever the timeouts are.
IndInv ==
  TypeOK /\ ClaimedWhileServed /\ PhaseInv /\ SentInv /\ HeldInv /\ RoundInv /\ TimeInv

\* What holds besides if a mailbox may wait for longer than a run may last.
LossInv == BoxInv /\ KeptInv

-----------------------------------------------------------------------------
(* Sequences of frames                                                     *)

LEMMA ContentsOfTail ==
  ASSUME NEW s \in Seq(Frame), s # <<>>
  PROVE  /\ Head(s) \in Frame /\ Tail(s) \in Seq(Frame)
         /\ Head(s) \in Contents(s)
         /\ Contents(s) = {Head(s)} \cup Contents(Tail(s))
         /\ Once(s) => Once(Tail(s)) /\ Head(s) \notin Contents(Tail(s))
<1>1. /\ Head(s) \in Frame /\ Tail(s) \in Seq(Frame) /\ Len(s) \in Nat \ {0}
      /\ Len(Tail(s)) = Len(s) - 1 /\ Head(s) = s[1]
      /\ \A i \in 1 .. Len(s) - 1 : Tail(s)[i] = s[i + 1]
  BY HeadTailProperties, EmptySeq
<1>2. DOMAIN s = 1 .. Len(s) /\ DOMAIN Tail(s) = 1 .. Len(s) - 1
  BY <1>1, LenProperties
<1>3. Contents(s) = {Head(s)} \cup Contents(Tail(s))
  <2>1. ASSUME NEW f \in Contents(s) PROVE f \in {Head(s)} \cup Contents(Tail(s))
    <3>1. PICK i \in 1 .. Len(s) : f = s[i]
      BY <1>2 DEF Contents
    <3>2. CASE i = 1
      BY <1>1, <3>1, <3>2
    <3>3. CASE i # 1
      <4>1. i - 1 \in 1 .. Len(s) - 1 /\ Tail(s)[i - 1] = f
        BY <1>1, <3>1, <3>3
      <4>2. QED
        BY <1>2, <4>1 DEF Contents
    <3>4. QED
      BY <3>2, <3>3
  <2>2. ASSUME NEW f \in {Head(s)} \cup Contents(Tail(s)) PROVE f \in Contents(s)
    <3>1. CASE f = Head(s)
      BY <1>1, <1>2, <3>1 DEF Contents
    <3>2. CASE f \in Contents(Tail(s))
      <4>1. PICK i \in 1 .. Len(s) - 1 : f = Tail(s)[i]
        BY <1>2, <3>2 DEF Contents
      <4>2. i + 1 \in 1 .. Len(s) /\ s[i + 1] = f
        BY <1>1, <4>1
      <4>3. QED
        BY <1>2, <4>2 DEF Contents
    <3>3. QED
      BY <2>2, <3>1, <3>2
  <2>3. QED
    BY <2>1, <2>2
<1>4. ASSUME Once(s) PROVE Once(Tail(s)) /\ Head(s) \notin Contents(Tail(s))
  <2>1. \A i, j \in 1 .. Len(s) : s[i] = s[j] => i = j
    BY <1>2, <1>4 DEF Once
  <2>2. Once(Tail(s))
    BY <1>1, <1>2, <2>1 DEF Once
  <2>3. \A i \in 1 .. Len(s) - 1 : Tail(s)[i] # Head(s)
    BY <1>1, <2>1
  <2>4. QED
    BY <1>2, <2>2, <2>3 DEF Contents
<1>5. QED
  BY <1>1, <1>3, <1>4

LEMMA ContentsOfConcat ==
  ASSUME NEW s \in Seq(Frame), NEW t \in Seq(Frame)
  PROVE  /\ s \o t \in Seq(Frame)
         /\ Contents(s \o t) = Contents(s) \cup Contents(t)
         /\ Once(s) /\ Once(t) /\ Contents(s) \cap Contents(t) = {} => Once(s \o t)
<1>1. /\ s \o t \in Seq(Frame) /\ Len(s \o t) = Len(s) + Len(t)
      /\ \A i \in 1 .. Len(s) + Len(t) :
           (s \o t)[i] = IF i <= Len(s) THEN s[i] ELSE t[i - Len(s)]
  BY ConcatProperties
<1>2. /\ DOMAIN s = 1 .. Len(s) /\ DOMAIN t = 1 .. Len(t)
      /\ Len(s) \in Nat /\ Len(t) \in Nat
  BY LenProperties
<1>3. DOMAIN (s \o t) = 1 .. Len(s) + Len(t)
  BY <1>1, LenProperties
<1>4. Contents(s \o t) = Contents(s) \cup Contents(t)
  <2>1. ASSUME NEW f \in Contents(s \o t) PROVE f \in Contents(s) \cup Contents(t)
    <3>1. PICK i \in 1 .. Len(s) + Len(t) : f = (s \o t)[i]
      BY <1>3 DEF Contents
    <3>2. CASE i <= Len(s)
      BY <1>1, <1>2, <3>1, <3>2 DEF Contents
    <3>3. CASE i > Len(s)
      <4>1. i - Len(s) \in 1 .. Len(t) /\ f = t[i - Len(s)]
        BY <1>1, <1>2, <3>1, <3>3
      <4>2. QED
        BY <1>2, <4>1 DEF Contents
    <3>4. QED
      BY <1>2, <3>2, <3>3
  <2>2. ASSUME NEW f \in Contents(s) PROVE f \in Contents(s \o t)
    <3>1. PICK i \in 1 .. Len(s) : f = s[i]
      BY <1>2, <2>2 DEF Contents
    <3>2. i \in 1 .. Len(s) + Len(t) /\ (s \o t)[i] = f
      BY <1>1, <1>2, <3>1
    <3>3. QED
      BY <1>3, <3>2 DEF Contents
  <2>3. ASSUME NEW f \in Contents(t) PROVE f \in Contents(s \o t)
    <3>1. PICK i \in 1 .. Len(t) : f = t[i]
      BY <1>2, <2>3 DEF Contents
    <3>2. i + Len(s) \in 1 .. Len(s) + Len(t) /\ (s \o t)[i + Len(s)] = f
      BY <1>1, <1>2, <3>1
    <3>3. QED
      BY <1>3, <3>2 DEF Contents
  <2>4. QED
    BY <2>1, <2>2, <2>3
<1>5. ASSUME Once(s), Once(t), Contents(s) \cap Contents(t) = {} PROVE Once(s \o t)
  <2> SUFFICES ASSUME NEW i \in 1 .. Len(s) + Len(t), NEW j \in 1 .. Len(s) + Len(t),
                      (s \o t)[i] = (s \o t)[j]
               PROVE  i = j
    BY <1>3 DEF Once
  <2>1. CASE i <= Len(s) /\ j <= Len(s)
    BY <1>1, <1>2, <1>5, <2>1 DEF Once
  <2>2. CASE i > Len(s) /\ j > Len(s)
    <3>1. i - Len(s) \in 1 .. Len(t) /\ j - Len(s) \in 1 .. Len(t)
      BY <1>2, <2>2
    <3>2. t[i - Len(s)] = t[j - Len(s)]
      BY <1>1, <1>2, <2>2
    <3>3. i - Len(s) = j - Len(s)
      BY <1>2, <1>5, <3>1, <3>2 DEF Once
    <3>4. QED
      BY <1>2, <3>3
  <2>3. ASSUME NEW x \in 1 .. Len(s) + Len(t), NEW y \in 1 .. Len(s) + Len(t),
               x <= Len(s), y > Len(s), (s \o t)[x] = (s \o t)[y]
        PROVE  FALSE
    <3>1. x \in 1 .. Len(s) /\ y - Len(s) \in 1 .. Len(t) /\ s[x] = t[y - Len(s)]
      BY <1>1, <1>2, <2>3
    <3>2. s[x] \in Contents(s) /\ t[y - Len(s)] \in Contents(t)
      BY <1>2, <3>1 DEF Contents
    <3>3. QED
      BY <1>5, <3>1, <3>2
  <2>4. QED
    BY <1>2, <2>1, <2>2, <2>3
<1>6. QED
  BY <1>1, <1>4, <1>5

LEMMA ContentsOfOne ==
  ASSUME NEW f \in Frame
  PROVE  <<f>> \in Seq(Frame) /\ Contents(<<f>>) = {f} /\ Once(<<f>>)
BY DEF Contents, Once

\* A batch is one frame for every peer.
LEMMA BatchIsRound ==
  ASSUME NEW p \in Member, NEW r \in 1 .. LastRound, NEW s \in Batch(p, r)
  PROVE  /\ s \in Seq(Frame) /\ Once(s)
         /\ Contents(s) = {Fr(p, q, r) : q \in Peers(p)}
<1> DEFINE n == Cardinality(Peers(p))
           T == [from : {p}, to : Peers(p), round : {r}]
           g == [q \in Peers(p) |-> Fr(p, q, r)]
<1>1. IsFiniteSet(Peers(p)) /\ n \in Nat
  BY MemberAssumption, FS_RemoveElement, FS_CardinalityType DEF Peers
<1>2. s \in [1 .. n -> T] /\ Once(s)
  BY DEF Batch, Once
<1>3. T \subseteq Frame
  BY DEF Frame, Peers
<1>4. T = {Fr(p, q, r) : q \in Peers(p)}
  <2>1. ASSUME NEW x \in T PROVE x.to \in Peers(p) /\ x = Fr(p, x.to, r)
    BY DEF Fr
  <2>2. \A q \in Peers(p) : Fr(p, q, r) \in T
    BY DEF Fr
  <2>3. QED
    BY <2>1, <2>2
<1>5. IsFiniteSet(T) /\ Cardinality(T) = n
  <2>1. g \in Bijection(Peers(p), T)
    BY <1>4 DEF Bijection, Injection, Surjection, IsInjective, Fr
  <2>2. ExistsBijection(Peers(p), T)
    BY <2>1 DEF ExistsBijection
  <2>3. QED
    BY <1>1, <2>2, FS_Bijection
<1>6. s \in Injection(1 .. n, T)
  BY <1>2 DEF Injection, IsInjective, Once
<1>7. Cardinality(1 .. n) = n
  BY <1>1, FS_Interval
<1>8. s \in Surjection(1 .. n, T)
  BY <1>5, <1>6, <1>7, FS_Injection
<1>9. Contents(s) = T
  BY <1>2, <1>8 DEF Contents, Surjection
<1>10. s \in Seq(Frame)
  BY <1>1, <1>2, <1>3
<1>11. QED
  BY <1>2, <1>4, <1>9, <1>10

-----------------------------------------------------------------------------
(* Types                                                                   *)

LEMMA SweptTypes ==
  ASSUME TypeOK
  PROVE  /\ SweptQueue \in [Member -> Seq(Frame)]
         /\ SweptBox \in [Member -> {"absent", "unclaimed", "claimed"}]
BY DEF TypeOK, SweptQueue, SweptBox

LEMMA TypeNext == TypeOK /\ [Next]_vars => TypeOK'
<1> SUFFICES ASSUME TypeOK, [Next]_vars PROVE TypeOK'
  OBVIOUS
<1> USE TimeAssumption DEF TypeOK
<1>1. CASE Tick
  BY <1>1 DEF Tick, partyVars, boxVars
<1>2. ASSUME NEW p \in Member, Dial(p) PROVE TypeOK'
  <2>1. PICK s \in Batch(p, 1) : toHub' = [toHub EXCEPT ![p] = s]
    BY <1>2 DEF Dial
  <2>2. s \in Seq(Frame)
    BY <2>1, BatchIsRound, 1 \in 1 .. LastRound
  <2>3. toHub' \in [Member -> Seq(Frame)]
    BY <2>1, <2>2
  <2>4. QED
    BY <1>2, <2>3 DEF Dial, boxVars
<1>3. ASSUME NEW p \in Member, Receive(p) PROVE TypeOK'
  <2>1. Head(toParty[p]) \in Frame /\ Tail(toParty[p]) \in Seq(Frame)
    BY <1>3, ContentsOfTail DEF Receive
  <2>2. mail' \in [Member -> SUBSET Frame] /\ toParty' \in [Member -> Seq(Frame)]
    BY <1>3, <2>1 DEF Receive
  <2>3. QED
    BY <1>3, <2>2 DEF Receive, boxVars
<1>4. ASSUME NEW p \in Member, Proceed(p) PROVE TypeOK'
  <2>1. round[p] + 1 \in 1 .. LastRound
    BY <1>4 DEF Proceed, RoundsLeft
  <2>2. PICK s \in Batch(p, round[p] + 1) : toHub' = [toHub EXCEPT ![p] = @ \o s]
    BY <1>4 DEF Proceed
  <2>3. toHub[p] \o s \in Seq(Frame)
    BY <2>1, <2>2, BatchIsRound, ContentsOfConcat
  <2>4. toHub' \in [Member -> Seq(Frame)] /\ round' \in [Member -> 0 .. LastRound]
    <3>1. toHub' \in [Member -> Seq(Frame)]
      BY <2>2, <2>3
    <3>2. round' \in [Member -> 0 .. LastRound]
      BY <1>4, <2>1 DEF Proceed
    <3>3. QED
      BY <3>1, <3>2
  <2>5. QED
    BY <1>4, <2>4 DEF Proceed, boxVars
<1>5. ASSUME NEW p \in Member, Finish(p) \/ Fail(p) PROVE TypeOK'
  BY <1>5 DEF Finish, Fail, boxVars
<1>6. ASSUME NEW p \in Member, Claim(p) PROVE TypeOK'
  BY <1>6, SweptTypes DEF Claim, partyVars
<1>7. ASSUME NEW p \in Member, Deliver(p) PROVE TypeOK'
  <2> DEFINE f == Head(toHub[p])
  <2>1. f \in Frame /\ Tail(toHub[p]) \in Seq(Frame)
    BY <1>7, ContentsOfTail DEF Deliver
  <2>2. f.to \in Member
    BY <2>1 DEF Frame
  <2>3. SweptQueue[f.to] \o <<f>> \in Seq(Frame)
    BY <2>1, <2>2, SweptTypes, ContentsOfConcat, ContentsOfOne
  <2>4. queue' = [SweptQueue EXCEPT ![f.to] = @ \o <<f>>]
    BY <1>7 DEF Deliver, Delivered
  <2>5. queue' \in [Member -> Seq(Frame)]
    BY <2>2, <2>3, <2>4, SweptTypes
  <2>6. box' \in [Member -> {"absent", "unclaimed", "claimed"}]
    BY <1>7, SweptTypes DEF Deliver
  <2>7. toHub' \in [Member -> Seq(Frame)] /\ created' \in [Member -> 0 .. Horizon]
    BY <1>7, <2>1 DEF Deliver
  <2>8. QED
    BY <1>7, <2>5, <2>6, <2>7 DEF Deliver, partyVars
<1>8. ASSUME NEW p \in Member, Forward(p) PROVE TypeOK'
  <2>1. Head(queue[p]) \in Frame /\ Tail(queue[p]) \in Seq(Frame)
    BY <1>8, ContentsOfTail DEF Forward
  <2>2. queue' \in [Member -> Seq(Frame)] /\ toParty' \in [Member -> Seq(Frame)]
    BY <1>8, <2>1 DEF Forward
  <2>3. QED
    BY <1>8, <2>2 DEF Forward, partyVars
<1>9. ASSUME NEW p \in Member, SocketClosed(p) \/ JoinLost(p) PROVE TypeOK'
  <2>1. <<>> \in Seq(Frame)
    OBVIOUS
  <2>2. toHub' \in [Member -> Seq(Frame)] /\ queue' \in [Member -> Seq(Frame)]
    <3>1. toHub' = [toHub EXCEPT ![p] = <<>>]
      BY <1>9 DEF SocketClosed, EndTask, JoinLost
    <3>2. queue' = [queue EXCEPT ![p] = <<>>] \/ queue' = queue
      BY <1>9 DEF SocketClosed, EndTask, JoinLost, boxVars
    <3>3. [toHub EXCEPT ![p] = <<>>] \in [Member -> Seq(Frame)]
      BY <2>1
    <3>4. [queue EXCEPT ![p] = <<>>] \in [Member -> Seq(Frame)]
      BY <2>1
    <3>5. QED
      BY <3>1, <3>2, <3>3, <3>4
  <2>3. box' \in [Member -> {"absent", "unclaimed", "claimed"}]
    BY <1>9 DEF SocketClosed, EndTask, Removed, JoinLost, boxVars
  <2>4. serve' \in [Member -> {"none", "joining", "serving", "ended"}]
    BY <1>9 DEF SocketClosed, EndTask, JoinLost
  <2>5. QED
    BY <1>9, <2>2, <2>3, <2>4 DEF SocketClosed, EndTask, JoinLost, partyVars, boxVars
<1>10. CASE UNCHANGED vars
  BY <1>10 DEF vars, partyVars, boxVars
<1>11. QED
  BY <1>1, <1>2, <1>3, <1>4, <1>5, <1>6, <1>7, <1>8, <1>9, <1>10 DEF Next, Client, HubStep

\* Every state of the relay and its clients is well typed.
THEOREM TypeCorrect == Spec => []TypeOK
<1>1. Init => TypeOK
  BY TimeAssumption DEF Init, TypeOK
<1>2. QED
  BY <1>1, TypeNext, PTL DEF Spec

-----------------------------------------------------------------------------
(* Where frames are                                                        *)

LEMMA FrameIsFr ==
  ASSUME NEW f \in Frame
  PROVE  /\ f.from \in Member /\ f.to \in Member /\ f.round \in 1 .. LastRound
         /\ f = Fr(f.from, f.to, f.round)
BY DEF Frame, Fr

LEMMA HeldIsFrame ==
  ASSUME TypeOK, NEW q \in Member, NEW f \in Held(q)
  PROVE  f \in Frame
<1>1. CASE f \in mail[q]
  BY <1>1 DEF TypeOK
<1>2. CASE f \in Contents(queue[q])
  <2>1. queue[q] \in Seq(Frame)
    BY DEF TypeOK
  <2>2. QED
    BY <1>2, <2>1 DEF Contents
<1>3. CASE f \in Contents(toParty[q])
  <2>1. toParty[q] \in Seq(Frame)
    BY DEF TypeOK
  <2>2. QED
    BY <1>3, <2>1 DEF Contents
<1>4. QED
  BY <1>1, <1>2, <1>3 DEF Held

\* The empty sequence.
LEMMA ContentsOfNone == Contents(<<>>) = {} /\ Once(<<>>)
BY DEF Contents, Once

\* The hub's sweep and the end of a task only take frames out of mailboxes.
LEMMA HeldShrinks ==
  ASSUME HeldInv, TypeOK, UNCHANGED <<toParty, mail, round>>,
         \A q \in Member : queue'[q] = queue[q] \/ queue'[q] = <<>>,
         \A q \in Member : toHub'[q] = toHub[q] \/ toHub'[q] = <<>>,
         \A q \in Member : serve[q] \in {"serving", "ended"} => serve'[q] \in {"serving", "ended"}
  PROVE  HeldInv'
<1> SUFFICES ASSUME NEW q \in Member
             PROVE  /\ Once(queue'[q]) /\ Once(toParty'[q])
                    /\ Contents(queue'[q]) \cap Contents(toParty'[q]) = {}
                    /\ (Contents(queue'[q]) \cup Contents(toParty'[q])) \cap mail'[q] = {}
                    /\ \A f \in Held(q)' : /\ f.to = q /\ f.from \in Peers(q)
                                           /\ f.round <= round'[f.from]
                                           /\ serve'[f.from] \in {"serving", "ended"}
                                           /\ f \notin Contents(toHub'[f.from])
  BY DEF HeldInv, Held, Contents, Once, Peers
<1>1. Contents(queue'[q]) \subseteq Contents(queue[q]) /\ Once(queue'[q])
  BY ContentsOfNone DEF HeldInv
<1>2. Held(q)' \subseteq Held(q)
  BY <1>1 DEF Held, Contents
<1>3. \A x \in Member : Contents(toHub'[x]) \subseteq Contents(toHub[x])
  BY ContentsOfNone
<1>4. \A f \in Held(q) : f.from \in Member
  BY DEF HeldInv, Peers
<1>5. QED
  BY <1>1, <1>2, <1>3, <1>4 DEF HeldInv

LEMMA InitInd == Init => IndInv
<1> SUFFICES ASSUME Init PROVE IndInv
  OBVIOUS
<1>1. TypeOK
  BY TimeAssumption DEF Init, TypeOK
<1>2. ClaimedWhileServed /\ PhaseInv /\ TimeInv /\ RoundInv
  BY TimeAssumption DEF Init, ClaimedWhileServed, PhaseInv, TimeInv, RoundInv
<1>3. SentInv /\ HeldInv
  BY ContentsOfNone DEF Init, SentInv, HeldInv, Held
<1>4. QED
  BY <1>1, <1>2, <1>3 DEF IndInv

-----------------------------------------------------------------------------
(* Members                                                                 *)

LEMMA TickInd ==
  ASSUME IndInv, TypeOK', Tick
  PROVE  IndInv'
<1>1. UNCHANGED <<pc, started, round, mail, toHub, toParty, serve, box, created, queue>>
  BY DEF Tick, partyVars, boxVars
<1>2. TimeInv'
  BY <1>1, TimeAssumption DEF Tick, Expired, IndInv, TimeInv, TypeOK
<1>3. QED
  BY <1>1, <1>2 DEF IndInv, ClaimedWhileServed, PhaseInv, SentInv, HeldInv, RoundInv, Held,
    Closed

LEMMA DialInd ==
  ASSUME IndInv, TypeOK', NEW p \in Member, Dial(p)
  PROVE  IndInv'
<1> USE DEF IndInv
<1>1. pc[p] = "dialing" /\ UNCHANGED <<now, mail, toParty, box, created, queue>>
  BY DEF Dial, boxVars
<1>2. PICK s \in Batch(p, 1) : toHub' = [toHub EXCEPT ![p] = s]
  BY DEF Dial
<1>3. Once(s) /\ Contents(s) = {Fr(p, q, 1) : q \in Peers(p)}
  BY <1>2, BatchIsRound, TimeAssumption, 1 \in 1 .. LastRound
<1>4. \A q \in Member : /\ pc'[q] = IF q = p THEN "running" ELSE pc[q]
                        /\ started'[q] = IF q = p THEN now ELSE started[q]
                        /\ round'[q] = IF q = p THEN 1 ELSE round[q]
                        /\ serve'[q] = IF q = p THEN "joining" ELSE serve[q]
                        /\ toHub'[q] = IF q = p THEN s ELSE toHub[q]
  BY <1>2 DEF Dial, TypeOK
<1>5. serve[p] = "none"
  BY <1>1 DEF PhaseInv
<1>6. ClaimedWhileServed' /\ PhaseInv'
  BY <1>1, <1>4, <1>5 DEF ClaimedWhileServed, PhaseInv, Closed
<1>7. TimeInv' /\ RoundInv'
  <2>1. TimeInv'
    <3>1. now \in Nat /\ RunTtl \in Nat
      BY TimeAssumption DEF TypeOK
    <3>2. QED
      BY <1>1, <1>4, <3>1 DEF TimeInv
  <2>2. \A k \in 1 .. LastRound : ~(k < 1)
    BY TimeAssumption
  <2>3. RoundInv'
    BY <1>1, <1>4, <2>2 DEF RoundInv
  <2>4. QED
    BY <2>1, <2>3
<1>8. SentInv'
  BY <1>3, <1>4 DEF SentInv, Fr
<1>9. HeldInv'
  <2>1. ASSUME NEW q \in Member, NEW f \in Held(q) PROVE f.from \in Member /\ f.from # p
    BY <1>5, <2>1 DEF HeldInv, Peers
  <2>2. \A q \in Member : Held(q)' = Held(q)
    BY <1>1 DEF Held
  <2>3. QED
    BY <1>1, <1>4, <2>1, <2>2 DEF HeldInv
<1>10. QED
  BY <1>6, <1>7, <1>8, <1>9

LEMMA ReceiveInd ==
  ASSUME IndInv, TypeOK', NEW p \in Member, Receive(p)
  PROVE  IndInv'
<1> USE DEF IndInv
<1> DEFINE f == Head(toParty[p])
           s == Tail(toParty[p])
<1>1. UNCHANGED <<now, pc, started, round, toHub, serve, box, created, queue>>
  BY DEF Receive, boxVars
<1>2. \A q \in Member : /\ mail'[q] = IF q = p THEN mail[q] \cup {f} ELSE mail[q]
                        /\ toParty'[q] = IF q = p THEN s ELSE toParty[q]
  BY DEF Receive, TypeOK
<1>3. Contents(toParty[p]) = {f} \cup Contents(s)
  BY ContentsOfTail DEF Receive, TypeOK
<1>4. Once(s) /\ f \notin Contents(s)
  BY ContentsOfTail DEF Receive, TypeOK, HeldInv
<1>5. ClaimedWhileServed' /\ PhaseInv' /\ SentInv' /\ TimeInv'
  BY <1>1 DEF ClaimedWhileServed, PhaseInv, SentInv, TimeInv, Closed
<1>6. RoundInv'
  BY <1>1, <1>2 DEF RoundInv
<1> HIDE DEF f, s
<1>7. \A q \in Member : Held(q)' = Held(q)
  BY <1>1, <1>2, <1>3 DEF Held
<1>8. HeldInv'
  <2>1. ASSUME NEW q \in Member
        PROVE  /\ Once(queue'[q]) /\ Once(toParty'[q])
               /\ Contents(queue'[q]) \cap Contents(toParty'[q]) = {}
               /\ (Contents(queue'[q]) \cup Contents(toParty'[q])) \cap mail'[q] = {}
    <3>1. CASE q = p
      <4>1. /\ queue'[p] = queue[p] /\ toParty'[p] = s /\ mail'[p] = mail[p] \cup {f}
        BY <1>1, <1>2
      <4>2. /\ Once(queue[p]) /\ Contents(queue[p]) \cap Contents(toParty[p]) = {}
            /\ (Contents(queue[p]) \cup Contents(toParty[p])) \cap mail[p] = {}
        BY DEF HeldInv
      <4>3. QED
        BY <1>3, <1>4, <3>1, <4>1, <4>2
    <3>2. CASE q # p
      BY <1>1, <1>2, <3>2 DEF HeldInv
    <3>3. QED
      BY <3>1, <3>2
  <2>2. QED
    BY <1>1, <1>7, <2>1 DEF HeldInv
<1>9. QED
  BY <1>5, <1>6, <1>8

LEMMA ProceedInd ==
  ASSUME IndInv, TypeOK', NEW p \in Member, Proceed(p)
  PROVE  IndInv'
<1> USE DEF IndInv
<1> DEFINE r == round[p] + 1
<1>1. UNCHANGED <<now, pc, started, mail, toParty, serve, box, created, queue>>
  BY DEF Proceed, boxVars
<1>2. pc[p] = "running" /\ Collected(p) /\ r \in 1 .. LastRound /\ round[p] \in Nat
  BY TimeAssumption DEF Proceed, RoundsLeft, TypeOK
<1>3. PICK s \in Batch(p, r) : toHub' = [toHub EXCEPT ![p] = @ \o s]
  BY DEF Proceed
<1>4. s \in Seq(Frame) /\ Once(s) /\ Contents(s) = {Fr(p, q, r) : q \in Peers(p)}
  BY <1>2, <1>3, BatchIsRound
<1>5. \A f \in Contents(s) : f.from = p /\ f.to \in Peers(p) /\ f.round = round[p] + 1
  BY <1>4 DEF Fr
<1>6. \A q \in Member : /\ round'[q] = IF q = p THEN round[p] + 1 ELSE round[q]
                        /\ toHub'[q] = IF q = p THEN toHub[p] \o s ELSE toHub[q]
  BY <1>3 DEF Proceed, TypeOK
<1>7. Contents(toHub[p]) \cap Contents(s) = {}
  BY <1>2, <1>5 DEF SentInv
<1>8. Contents(toHub'[p]) = Contents(toHub[p]) \cup Contents(s) /\ Once(toHub'[p])
  <2>1. toHub[p] \in Seq(Frame) /\ Once(toHub[p])
    BY DEF TypeOK, SentInv
  <2>2. QED
    BY <1>4, <1>6, <1>7, <2>1, ContentsOfConcat
<1>9. ClaimedWhileServed' /\ PhaseInv' /\ TimeInv'
  BY <1>1, <1>2, <1>6 DEF ClaimedWhileServed, PhaseInv, TimeInv, Closed
<1>10. SentInv'
  <2>1. ASSUME NEW q \in Member, NEW f \in Contents(toHub'[q])
        PROVE  f.from = q /\ f.to \in Peers(q) /\ f.round <= round'[q]
    <3>1. CASE q = p /\ f \in Contents(s)
      BY <1>2, <1>5, <1>6, <3>1
    <3>2. CASE f \in Contents(toHub[q])
      <4>1. f \in Frame
        <5>1. toHub[q] \in Seq(Frame)
          BY DEF TypeOK
        <5>2. QED
          BY <3>2, <5>1 DEF Contents
      <4>2. f.round \in Nat
        BY <4>1 DEF Frame
      <4>3. QED
        BY <1>2, <1>6, <3>2, <4>2 DEF SentInv
    <3>3. QED
      BY <1>6, <1>8, <2>1, <3>1, <3>2
  <2>2. \A q \in Member : Once(toHub'[q])
    BY <1>6, <1>8 DEF SentInv
  <2>3. QED
    BY <2>1, <2>2 DEF SentInv, Contents, Once, Peers
<1>11. HeldInv'
  <2>1. \A q \in Member : Held(q)' = Held(q)
    BY <1>1 DEF Held
  <2>2. ASSUME NEW q \in Member, NEW f \in Held(q)
        PROVE  f.round <= round'[f.from] /\ f \notin Contents(toHub'[f.from])
    <3>1. f.from \in Member /\ f.round \in Nat
      BY <2>2, HeldIsFrame, FrameIsFr
    <3>2. f.round <= round[f.from] /\ f \notin Contents(toHub[f.from])
      BY <2>2 DEF HeldInv
    <3>3. QED
      BY <1>2, <1>5, <1>6, <1>8, <3>1, <3>2
  <2>3. QED
    BY <1>1, <2>1, <2>2 DEF HeldInv
<1>12. RoundInv'
  <2>1. ASSUME NEW x \in Member, NEW q \in Peers(x), NEW k \in 1 .. LastRound,
               (pc[x] = "running" /\ k < round'[x]) \/ pc[x] = "done"
        PROVE  Fr(q, x, k) \in mail[x]
    <3>1. CASE x = p /\ k = round[p]
      BY <1>2, <2>1, <3>1 DEF Collected, Fr
    <3>2. CASE x = p /\ k # round[p]
      BY <1>2, <1>6, <2>1, <3>2 DEF RoundInv
    <3>3. CASE x # p
      BY <1>6, <2>1, <3>3 DEF RoundInv
    <3>4. QED
      BY <3>1, <3>2, <3>3
  <2>2. QED
    BY <1>1, <2>1 DEF RoundInv, Peers, Fr
<1>13. QED
  BY <1>9, <1>10, <1>11, <1>12

LEMMA FinishInd ==
  ASSUME IndInv, TypeOK', NEW p \in Member, Finish(p) \/ Fail(p)
  PROVE  IndInv'
<1> USE DEF IndInv
<1>1. UNCHANGED <<now, started, round, mail, toHub, toParty, serve, box, created, queue>>
  BY DEF Finish, Fail, boxVars
<1>2. \/ /\ pc[p] = "running" /\ Collected(p) /\ round[p] = LastRound
         /\ \A q \in Member : pc'[q] = IF q = p THEN "done" ELSE pc[q]
      \/ /\ pc[p] \in {"dialing", "running"}
         /\ \A q \in Member : pc'[q] = IF q = p THEN "failed" ELSE pc[q]
  BY DEF Finish, Fail, TypeOK
<1>3. ClaimedWhileServed' /\ SentInv' /\ HeldInv'
  BY <1>1 DEF ClaimedWhileServed, SentInv, HeldInv, Held
<1>4. PhaseInv' /\ TimeInv'
  BY <1>1, <1>2 DEF PhaseInv, TimeInv, Closed
<1>5. RoundInv'
  <2>1. ASSUME NEW x \in Member, NEW q \in Peers(x), NEW k \in 1 .. LastRound,
               (pc'[x] = "running" /\ k < round[x]) \/ pc'[x] = "done"
        PROVE  Fr(q, x, k) \in mail[x]
    <3>1. CASE x = p
      <4>1. pc[p] = "running" /\ Collected(p) /\ round[p] = LastRound
        BY <1>2, <2>1, <3>1
      <4>2. CASE k = round[p]
        BY <2>1, <3>1, <4>1, <4>2 DEF Collected, Fr
      <4>3. CASE k < round[p]
        BY <2>1, <3>1, <4>1, <4>3 DEF RoundInv
      <4>4. QED
        BY <4>1, <4>2, <4>3, TimeAssumption
    <3>2. CASE x # p
      BY <1>2, <2>1, <3>2 DEF RoundInv
    <3>3. QED
      BY <3>1, <3>2
  <2>2. QED
    BY <1>1, <2>1 DEF RoundInv, Peers, Fr
<1>6. QED
  BY <1>3, <1>4, <1>5

-----------------------------------------------------------------------------
(* The hub                                                                 *)

LEMMA ClaimInd ==
  ASSUME IndInv, TypeOK', NEW p \in Member, Claim(p)
  PROVE  IndInv'
<1> USE DEF IndInv
<1>1. serve[p] = "joining" /\ UNCHANGED <<now, pc, started, round, mail, toHub, toParty>>
  BY DEF Claim, partyVars
<1>2. \A q \in Member : /\ serve'[q] = IF q = p THEN "serving" ELSE serve[q]
                        /\ box'[q] = IF q = p THEN "claimed" ELSE SweptBox[q]
                        /\ queue'[q] = queue[q] \/ queue'[q] = <<>>
  BY SweptTypes DEF Claim, TypeOK, SweptQueue
<1>3. \A q \in Member : SweptBox[q] = "claimed" <=> box[q] = "claimed"
  BY DEF SweptBox, Stale
<1>4. ClaimedWhileServed' /\ PhaseInv'
  BY <1>1, <1>2, <1>3 DEF ClaimedWhileServed, PhaseInv, Closed
<1>5. SentInv' /\ RoundInv' /\ TimeInv'
  BY <1>1 DEF SentInv, RoundInv, TimeInv
<1>6. HeldInv'
  BY <1>1, <1>2, HeldShrinks
<1>7. QED
  BY <1>4, <1>5, <1>6

LEMMA DeliverInd ==
  ASSUME IndInv, TypeOK', NEW p \in Member, Deliver(p)
  PROVE  IndInv'
<1> USE DEF IndInv
<1> DEFINE f == Head(toHub[p])
           s == Tail(toHub[p])
<1>1. serve[p] = "serving" /\ UNCHANGED <<now, pc, started, round, mail, toParty, serve>>
  BY DEF Deliver, partyVars
<1>2. /\ f \in Frame /\ f \in Contents(toHub[p]) /\ Contents(toHub[p]) = {f} \cup Contents(s)
      /\ Once(s) /\ f \notin Contents(s)
  BY ContentsOfTail DEF Deliver, TypeOK, SentInv
<1>3. f.from = p /\ f.to \in Member /\ f.to \in Peers(p) /\ f.round <= round[p]
  BY <1>2, FrameIsFr DEF SentInv
<1>4. \A q \in Member : toHub'[q] = IF q = p THEN s ELSE toHub[q]
  BY DEF Deliver, TypeOK
<1>5. queue' = [SweptQueue EXCEPT ![f.to] = @ \o <<f>>]
  BY DEF Deliver, Delivered
<1>6. \A q \in Member : box'[q] = "claimed" <=> box[q] = "claimed"
  <2>1. \A q \in Member : SweptBox[q] = "claimed" <=> box[q] = "claimed"
    BY DEF SweptBox, Stale
  <2>2. \A q \in Member : box'[q] = "claimed" <=> SweptBox[q] = "claimed"
    BY <1>3, SweptTypes DEF Deliver
  <2>3. QED
    BY <2>1, <2>2
<1> HIDE DEF f, s
<1>7. ASSUME NEW q \in Member
      PROVE  /\ Contents(queue'[q]) \subseteq Contents(queue[q]) \cup {x \in {f} : q = f.to}
             /\ Once(queue'[q])
  <2>1. SweptQueue[q] \in Seq(Frame) /\ (SweptQueue[q] = queue[q] \/ SweptQueue[q] = <<>>)
    BY SweptTypes DEF SweptQueue
  <2>2. Contents(SweptQueue[q]) \subseteq Contents(queue[q]) /\ Once(SweptQueue[q])
    BY <2>1, ContentsOfNone DEF HeldInv
  <2>3. CASE q = f.to
    <3>1. f \notin Contents(queue[q])
      BY <1>2, <1>3, <2>3 DEF HeldInv, Held
    <3>2. queue'[q] = SweptQueue[q] \o <<f>>
      BY <1>5, <2>3, SweptTypes
    <3>3. Contents(<<f>>) = {f} /\ Once(<<f>>) /\ <<f>> \in Seq(Frame)
      BY <1>2, ContentsOfOne
    <3>4. Contents(SweptQueue[q]) \cap Contents(<<f>>) = {}
      BY <2>2, <3>1, <3>3
    <3>5. /\ Contents(queue'[q]) = Contents(SweptQueue[q]) \cup {f}
          /\ Once(queue'[q])
      BY <2>1, <2>2, <3>2, <3>3, <3>4, ContentsOfConcat
    <3>6. QED
      BY <2>2, <2>3, <3>5
  <2>4. CASE q # f.to
    <3>1. queue'[q] = SweptQueue[q]
      BY <1>5, <2>4, SweptTypes
    <3>2. QED
      BY <2>2, <3>1
  <2>5. QED
    BY <2>3, <2>4
<1>8. ClaimedWhileServed' /\ PhaseInv' /\ RoundInv' /\ TimeInv'
  BY <1>1, <1>4, <1>6 DEF ClaimedWhileServed, PhaseInv, RoundInv, TimeInv, Closed
<1>9. SentInv'
  BY <1>1, <1>2, <1>4 DEF SentInv
<1>10. HeldInv'
  <2>1. f \notin Held(f.to)
    BY <1>2, <1>3 DEF HeldInv
  <2>2. ASSUME NEW q \in Member
        PROVE  /\ Contents(queue'[q]) \cap Contents(toParty[q]) = {}
               /\ (Contents(queue'[q]) \cup Contents(toParty[q])) \cap mail[q] = {}
    <3>1. q = f.to => f \notin Contents(toParty[q]) /\ f \notin mail[q]
      BY <2>1 DEF Held
    <3>2. /\ Contents(queue[q]) \cap Contents(toParty[q]) = {}
          /\ (Contents(queue[q]) \cup Contents(toParty[q])) \cap mail[q] = {}
      BY DEF HeldInv
    <3>3. Contents(queue'[q]) \subseteq Contents(queue[q]) \cup {x \in {f} : q = f.to}
      BY <1>7
    <3>4. QED
      BY <3>1, <3>2, <3>3
  <2>3. ASSUME NEW q \in Member, NEW g \in Held(q)'
        PROVE  /\ g.to = q /\ g.from \in Peers(q) /\ g.round <= round[g.from]
               /\ serve[g.from] \in {"serving", "ended"}
               /\ g \notin Contents(toHub'[g.from])
    <3>1. g \in Held(q) \/ (q = f.to /\ g = f)
      <4>1. g \in Contents(queue'[q]) \cup Contents(toParty[q]) \cup mail[q]
        BY <1>1, <2>3 DEF Held
      <4>2. QED
        BY <1>7, <4>1 DEF Held
    <3>2. CASE g \in Held(q)
      <4>1. g.from \in Member
        BY <3>2 DEF HeldInv, Peers
      <4>2. Contents(toHub'[g.from]) \subseteq Contents(toHub[g.from])
        BY <1>2, <1>4, <4>1
      <4>3. QED
        BY <3>2, <4>2 DEF HeldInv
    <3>3. CASE q = f.to /\ g = f
      BY <1>1, <1>2, <1>3, <1>4, <3>3 DEF Peers
    <3>4. QED
      BY <3>1, <3>2, <3>3
  <2>4. QED
    BY <1>1, <1>7, <2>2, <2>3 DEF HeldInv
<1>11. QED
  BY <1>8, <1>9, <1>10

LEMMA ForwardInd ==
  ASSUME IndInv, TypeOK', NEW p \in Member, Forward(p)
  PROVE  IndInv'
<1> USE DEF IndInv
<1> DEFINE f == Head(queue[p])
           s == Tail(queue[p])
<1>1. UNCHANGED <<now, pc, started, round, mail, toHub, serve, box, created>>
  BY DEF Forward, partyVars
<1>2. \A q \in Member : /\ queue'[q] = IF q = p THEN s ELSE queue[q]
                        /\ toParty'[q] = IF q = p THEN Append(toParty[p], f) ELSE toParty[q]
  BY DEF Forward, TypeOK
<1>3. /\ f \in Frame /\ Contents(queue[p]) = {f} \cup Contents(s)
      /\ Once(s) /\ f \notin Contents(s)
  BY ContentsOfTail DEF Forward, TypeOK, HeldInv
<1>4. ClaimedWhileServed' /\ PhaseInv' /\ SentInv' /\ RoundInv' /\ TimeInv'
  BY <1>1 DEF ClaimedWhileServed, PhaseInv, SentInv, RoundInv, TimeInv, Closed
<1> HIDE DEF f, s
<1>5. /\ Once(queue[p]) /\ Once(toParty[p]) /\ toParty[p] \in Seq(Frame)
      /\ Contents(queue[p]) \cap Contents(toParty[p]) = {}
      /\ (Contents(queue[p]) \cup Contents(toParty[p])) \cap mail[p] = {}
  BY DEF HeldInv, TypeOK
<1>6. /\ Contents(toParty'[p]) = Contents(toParty[p]) \cup {f}
      /\ Once(toParty'[p])
  <2>1. toParty'[p] = toParty[p] \o <<f>>
    BY <1>2, <1>3, <1>5, AppendIsConcat
  <2>2. Contents(<<f>>) = {f} /\ Once(<<f>>) /\ <<f>> \in Seq(Frame)
    BY <1>3, ContentsOfOne
  <2>3. Contents(toParty[p]) \cap Contents(<<f>>) = {}
    BY <1>3, <1>5, <2>2
  <2>4. QED
    BY <1>5, <2>1, <2>2, <2>3, ContentsOfConcat
<1>7. \A q \in Member : Held(q)' = Held(q)
  <2>1. ASSUME NEW q \in Member
        PROVE  Contents(queue'[q]) \cup Contents(toParty'[q])
                 = Contents(queue[q]) \cup Contents(toParty[q])
    BY <1>2, <1>3, <1>6
  <2>2. QED
    BY <1>1, <2>1 DEF Held, Contents
<1>8. HeldInv'
  <2>1. ASSUME NEW q \in Member
        PROVE  /\ Once(queue'[q]) /\ Once(toParty'[q])
               /\ Contents(queue'[q]) \cap Contents(toParty'[q]) = {}
               /\ (Contents(queue'[q]) \cup Contents(toParty'[q])) \cap mail'[q] = {}
    <3>1. CASE q = p
      <4>1. queue'[p] = s /\ mail'[p] = mail[p]
        BY <1>1, <1>2
      <4>2. QED
        BY <1>3, <1>5, <1>6, <3>1, <4>1
    <3>2. CASE q # p
      BY <1>1, <1>2, <3>2 DEF HeldInv
    <3>3. QED
      BY <3>1, <3>2
  <2>2. QED
    BY <1>1, <1>7, <2>1 DEF HeldInv
<1>9. QED
  BY <1>4, <1>8

LEMMA CloseInd ==
  ASSUME IndInv, TypeOK', NEW p \in Member, SocketClosed(p) \/ JoinLost(p)
  PROVE  IndInv'
<1> USE DEF IndInv
<1>1. Closed(p) /\ UNCHANGED <<now, pc, started, round, mail, toParty>>
  BY DEF SocketClosed, JoinLost, EndTask, Closed, partyVars
<1>2. \A q \in Member : /\ serve'[q] = IF q = p THEN "ended" ELSE serve[q]
                        /\ toHub'[q] = IF q = p THEN <<>> ELSE toHub[q]
                        /\ queue'[q] = queue[q] \/ queue'[q] = <<>>
  BY DEF SocketClosed, JoinLost, EndTask, TypeOK, boxVars
<1>3. \A q \in Member : box'[q] = "claimed" <=> box[q] = "claimed" /\ q # p
  <2>1. CASE SocketClosed(p)
    BY <2>1 DEF SocketClosed, EndTask, Removed, TypeOK
  <2>2. CASE JoinLost(p)
    BY <2>2 DEF JoinLost, boxVars, ClaimedWhileServed
  <2>3. QED
    BY <2>1, <2>2
<1>4. ClaimedWhileServed'
  BY <1>2, <1>3 DEF ClaimedWhileServed
<1>5. PhaseInv' /\ SentInv'
  BY <1>1, <1>2, ContentsOfNone DEF PhaseInv, SentInv, Closed
<1>6. RoundInv' /\ TimeInv'
  BY <1>1 DEF RoundInv, TimeInv
<1>7. HeldInv'
  BY <1>1, <1>2, HeldShrinks
<1>8. QED
  BY <1>4, <1>5, <1>6, <1>7

LEMMA NextInd == IndInv /\ [Next]_vars => IndInv'
<1> SUFFICES ASSUME IndInv, [Next]_vars PROVE IndInv'
  OBVIOUS
<1>1. TypeOK'
  BY TypeNext DEF IndInv
<1>2. CASE Tick
  BY <1>1, <1>2, TickInd
<1>3. ASSUME NEW p \in Member, Dial(p) \/ Client(p) \/ Fail(p) PROVE IndInv'
  BY <1>1, <1>3, DialInd, ReceiveInd, ProceedInd, FinishInd DEF Client
<1>4. ASSUME NEW p \in Member, HubStep(p) PROVE IndInv'
  BY <1>1, <1>4, ClaimInd, DeliverInd, ForwardInd, CloseInd DEF HubStep
<1>5. CASE UNCHANGED vars
  BY <1>1, <1>5 DEF vars, partyVars, boxVars, IndInv, ClaimedWhileServed, PhaseInv, SentInv,
    HeldInv, RoundInv, TimeInv, Held, Closed
<1>6. QED
  BY <1>2, <1>3, <1>4, <1>5 DEF Next

\* A mailbox is claimed exactly while a socket task serves it, for any timeouts:
\* none is left behind claimed, where no sweep would find it.
THEOREM ClaimedWhileServedHolds == Spec => []ClaimedWhileServed
<1>1. IndInv => ClaimedWhileServed
  BY DEF IndInv
<1>2. QED
  BY <1>1, InitInd, NextInd, PTL DEF Spec

-----------------------------------------------------------------------------
(* Nothing is lost                                                         *)

\* A mailbox does not outwait the run that wrote to it.
LEMMA NotStale ==
  ASSUME RunTtl < UnclaimedTtl, IndInv, BoxInv, ~Failed, NEW q \in Member
  PROVE  ~Stale(q)
<1> SUFFICES ASSUME Stale(q) PROVE FALSE
  OBVIOUS
<1>1. PICK p \in Peers(q) : pc[p] = "running" /\ started[p] <= created[q]
  BY DEF BoxInv, Stale
<1>2. p \in Member
  BY <1>1 DEF Peers
<1>3. now <= started[p] + RunTtl
  BY <1>1, <1>2 DEF IndInv, TimeInv
<1>4. now \in Nat /\ started[p] \in Nat /\ created[q] \in Nat
  BY <1>2 DEF IndInv, TypeOK
<1>5. RunTtl \in Nat /\ UnclaimedTtl \in Nat
  BY TimeAssumption
<1>6. now - created[q] >= UnclaimedTtl
  BY DEF Stale
<1>7. QED
  BY <1>1, <1>3, <1>4, <1>5, <1>6

LEMMA NothingSwept ==
  ASSUME RunTtl < UnclaimedTtl, IndInv, BoxInv, ~Failed
  PROVE  SweptQueue = queue /\ SweptBox = box
BY NotStale DEF SweptQueue, SweptBox, IndInv, TypeOK

\* A member that finished has everything that was ever sent to it.
LEMMA DoneHasAll ==
  ASSUME IndInv, NEW p \in Member, pc[p] = "done", NEW f \in Frame, f.to = p, f.from \in Peers(p)
  PROVE  f \in mail[p]
<1>1. f = Fr(f.from, p, f.round) /\ f.round \in 1 .. LastRound
  BY FrameIsFr
<1>2. QED
  BY <1>1 DEF IndInv, RoundInv

\* Nobody finishes before everybody has joined.
LEMMA DoneAfterJoin ==
  ASSUME IndInv, NEW p \in Member, pc[p] = "done", NEW q \in Peers(p)
  PROVE  serve[q] \in {"serving", "ended"}
<1>1. 1 \in 1 .. LastRound /\ q \in Member
  BY TimeAssumption DEF Peers
<1>2. Fr(q, p, 1) \in mail[p]
  BY <1>1 DEF IndInv, RoundInv
<1>3. Fr(q, p, 1) \in Held(p)
  BY <1>2 DEF Held
<1>4. Fr(q, p, 1).from = q
  BY DEF Fr
<1>5. QED
  BY <1>3, <1>4 DEF IndInv, HeldInv

LEMMA MemberLoss ==
  ASSUME IndInv, LossInv, IndInv', NEW p \in Member, Dial(p) \/ Client(p) \/ Fail(p)
  PROVE  LossInv'
<1> USE DEF IndInv
<1>1. CASE Dial(p)
  <2>1. pc[p] = "dialing" /\ UNCHANGED <<mail, toParty, box, created, queue>>
    BY <1>1 DEF Dial, boxVars
  <2>2. PICK s \in Batch(p, 1) : toHub' = [toHub EXCEPT ![p] = s]
    BY <1>1 DEF Dial
  <2>3. Contents(s) = {Fr(p, q, 1) : q \in Peers(p)}
    BY <2>2, BatchIsRound, TimeAssumption, 1 \in 1 .. LastRound
  <2>4. \A q \in Member : /\ pc'[q] = IF q = p THEN "running" ELSE pc[q]
                          /\ started'[q] = IF q = p THEN now ELSE started[q]
                          /\ round'[q] = IF q = p THEN 1 ELSE round[q]
                          /\ serve'[q] = IF q = p THEN "joining" ELSE serve[q]
                          /\ toHub'[q] = IF q = p THEN s ELSE toHub[q]
    BY <1>1, <2>2 DEF Dial, TypeOK
  <2>5. Failed' <=> Failed
    BY <2>1, <2>4 DEF Failed
  <2>6. BoxInv'
    BY <2>1, <2>4, <2>5 DEF LossInv, BoxInv, Peers
  <2>7. KeptInv'
    <3>1. \A q \in Member : Held(q)' = Held(q)
      BY <2>1 DEF Held
    <3>2. \A r \in 1 .. 1 : r = 1
      OBVIOUS
    <3>3. QED
      BY <2>3, <2>4, <2>5, <3>1, <3>2 DEF LossInv, KeptInv, Peers
  <2>8. QED
    BY <2>6, <2>7 DEF LossInv
<1>2. CASE Receive(p)
  <2> DEFINE f == Head(toParty[p])
             s == Tail(toParty[p])
  <2>1. UNCHANGED <<pc, started, round, toHub, serve, box, created, queue>>
    BY <1>2 DEF Receive, boxVars
  <2>2. \A q \in Member : /\ mail'[q] = IF q = p THEN mail[q] \cup {f} ELSE mail[q]
                          /\ toParty'[q] = IF q = p THEN s ELSE toParty[q]
    BY <1>2 DEF Receive, TypeOK
  <2>3. Contents(toParty[p]) = {f} \cup Contents(s)
    BY <1>2, ContentsOfTail DEF Receive, TypeOK
  <2> HIDE DEF f, s
  <2>4. \A q \in Member : Held(q)' = Held(q)
    BY <2>1, <2>2, <2>3 DEF Held
  <2>5. QED
    BY <2>1, <2>4 DEF LossInv, BoxInv, KeptInv, Failed, Peers
<1>3. CASE Proceed(p)
  <2> DEFINE r == round[p] + 1
  <2>1. UNCHANGED <<pc, started, mail, toParty, serve, box, created, queue>>
    BY <1>3 DEF Proceed, boxVars
  <2>2. r \in 1 .. LastRound /\ round[p] \in Nat
    BY <1>3, TimeAssumption DEF Proceed, RoundsLeft, TypeOK
  <2>3. PICK s \in Batch(p, r) : toHub' = [toHub EXCEPT ![p] = @ \o s]
    BY <1>3 DEF Proceed
  <2>4. s \in Seq(Frame) /\ Contents(s) = {Fr(p, q, r) : q \in Peers(p)}
    BY <2>2, <2>3, BatchIsRound
  <2>5. Contents(toHub'[p]) = Contents(toHub[p]) \cup Contents(s)
    <3>1. toHub'[p] = toHub[p] \o s /\ toHub[p] \in Seq(Frame)
      BY <2>3 DEF TypeOK
    <3>2. QED
      BY <2>4, <3>1, ContentsOfConcat
  <2>6. \A q \in Member : q # p => round'[q] = round[q] /\ toHub'[q] = toHub[q]
    BY <1>3, <2>3 DEF Proceed, TypeOK
  <2>7. round'[p] = round[p] + 1
    BY <1>3 DEF Proceed, TypeOK
  <2>8. BoxInv'
    BY <2>1 DEF LossInv, BoxInv, Failed, Peers
  <2>9. KeptInv'
    <3> SUFFICES ASSUME ~Failed, NEW x \in Member, NEW q \in Peers(x), NEW k \in 1 .. round'[x]
                 PROVE  Fr(x, q, k) \in Contents(toHub'[x]) \cup Held(q)
      BY <2>1 DEF KeptInv, Failed, Held, Contents, Peers, Fr
    <3>1. CASE x = p /\ k = round[p] + 1
      BY <2>4, <2>5, <3>1
    <3>2. CASE x = p /\ k # round[p] + 1
      <4>1. k \in 1 .. round[p]
        BY <2>2, <2>7, <3>2
      <4>2. QED
        BY <2>5, <3>2, <4>1 DEF LossInv, KeptInv
    <3>3. CASE x # p
      BY <2>6, <3>3 DEF LossInv, KeptInv
    <3>4. QED
      BY <3>1, <3>2, <3>3
  <2>10. QED
    BY <2>8, <2>9 DEF LossInv
<1>4. CASE Finish(p)
  <2>1. UNCHANGED <<started, round, mail, toHub, toParty, serve, box, created, queue>>
    BY <1>4 DEF Finish, boxVars
  <2>2. \A q \in Member : pc'[q] = IF q = p THEN "done" ELSE pc[q]
    BY <1>4 DEF Finish, TypeOK
  <2>3. Failed' <=> Failed
    BY <1>4, <2>2 DEF Failed, Finish
  <2>4. \A q \in Peers(p) : serve[q] \in {"serving", "ended"}
    <3>1. ASSUME NEW q \in Peers(p) PROVE serve'[q] \in {"serving", "ended"}
      <4>1. Fr(q, p, LastRound) \in mail'[p] /\ Fr(q, p, LastRound).from = q
        BY <1>4, <2>1 DEF Finish, Collected, Fr
      <4>2. QED
        BY <4>1 DEF HeldInv, Held
    <3>2. QED
      BY <2>1, <3>1
  <2>5. BoxInv'
    BY <2>1, <2>2, <2>3, <2>4 DEF LossInv, BoxInv, Peers
  <2>6. KeptInv'
    BY <2>1, <2>3 DEF LossInv, KeptInv, Held
  <2>7. QED
    BY <2>5, <2>6 DEF LossInv
<1>5. CASE Fail(p)
  BY <1>5 DEF Fail, Failed, LossInv, BoxInv, KeptInv, TypeOK
<1>6. QED
  BY <1>1, <1>2, <1>3, <1>4, <1>5 DEF Client

LEMMA HubLoss ==
  ASSUME RunTtl < UnclaimedTtl, IndInv, LossInv, IndInv', NEW p \in Member, HubStep(p)
  PROVE  LossInv'
<1> USE DEF IndInv
<1>1. UNCHANGED <<now, pc, started, round, mail>> /\ (Failed' <=> Failed)
  BY DEF HubStep, Claim, Deliver, Forward, SocketClosed, EndTask, JoinLost, partyVars, Failed
<1> SUFFICES ASSUME ~Failed PROVE LossInv'
  BY <1>1 DEF LossInv, BoxInv, KeptInv
<1>2. SweptQueue = queue /\ SweptBox = box
  BY NothingSwept DEF LossInv
<1>3. CASE Claim(p)
  <2>1. \A q \in Member : /\ serve'[q] = IF q = p THEN "serving" ELSE serve[q]
                          /\ box'[q] = IF q = p THEN "claimed" ELSE box[q]
                          /\ q # p => created'[q] = created[q]
    BY <1>2, <1>3 DEF Claim, TypeOK
  <2>2. UNCHANGED <<queue, toHub, toParty>>
    BY <1>2, <1>3 DEF Claim
  <2>3. BoxInv'
    BY <1>1, <2>1 DEF LossInv, BoxInv, Peers
  <2>4. KeptInv'
    BY <1>1, <2>2 DEF LossInv, KeptInv, Held
  <2>5. QED
    BY <2>3, <2>4 DEF LossInv
<1>4. CASE Deliver(p)
  <2> DEFINE f == Head(toHub[p])
             s == Tail(toHub[p])
  <2>1. UNCHANGED <<toParty, serve>> /\ serve[p] = "serving"
    BY <1>4 DEF Deliver
  <2>2. f \in Frame /\ f \in Contents(toHub[p]) /\ Contents(toHub[p]) = {f} \cup Contents(s)
    BY <1>4, ContentsOfTail DEF Deliver, TypeOK
  <2>3. f.from = p /\ f.to \in Member /\ f.to \in Peers(p)
    BY <2>2, FrameIsFr DEF SentInv
  <2>4. \A q \in Member : toHub'[q] = IF q = p THEN s ELSE toHub[q]
    BY <1>4 DEF Deliver, TypeOK
  <2>5. queue' = [queue EXCEPT ![f.to] = @ \o <<f>>]
    BY <1>2, <1>4 DEF Deliver, Delivered
  <2>6. \A q \in Member :
          /\ box'[q] = IF q = f.to /\ box[q] = "absent" THEN "unclaimed" ELSE box[q]
          /\ created'[q] = IF q = f.to /\ box[q] = "absent" THEN now ELSE created[q]
    <3>1. box' = [box EXCEPT ![f.to] = IF @ = "absent" THEN "unclaimed" ELSE @]
      BY <1>2, <1>4 DEF Deliver
    <3>2. created' = [created EXCEPT ![f.to] = IF box[f.to] = "absent" THEN now ELSE @]
      BY <1>2, <1>4 DEF Deliver
    <3>3. box \in [Member -> {"absent", "unclaimed", "claimed"}] /\ created \in [Member -> Nat]
      BY DEF TypeOK
    <3> HIDE DEF f
    <3>4. ASSUME NEW q \in Member
          PROVE  box'[q] = IF q = f.to /\ box[q] = "absent" THEN "unclaimed" ELSE box[q]
      BY <2>3, <3>1, <3>3
    <3>5. ASSUME NEW q \in Member
          PROVE  created'[q] = IF q = f.to /\ box[q] = "absent" THEN now ELSE created[q]
      BY <2>3, <3>2, <3>3
    <3>6. QED
      BY <3>4, <3>5
  <2> HIDE DEF f, s
  <2>7. BoxInv'
    <3> SUFFICES ASSUME NEW q \in Member, box'[q] = "unclaimed"
                 PROVE  /\ serve[q] \in {"none", "joining"}
                        /\ \E x \in Peers(q) : pc[x] = "running" /\ started[x] <= created'[q]
      BY <1>1, <2>1 DEF BoxInv, Peers
    <3>1. CASE box[q] = "unclaimed"
      BY <2>6, <3>1 DEF LossInv, BoxInv
    <3>2. CASE box[q] # "unclaimed"
      <4>1. q = f.to /\ box[q] = "absent" /\ created'[q] = now
        BY <2>6, <3>2
      <4>2. serve[q] # "serving"
        BY <4>1 DEF ClaimedWhileServed
      <4>3. serve[q] # "ended"
        <5> SUFFICES ASSUME serve[q] = "ended" PROVE FALSE
          OBVIOUS
        <5>1. pc[q] = "done"
          BY DEF PhaseInv, Closed, Failed
        <5>2. f \in mail[q]
          BY <2>2, <2>3, <4>1, <5>1, DoneHasAll DEF Peers
        <5>3. QED
          BY <2>2, <2>3, <5>2 DEF HeldInv, Held
      <4>4. serve[q] \in {"none", "joining"}
        BY <4>2, <4>3 DEF TypeOK
      <4>5. pc[p] = "running"
        <5>1. pc[p] # "done"
          BY <2>3, <4>1, <4>4, DoneAfterJoin
        <5>2. pc[p] # "dialing" /\ pc[p] # "failed"
          BY <2>1 DEF PhaseInv, Failed
        <5>3. QED
          BY <5>1, <5>2 DEF TypeOK
      <4>6. started[p] <= now /\ p \in Peers(q)
        BY <2>3, <4>1 DEF TimeInv, Peers
      <4>7. QED
        BY <4>1, <4>4, <4>5, <4>6
    <3>3. QED
      BY <3>1, <3>2
  <2>8. KeptInv'
    <3>1. Contents(queue'[f.to]) = Contents(queue[f.to]) \cup {f}
      <4>1. queue'[f.to] = queue[f.to] \o <<f>> /\ queue[f.to] \in Seq(Frame)
        BY <2>3, <2>5 DEF TypeOK
      <4>2. Contents(<<f>>) = {f} /\ <<f>> \in Seq(Frame)
        BY <2>2, ContentsOfOne
      <4>3. QED
        BY <4>1, <4>2, ContentsOfConcat
    <3>2. \A q \in Member : q # f.to => queue'[q] = queue[q]
      BY <2>5 DEF TypeOK
    <3>3. \A q \in Member : Held(q) \subseteq Held(q)' /\ (q = f.to => f \in Held(q)')
      BY <1>1, <2>1, <3>1, <3>2 DEF Held
    <3> SUFFICES ASSUME NEW x \in Member, NEW q \in Peers(x), NEW k \in 1 .. round[x]
                 PROVE  Fr(x, q, k) \in Contents(toHub'[x]) \cup Held(q)'
      BY <1>1 DEF KeptInv, Peers
    <3>4. Fr(x, q, k) \in Contents(toHub[x]) \cup Held(q) /\ q \in Member
      BY DEF LossInv, KeptInv, Peers
    <3>5. CASE Fr(x, q, k) = f
      <4>1. q = f.to
        BY <3>5 DEF Fr
      <4>2. QED
        BY <3>3, <3>4, <3>5, <4>1
    <3>6. CASE Fr(x, q, k) # f
      BY <2>2, <2>4, <3>3, <3>4, <3>6
    <3>7. QED
      BY <3>5, <3>6
  <2>9. QED
    BY <2>7, <2>8 DEF LossInv
<1>5. CASE Forward(p)
  <2> DEFINE f == Head(queue[p])
             s == Tail(queue[p])
  <2>1. UNCHANGED <<toHub, serve, box, created>>
    BY <1>5 DEF Forward
  <2>2. \A q \in Member : /\ queue'[q] = IF q = p THEN s ELSE queue[q]
                          /\ toParty'[q] = IF q = p THEN Append(toParty[p], f) ELSE toParty[q]
    BY <1>5 DEF Forward, TypeOK
  <2>3. f \in Frame /\ Contents(queue[p]) = {f} \cup Contents(s)
    BY <1>5, ContentsOfTail DEF Forward, TypeOK
  <2> HIDE DEF f, s
  <2>4. Contents(toParty'[p]) = Contents(toParty[p]) \cup {f}
    <3>1. toParty[p] \in Seq(Frame)
      BY DEF TypeOK
    <3>2. toParty'[p] = toParty[p] \o <<f>>
      BY <2>2, <2>3, <3>1, AppendIsConcat
    <3>3. Contents(<<f>>) = {f} /\ <<f>> \in Seq(Frame)
      BY <2>3, ContentsOfOne
    <3>4. QED
      BY <3>1, <3>2, <3>3, ContentsOfConcat
  <2>5. \A q \in Member : Held(q) \subseteq Held(q)'
    BY <1>1, <2>2, <2>3, <2>4 DEF Held
  <2>6. BoxInv'
    BY <1>1, <2>1 DEF LossInv, BoxInv, Peers
  <2>7. KeptInv'
    BY <1>1, <2>1, <2>5 DEF LossInv, KeptInv, Peers
  <2>8. QED
    BY <2>6, <2>7 DEF LossInv
<1>6. CASE SocketClosed(p)
  <2>1. pc[p] = "done"
    BY <1>6 DEF SocketClosed, Closed, Failed
  <2>2. queue[p] = <<>>
    <3> SUFFICES ASSUME queue[p] # <<>> PROVE FALSE
      OBVIOUS
    <3>1. PICK f \in Frame : f \in Contents(queue[p])
      BY ContentsOfTail DEF TypeOK
    <3>2. f.to = p /\ f.from \in Peers(p)
      BY <3>1 DEF HeldInv, Held
    <3>3. f \in mail[p]
      BY <2>1, <3>1, <3>2, DoneHasAll
    <3>4. QED
      BY <3>1, <3>3 DEF HeldInv
  <2>3. UNCHANGED <<toHub, queue, toParty>>
    <3>1. toHub[p] = <<>>
      BY <1>6, <2>2 DEF SocketClosed
    <3>2. QED
      BY <1>6, <2>2, <3>1 DEF SocketClosed, EndTask, TypeOK
  <2>4. \A q \in Member : /\ box'[q] = IF q = p THEN "absent" ELSE box[q]
                          /\ q # p => serve'[q] = serve[q]
                          /\ created'[q] = created[q]
    BY <1>6 DEF SocketClosed, EndTask, Removed, TypeOK
  <2>5. BoxInv'
    BY <1>1, <2>4 DEF LossInv, BoxInv, Peers
  <2>6. KeptInv'
    BY <1>1, <2>3 DEF LossInv, KeptInv, Held
  <2>7. QED
    BY <2>5, <2>6 DEF LossInv
<1>7. CASE JoinLost(p)
  BY <1>7 DEF JoinLost, Failed
<1>8. QED
  BY <1>3, <1>4, <1>5, <1>6, <1>7 DEF HubStep

LEMMA NextLoss ==
  ASSUME RunTtl < UnclaimedTtl
  PROVE  IndInv /\ LossInv /\ [Next]_vars => LossInv'
<1> SUFFICES ASSUME IndInv, LossInv, [Next]_vars PROVE LossInv'
  OBVIOUS
<1>1. IndInv'
  BY NextInd
<1>2. CASE Tick
  <2>1. UNCHANGED <<pc, started, round, mail, toHub, toParty, serve, box, created, queue>>
    BY <1>2 DEF Tick, partyVars, boxVars
  <2>2. QED
    BY <2>1 DEF LossInv, BoxInv, KeptInv, Failed, Held
<1>3. ASSUME NEW p \in Member, Dial(p) \/ Client(p) \/ Fail(p) PROVE LossInv'
  BY <1>1, <1>3, MemberLoss
<1>4. ASSUME NEW p \in Member, HubStep(p) PROVE LossInv'
  BY <1>1, <1>4, HubLoss
<1>5. CASE UNCHANGED vars
  BY <1>5 DEF vars, partyVars, boxVars, LossInv, BoxInv, KeptInv, Failed, Held
<1>6. QED
  BY <1>2, <1>3, <1>4, <1>5 DEF Next

LEMMA LossIsNone ==
  ASSUME RunTtl < UnclaimedTtl
  PROVE  IndInv /\ LossInv => NoFrameLost
<1> SUFFICES ASSUME IndInv, LossInv, ~Failed PROVE NoFrameLost
  BY DEF NoFrameLost
<1>1. \A q \in Member : ~Stale(q)
  BY NotStale DEF LossInv
<1>2. \A p, q \in Member : \A r \in 1 .. round[p] : p # q =>
        Fr(p, q, r) \in Contents(toHub[p]) \cup Held(q)
  BY DEF LossInv, KeptInv, Peers
<1>3. QED
  BY <1>1, <1>2 DEF NoFrameLost, Held, Fr

\* Unless a member fails, the relay loses no frame and sweeps no mailbox, for any
\* number of members and rounds, if a run's ttl is shorter than the age at which
\* mailboxes are swept (by default 60 and 120 seconds).
THEOREM NoFrameLostHolds ==
  ASSUME RunTtl < UnclaimedTtl
  PROVE  Spec => []NoFrameLost
<1>1. Init => IndInv /\ LossInv
  <2>1. Init => LossInv
    BY DEF Init, LossInv, BoxInv, KeptInv
  <2>2. QED
    BY <2>1, InitInd
<1>2. IndInv /\ LossInv /\ [Next]_vars => (IndInv /\ LossInv)'
  BY NextInd, NextLoss
<1>3. IndInv /\ LossInv => NoFrameLost
  BY LossIsNone
<1>4. QED
  BY <1>1, <1>2, <1>3, PTL DEF Spec
=============================================================================
