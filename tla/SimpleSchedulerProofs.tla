------------------------ MODULE SimpleSchedulerProofs ------------------------
(***************************************************************************)
(* SimpleScheduler delivers whatever is sent within the tick, so everything *)
(* in flight is of one epoch, and nothing sent is of a later one.  That     *)
(* makes it an implementation of Streamlet, and of Ledger if fewer than a   *)
(* third of the nodes are dishonest.                                        *)
(***************************************************************************)
EXTENDS SimpleScheduler, SchedulerProofs

\* The round told at the beginning of the tick, or to be told in the next one.
Tick == IF pass = "after" THEN time - 1 ELSE time

\* The types of the scheduler's own fields, and where in clockTick it is.
FieldsInv ==
    /\ time \in 0 .. NrRounds /\ walk \in Walks
    /\ pc \in {"broadcastTime", "sendFromRound"} /\ pass \in {"before", "after"}
    /\ pc = "broadcastTime" => pass = "before" /\ ~S!Aborted
    /\ pc = "sendFromRound" /\ pass = "before" => time < NrRounds
    /\ pass = "after" => time > 0
    /\ roundMessages = [r \in Rounds |-> roundMessages[r]]

\* What may wait in the queue of a round during the tick: messages of its epoch,
\* and in the second of the tick's two queues votes only.
Waiting(r) == { m \in sent : /\ EpochOf(m.block) = GetEpoch(Tick)
                             /\ r > Tick => m.type = "VOTE" }

\* The rounds under which nothing is filed.
Idle(r) ==
    \/ pc = "broadcastTime"
    \/ r \notin {Tick, Tick + 1}
    \/ r = Tick /\ pass = "after"

QueuesInv ==
    \A r \in Rounds :
        /\ roundMessages[r] \in Seq(Waiting(r))
        /\ Idle(r) => roundMessages[r] = << >>

\* No message is of an epoch that has not begun.
EpochsInv == \A m \in sent : EpochOf(m.block) <= GetEpoch(Tick)

\* The inductive invariant.
SimpleInv ==
    /\ FieldsInv
    /\ NodesInv(honest, dishonest, sent)
    /\ QueuesInv
    /\ EpochsInv
    /\ VotesDeepen(sent)

\* Facts about the invariant every step needs.
LEMMA SimpleInvFacts ==
    ASSUME SimpleInv
    PROVE  /\ NrRounds \in Nat /\ time \in Nat /\ Tick \in Nat
           /\ time \in Rounds /\ time + 1 \in Rounds
           /\ \A m \in sent : m \in Message /\ EpochOf(m.block) \in Nat
<1>1. NrRounds \in Nat /\ time \in Nat /\ Tick \in Nat /\ time <= NrRounds
  BY NrRoundsAssumption DEF SimpleInv, FieldsInv, Tick
<1>2. time \in Rounds /\ time + 1 \in Rounds
  BY <1>1 DEF Rounds
<1>3. \A m \in sent : m \in Message /\ EpochOf(m.block) \in Nat
  BY EpochOfNat DEF SimpleInv, NodesInv, Message
<1> QED
  BY <1>1, <1>2, <1>3

\* A sequence over a set is one over a larger set.
LEMMA SeqWiden ==
    ASSUME NEW A, NEW B, A \subseteq B, NEW s \in Seq(A)
    PROVE  s \in Seq(B)
OBVIOUS

\* It holds initially.
LEMMA SimpleInvInit == Init => SimpleInv
<1> SUFFICES ASSUME Init PROVE SimpleInv
  OBVIOUS
<1>1. ~S!Aborted
  BY SameHashes, SameReplicas DEF Init, S!Aborted, NewReplica, NewTree, NewDishonest
<1>2. FieldsInv
  BY <1>1, NrRoundsAssumption DEF Init, FieldsInv
<1>3. NodesInv(honest, dishonest, sent)
  BY FreshNodes DEF Init
<1>4. QueuesInv
  BY EmptySeq DEF Init, QueuesInv
<1>5. EpochsInv /\ VotesDeepen(sent)
  BY DEF Init, EpochsInv, VotesDeepen
<1> QED
  BY <1>2, <1>3, <1>4, <1>5 DEF SimpleInv

\* broadcastTime files the proposals of the leader of the round's epoch.
LEMMA SimpleBroadcast ==
    ASSUME SimpleInv, BroadcastTime
    PROVE  SimpleInv' /\ S!BroadcastTime
<1>1. PICK payload \in Draws :
          LET answers == { v \in Nodes : AtTime(v, payload) # << >> }
          IN  \/ /\ answers = {}
                 /\ UNCHANGED <<roundMessages, sent>>
              \/ \E v \in answers : File(AtTime(v, payload), time, roundMessages)
  BY DEF BroadcastTime
<1> DEFINE out(v) == AtTime(v, payload)
<1>2. /\ NodesInv(honest, dishonest, sent) /\ walk \in Walks /\ time \in Nat
      /\ time < NrRounds /\ pc = "broadcastTime" /\ pass = "before" /\ ~S!Aborted
      /\ pc' = "sendFromRound" /\ pass' = "before" /\ UNCHANGED <<time, honest, dishonest, walk>>
  BY SimpleInvFacts DEF SimpleInv, FieldsInv, BroadcastTime
<1>3. \A v \in Nodes :
         /\ Vector(walk, out(v)) \in Seq(Messages(out(v)))
         /\ out(v) # << >> => GetLeader(GetEpoch(time)) = v
         /\ \A w \in Messages(out(v)) :
               /\ w \in Message /\ w.from = v /\ w.type = "PROPOSAL"
               /\ EpochOf(w.block) = GetEpoch(time)
         /\ out(v) # << >> => v \in HonestNodes \cup DishonestNodes
  BY <1>2, Announcement
<1>4. \/ /\ \A v \in Nodes : out(v) = << >>
         /\ sent' = sent /\ roundMessages' = roundMessages
      \/ \E v \in Nodes :
            /\ out(v) # << >>
            /\ roundMessages' = [roundMessages EXCEPT ![time] = @ \o Vector(walk, out(v))]
            /\ sent' = sent \cup Messages(out(v))
  BY <1>1 DEF File
<1>5. S!BroadcastTime
  <2>1. Announced' = time + 1
    BY <1>2 DEF Announced
  <2> QED
    BY <1>2, <1>3, <1>4, <2>1, BroadcastIsStreamlets
<1> HIDE DEF out
<1> DEFINE Filing(q, P) ==
             /\ q \in Seq(P) /\ sent' = sent \cup P
             /\ roundMessages' = [roundMessages EXCEPT ![time] = @ \o q]
             /\ \A w \in P : /\ w \in Message /\ w.type = "PROPOSAL"
                             /\ w.from \in HonestNodes \cup DishonestNodes
                             /\ EpochOf(w.block) = GetEpoch(time)
<1>6. PICK q, P : Filing(q, P)
  <2>1. CASE /\ \A v \in Nodes : out(v) = << >>
             /\ sent' = sent /\ roundMessages' = roundMessages
    <3>1. << >> \in Seq({}) /\ sent' = sent \cup {}
      BY <2>1, EmptySeq
    <3>2. roundMessages' = [roundMessages EXCEPT ![time] = @ \o << >>]
      <4>1. roundMessages[time] \in Seq(Waiting(time))
        BY SimpleInvFacts DEF SimpleInv, QueuesInv
      <4>2. roundMessages[time] \o << >> = roundMessages[time]
        BY <4>1, ConcatEmptySeq
      <4> QED
        BY <2>1, <4>2 DEF SimpleInv, FieldsInv
    <3>3. Filing(<< >>, {})
      BY <3>1, <3>2
    <3> HIDE DEF Filing
    <3> QED
      BY <3>3
  <2>2. ASSUME NEW v \in Nodes, out(v) # << >>,
               roundMessages' = [roundMessages EXCEPT ![time] = @ \o Vector(walk, out(v))],
               sent' = sent \cup Messages(out(v))
        PROVE  \E q, P : Filing(q, P)
    <3>1. Filing(Vector(walk, out(v)), Messages(out(v)))
      BY <1>3, <2>2
    <3> HIDE DEF Filing
    <3> QED
      BY <3>1
  <2> HIDE DEF Filing
  <2> QED
    BY <1>4, <2>1, <2>2
<1>7. FieldsInv'
  BY <1>2, <1>6 DEF SimpleInv, FieldsInv
<1>8. NodesInv(honest', dishonest', sent')
  BY <1>2, <1>6, NodesPropose
<1>9. Tick = time /\ Tick' = time
  BY <1>2 DEF Tick
<1>10. QueuesInv'
  <2>1. \A r \in Rounds : roundMessages[r] = << >>
    BY <1>2 DEF SimpleInv, QueuesInv, Idle
  <2>2. /\ \A r \in Rounds : r # time => roundMessages'[r] = << >>
        /\ roundMessages'[time] = << >> \o q
    BY <1>6, <2>1, SimpleInvFacts DEF SimpleInv, FieldsInv
  <2>3. roundMessages'[time] \in Seq(P)
    BY <1>6, <2>2, ConcatEmptySeq
  <2>4. P \subseteq Waiting(time)'
    <3>1. Waiting(time)' = { m \in sent' : /\ EpochOf(m.block) = GetEpoch(Tick')
                                           /\ time' > Tick' => m.type = "VOTE" }
      BY DEF Waiting
    <3>2. time' = time /\ ~(time > time)
      BY <1>2
    <3>3. ASSUME NEW w \in P PROVE w \in Waiting(time)'
      BY <1>6, <1>9, <3>1, <3>2
    <3> QED
      BY <3>3
  <2>5. roundMessages'[time] \in Seq(Waiting(time)')
    BY <2>3, <2>4, SeqWiden
  <2>6. ~Idle(time)'
    BY <1>2, <1>9 DEF Idle
  <2>7. ASSUME NEW r \in Rounds
        PROVE  roundMessages'[r] \in Seq(Waiting(r)') /\ (Idle(r)' => roundMessages'[r] = << >>)
    <3>1. CASE r = time
      <4>1. Waiting(r)' = Waiting(time)' /\ (Idle(r)' <=> Idle(time)')
        BY <1>2, <3>1 DEF Waiting, Idle
      <4> QED
        BY <2>5, <2>6, <3>1, <4>1
    <3>2. CASE r # time
      BY <2>2, <3>2, EmptySeq
    <3> QED
      BY <3>1, <3>2
  <2> QED
    BY <2>7 DEF QueuesInv, Rounds
<1>11. EpochsInv'
  BY <1>6, <1>9, GetEpochNat, SimpleInvFacts DEF SimpleInv, EpochsInv
<1>12. VotesDeepen(sent')
  BY <1>6 DEF SimpleInv, VotesDeepen
<1> QED
  BY <1>5, <1>7, <1>8, <1>10, <1>11, <1>12 DEF SimpleInv

\* sendFromRound delivers the next message of its round and files the votes it
\* is answered with one round later.  Votes are answered with nothing, so nothing
\* is filed under a round the tick does not reach.
LEMMA SimpleSend ==
    ASSUME SimpleInv, Send
    PROVE  SimpleInv' /\ [S!Next]_(S!vars)
<1> DEFINE m == NextMessage
           q == roundMessages[time]
           V == Vector(walk, SendRec(m).out)
           W == Messages(SendRec(m).out)
<1>1. /\ NodesInv(honest, dishonest, sent) /\ walk \in Walks /\ VotesDeepen(sent)
      /\ time \in Nat /\ Tick \in Nat /\ time \in Rounds /\ time + 1 \in Rounds
      /\ pc = "sendFromRound" /\ ~S!Aborted /\ q # << >>
      /\ UNCHANGED <<time, pc, pass, walk>> /\ Tick' = Tick /\ Announced' = Announced
  BY SimpleInvFacts DEF SimpleInv, FieldsInv, Send, Delivering, Tick, Announced
<1>2. /\ honest' = SendRec(m).honest /\ dishonest' = SendRec(m).dishonest
      /\ roundMessages' = [[roundMessages EXCEPT ![time] = Tail(@)] EXCEPT ![time + 1] = @ \o V]
      /\ sent' = sent \cup W
  BY DEF Send, File
<1>3. q \in Seq(Waiting(time))
  BY <1>1 DEF SimpleInv, QueuesInv
<1>4. m \in Waiting(time) /\ Tail(q) \in Seq(Waiting(time))
  BY <1>1, <1>3, HeadTailProperties DEF NextMessage
<1>5. /\ m \in sent /\ EpochOf(m.block) = GetEpoch(Tick)
      /\ time > Tick => m.type = "VOTE"
  BY <1>4 DEF Waiting
<1>6. /\ NodesInv(honest', dishonest', sent') /\ V \in Seq(W)
      /\ m.type # "PROPOSAL" => SendRec(m).out = << >>
      /\ \A w \in W : /\ w.type = "VOTE" /\ w.block = m.block
                      /\ w.from \in HonestNodes =>
                            /\ m.to \in HonestNodes
                            /\ VoteStep(m.to, honest[m.to], honest'[m.to], w)
  BY <1>1, <1>2, <1>5, Delivery
<1>7. [S!Next]_(S!vars)
  BY <1>1, <1>2, <1>5, DeliveryIsStreamlets
<1>8. time > Tick => V = << >>
  BY <1>5, <1>6, NothingFiled
<1> HIDE DEF m, q, V, W
<1>9. FieldsInv'
  BY <1>1, <1>2 DEF SimpleInv, FieldsInv
<1>10. QueuesInv'
  <2>1. \A r \in Rounds : Waiting(r) \subseteq Waiting(r)' /\ W \subseteq Waiting(r)'
    <3> SUFFICES ASSUME NEW r \in Rounds
                 PROVE  Waiting(r) \subseteq Waiting(r)' /\ W \subseteq Waiting(r)'
      OBVIOUS
    <3>1. Waiting(r)' = { w \in sent' : /\ EpochOf(w.block) = GetEpoch(Tick')
                                        /\ r > Tick' => w.type = "VOTE" }
      BY DEF Waiting
    <3> QED
      BY <1>1, <1>2, <1>5, <1>6, <3>1 DEF Waiting
  <2>2. /\ roundMessages'[time] = Tail(q)
        /\ roundMessages'[time + 1] = roundMessages[time + 1] \o V
        /\ \A r \in Rounds : r # time /\ r # time + 1 => roundMessages'[r] = roundMessages[r]
    <3> DEFINE mid == [roundMessages EXCEPT ![time] = Tail(@)]
    <3>1. time # time + 1 /\ roundMessages = [r \in Rounds |-> roundMessages[r]]
      BY <1>1 DEF SimpleInv, FieldsInv
    <3>2. /\ mid = [r \in Rounds |-> mid[r]] /\ mid[time] = Tail(q)
          /\ \A r \in Rounds : r # time => mid[r] = roundMessages[r]
      BY <1>1, <3>1 DEF q
    <3> HIDE DEF mid
    <3>3. roundMessages' = [mid EXCEPT ![time + 1] = @ \o V]
      BY <1>2 DEF mid
    <3>4. /\ roundMessages'[time + 1] = mid[time + 1] \o V
          /\ \A r \in Rounds : r # time + 1 => roundMessages'[r] = mid[r]
      BY <1>1, <3>2, <3>3
    <3> QED
      BY <1>1, <3>1, <3>2, <3>4
  <2>3. \A r \in Rounds : Idle(r)' <=> Idle(r)
    BY <1>1 DEF Idle
  <2>4. ASSUME NEW r \in Rounds
        PROVE  roundMessages'[r] \in Seq(Waiting(r)') /\ (Idle(r)' => roundMessages'[r] = << >>)
    <3>1. CASE r = time
      <4>1. ~Idle(r)
        BY <1>1, <3>1 DEF Idle, Tick
      <4>2. Tail(q) \in Seq(Waiting(r)')
        BY <1>4, <2>1, <3>1, SeqWiden
      <4> QED
        BY <2>2, <2>3, <3>1, <4>1, <4>2
    <3>2. CASE r = time + 1
      <4>1. roundMessages[r] \in Seq(Waiting(r)) /\ (Idle(r) => roundMessages[r] = << >>)
        BY DEF SimpleInv, QueuesInv
      <4>2. roundMessages[r] \in Seq(Waiting(r)') /\ V \in Seq(Waiting(r)')
        BY <1>6, <2>1, <4>1, SeqWiden
      <4>3. roundMessages'[r] \in Seq(Waiting(r)')
        BY <2>2, <3>2, <4>2, ConcatProperties
      <4>4. CASE pass = "after"
        <5>1. V = << >>
          BY <1>1, <1>8, <4>4 DEF Tick
        <5>2. roundMessages'[r] = roundMessages[r]
          BY <2>2, <3>2, <4>1, <5>1, ConcatEmptySeq
        <5> QED
          BY <2>3, <4>1, <4>3, <5>2
      <4>5. CASE pass # "after"
        <5>1. ~Idle(r)
          BY <1>1, <3>2, <4>5 DEF Idle, Tick
        <5> QED
          BY <2>3, <4>3, <5>1
      <4> QED
        BY <4>4, <4>5
    <3>3. CASE r # time /\ r # time + 1
      <4>1. roundMessages[r] \in Seq(Waiting(r)) /\ (Idle(r) => roundMessages[r] = << >>)
        BY DEF SimpleInv, QueuesInv
      <4>2. roundMessages[r] \in Seq(Waiting(r)')
        BY <2>1, <4>1, SeqWiden
      <4> QED
        BY <2>2, <2>3, <3>3, <4>1, <4>2
    <3> QED
      BY <3>1, <3>2, <3>3
  <2> QED
    BY <2>4 DEF QueuesInv, Rounds
<1>11. EpochsInv'
  BY <1>1, <1>2, <1>5, <1>6, GetEpochNat DEF SimpleInv, EpochsInv
<1>12. VotesDeepen(sent')
  <2>1. CASE m.to \in HonestNodes
    <3>1. GetEpoch(Tick) \in Nat
      BY <1>1, GetEpochNat
    <3>2. \A w \in W : w.from \in HonestNodes =>
             VoteStep(m.to, honest[m.to], honest'[m.to], w) /\ EpochOf(w.block) = GetEpoch(Tick)
      BY <1>5, <1>6
    <3>3. \A u \in sent : EpochOf(u.block) \in Nat /\ EpochOf(u.block) <= GetEpoch(Tick)
      BY SimpleInvFacts DEF SimpleInv, EpochsInv
    <3> QED
      BY <1>1, <1>2, <2>1, <3>1, <3>2, <3>3, VotesGoOnDeepening
  <2>2. CASE m.to \notin HonestNodes
    BY <1>1, <1>2, <1>6, <2>2 DEF VotesDeepen
  <2> QED
    BY <2>1, <2>2
<1> QED
  BY <1>6, <1>7, <1>9, <1>10, <1>11, <1>12 DEF SimpleInv

\* The first sendFromRound returns, its round's queue empty.
LEMMA SimpleEndSendThis ==
    ASSUME SimpleInv, EndSendThis
    PROVE  SimpleInv' /\ UNCHANGED S!vars
<1>1. /\ time \in Nat /\ pc = "sendFromRound" /\ pass = "before" /\ time < NrRounds
      /\ time \in Rounds /\ NrRounds \in Nat
      /\ pass' = "after" /\ time' = time + 1 /\ roundMessages[time] = << >> /\ ~S!Aborted
      /\ UNCHANGED <<roundMessages, pc, honest, dishonest, sent, walk>>
  BY SimpleInvFacts DEF SimpleInv, FieldsInv, EndSendThis, Returning
<1>2. Tick = time /\ Tick' = time
  BY <1>1 DEF Tick
<1>3. UNCHANGED S!vars
  BY <1>1 DEF Announced, S!vars
<1>4. FieldsInv'
  BY <1>1 DEF SimpleInv, FieldsInv
<1>5. QueuesInv'
  <2> SUFFICES ASSUME NEW r \in Rounds
               PROVE  /\ roundMessages[r] \in Seq(Waiting(r)')
                      /\ Idle(r)' => roundMessages[r] = << >>
    BY <1>1 DEF QueuesInv, Rounds
  <2>1. Waiting(r)' = Waiting(r)
    BY <1>1, <1>2 DEF Waiting
  <2>2. Idle(r)' => Idle(r) \/ r = time
    BY <1>1, <1>2 DEF Idle
  <2> QED
    BY <1>1, <2>1, <2>2 DEF SimpleInv, QueuesInv
<1>6. EpochsInv'
  BY <1>1, <1>2 DEF SimpleInv, EpochsInv
<1> QED
  BY <1>1, <1>3, <1>4, <1>5, <1>6 DEF SimpleInv

\* The second one returns: nothing is left, and the next tick may begin an epoch.
LEMMA SimpleEndSendNext ==
    ASSUME SimpleInv, EndSendNext
    PROVE  SimpleInv' /\ UNCHANGED S!vars
<1>1. /\ time \in Nat /\ pc = "sendFromRound" /\ pass = "after" /\ time > 0
      /\ time \in Rounds
      /\ pc' = "broadcastTime" /\ pass' = "before" /\ roundMessages[time] = << >>
      /\ ~S!Aborted
      /\ UNCHANGED <<time, roundMessages, honest, dishonest, sent, walk>>
  BY SimpleInvFacts DEF SimpleInv, FieldsInv, EndSendNext, Returning
<1>2. Tick = time - 1 /\ Tick' = time /\ Tick \in Nat /\ Tick + 1 = time
  BY <1>1 DEF Tick
<1>3. UNCHANGED S!vars
  BY <1>1 DEF Announced, S!vars
<1>4. ~S!Aborted'
  BY <1>1 DEF S!Aborted
<1>5. FieldsInv'
  BY <1>1, <1>4 DEF SimpleInv, FieldsInv
<1>6. QueuesInv'
  <2>1. ASSUME NEW r \in Rounds PROVE roundMessages[r] = << >>
    <3>1. CASE r = time
      BY <1>1, <3>1
    <3>2. CASE r # time
      <4>1. Idle(r)
        BY <1>1, <1>2, <3>2 DEF Idle
      <4> QED
        BY <4>1 DEF SimpleInv, QueuesInv
    <3> QED
      BY <3>1, <3>2
  <2> QED
    BY <1>1, <2>1, EmptySeq DEF QueuesInv, Rounds
<1>7. EpochsInv'
  <2>1. /\ GetEpoch(Tick) <= GetEpoch(Tick')
        /\ GetEpoch(Tick) \in Nat /\ GetEpoch(Tick') \in Nat
    BY <1>1, <1>2, GetEpochGrows, GetEpochNat
  <2>2. \A m \in sent : EpochOf(m.block) \in Nat /\ EpochOf(m.block) <= GetEpoch(Tick)
    BY SimpleInvFacts DEF SimpleInv, EpochsInv
  <2> QED
    BY <1>1, <2>1, <2>2 DEF EpochsInv
<1> QED
  BY <1>1, <1>3, <1>5, <1>6, <1>7 DEF SimpleInv
-----------------------------------------------------------------------------
\* Every step keeps the invariant and is one of Streamlet's, or none.
LEMMA SimpleStep ==
    ASSUME SimpleInv, [Next]_vars
    PROVE  SimpleInv' /\ [S!Next]_(S!vars)
<1>1. CASE BroadcastTime
  BY <1>1, SimpleBroadcast DEF S!Next
<1>2. CASE Send
  BY <1>2, SimpleSend
<1>3. CASE EndSendThis
  BY <1>3, SimpleEndSendThis
<1>4. CASE EndSendNext
  BY <1>4, SimpleEndSendNext
<1>5. CASE UNCHANGED vars
  <2>1. UNCHANGED <<time, roundMessages, pc, pass, honest, dishonest, walk, sent>>
    BY <1>5 DEF vars
  <2>2. SimpleInv'
    BY <2>1 DEF SimpleInv, FieldsInv, QueuesInv, EpochsInv, Idle, Waiting, Tick, S!Aborted
  <2>3. UNCHANGED S!vars
    BY <2>1 DEF S!vars, Announced
  <2> QED
    BY <2>2, <2>3
<1> QED
  BY <1>1, <1>2, <1>3, <1>4, <1>5 DEF Next, Terminating

\* The invariant holds throughout (SimpleScheduler::start, clockTick).
THEOREM SimpleInvariant == Spec => []SimpleInv
<1>1. Init => SimpleInv
  BY SimpleInvInit
<1>2. SimpleInv /\ [Next]_vars => SimpleInv'
  BY SimpleStep
<1> QED
  BY <1>1, <1>2, PTL DEF Spec

\* Between two ticks nothing is on its way: what a tick files it delivers
\* (simple_scheduler.cpp:20-26).
THEOREM NothingPending == Spec => []NothingPendingBetweenTicks
<1>1. SimpleInv => NothingPendingBetweenTicks
  BY DEF SimpleInv, QueuesInv, Idle, NothingPendingBetweenTicks
<1> QED
  BY <1>1, SimpleInvariant, PTL

\* Whatever this scheduler lets the nodes do, Streamlet's does: what holds for
\* arbitrary deliveries holds here.
THEOREM SimpleRefinesStreamlet == Spec => ImplementsStreamlet
<1>1. Init => S!Init
  BY InitialIsStreamlets DEF Init
<1>2. SimpleInv /\ [Next]_vars => [S!Next]_(S!vars)
  BY SimpleStep
<1> QED
  BY <1>1, <1>2, SimpleInvariant, PTL DEF Spec, ImplementsStreamlet, S!Spec
-----------------------------------------------------------------------------
\* A vote that finalizes is of the current epoch, and nothing notarized is of a
\* later one, so what it finalizes is at least as deep as what was finalized.
LEMMA SimpleSendDeepens ==
    ASSUME SimpleInv, SimpleInv', Send, 3 * DishonestCount < N
    PROVE  [L!Next]_(L!vars)
<1> DEFINE m == NextMessage
           v == m.to
<1>1. /\ NodesInv(honest, dishonest, sent) /\ NodesInv(honest', dishonest', sent')
      /\ VotesDeepen(sent') /\ walk \in Walks /\ EpochsInv
      /\ time \in Rounds /\ roundMessages[time] # << >>
  BY SimpleInvFacts DEF SimpleInv, FieldsInv, Send, Delivering
<1>2. m \in sent /\ EpochOf(m.block) = GetEpoch(Tick)
  <2>1. roundMessages[time] \in Seq(Waiting(time))
    BY <1>1 DEF SimpleInv, QueuesInv
  <2>2. m \in Waiting(time)
    BY <1>1, <2>1, HeadTailProperties DEF NextMessage
  <2> QED
    BY <2>2 DEF Waiting
<1>3. IF v \in HonestNodes
      THEN /\ ReplicaStep(v, honest[v], m, honest'[v])
           /\ \A x \in HonestNodes : x # v => honest'[x] = honest[x]
      ELSE honest' = honest
  <2>1. honest' = SendRec(m).honest
    BY DEF Send
  <2> HIDE DEF m
  <2> QED
    BY <1>1, <1>2, <2>1, Delivery
<1> HIDE DEF m
<1>4. NotarizedDeepens(honest')
  BY <1>1, NotarizedDeepen
<1>5. CASE Finalized' = Finalized
  BY <1>5, SameChains
<1>6. CASE Finalized' # Finalized
  <2>1. v \in HonestNodes
    BY <1>3, <1>6 DEF Finalized
  <2>2. honest'[v].tree.deepestFinalized # honest[v].tree.deepestFinalized
    BY <1>3, <1>6, <2>1 DEF Finalized
  <2>3. m.type = "VOTE" /\ Justified(honest[v], m.block, honest'[v])
    BY <1>3, <2>1, <2>2 DEF ReplicaStep
  <2>4. ASSUME NEW c, SomeNotarized(honest, c) PROVE EpochOf(c) <= EpochOf(m.block)
    <3>1. EpochOf(m.block) \in Nat
      BY <1>2, SimpleInvFacts
    <3>2. CASE c = GenesisHash
      BY <3>1, <3>2 DEF EpochOf, GenesisHash
    <3>3. CASE c # GenesisHash
      <4>1. PICK w \in sent : w.type = "VOTE" /\ w.block = c
        BY <1>1, <2>4, <3>3, NotarizedWasVoted
      <4> QED
        BY <1>1, <1>2, <4>1 DEF EpochsInv
    <3> QED
      BY <3>2, <3>3
  <2>5. Len(honest[v].tree.deepestFinalized) <= Len(honest'[v].tree.deepestFinalized)
    <3> DEFINE b == m.block
    <3>1. /\ NotarizedIn(honest'[v], b) /\ 1 \in 1 .. Len(b)
          /\ honest'[v].tree.deepestFinalized = Ancestor(b, 1)
      BY <2>3 DEF Justified
    <3> HIDE DEF b
    <3>2. b \in Hash /\ Len(b) \in Nat /\ EpochOf(b) \in Nat
      BY <1>1, <2>1, <3>1, NotarizedTyped
    <3>3. ASSUME NEW c, NotarizedIn(honest[v], c) PROVE Len(c) <= Len(b)
      <4>1. c \in DOMAIN honest[v].tree.hbMapping /\ Len(c) \in Nat /\ EpochOf(c) \in Nat
        BY <1>1, <2>1, <3>3, NotarizedTyped
      <4>2. SomeNotarized(honest, c) /\ SomeNotarized(honest', c) /\ SomeNotarized(honest', b)
        BY <1>3, <2>1, <3>1, <3>3, <4>1 DEF ReplicaStep, SomeNotarized
      <4>3. EpochOf(c) <= EpochOf(b)
        BY <2>4, <4>2 DEF b
      <4>4. CASE EpochOf(c) = EpochOf(b)
        BY <1>1, <3>2, <4>2, <4>4, EpochsAgree
      <4>5. CASE EpochOf(c) < EpochOf(b)
        BY <1>4, <4>2, <4>5 DEF NotarizedDeepens
      <4> QED
        BY <3>2, <4>1, <4>3, <4>4, <4>5
    <3> QED
      BY <1>1, <2>1, <3>1, <3>2, <3>3, FinalizedDeepens
  <2>6. \A b : SomeFinalized(honest, b) => SomeFinalized(honest', b)
    BY <1>3, <2>1 DEF SomeFinalized, ReplicaStep
  <2>7. Len(Finalized[v]) <= Len(Finalized'[v])
    BY <2>1, <2>5 DEF Finalized
  <2>8. \A x \in HonestNodes : x # v => honest'[x] = honest[x]
    BY <1>3, <2>1
  <2> HIDE DEF v
  <2> QED
    BY <1>1, <1>4, <2>1, <2>6, <2>7, <2>8, LedgerStep
<1> QED
  BY <1>5, <1>6

\* With fewer than a third of the nodes dishonest, the finalized chains of the
\* honest nodes are views of one ledger that only grows (tree.cpp:72, 87-89).
THEOREM SimpleRefinesLedger ==
    ASSUME 3 * DishonestCount < N
    PROVE  Spec => ImplementsLedger
<1>1. Init => L!Init
  BY InitialIsLedgers DEF Init
<1>2. SimpleInv /\ SimpleInv' /\ [Next]_vars => [L!Next]_(L!vars)
  <2> SUFFICES ASSUME SimpleInv, SimpleInv', [Next]_vars PROVE [L!Next]_(L!vars)
    OBVIOUS
  <2>1. CASE Send
    BY <2>1, SimpleSendDeepens
  <2>2. CASE UNCHANGED honest
    <3>1. Finalized' = Finalized
      BY <2>2 DEF Finalized
    <3> QED
      BY <3>1, SameChains
  <2>3. Send \/ UNCHANGED honest
    BY DEF Next, vars, BroadcastTime, EndSendThis, EndSendNext, Terminating
  <2> QED
    BY <2>1, <2>2, <2>3
<1> QED
  BY <1>1, <1>2, SimpleInvariant, PTL DEF Spec, ImplementsLedger, L!Spec

\* So of the chains two honest nodes have finalized one is a prefix of the other, and
\* none is ever taken back (Tree::getFinalizedChain, tree.cpp:87-89).
THEOREM FinalizedForGood ==
    ASSUME 3 * DishonestCount < N
    PROVE  Spec => []L!Agreement /\ L!Growth
<1>1. Spec => L!Spec
  BY SimpleRefinesLedger DEF ImplementsLedger
<1> QED
  BY <1>1, ChainsAgree, ChainsGrow
-----------------------------------------------------------------------------
(* Without dishonest nodes a queue is a sequence of whole broadcasts, each  *)
(* to the nodes from 0 to N - 1, and the nodes take turns with each message *)
(* of it.                                                                   *)

\* Where n follows m in such a queue.
Follows(m, n) ==
    IF m.to = N - 1 THEN n.to = 0
    ELSE n = [from |-> m.from, to |-> m.to + 1, type |-> m.type, block |-> m.block]

\* What is left of a sequence of broadcasts after some first messages.
Broadcasts(q) ==
    /\ \A i \in 1 .. Len(q) - 1 : Follows(q[i], q[i + 1])
    /\ q # << >> => q[Len(q)].to = N - 1

\* A queue of which nothing has been delivered yet.
Whole(q) == Broadcasts(q) /\ (q # << >> => q[1].to = 0)

\* The node whose turn it is.
Reached == IF roundMessages[time] = << >> THEN 0 ELSE roundMessages[time][1].to

\* The nodes before node k have handled m, the others have not.
TurnsTaken(h, k, m) ==
    \A v, w \in HonestNodes :
        /\ (v < k <=> w < k) => h[v] = h[w]
        /\ v < k /\ ~(w < k) => h[v] = Handled(h[w], m)

LockstepInv ==
    DishonestCount = 0 =>
        /\ \A r \in Rounds : IF r = time THEN Broadcasts(roundMessages[r])
                                         ELSE Whole(roundMessages[r])
        /\ TurnsTaken(honest, Reached, roundMessages[time][1])

\* The first message of a queue of broadcasts is delivered.
LEMMA BroadcastsTail ==
    ASSUME NEW E, NEW q \in Seq(E), q # << >>, Broadcasts(q)
    PROVE  /\ Broadcasts(Tail(q))
           /\ IF Tail(q) = << >> THEN Head(q).to = N - 1 ELSE Follows(Head(q), Tail(q)[1])
<1>1. /\ Len(q) \in Nat /\ Len(q) >= 1
      /\ Tail(q) \in Seq(E) /\ Len(Tail(q)) = Len(q) - 1
      /\ \A i \in 1 .. Len(q) - 1 : Tail(q)[i] = q[i + 1]
      /\ Head(q) = q[1]
  BY HeadTailProperties, LenProperties, EmptySeq
<1> DEFINE t == Tail(q)
<1> HIDE DEF t
<1>2. /\ t \in Seq(E) /\ Len(t) = Len(q) - 1 /\ \A i \in 1 .. Len(t) : t[i] = q[i + 1]
      /\ (t = << >> <=> Len(t) = 0)
  BY <1>1, EmptySeq DEF t
<1>3. \A i \in 1 .. Len(t) - 1 : Follows(t[i], t[i + 1])
  <2> SUFFICES ASSUME NEW i \in 1 .. Len(t) - 1 PROVE Follows(t[i], t[i + 1])
    OBVIOUS
  <2>1. /\ i \in 1 .. Len(t) /\ i + 1 \in 1 .. Len(t) /\ i + 1 \in 1 .. Len(q) - 1
    BY <1>1, <1>2
  <2>2. t[i] = q[i + 1] /\ t[i + 1] = q[(i + 1) + 1]
    BY <1>2, <2>1
  <2> QED
    BY <2>1, <2>2 DEF Broadcasts
<1>4. t # << >> => t[Len(t)].to = N - 1
  <2> SUFFICES ASSUME t # << >> PROVE t[Len(t)].to = N - 1
    OBVIOUS
  <2>1. Len(t) \in 1 .. Len(t) /\ Len(t) + 1 = Len(q)
    BY <1>1, <1>2
  <2> QED
    BY <1>2, <2>1 DEF Broadcasts
<1>5. CASE t = << >>
  <2>1. Len(t) = 0
    BY <1>2, <1>5
  <2>2. Len(q) = 1
    BY <1>1, <1>2, <2>1
  <2> QED
    BY <1>1, <1>3, <1>4, <1>5, <2>2 DEF Broadcasts, t
<1>6. CASE t # << >>
  <2>1. 1 \in 1 .. Len(q) - 1 /\ t[1] = q[1 + 1]
    BY <1>1, <1>2, <1>6
  <2>2. Follows(q[1], t[1])
    BY <2>1 DEF Broadcasts
  <2> QED
    BY <1>1, <1>3, <1>4, <1>6, <2>2 DEF Broadcasts, t
<1> QED
  BY <1>5, <1>6

\* Whole broadcasts are filed behind what is there (utils::insert).
LEMMA BroadcastsAppended ==
    ASSUME NEW E, NEW q \in Seq(E), NEW w \in Seq(E), Broadcasts(q), Whole(w)
    PROVE  Broadcasts(q \o w) /\ (Whole(q) => Whole(q \o w))
<1>1. CASE w = << >>
  BY <1>1, ConcatEmptySeq
<1>2. CASE q = << >>
  BY <1>2, ConcatEmptySeq DEF Whole
<1>3. CASE q # << >> /\ w # << >>
  <2> DEFINE a == Len(q)
             b == Len(w)
             u == q \o w
  <2>1. a \in Nat /\ b \in Nat /\ a >= 1 /\ b >= 1
    BY <1>3, LenProperties, EmptySeq
  <2>2. /\ u \in Seq(E) /\ Len(u) = a + b
        /\ \A i \in 1 .. a : u[i] = q[i]
        /\ \A i \in 1 .. b : u[a + i] = w[i]
    <3>1. /\ u \in Seq(E) /\ Len(u) = a + b
          /\ \A i \in 1 .. a + b : u[i] = IF i <= a THEN q[i] ELSE w[i - a]
      BY ConcatProperties
    <3> HIDE DEF u, a, b
    <3>2. ASSUME NEW i \in 1 .. b PROVE u[a + i] = w[i]
      <4>1. a + i \in 1 .. a + b /\ ~(a + i <= a) /\ (a + i) - a = i
        BY <2>1
      <4> QED
        BY <3>1, <4>1
    <3>3. ASSUME NEW i \in 1 .. a PROVE u[i] = q[i]
      <4>1. i \in 1 .. a + b /\ i <= a
        BY <2>1
      <4> QED
        BY <3>1, <4>1
    <3> QED
      BY <3>1, <3>2, <3>3
  <2>3. /\ \A i \in 1 .. a - 1 : Follows(q[i], q[i + 1])
        /\ \A i \in 1 .. b - 1 : Follows(w[i], w[i + 1])
        /\ q[a].to = N - 1 /\ w[1].to = 0 /\ w[b].to = N - 1
    BY <1>3 DEF Broadcasts, Whole
  <2> HIDE DEF a, b, u
  <2>4. ASSUME NEW i \in 1 .. Len(u) - 1 PROVE Follows(u[i], u[i + 1])
    <3>1. CASE i < a
      <4>1. i \in 1 .. a - 1 /\ i \in 1 .. a /\ i + 1 \in 1 .. a
        BY <2>1, <2>2, <3>1
      <4> QED
        BY <2>2, <2>3, <4>1
    <3>2. CASE i = a
      <4>1. a \in 1 .. a /\ 1 \in 1 .. b
        BY <2>1
      <4>2. u[i] = q[a] /\ u[i + 1] = w[1]
        BY <2>2, <3>2, <4>1
      <4> QED
        BY <2>3, <4>2 DEF Follows
    <3>3. CASE i > a
      <4> DEFINE j == i - a
      <4>1. j \in 1 .. b - 1 /\ j \in 1 .. b /\ j + 1 \in 1 .. b /\ i = a + j /\ i + 1 = a + (j + 1)
        BY <2>1, <2>2, <3>3
      <4> HIDE DEF j
      <4>2. u[i] = w[j] /\ u[i + 1] = w[j + 1]
        BY <2>2, <4>1
      <4> QED
        BY <2>3, <4>1, <4>2
    <3>4. i < a \/ i = a \/ i > a
      BY <2>1, <2>2
    <3> QED
      BY <3>1, <3>2, <3>3, <3>4
  <2>5. u[Len(u)].to = N - 1 /\ u[1] = q[1]
    <3>1. b \in 1 .. b /\ 1 \in 1 .. a
      BY <2>1
    <3> QED
      BY <2>2, <2>3, <3>1
  <2> QED
    BY <1>3, <2>4, <2>5 DEF Broadcasts, Whole, u
<1> QED
  BY <1>1, <1>2, <1>3

\* What an honest node broadcasts is a whole broadcast (HonestNode::broadcast).
LEMMA OneBroadcast ==
    ASSUME DishonestCount = 0, NEW v \in HonestNodes, NEW type, NEW b
    PROVE  Whole(Vector(walk, << Envelope(v, Nodes, type, b) >>))
<1> DEFINE M(i) == [from |-> v, to |-> i - 1, type |-> type, block |-> b]
           q == [i \in 1 .. N |-> M(i)]
<1>1. N \in Nat /\ N >= 1
  BY AllHonest
<1>2. Vector(walk, << Envelope(v, Nodes, type, b) >>) = q
  BY HonestBroadcast
<1>3. \A i \in 1 .. N : q[i] = M(i)
  OBVIOUS
<1>4. q \in Seq({ M(i) : i \in 1 .. N }) /\ Len(q) = N
  <2> HIDE DEF M
  <2> QED
    BY <1>1
<1> HIDE DEF q
<1>5. ASSUME NEW i \in 1 .. N - 1 PROVE Follows(q[i], q[i + 1])
  <2>1. i \in 1 .. N /\ i + 1 \in 1 .. N /\ i - 1 # N - 1 /\ (i + 1) - 1 = (i - 1) + 1
    BY <1>1
  <2>2. q[i] = M(i) /\ q[i + 1] = M(i + 1)
    BY <1>3, <2>1
  <2> QED
    BY <2>1, <2>2 DEF Follows
<1>6. 1 \in 1 .. N /\ N \in 1 .. N
  BY <1>1
<1>7. q[1].to = 0 /\ q[N].to = N - 1
  <2>1. q[1] = M(1) /\ q[N] = M(N)
    BY <1>3, <1>6
  <2> QED
    BY <2>1
<1> QED
  BY <1>2, <1>4, <1>5, <1>7 DEF Broadcasts, Whole

\* So is what the nodes answer and what they are told the time for.
LEMMA AllBroadcast ==
    ASSUME DishonestCount = 0
    PROVE  /\ \A m : Whole(Vector(walk, SendRec(m).out))
           /\ \A v, payload : Whole(Vector(walk, AtTime(v, payload)))
<1>1. Whole(Vector(walk, << >>))
  BY NothingFiled, EmptySeq DEF Whole, Broadcasts
<1>2. ASSUME NEW m PROVE Whole(Vector(walk, SendRec(m).out))
  <2> DEFINE out == HonestOnMessageReceive(m.to, honest[m.to], m).out
  <2>1. CASE m.to \in HonestNodes
    <3>1. SendRec(m).out = out
      BY <2>1, NodeSets DEF SendRec
    <3>2. out = << >> \/ out = << Envelope(m.to, Nodes, "VOTE", m.block) >>
      BY DEF HonestOnMessageReceive, HonestHandlePropose
    <3> HIDE DEF out
    <3> QED
      BY <1>1, <2>1, <3>1, <3>2, OneBroadcast
  <2>2. CASE m.to \notin HonestNodes
    <3>1. SendRec(m).out = << >>
      BY <2>2, AllHonest DEF SendRec
    <3> QED
      BY <1>1, <3>1
  <2> QED
    BY <2>1, <2>2
<1>3. ASSUME NEW v, NEW payload PROVE Whole(Vector(walk, AtTime(v, payload)))
  <2>1. CASE v \in HonestNodes
    <3>1. AtTime(v, payload) = HonestAtTime(v, honest[v], time, payload[0])
      BY <2>1, NodeSets DEF AtTime
    <3> DEFINE b == BlockHash(honest[v].tree.deepestNotarized, GetEpoch(time), payload[0])
    <3>2. AtTime(v, payload) \in {<< >>, << Envelope(v, Nodes, "PROPOSAL", b) >>}
      BY <3>1 DEF HonestAtTime
    <3> HIDE DEF b
    <3> QED
      BY <1>1, <2>1, <3>2, OneBroadcast
  <2>2. CASE v \notin HonestNodes
    <3>1. AtTime(v, payload) = << >>
      BY <2>2, AllHonest DEF AtTime
    <3> QED
      BY <1>1, <3>1
  <2> QED
    BY <2>1, <2>2
<1> QED
  BY <1>2, <1>3

\* So the receiver makes no difference (HonestNode::onMessageReceive).
LEMMA HandledByNext ==
    ASSUME NEW m, NEW r, NEW k
    PROVE  Handled(r, [from |-> m.from, to |-> k, type |-> m.type, block |-> m.block])
              = Handled(r, m)
BY DEF Handled, HandleVote, CountsVote, AcceptsProposal

\* Node k takes its turn.
LEMMA TakeTurn ==
    ASSUME DishonestCount = 0, NEW h, NEW h2, NEW m, NEW k \in Nodes,
           TurnsTaken(h, k, m),
           k \in HonestNodes => h2[k] = Handled(h[k], m),
           \A x \in HonestNodes : x # k => h2[x] = h[x]
    PROVE  /\ k = N - 1 => \A n : TurnsTaken(h2, 0, n)
           /\ \A n : Follows(m, n) /\ m.to = k /\ k # N - 1 => TurnsTaken(h2, n.to, n)
<1>1. /\ k \in Nat /\ k <= N - 1 /\ N \in Nat
      /\ \A v \in HonestNodes : v \in Nat /\ v <= N - 1
  BY AllHonest
<1>2. \A v, w \in HonestNodes :
        /\ v < k + 1 /\ w < k + 1 => h2[v] = h2[w]
        /\ ~(v < k + 1) /\ ~(w < k + 1) => h2[v] = h2[w]
        /\ v < k + 1 /\ ~(w < k + 1) => h2[v] = Handled(h2[w], m)
  <2> SUFFICES ASSUME NEW v \in HonestNodes, NEW w \in HonestNodes
               PROVE  /\ v < k + 1 /\ w < k + 1 => h2[v] = h2[w]
                      /\ ~(v < k + 1) /\ ~(w < k + 1) => h2[v] = h2[w]
                      /\ v < k + 1 /\ ~(w < k + 1) => h2[v] = Handled(h2[w], m)
    OBVIOUS
  <2>1. \A x \in HonestNodes :
           /\ x < k + 1 => (x < k /\ x # k) \/ (x = k /\ ~(x < k))
           /\ ~(x < k + 1) => x # k /\ ~(x < k)
    BY <1>1
  <2>2. ASSUME v < k + 1, w < k + 1 PROVE h2[v] = h2[w]
    <3>1. CASE v # k /\ w # k
      BY <2>1, <2>2, <3>1 DEF TurnsTaken
    <3>2. CASE v = k /\ w = k
      BY <3>2
    <3>3. CASE v = k /\ w # k
      BY <2>1, <2>2, <3>3 DEF TurnsTaken
    <3>4. CASE v # k /\ w = k
      BY <2>1, <2>2, <3>4 DEF TurnsTaken
    <3> QED
      BY <3>1, <3>2, <3>3, <3>4
  <2>3. ASSUME ~(v < k + 1), ~(w < k + 1) PROVE h2[v] = h2[w]
    BY <2>1, <2>3 DEF TurnsTaken
  <2>4. ASSUME v < k + 1, ~(w < k + 1) PROVE h2[v] = Handled(h2[w], m)
    <3>1. CASE v # k
      BY <2>1, <2>4, <3>1 DEF TurnsTaken
    <3>2. CASE v = k
      BY <2>1, <2>4, <3>2 DEF TurnsTaken
    <3> QED
      BY <3>1, <3>2
  <2> QED
    BY <2>2, <2>3, <2>4
<1>3. ASSUME k = N - 1, NEW n PROVE TurnsTaken(h2, 0, n)
  <2>1. \A v \in HonestNodes : v < k + 1 /\ ~(v < 0)
    BY <1>1, <1>3
  <2> QED
    BY <1>2, <2>1 DEF TurnsTaken
<1>4. ASSUME NEW n, Follows(m, n), m.to = k, k # N - 1 PROVE TurnsTaken(h2, n.to, n)
  <2>1. /\ n.to = k + 1
        /\ n = [from |-> m.from, to |-> k + 1, type |-> m.type, block |-> m.block]
    BY <1>4 DEF Follows
  <2>2. \A r : Handled(r, n) = Handled(r, m)
    BY <2>1, HandledByNext
  <2> QED
    BY <1>2, <2>1, <2>2 DEF TurnsTaken
<1> QED
  BY <1>3, <1>4

\* It holds initially: nothing is filed and the replicas are new.
LEMMA LockstepInit == Init => LockstepInv
<1> SUFFICES ASSUME Init, DishonestCount = 0
             PROVE  /\ \A r \in Rounds : Whole(roundMessages[r])
                    /\ TurnsTaken(honest, Reached, roundMessages[time][1])
  BY DEF LockstepInv, Whole
<1>1. time = 0 /\ \A r \in Rounds : roundMessages[r] = << >>
  BY DEF Init
<1>2. 0 \in Rounds
  BY NrRoundsAssumption DEF Rounds
<1>3. Reached = 0
  BY <1>1, <1>2 DEF Reached
<1>4. \A v, w \in HonestNodes : honest[v] = honest[w] /\ ~(v < 0)
  BY AllHonest DEF Init
<1> QED
  BY <1>1, <1>3, <1>4, EmptySeq DEF Whole, Broadcasts, TurnsTaken

\* The leader's broadcast is filed in an empty queue.
LEMMA LockstepBroadcast ==
    ASSUME SimpleInv, LockstepInv, BroadcastTime, DishonestCount = 0
    PROVE  LockstepInv'
<1>1. /\ time \in Rounds /\ time' = time /\ honest' = honest /\ pc = "broadcastTime"
      /\ roundMessages = [r \in Rounds |-> roundMessages[r]]
      /\ \A r \in Rounds : roundMessages[r] = << >>
  BY SimpleInvFacts DEF SimpleInv, FieldsInv, QueuesInv, Idle, BroadcastTime
<1>2. \/ roundMessages' = roundMessages
      \/ \E v, payload : /\ payload \in Draws /\ v \in Nodes
                         /\ File(AtTime(v, payload), time, roundMessages)
  BY DEF BroadcastTime
<1>3. \A r \in Rounds : Whole(roundMessages'[r])
  <2>1. Whole(<< >>)
    BY EmptySeq DEF Whole, Broadcasts
  <2>2. CASE roundMessages' = roundMessages
    BY <1>1, <2>1, <2>2
  <2>3. ASSUME NEW v \in Nodes, NEW payload \in Draws,
               File(AtTime(v, payload), time, roundMessages)
        PROVE  \A r \in Rounds : Whole(roundMessages'[r])
    <3> DEFINE V == Vector(walk, AtTime(v, payload))
    <3>1. roundMessages' = [roundMessages EXCEPT ![time] = @ \o V]
      BY <2>3 DEF File
    <3>2. Whole(V)
      BY AllBroadcast
    <3>3. V \in Seq(Messages(AtTime(v, payload)))
      BY SimpleInvFacts, Announcement DEF SimpleInv, FieldsInv
    <3> HIDE DEF V
    <3>4. /\ roundMessages'[time] = << >> \o V
          /\ \A r \in Rounds : r # time => roundMessages'[r] = << >>
      BY <1>1, <3>1
    <3>5. << >> \o V = V
      BY <3>3, ConcatEmptySeq
    <3> QED
      BY <2>1, <3>2, <3>4, <3>5
  <2> QED
    BY <1>2, <2>2, <2>3
<1>4. Reached = 0 /\ Reached' = 0
  BY <1>1, <1>3 DEF Reached, Whole
<1>5. TurnsTaken(honest', Reached', roundMessages'[time][1])
  <2>1. \A v \in HonestNodes : ~(v < 0)
    BY AllHonest
  <2> QED
    BY <1>1, <1>4, <2>1 DEF LockstepInv, TurnsTaken
<1> QED
  BY <1>1, <1>3, <1>5 DEF LockstepInv, Whole, Rounds

\* The next node in turn is handed the message.
LEMMA LockstepSend ==
    ASSUME SimpleInv, LockstepInv, Send, DishonestCount = 0
    PROVE  LockstepInv'
<1> DEFINE m == NextMessage
           q == roundMessages[time]
           V == Vector(walk, SendRec(m).out)
<1>1. /\ time \in Nat /\ time \in Rounds /\ time + 1 \in Rounds /\ q # << >> /\ time' = time
      /\ roundMessages = [r \in Rounds |-> roundMessages[r]]
      /\ \A r \in Rounds : roundMessages[r] \in Seq(sent)
      /\ NodesInv(honest, dishonest, sent) /\ walk \in Walks
  <2>1. \A r \in Rounds : Waiting(r) \in SUBSET sent
    BY DEF Waiting
  <2>2. \A r \in Rounds : roundMessages[r] \in Seq(sent)
    BY <2>1, SeqWiden DEF SimpleInv, QueuesInv
  <2> QED
    BY <2>2, SimpleInvFacts DEF SimpleInv, FieldsInv, Send, Delivering
<1>2. /\ honest' = SendRec(m).honest
      /\ roundMessages' = [[roundMessages EXCEPT ![time] = Tail(@)] EXCEPT ![time + 1] = @ \o V]
  BY DEF Send, File
<1>3. m = q[1] /\ m \in sent /\ m = Head(q) /\ q \in Seq(sent) /\ Tail(q) \in Seq(sent)
  BY <1>1, HeadTailProperties DEF NextMessage
<1>4. /\ V \in Seq(Messages(SendRec(m).out)) /\ m.to \in Nodes
      /\ \A x \in HonestNodes : x # m.to => SendRec(m).honest[x] = honest[x]
  BY <1>1, <1>3, Delivery DEF NodesInv, Message
<1>5. m.to \in HonestNodes => SendRec(m).honest[m.to] = Handled(honest[m.to], m)
  <2> SUFFICES ASSUME m.to \in HonestNodes
               PROVE  SendRec(m).honest[m.to] = Handled(honest[m.to], m)
    OBVIOUS
  <2> DEFINE h == HonestOnMessageReceive(m.to, honest[m.to], m).replica
  <2>1. h = Handled(honest[m.to], m)
    BY HonestHandles
  <2>2. SendRec(m).honest = [honest EXCEPT ![m.to] = h]
    BY NodeSets DEF SendRec
  <2> HIDE DEF h, m
  <2> QED
    BY <1>1, <2>1, <2>2 DEF NodesInv
<1>6. Whole(V)
  BY AllBroadcast
<1> HIDE DEF m, q, V
<1>7. /\ roundMessages'[time] = Tail(q)
      /\ roundMessages'[time + 1] = roundMessages[time + 1] \o V
      /\ \A r \in Rounds : r # time /\ r # time + 1 => roundMessages'[r] = roundMessages[r]
  <2> DEFINE mid == [roundMessages EXCEPT ![time] = Tail(@)]
  <2>1. time # time + 1
    BY <1>1
  <2>2. /\ mid = [r \in Rounds |-> mid[r]] /\ mid[time] = Tail(q)
        /\ \A r \in Rounds : r # time => mid[r] = roundMessages[r]
    BY <1>1 DEF q
  <2> HIDE DEF mid
  <2>3. roundMessages' = [mid EXCEPT ![time + 1] = @ \o V]
    BY <1>2 DEF mid
  <2>4. /\ roundMessages'[time + 1] = mid[time + 1] \o V
        /\ \A r \in Rounds : r # time + 1 => roundMessages'[r] = mid[r]
    BY <1>1, <2>2, <2>3
  <2> QED
    BY <1>1, <2>1, <2>2, <2>4
<1>8. /\ Broadcasts(q) /\ TurnsTaken(honest, Reached, m) /\ Reached = m.to
      /\ \A r \in Rounds : r # time => Whole(roundMessages[r])
  BY <1>1, <1>3 DEF LockstepInv, Reached, q
<1>9. /\ Broadcasts(Tail(q))
      /\ IF Tail(q) = << >> THEN m.to = N - 1 ELSE Follows(m, Tail(q)[1])
  BY <1>1, <1>3, <1>8, BroadcastsTail
<1>10. Whole(roundMessages[time + 1] \o V)
  <2>1. time # time + 1 /\ Whole(roundMessages[time + 1])
    BY <1>1, <1>8
  <2> DEFINE E == sent \cup Messages(SendRec(m).out)
  <2>2. roundMessages[time + 1] \in Seq(E) /\ V \in Seq(E)
    BY <1>1, <1>4, SeqWiden
  <2> HIDE DEF E
  <2> QED
    BY <1>6, <2>1, <2>2, BroadcastsAppended DEF Whole
<1>11. \A r \in Rounds : IF r = time THEN Broadcasts(roundMessages'[r])
                                     ELSE Whole(roundMessages'[r])
  BY <1>7, <1>8, <1>9, <1>10
<1>12. TurnsTaken(honest', Reached', roundMessages'[time][1])
  <2>1. /\ m.to = N - 1 => \A n : TurnsTaken(honest', 0, n)
        /\ \A n : Follows(m, n) /\ m.to # N - 1 => TurnsTaken(honest', n.to, n)
    BY <1>2, <1>4, <1>5, <1>8, TakeTurn
  <2>2. Reached' = IF Tail(q) = << >> THEN 0 ELSE Tail(q)[1].to
    BY <1>1, <1>7 DEF Reached
  <2>3. CASE Tail(q) = << >>
    BY <1>7, <1>9, <2>1, <2>2, <2>3
  <2>4. CASE Tail(q) # << >> /\ m.to = N - 1
    <3>1. Tail(q)[1].to = 0
      BY <1>9, <2>4 DEF Follows
    <3> QED
      BY <2>1, <2>2, <2>4, <3>1
  <2>5. CASE Tail(q) # << >> /\ m.to # N - 1
    BY <1>7, <1>9, <2>1, <2>2, <2>5
  <2> QED
    BY <2>3, <2>4, <2>5
<1> QED
  BY <1>1, <1>11, <1>12 DEF LockstepInv, Rounds

\* All have had their turn when a queue is empty, and none with the next queue.
LEMMA LockstepEndSendThis ==
    ASSUME SimpleInv, LockstepInv, EndSendThis, DishonestCount = 0
    PROVE  LockstepInv'
<1>1. /\ time \in Nat /\ time \in Rounds /\ time + 1 \in Rounds /\ time' = time + 1
      /\ roundMessages[time] = << >> /\ UNCHANGED <<roundMessages, honest>>
  BY SimpleInvFacts DEF EndSendThis, Returning
<1>2. \A r \in Rounds : Whole(roundMessages[r])
  <2>1. Whole(<< >>)
    BY EmptySeq DEF Whole, Broadcasts
  <2> QED
    BY <1>1, <2>1 DEF LockstepInv
<1>3. Reached = 0 /\ Reached' = 0
  BY <1>1, <1>2 DEF Reached, Whole
<1>4. \A v \in HonestNodes : ~(v < 0)
  BY AllHonest
<1>5. TurnsTaken(honest', Reached', roundMessages'[time'][1])
  BY <1>1, <1>3, <1>4 DEF LockstepInv, TurnsTaken
<1> QED
  BY <1>1, <1>2, <1>5 DEF LockstepInv, Whole, Rounds

LEMMA LockstepStep ==
    ASSUME SimpleInv, LockstepInv, [Next]_vars
    PROVE  LockstepInv'
<1>1. CASE DishonestCount # 0
  BY <1>1 DEF LockstepInv
<1>2. CASE DishonestCount = 0 /\ UNCHANGED <<time, roundMessages, honest>>
  BY <1>2 DEF LockstepInv, Reached
<1>3. \/ BroadcastTime \/ Send \/ EndSendThis
      \/ UNCHANGED <<time, roundMessages, honest>>
  BY DEF Next, vars, EndSendNext, Terminating
<1> QED
  BY <1>1, <1>2, <1>3, LockstepBroadcast, LockstepSend, LockstepEndSendThis

\* Without dishonest nodes the honest ones are in the same state whenever a
\* tick has ended (HonestNode::broadcast, SimpleScheduler::sendFromRound).
THEOREM Lockstep == Spec => []HonestInLockstep
<1>1. Init => LockstepInv
  BY LockstepInit
<1>2. SimpleInv /\ LockstepInv /\ [Next]_vars => LockstepInv'
  BY LockstepStep
<1>3. SimpleInv /\ LockstepInv => HonestInLockstep
  <2> SUFFICES ASSUME SimpleInv, LockstepInv, DishonestCount = 0, pc = "broadcastTime"
               PROVE  \A v, w \in HonestNodes : honest[v] = honest[w]
    BY DEF HonestInLockstep
  <2>1. time \in Rounds /\ roundMessages[time] = << >>
    BY SimpleInvFacts DEF SimpleInv, QueuesInv, Idle
  <2>2. \A v \in HonestNodes : ~(v < Reached)
    BY <2>1, AllHonest DEF Reached
  <2> QED
    BY <2>2 DEF LockstepInv, TurnsTaken
<1> QED
  BY <1>1, <1>2, <1>3, SimpleInvariant, PTL DEF Spec
-----------------------------------------------------------------------------
(* Nodes in lockstep never have a block stored whose parent is not yet      *)
(* notarized, so that no assert of Block can fail.                          *)

\* What is proposed stands on a block notarized everywhere.
GroundedInv ==
    DishonestCount = 0 =>
        /\ \A v \in HonestNodes : Grounded(honest[v])
        /\ \A m \in sent : m.type = "PROPOSAL" =>
              \A v \in HonestNodes : NotarizedIn(honest[v], ParentHash(m.block))

\* New trees hold the genesis block only.
LEMMA GroundedInit == Init => GroundedInv
<1>1. Grounded(NewReplica)
  BY DEF Grounded, NewReplica, NewTree
<1> QED
  BY <1>1 DEF Init, GroundedInv

\* The leader builds on what is notarized at every node.
LEMMA GroundedBroadcast ==
    ASSUME SimpleInv, GroundedInv, HonestInLockstep, BroadcastTime, DishonestCount = 0
    PROVE  GroundedInv'
<1>1. /\ NodesInv(honest, dishonest, sent) /\ time \in Nat /\ honest' = honest
      /\ \A v, w \in HonestNodes : honest[v] = honest[w]
  BY SimpleInvFacts DEF SimpleInv, BroadcastTime, HonestInLockstep
<1>2. \/ sent' = sent
      \/ \E v, payload : /\ payload \in Draws /\ v \in Nodes
                         /\ sent' = sent \cup Messages(AtTime(v, payload))
  BY DEF BroadcastTime, File
<1>3. ASSUME NEW v \in Nodes, NEW payload \in Draws, NEW m \in Messages(AtTime(v, payload)),
             NEW x \in HonestNodes
      PROVE  NotarizedIn(honest[x], ParentHash(m.block))
  <2> DEFINE r == honest[v]
             b == BlockHash(r.tree.deepestNotarized, GetEpoch(time), payload[0])
  <2>1. v \in HonestNodes
    <3> SUFFICES ASSUME v \notin HonestNodes PROVE FALSE
      OBVIOUS
    <3>1. AtTime(v, payload) = << >>
      BY AllHonest DEF AtTime
    <3> QED
      BY <1>3, <3>1, NothingFiled
  <2>2. AtTime(v, payload) = HonestAtTime(v, r, time, payload[0])
    BY <2>1, NodeSets DEF AtTime
  <2>3. m.block = b
    <3>1. AtTime(v, payload) \in {<< >>, << Envelope(v, Nodes, "PROPOSAL", b) >>}
      BY <2>2 DEF HonestAtTime
    <3>2. AtTime(v, payload) # << >>
      BY <1>3, NothingFiled
    <3> DEFINE e == Envelope(v, Nodes, "PROPOSAL", b)
    <3>3. AtTime(v, payload) = << e >>
      BY <3>1, <3>2
    <3>4. PICK i \in DOMAIN << e >> : \E y \in << e >>[i].to : m = [<< e >>[i] EXCEPT !.to = y]
      BY <3>3, <1>3, MessageOfEnvelope
    <3>5. i = 1 /\ << e >>[1] = e
      OBVIOUS
    <3>6. e.block = b /\ e = [from |-> v, to |-> Nodes, type |-> "PROPOSAL", block |-> b]
      BY DEF Envelope
    <3> HIDE DEF e, b
    <3> QED
      BY <3>4, <3>5, <3>6
  <2>4. ReplicaInv(r) /\ payload[0] \in Payload
    BY <1>1, <2>1, DrawsAssumption DEF NodesInv
  <2>5. /\ r.tree.deepestNotarized \in DOMAIN r.tree.hbMapping
        /\ r.tree.hbMapping[r.tree.deepestNotarized] # "PRESENT"
        /\ r.tree.deepestNotarized \in Hash
    BY <2>4 DEF ReplicaInv, TreeInv, IsTree, DeepestNotarizedIsDeepest
  <2>6. ParentHash(b) = r.tree.deepestNotarized
    BY <1>1, <2>4, <2>5, GetEpochNat, BlockHashAncestors
  <2>7. honest[x] = r
    BY <1>1, <2>1
  <2> HIDE DEF r, b
  <2> QED
    BY <2>3, <2>5, <2>6, <2>7 DEF NotarizedIn, IsPresent
<1> QED
  BY <1>1, <1>2, <1>3 DEF GroundedInv

\* A delivery only adds to what is notarized.
LEMMA GroundedSend ==
    ASSUME SimpleInv, GroundedInv, Send, DishonestCount = 0
    PROVE  GroundedInv'
<1> DEFINE m == NextMessage
           W == Messages(SendRec(m).out)
<1>1. /\ NodesInv(honest, dishonest, sent) /\ walk \in Walks
      /\ time \in Rounds /\ roundMessages[time] # << >>
      /\ honest' = SendRec(m).honest /\ sent' = sent \cup W
  BY SimpleInvFacts DEF SimpleInv, FieldsInv, Send, Delivering, File
<1>2. m \in sent
  <2>1. roundMessages[time] \in Seq(Waiting(time))
    BY <1>1 DEF SimpleInv, QueuesInv
  <2> QED
    BY <1>1, <2>1, HeadTailProperties DEF NextMessage, Waiting
<1>3. /\ \A w \in W : w.type = "VOTE"
      /\ IF m.to \in HonestNodes
         THEN /\ ReplicaStep(m.to, honest[m.to], m, honest'[m.to])
              /\ \A x \in HonestNodes : x # m.to => honest'[x] = honest[x]
         ELSE honest' = honest
  BY <1>1, <1>2, Delivery
<1>4. m.to \in HonestNodes => honest'[m.to] = Handled(honest[m.to], m)
  <2> SUFFICES ASSUME m.to \in HonestNodes
               PROVE  honest'[m.to] = Handled(honest[m.to], m)
    OBVIOUS
  <2> DEFINE h == HonestOnMessageReceive(m.to, honest[m.to], m).replica
  <2>1. h = Handled(honest[m.to], m)
    BY HonestHandles
  <2>2. SendRec(m).honest = [honest EXCEPT ![m.to] = h]
    BY NodeSets DEF SendRec
  <2> HIDE DEF h, m
  <2> QED
    BY <1>1, <2>1, <2>2 DEF NodesInv
<1> HIDE DEF m, W
<1>5. \A v \in HonestNodes : \A c : NotarizedIn(honest[v], c) => NotarizedIn(honest'[v], c)
  BY <1>3 DEF ReplicaStep, NotarizedIn, IsPresent
<1>6. \A v \in HonestNodes : Grounded(honest'[v])
  <2> SUFFICES ASSUME NEW v \in HonestNodes PROVE Grounded(honest'[v])
    OBVIOUS
  <2>1. CASE v # m.to
    BY <1>3, <2>1 DEF GroundedInv
  <2>2. CASE v = m.to
    <3>1. /\ ReplicaInv(honest[v]) /\ Grounded(honest[v]) /\ m \in Message
          /\ m.type = "PROPOSAL" => NotarizedIn(honest[v], ParentHash(m.block))
      BY <1>1, <1>2 DEF NodesInv, GroundedInv
    <3>2. honest'[v] = Handled(honest[v], m)
      BY <1>4, <2>2
    <3> QED
      BY <3>1, <3>2, GroundedProposal, GroundedVote DEF Handled
  <2> QED
    BY <2>1, <2>2
<1>7. \A w \in sent' : w.type = "PROPOSAL" =>
         \A v \in HonestNodes : NotarizedIn(honest'[v], ParentHash(w.block))
  BY <1>1, <1>3, <1>5 DEF GroundedInv
<1> QED
  BY <1>6, <1>7 DEF GroundedInv

LEMMA GroundedStep ==
    ASSUME SimpleInv, GroundedInv, HonestInLockstep, [Next]_vars
    PROVE  GroundedInv'
<1>1. CASE DishonestCount # 0
  BY <1>1 DEF GroundedInv
<1>2. CASE UNCHANGED <<honest, sent>>
  BY <1>2 DEF GroundedInv
<1>3. BroadcastTime \/ Send \/ UNCHANGED <<honest, sent>>
  BY DEF Next, vars, EndSendThis, EndSendNext, Terminating
<1> QED
  BY <1>1, <1>2, <1>3, GroundedBroadcast, GroundedSend

\* Without dishonest nodes no assert of Block::notarize or Block::finalize
\* fails (block.cpp:30, 36).
THEOREM NoAssertFailsAmongHonest ==
    ASSUME DishonestCount = 0
    PROVE  Spec => []NoAssertFails
<1>1. Init => GroundedInv
  BY GroundedInit
<1>2. SimpleInv /\ GroundedInv /\ HonestInLockstep /\ [Next]_vars => GroundedInv'
  BY GroundedStep
<1>3. GroundedInv => NoAssertFails
  BY AllHonest, SameHashes DEF GroundedInv, NoAssertFails, S!Aborted, Grounded
<1> QED
  BY <1>1, <1>2, <1>3, SimpleInvariant, Lockstep, PTL DEF Spec
-----------------------------------------------------------------------------
(* A dishonest leader sends one block to the first half and the dishonest   *)
(* nodes, then another to the second half and the dishonest nodes.  Side k  *)
(* is the k-th half together with face k of every dishonest node: what one  *)
(* member of a side has recorded, all have, once the leader's proposals are *)
(* delivered.                                                               *)

\* s lists the members of R, each once.
Lists(s, R) ==
    /\ s \in Seq(R)
    /\ \A i, j \in 1 .. Len(s) : s[i] = s[j] => i = j
    /\ \A x \in R : \E i \in 1 .. Len(s) : s[i] = x

\* What SetToSeqs gives of a set of nodes lists it.
LEMMA WalkLists ==
    ASSUME NEW R \in SUBSET Nodes, NEW s \in SetToSeqs(R)
    PROVE  Lists(s, R)
<1> DEFINE n == Cardinality(R)
<1>1. IsFiniteSet(R) /\ n \in Nat
  BY NodeSets, FS_Subset, FS_CardinalityType
<1>2. s \in [1 .. n -> R] /\ \A i, j \in 1 .. n : i # j => s[i] # s[j]
  BY DEF SetToSeqs
<1> HIDE DEF n
<1>3. s \in Injection(1 .. n, R)
  BY <1>2 DEF Injection, IsInjective
<1>4. Cardinality(1 .. n) = Cardinality(R)
  BY <1>1, FS_Interval DEF n
<1>5. s \in Surjection(1 .. n, R)
  BY <1>1, <1>3, <1>4, FS_Injection
<1>6. Len(s) = n /\ s \in Seq(R)
  BY <1>1, <1>2
<1>7. \A x \in R : \E i \in 1 .. n : s[i] = x
  BY <1>5 DEF Surjection
<1> QED
  BY <1>2, <1>6, <1>7 DEF Lists

\* A dishonest node's walk through a receiver set reaches each member once
\* (DishonestNode::broadcast).
LEMMA WalksList ==
    ASSUME NEW walks \in Walks, DishonestNodes # {}, NEW R \in ReceiverSets
    PROVE  Lists(walks[R], R)
<1>1. PICK all \in SetToSeqs(Nodes), half0 \in SetToSeqs(HonestNodesFractions(0)),
           half1 \in SetToSeqs(HonestNodesFractions(1)), others \in SetToSeqs(DishonestNodes) :
         walks = [Q \in ReceiverSets |-> CASE Q = Nodes                   -> all
                                          [] Q = HonestNodesFractions(0) -> half0
                                          [] Q = HonestNodesFractions(1) -> half1
                                          [] OTHER                       -> others]
  BY DEF Walks
<1>2. walks[R] = CASE R = Nodes                   -> all
                   [] R = HonestNodesFractions(0) -> half0
                   [] R = HonestNodesFractions(1) -> half1
                   [] OTHER                       -> others
  BY <1>1
<1>3. /\ Lists(all, Nodes) /\ Lists(half0, HonestNodesFractions(0))
      /\ Lists(half1, HonestNodesFractions(1)) /\ Lists(others, DishonestNodes)
  BY WalkLists, ReceiversAreNodes DEF ReceiverSets
<1>4. \/ R = Nodes \/ R = HonestNodesFractions(0) \/ R = HonestNodesFractions(1)
      \/ R = DishonestNodes
  BY DEF ReceiverSets
<1> QED
  BY <1>2, <1>3, <1>4

\* Four sequences are concatenated from the left.
LEMMA FlattenSeqOfFour ==
    ASSUME NEW E, NEW four \in Seq(Seq(E)), Len(four) = 4
    PROVE  FlattenSeq(four) = four[1] \o four[2] \o four[3] \o four[4]
<1> DEFINE f == CHOOSE g : Flattening(g, four)
<1>1. Len(four) # 0
  OBVIOUS
<1>2. Flattening(f, four)
  BY <1>1, FlatteningExists
<1>3. FlattenSeq(four) = f[Len(four)]
  BY <1>1, FlattenSeqIs DEF f
<1> HIDE DEF f
<1>4. f = [i \in 1 .. Len(four) |-> IF i = 1 THEN four[i] ELSE f[i-1] \o four[i]]
  BY <1>2, Zenon DEF Flattening
<1>5. /\ f[1] = four[1] /\ f[2] = f[1] \o four[2]
      /\ f[3] = f[2] \o four[3] /\ f[4] = f[3] \o four[4]
  <2> DEFINE g(i) == IF i = 1 THEN four[i] ELSE f[i-1] \o four[i]
  <2>1. \A i \in 1 .. Len(four) : f[i] = g(i)
    BY <1>4, Zenon
  <2>2. 1 \in 1 .. Len(four) /\ 2 \in 1 .. Len(four) /\ 3 \in 1 .. Len(four) /\ 4 \in 1 .. Len(four)
    OBVIOUS
  <2>3. /\ g(1) = four[1] /\ g(2) = f[1] \o four[2]
        /\ g(3) = f[2] \o four[3] /\ g(4) = f[3] \o four[4]
    OBVIOUS
  <2> HIDE DEF g
  <2> QED
    BY <2>1, <2>2, <2>3
<1> QED
  BY <1>3, <1>5

\* The messages to R in the order of a walk.
Piece(walks, v, R, type, b) ==
    [i \in 1 .. Len(walks[R]) |-> [from |-> v, to |-> walks[R][i], type |-> type, block |-> b]]

\* The proposals of a dishonest leader as a vector.
LEMMA DishonestBroadcast ==
    ASSUME NEW walks \in Walks, NEW v \in DishonestNodes, NEW type, NEW b, NEW c
    PROVE  Vector(walks, << Envelope(v, HonestNodesFractions(0), type, b),
                            Envelope(v, DishonestNodes, type, b),
                            Envelope(v, HonestNodesFractions(1), type, c),
                            Envelope(v, DishonestNodes, type, c) >>)
             = Piece(walks, v, HonestNodesFractions(0), type, b)
                 \o Piece(walks, v, DishonestNodes, type, b)
                 \o Piece(walks, v, HonestNodesFractions(1), type, c)
                 \o Piece(walks, v, DishonestNodes, type, c)
<1> DEFINE env(R, x) == Envelope(v, R, type, x)
           piece(R, x) == Piece(walks, v, R, type, x)
           E == [from : {v}, to : Nodes, type : {type}, block : {b, c}]
           out == << env(HonestNodesFractions(0), b), env(DishonestNodes, b),
                     env(HonestNodesFractions(1), c), env(DishonestNodes, c) >>
<1>1. ASSUME NEW R \in ReceiverSets, NEW x \in {b, c}
      PROVE  Serialize(walks, env(R, x)) = piece(R, x) /\ piece(R, x) \in Seq(E)
  <2> DEFINE w == walks[R]
  <2>1. Order(walks, env(R, x)) = w
    BY NodeSets DEF Order, Envelope
  <2>2. /\ Len(w) \in Nat /\ DOMAIN w = 1 .. Len(w) /\ R \in SUBSET Nodes
        /\ \A i \in 1 .. Len(w) : w[i] \in R
    <3>1. w \in Seq(R) /\ R \in SUBSET Nodes
      BY WalksList, ReceiversAreNodes DEF Lists
    <3> QED
      BY <3>1, LenProperties, ElementOfSeq
  <2>3. \A i : [env(R, x) EXCEPT !.to = w[i]]
                  = [from |-> v, to |-> w[i], type |-> type, block |-> x]
    BY DEF Envelope
  <2>4. Serialize(walks, env(R, x)) = [i \in 1 .. Len(w) |-> [env(R, x) EXCEPT !.to = w[i]]]
    BY <2>1, <2>2 DEF Serialize
  <2>5. piece(R, x) = [i \in 1 .. Len(w) |->
                          [from |-> v, to |-> w[i], type |-> type, block |-> x]]
    BY DEF Piece
  <2> HIDE DEF w, env, piece
  <2>6. \A i \in 1 .. Len(w) : [from |-> v, to |-> w[i], type |-> type, block |-> x] \in E
    BY <2>2
  <2> QED
    BY <2>2, <2>3, <2>4, <2>5, <2>6
<1>2. /\ HonestNodesFractions(0) \in ReceiverSets /\ HonestNodesFractions(1) \in ReceiverSets
      /\ DishonestNodes \in ReceiverSets
  BY DEF ReceiverSets
<1> HIDE DEF env, piece, E
<1>3. /\ DOMAIN out = 1 .. 4
      /\ out[1] = env(HonestNodesFractions(0), b) /\ out[2] = env(DishonestNodes, b)
      /\ out[3] = env(HonestNodesFractions(1), c) /\ out[4] = env(DishonestNodes, c)
  OBVIOUS
<1> HIDE DEF out
<1>4. [i \in DOMAIN out |-> Serialize(walks, out[i])]
        = << piece(HonestNodesFractions(0), b), piece(DishonestNodes, b),
             piece(HonestNodesFractions(1), c), piece(DishonestNodes, c) >>
  BY <1>1, <1>2, <1>3
<1> DEFINE four == << piece(HonestNodesFractions(0), b), piece(DishonestNodes, b),
                      piece(HonestNodesFractions(1), c), piece(DishonestNodes, c) >>
<1>5. /\ four \in Seq(Seq(E)) /\ Len(four) = 4
      /\ four[1] = piece(HonestNodesFractions(0), b) /\ four[2] = piece(DishonestNodes, b)
      /\ four[3] = piece(HonestNodesFractions(1), c) /\ four[4] = piece(DishonestNodes, c)
  BY <1>1, <1>2
<1> HIDE DEF four
<1>6. FlattenSeq(four) = piece(HonestNodesFractions(0), b) \o piece(DishonestNodes, b)
            \o piece(HonestNodesFractions(1), c) \o piece(DishonestNodes, c)
  BY <1>5, FlattenSeqOfFour
<1>7. Vector(walks, out)
        = piece(HonestNodesFractions(0), b) \o piece(DishonestNodes, b)
            \o piece(HonestNodesFractions(1), c) \o piece(DishonestNodes, c)
  BY <1>4, <1>6 DEF Vector, four
<1> QED
  BY <1>7 DEF out, env, piece

\* The proposals that node u, or its face k, has recorded; h and d are the nodes.
Book(h, d, u, k) ==
    IF u \in HonestNodes THEN h[u].proposedBlocks ELSE d[u].faces[k].proposedBlocks

\* What a book becomes by a proposal of block b.
Entered(book, b) == TryEmplace(book, EpochOf(b), b)

\* A delivery changes the books of its receiver only: a vote none, a proposal
\* of the leader both of a dishonest node, or if a dishonest node sent it, the
\* one whose turn it is (dishonest_node.cpp:63, 118).
Taken(m, d, u, k) ==
    /\ u = m.to /\ m.type = "PROPOSAL"
    /\ u \in DishonestNodes /\ m.from \in DishonestNodes => k = Turn(d[u])

\* What becomes of a replica's first proposals.
LEMMA HandledBook ==
    ASSUME NEW r, ReplicaInv(r), NEW m \in Message,
           m.type = "PROPOSAL" => m.from = GetLeader(EpochOf(m.block))
    PROVE  Handled(r, m).proposedBlocks
             = IF m.type = "PROPOSAL" THEN Entered(r.proposedBlocks, m.block)
               ELSE r.proposedBlocks
<1>1. CASE m.type # "PROPOSAL"
  BY <1>1, HandleVoteInv DEF Handled
<1>2. CASE m.type = "PROPOSAL" /\ AcceptsProposal(r, m)
  <2>1. Handled(r, m) = RecordProposal(r, m.block)
    BY <1>2 DEF Handled
  <2>2. RecordProposal(r, m.block).proposedBlocks
          = TryEmplace(r.proposedBlocks, EpochOf(m.block), m.block)
    BY RecordProposalFields DEF ReplicaInv
  <2> QED
    BY <1>2, <2>1, <2>2 DEF Entered
<1>3. CASE m.type = "PROPOSAL" /\ ~AcceptsProposal(r, m)
  <2>1. Handled(r, m) = r /\ EpochOf(m.block) \in DOMAIN r.proposedBlocks
    BY <1>3 DEF Handled, AcceptsProposal
  <2>2. r.proposedBlocks = [e \in DOMAIN r.proposedBlocks |-> r.proposedBlocks[e]]
    BY DEF ReplicaInv, IsReplica
  <2>3. DOMAIN r.proposedBlocks \cup {EpochOf(m.block)} = DOMAIN r.proposedBlocks
    BY <2>1
  <2> DEFINE book == r.proposedBlocks
             e == EpochOf(m.block)
  <2>4. Entered(book, m.block) = [x \in DOMAIN book |-> book[x]]
    <3>1. Entered(book, m.block) = [x \in DOMAIN book \cup {e} |->
                                      IF x \in DOMAIN book THEN book[x] ELSE m.block]
      BY DEF Entered, TryEmplace
    <3> HIDE DEF book, e
    <3> QED
      BY <2>3, <3>1 DEF book, e
  <2> QED
    BY <1>3, <2>1, <2>2, <2>4
<1> QED
  BY <1>1, <1>2, <1>3

\* What a dishonest node does with a message (DishonestNode::onMessageReceive).
LEMMA FacesHandle ==
    ASSUME NEW d, DishonestInv(d), NEW m
    PROVE  LET a == DishonestOnMessageReceive(m.to, d, m).node
               mischief == m.type = "PROPOSAL" /\ m.from \in DishonestNodes
           IN  /\ a.firstHalf = (IF mischief THEN ~d.firstHalf ELSE d.firstHalf)
               /\ \A k \in 0 .. 1 :
                     a.faces[k] = IF mischief /\ k # Turn(d) THEN d.faces[k]
                                  ELSE Handled(d.faces[k], m)
<1> DEFINE mischief == m.type = "PROPOSAL" /\ m.from \in DishonestNodes
           f == [k \in 0 .. 1 |->
                    IF m.type = "PROPOSAL"
                    THEN DishonestHandlePropose(m.to, d, m, mischief, k)
                    ELSE [replica |-> HandleVote(d.faces[k], m), out |-> << >>]]
           a == DishonestOnMessageReceive(m.to, d, m).node
<1>1. /\ a.faces = [k \in 0 .. 1 |-> f[k].replica]
      /\ a.firstHalf = (IF mischief THEN ~d.firstHalf ELSE d.firstHalf)
  BY DEF DishonestOnMessageReceive
<1>2. ASSUME NEW k \in 0 .. 1
      PROVE  f[k].replica = IF mischief /\ k # Turn(d) THEN d.faces[k]
                            ELSE Handled(d.faces[k], m)
  <2>1. CASE m.type = "PROPOSAL"
    <3>1. f[k] = DishonestHandlePropose(m.to, d, m, mischief, k)
      BY <2>1
    <3> HIDE DEF f, mischief
    <3> QED
      BY <2>1, <3>1 DEF DishonestHandlePropose, Handled
  <2>2. CASE m.type # "PROPOSAL"
    BY <2>2 DEF Handled
  <2> QED
    BY <2>1, <2>2
<1> HIDE DEF f, a, mischief
<1>3. \A k \in 0 .. 1 : a.faces[k] = f[k].replica
  BY <1>1
<1> QED
  BY <1>1, <1>2, <1>3 DEF a, mischief

\* Delivering m enters it in the books of Taken and no other, and gives the next
\* turn to the other face when one dishonest node hears the proposal of another.
LEMMA DeliveryToBooks ==
    ASSUME NodesInv(honest, dishonest, sent), NEW m \in sent,
           m.type = "PROPOSAL" => m.from = GetLeader(EpochOf(m.block))
    PROVE  LET a == SendRec(m)
           IN  /\ \A u \in HonestNodes \cup DishonestNodes : \A k \in 0 .. 1 :
                     Book(a.honest, a.dishonest, u, k)
                       = IF Taken(m, dishonest, u, k)
                         THEN Entered(Book(honest, dishonest, u, k), m.block)
                         ELSE Book(honest, dishonest, u, k)
               /\ \A u \in DishonestNodes :
                     Turn(a.dishonest[u])
                       = IF u = m.to /\ m.type = "PROPOSAL" /\ m.from \in DishonestNodes
                         THEN 1 - Turn(dishonest[u]) ELSE Turn(dishonest[u])
<1> DEFINE a == SendRec(m)
           h == HonestOnMessageReceive(m.to, honest[m.to], m)
           d == DishonestOnMessageReceive(m.to, dishonest[m.to], m)
<1>0. m \in Message /\ HonestNodes \cap DishonestNodes = {}
  BY NodeSets DEF NodesInv
<1>1. CASE m.to \in HonestNodes
  <2>1. a.honest = [honest EXCEPT ![m.to] = h.replica] /\ a.dishonest = dishonest
    BY <1>1, NodeSets DEF SendRec
  <2>2. /\ h.replica = Handled(honest[m.to], m) /\ ReplicaInv(honest[m.to])
        /\ honest = [v \in HonestNodes |-> honest[v]]
    BY <1>1, HonestHandles DEF NodesInv
  <2>3. Handled(honest[m.to], m).proposedBlocks
           = IF m.type = "PROPOSAL" THEN Entered(honest[m.to].proposedBlocks, m.block)
             ELSE honest[m.to].proposedBlocks
    BY <1>0, <2>2, HandledBook
  <2> HIDE DEF a, h
  <2>4. \A u \in HonestNodes : a.honest[u] = IF u = m.to THEN Handled(honest[m.to], m)
                                             ELSE honest[u]
    BY <1>1, <2>1, <2>2
  <2> QED
    BY <1>0, <1>1, <2>1, <2>3, <2>4 DEF a, Book, Taken
<1>2. CASE m.to \in DishonestNodes
  <2>1. a.honest = honest /\ a.dishonest = [dishonest EXCEPT ![m.to] = d.node]
    BY <1>2, NodeSets DEF SendRec
  <2>2. /\ DishonestInv(dishonest[m.to]) /\ ReplicaInv(dishonest[m.to].faces[0])
        /\ ReplicaInv(dishonest[m.to].faces[1])
        /\ dishonest = [v \in DishonestNodes |-> dishonest[v]]
    BY <1>2 DEF NodesInv, DishonestInv
  <2> DEFINE mischief == m.type = "PROPOSAL" /\ m.from \in DishonestNodes
  <2>3. /\ d.node.firstHalf = (IF mischief THEN ~dishonest[m.to].firstHalf
                               ELSE dishonest[m.to].firstHalf)
        /\ \A k \in 0 .. 1 :
              d.node.faces[k] = IF mischief /\ k # Turn(dishonest[m.to])
                                THEN dishonest[m.to].faces[k]
                                ELSE Handled(dishonest[m.to].faces[k], m)
    BY <2>2, FacesHandle
  <2>4. \A k \in 0 .. 1 :
           Handled(dishonest[m.to].faces[k], m).proposedBlocks
             = IF m.type = "PROPOSAL"
               THEN Entered(dishonest[m.to].faces[k].proposedBlocks, m.block)
               ELSE dishonest[m.to].faces[k].proposedBlocks
    BY <1>0, <2>2, HandledBook
  <2> HIDE DEF a, d
  <2>5. \A u \in DishonestNodes : a.dishonest[u] = IF u = m.to THEN d.node ELSE dishonest[u]
    BY <1>2, <2>1, <2>2
  <2>6. \A u \in DishonestNodes :
           Turn(a.dishonest[u]) = IF u = m.to /\ mischief THEN 1 - Turn(dishonest[u])
                                  ELSE Turn(dishonest[u])
    <3>1. Turn(d.node) = IF mischief THEN 1 - Turn(dishonest[m.to]) ELSE Turn(dishonest[m.to])
      <4> DEFINE x == dishonest[m.to].firstHalf
                 y == d.node.firstHalf
      <4>1. x \in BOOLEAN /\ y = IF mischief THEN ~x ELSE x
        BY <2>2, <2>3 DEF DishonestInv, IsDishonest
      <4>2. /\ Turn(dishonest[m.to]) = IF x THEN 0 ELSE 1
            /\ Turn(d.node) = IF y THEN 0 ELSE 1
        BY DEF Turn
      <4> HIDE DEF x, y, mischief
      <4>3. CASE mischief /\ x = TRUE
        <5>1. y = FALSE
          BY <4>1, <4>3
        <5> QED
          BY <4>2, <4>3, <5>1
      <4>4. CASE mischief /\ x = FALSE
        <5>1. y = TRUE
          BY <4>1, <4>4
        <5> QED
          BY <4>2, <4>4, <5>1
      <4>5. CASE ~mischief
        <5>1. y = x
          BY <4>1, <4>5
        <5> QED
          BY <4>2, <4>5, <5>1
      <4> QED
        BY <4>1, <4>3, <4>4, <4>5
    <3> QED
      BY <2>5, <3>1
  <2>7. ASSUME NEW u \in HonestNodes \cup DishonestNodes, NEW k \in 0 .. 1
        PROVE  Book(a.honest, a.dishonest, u, k)
                 = IF Taken(m, dishonest, u, k)
                   THEN Entered(Book(honest, dishonest, u, k), m.block)
                   ELSE Book(honest, dishonest, u, k)
    <3>1. CASE u # m.to
      BY <2>1, <2>5, <3>1 DEF Book, Taken
    <3>2. CASE u = m.to
      <4>1. u \notin HonestNodes /\ a.dishonest[u] = d.node
        BY <1>0, <1>2, <2>5, <3>2
      <4>2. Taken(m, dishonest, u, k)
              <=> m.type = "PROPOSAL" /\ ~(mischief /\ k # Turn(dishonest[u]))
        BY <1>2, <3>2 DEF Taken
      <4>3. d.node.faces[k] = IF mischief /\ k # Turn(dishonest[u])
                              THEN dishonest[u].faces[k]
                              ELSE Handled(dishonest[u].faces[k], m)
        BY <2>3, <3>2
      <4>4. Handled(dishonest[u].faces[k], m).proposedBlocks
              = IF m.type = "PROPOSAL"
                THEN Entered(dishonest[u].faces[k].proposedBlocks, m.block)
                ELSE dishonest[u].faces[k].proposedBlocks
        BY <2>4, <3>2
      <4>5. /\ Book(a.honest, a.dishonest, u, k) = d.node.faces[k].proposedBlocks
            /\ Book(honest, dishonest, u, k) = dishonest[u].faces[k].proposedBlocks
        BY <4>1 DEF Book
      <4>6. mischief => m.type = "PROPOSAL"
        OBVIOUS
      <4> HIDE DEF mischief
      <4>7. CASE mischief /\ k # Turn(dishonest[u])
        BY <4>2, <4>3, <4>5, <4>7
      <4>8. CASE ~(mischief /\ k # Turn(dishonest[u]))
        BY <4>2, <4>3, <4>4, <4>5, <4>8
      <4> QED
        BY <4>7, <4>8
    <3> QED
      BY <3>1, <3>2
  <2> QED
    BY <2>6, <2>7 DEF a
<1>3. CASE m.to \notin HonestNodes \cup DishonestNodes
  <2>1. a.honest = honest /\ a.dishonest = dishonest
    BY <1>3 DEF SendRec
  <2> HIDE DEF a
  <2> QED
    BY <1>3, <2>1 DEF a, Taken
<1> QED
  BY <1>1, <1>2, <1>3

\* Node u follows side k: with its face k, or as one of the k-th half.
OnSide(u, k) == u \in DishonestNodes \/ u \in HonestNodes \cap HonestNodesFractions(k)

\* V is what a leader sends: block B[0] to the one side, B[1] to the other, in
\* this order to a dishonest node, unless it is one block and one broadcast.
\* place[u][k] is where node u is sent the block of side k.
Sides(V, place, B, mischief) ==
    /\ Len(V) \in Nat
    /\ \A i \in 1 .. Len(V) : /\ V[i].type = "PROPOSAL"
                              /\ V[i].from = GetLeader(EpochOf(V[i].block))
                              /\ V[i].from \in DishonestNodes <=> mischief
    /\ \A u, k : k \in 0 .. 1 /\ OnSide(u, k) =>
          /\ place[u][k] \in 1 .. Len(V)
          /\ V[place[u][k]].to = u /\ V[place[u][k]].block = B[k]
          /\ u \in HonestNodes => \A i \in 1 .. Len(V) : V[i].to = u => i = place[u][k]
    /\ \A u \in DishonestNodes :
          /\ \A i \in 1 .. Len(V) : V[i].to = u => i \in {place[u][0], place[u][1]}
          /\ IF mischief THEN place[u][0] < place[u][1] ELSE place[u][0] = place[u][1]

\* P messages of it have been delivered to nodes who had book F[k] in side k.
Shown(h, d, V, place, B, mischief, F, P) ==
    /\ \A u, k : k \in 0 .. 1 /\ OnSide(u, k) =>
          Book(h, d, u, k) = IF place[u][k] <= P THEN Entered(F[k], B[k]) ELSE F[k]
    /\ \A u \in DishonestNodes :
          Turn(d[u]) = IF mischief /\ place[u][0] <= P /\ P < place[u][1] THEN 1 ELSE 0

\* Delivering the next of the leader's messages (sendFromRound).
LEMMA ShowNext ==
    ASSUME NodesInv(honest, dishonest, sent), NEW m \in sent,
           NEW V, NEW place, NEW B, NEW mischief \in BOOLEAN, NEW F, NEW P \in Nat,
           Sides(V, place, B, mischief), P + 1 \in 1 .. Len(V), m = V[P + 1],
           Shown(honest, dishonest, V, place, B, mischief, F, P)
    PROVE  Shown(SendRec(m).honest, SendRec(m).dishonest, V, place, B, mischief, F, P + 1)
<1> DEFINE a == SendRec(m)
<1>0. Len(V) \in Nat /\ HonestNodes \cap DishonestNodes = {}
  BY NodeSets DEF Sides
<1>1. /\ m.type = "PROPOSAL" /\ m.from = GetLeader(EpochOf(m.block))
      /\ m.from \in DishonestNodes <=> mischief
  BY DEF Sides
<1>2. /\ \A u \in HonestNodes \cup DishonestNodes : \A k \in 0 .. 1 :
            Book(a.honest, a.dishonest, u, k)
              = IF Taken(m, dishonest, u, k)
                THEN Entered(Book(honest, dishonest, u, k), m.block)
                ELSE Book(honest, dishonest, u, k)
      /\ \A u \in DishonestNodes :
            Turn(a.dishonest[u]) = IF u = m.to /\ mischief
                                   THEN 1 - Turn(dishonest[u]) ELSE Turn(dishonest[u])
  BY <1>1, DeliveryToBooks
<1> HIDE DEF a
<1>3. ASSUME NEW u \in DishonestNodes
      PROVE  /\ place[u][0] \in 1 .. Len(V) /\ place[u][1] \in 1 .. Len(V)
             /\ V[place[u][0]].to = u /\ V[place[u][1]].to = u
             /\ V[place[u][0]].block = B[0] /\ V[place[u][1]].block = B[1]
             /\ u = m.to => P + 1 \in {place[u][0], place[u][1]}
             /\ IF mischief THEN place[u][0] < place[u][1] ELSE place[u][0] = place[u][1]
             /\ Turn(dishonest[u])
                  = IF mischief /\ place[u][0] <= P /\ P < place[u][1] THEN 1 ELSE 0
  <2>1. /\ 0 \in 0 .. 1 /\ OnSide(u, 0)
        /\ 1 \in 0 .. 1 /\ OnSide(u, 1)
    BY DEF OnSide
  <2> QED
    BY <2>1 DEF Sides, Shown
<1>4. ASSUME NEW u, NEW k \in 0 .. 1, OnSide(u, k)
      PROVE  Book(a.honest, a.dishonest, u, k)
               = IF place[u][k] <= P + 1 THEN Entered(F[k], B[k]) ELSE F[k]
  <2>1. /\ place[u][k] \in 1 .. Len(V) /\ u \in HonestNodes \cup DishonestNodes
        /\ V[place[u][k]].to = u /\ V[place[u][k]].block = B[k]
        /\ u \in HonestNodes => \A i \in 1 .. Len(V) : V[i].to = u => i = place[u][k]
        /\ Book(honest, dishonest, u, k)
             = IF place[u][k] <= P THEN Entered(F[k], B[k]) ELSE F[k]
    BY <1>4 DEF Sides, Shown, OnSide
  <2>2. Book(a.honest, a.dishonest, u, k)
          = IF Taken(m, dishonest, u, k)
            THEN Entered(Book(honest, dishonest, u, k), m.block)
            ELSE Book(honest, dishonest, u, k)
    BY <1>2, <2>1
  <2>3. CASE u # m.to
    <3>1. place[u][k] # P + 1 /\ ~Taken(m, dishonest, u, k)
      BY <2>1, <2>3 DEF Taken
    <3>2. place[u][k] <= P + 1 <=> place[u][k] <= P
      BY <1>0, <2>1, <3>1
    <3> QED
      BY <2>1, <2>2, <3>1, <3>2
  <2>4. CASE u = m.to /\ place[u][k] = P + 1 /\ Taken(m, dishonest, u, k)
    <3>1. ~(place[u][k] <= P) /\ place[u][k] <= P + 1 /\ m.block = B[k]
      BY <2>1, <2>4
    <3> QED
      BY <2>1, <2>2, <2>4, <3>1
  <2>5. CASE u = m.to /\ place[u][k] # P + 1 /\ ~Taken(m, dishonest, u, k)
    <3>1. place[u][k] <= P + 1 <=> place[u][k] <= P
      BY <1>0, <2>1, <2>5
    <3> QED
      BY <2>1, <2>2, <2>5, <3>1
  <2>6. u = m.to => (Taken(m, dishonest, u, k) <=> place[u][k] = P + 1)
    <3>1. CASE u \in HonestNodes
      <4>1. u \notin DishonestNodes
        BY <1>0, <3>1
      <4> QED
        BY <1>1, <2>1, <3>1, <4>1 DEF Taken
    <3>2. CASE u \in DishonestNodes /\ ~mischief
      <4>1. place[u][0] = place[u][1] /\ (u = m.to => P + 1 \in {place[u][0], place[u][1]})
        BY <1>3, <3>2
      <4>2. k = 0 \/ k = 1
        OBVIOUS
      <4> QED
        BY <1>1, <3>2, <4>1, <4>2 DEF Taken
    <3>3. CASE u \in DishonestNodes /\ mischief
      <4>1. /\ place[u][0] \in 1 .. Len(V) /\ place[u][1] \in 1 .. Len(V)
            /\ u = m.to => P + 1 \in {place[u][0], place[u][1]}
            /\ place[u][0] < place[u][1]
            /\ Turn(dishonest[u]) = IF place[u][0] <= P /\ P < place[u][1] THEN 1 ELSE 0
        BY <1>3, <3>3
      <4>2. k = 0 \/ k = 1
        OBVIOUS
      <4>3. u = m.to => (Taken(m, dishonest, u, k) <=> k = Turn(dishonest[u]))
        BY <1>1, <3>3 DEF Taken
      <4> QED
        BY <1>0, <4>1, <4>2, <4>3
    <3> QED
      BY <2>1, <3>1, <3>2, <3>3
  <2> QED
    BY <2>3, <2>4, <2>5, <2>6
<1>5. ASSUME NEW u \in DishonestNodes
      PROVE  Turn(a.dishonest[u])
               = IF mischief /\ place[u][0] <= P + 1 /\ P + 1 < place[u][1] THEN 1 ELSE 0
  <2>1. Turn(a.dishonest[u]) = IF u = m.to /\ mischief
                               THEN 1 - Turn(dishonest[u]) ELSE Turn(dishonest[u])
    BY <1>2
  <2>2. u # m.to => place[u][0] # P + 1 /\ place[u][1] # P + 1
    BY <1>3
  <2> QED
    BY <1>0, <1>3, <2>1, <2>2
<1> QED
  BY <1>4, <1>5 DEF Shown, a

\* The halves of the others and the dishonest nodes are apart.
LEMMA SidesApart ==
    /\ HonestNodesFractions(0) \cap HonestNodesFractions(1) = {}
    /\ HonestNodesFractions(0) \cap DishonestNodes = {}
    /\ HonestNodesFractions(1) \cap DishonestNodes = {}
<1> DEFINE half == (HonestCount + DummyCount) \div 2
<1>1. /\ HonestCount \in Nat /\ DummyCount \in Nat /\ N \in Nat
      /\ half \in Nat /\ half <= HonestCount + DummyCount
  BY CountsAssumption, NodeSets
<1>2. HonestNodesFractions(0) = 0 .. half - 1
  BY DEF HonestNodesFractions
<1>3. HonestNodesFractions(1) = half .. HonestCount + DummyCount - 1
  BY DEF HonestNodesFractions
<1> HIDE DEF half
<1> QED
  BY <1>1, <1>2, <1>3 DEF DishonestNodes

\* An honest leader sends its block once, to everybody.
LEMMA HonestSides ==
    ASSUME NEW v \in HonestNodes, NEW b, NEW type, NEW V,
           V = [i \in 1 .. N |-> [from |-> v, to |-> i - 1, type |-> type, block |-> b]],
           \A i \in 1 .. Len(V) : /\ V[i].type = "PROPOSAL"
                                   /\ V[i].from = GetLeader(EpochOf(V[i].block))
    PROVE  \E place, B : Sides(V, place, B, FALSE)
<1> DEFINE place == [u \in Nodes |-> [k \in 0 .. 1 |-> u + 1]]
           B == [k \in 0 .. 1 |-> b]
<1>1. /\ N \in Nat /\ HonestNodes \subseteq Nodes /\ DishonestNodes \subseteq Nodes
      /\ HonestNodes \cap DishonestNodes = {} /\ Nodes = 0 .. N - 1
  BY NodeSets DEF Nodes
<1>2. Len(V) = N /\ \A i \in 1 .. N : V[i].to = i - 1 /\ V[i].block = b /\ V[i].from = v
  BY <1>1
<1>3. \A u \in Nodes : \A k \in 0 .. 1 : place[u][k] = u + 1 /\ B[k] = b
  OBVIOUS
<1> HIDE DEF place, B
<1>4. \A u, k : OnSide(u, k) => u \in Nodes
  BY <1>1 DEF OnSide
<1>5. \A i \in 1 .. Len(V) : V[i].from \in DishonestNodes <=> FALSE
  BY <1>1, <1>2
<1>6. \A u \in Nodes : /\ u + 1 \in 1 .. N
                       /\ \A i \in 1 .. N : V[i].to = u => i = u + 1
                       /\ V[u + 1].to = u /\ V[u + 1].block = b
  BY <1>1, <1>2
<1>7. ASSUME NEW u, NEW k \in 0 .. 1, OnSide(u, k)
      PROVE  /\ place[u][k] \in 1 .. Len(V)
             /\ V[place[u][k]].to = u /\ V[place[u][k]].block = B[k]
             /\ u \in HonestNodes => \A i \in 1 .. Len(V) : V[i].to = u => i = place[u][k]
  <2>1. place[u][k] = u + 1 /\ B[k] = b /\ u \in Nodes
    BY <1>3, <1>4, <1>7
  <2> QED
    BY <1>2, <1>6, <2>1
<1>8. \A u \in DishonestNodes :
          /\ \A i \in 1 .. Len(V) : V[i].to = u => i \in {place[u][0], place[u][1]}
          /\ place[u][0] = place[u][1]
  BY <1>1, <1>2, <1>3, <1>6
<1>9. Sides(V, place, B, FALSE)
  BY <1>1, <1>2, <1>5, <1>7, <1>8 DEF Sides
<1> QED
  BY <1>9

\* The elements of four sequences in a row.
Row(E, p, q, r, s, V, n, o) ==
    /\ p \in Seq(E) /\ q \in Seq(E) /\ r \in Seq(E) /\ s \in Seq(E)
    /\ V = p \o q \o r \o s
    /\ n = Len(p) + Len(q) /\ o = n + Len(r)

\* Where each of the four is in the row.
LEMMA FourInARow ==
    ASSUME NEW E, NEW p, NEW q, NEW r, NEW s, NEW V, NEW n, NEW o, Row(E, p, q, r, s, V, n, o)
    PROVE  /\ Len(V) = o + Len(s)
           /\ \A i \in 1 .. Len(p) : V[i] = p[i]
           /\ \A i \in 1 .. Len(q) : V[Len(p) + i] = q[i]
           /\ \A i \in 1 .. Len(r) : V[n + i] = r[i]
           /\ \A i \in 1 .. Len(s) : V[o + i] = s[i]
<1>a. /\ p \in Seq(E) /\ q \in Seq(E) /\ r \in Seq(E) /\ s \in Seq(E)
      /\ V = p \o q \o r \o s /\ n = Len(p) + Len(q) /\ o = n + Len(r)
  BY DEF Row
<1>1. \A x, y \in Seq(E) :
         /\ x \o y \in Seq(E) /\ Len(x \o y) = Len(x) + Len(y) /\ Len(x) \in Nat /\ Len(y) \in Nat
         /\ \A i \in 1 .. Len(x) : (x \o y)[i] = x[i]
         /\ \A i \in 1 .. Len(y) : (x \o y)[Len(x) + i] = y[i]
  OBVIOUS
<1> DEFINE a == p \o q
           b == a \o r
<1>2. /\ a \in Seq(E) /\ Len(a) = Len(p) + Len(q) /\ Len(p) \in Nat /\ Len(q) \in Nat
      /\ \A i \in 1 .. Len(p) : a[i] = p[i]
      /\ \A i \in 1 .. Len(q) : a[Len(p) + i] = q[i]
  BY <1>a, <1>1
<1>0. V = b \o s
  BY <1>a
<1> HIDE DEF a
<1>3. /\ b \in Seq(E) /\ Len(b) = Len(a) + Len(r) /\ Len(r) \in Nat
      /\ \A i \in 1 .. Len(a) : b[i] = a[i]
      /\ \A i \in 1 .. Len(r) : b[Len(a) + i] = r[i]
  BY <1>a, <1>1, <1>2
<1> HIDE DEF b
<1>4. /\ Len(V) = Len(b) + Len(s) /\ Len(s) \in Nat
      /\ \A i \in 1 .. Len(b) : V[i] = b[i]
      /\ \A i \in 1 .. Len(s) : V[Len(b) + i] = s[i]
  <2>1. /\ Len(b \o s) = Len(b) + Len(s) /\ Len(s) \in Nat
        /\ \A i \in 1 .. Len(b) : (b \o s)[i] = b[i]
        /\ \A i \in 1 .. Len(s) : (b \o s)[Len(b) + i] = s[i]
    BY <1>a, <1>1, <1>3
  <2> QED
    BY <1>0, <2>1, Zenon
<1>5. \A i \in 1 .. Len(p) : V[i] = p[i]
  BY <1>a, <1>2, <1>3, <1>4
<1>6. ASSUME NEW i \in 1 .. Len(q) PROVE V[Len(p) + i] = q[i]
  <2>1. Len(p) + i \in 1 .. Len(a) /\ Len(p) + i \in 1 .. Len(b)
    BY <1>a, <1>2, <1>3
  <2> QED
    BY <1>a, <1>2, <1>3, <1>4, <2>1
<1>7. \A i \in 1 .. Len(r) : V[Len(a) + i] = r[i]
  BY <1>a, <1>2, <1>3, <1>4
<1>8. n = Len(a) /\ o = Len(b)
  BY <1>a, <1>2, <1>3
<1>9. \A i \in 1 .. Len(r) : V[n + i] = r[i]
  BY <1>7, <1>8, Zenon
<1>10. Len(V) = o + Len(s) /\ \A i \in 1 .. Len(s) : V[o + i] = s[i]
  BY <1>4, <1>8, Zenon
<1> QED
  BY <1>5, <1>6, <1>9, <1>10, Zenon

\* A dishonest leader sends one block to the first half and the dishonest nodes,
\* then another to the second half and the dishonest nodes.
TwoHalves(w0, w1, w, b, c, V, n, o) ==
    /\ Lists(w0, HonestNodesFractions(0)) /\ Lists(w1, HonestNodesFractions(1))
    /\ Lists(w, DishonestNodes)
    /\ n = Len(w0) + Len(w) /\ o = n + Len(w1) /\ Len(V) = o + Len(w)
    /\ \A i \in 1 .. Len(w0) : V[i].to = w0[i] /\ V[i].block = b
    /\ \A i \in 1 .. Len(w) : V[Len(w0) + i].to = w[i] /\ V[Len(w0) + i].block = b
    /\ \A i \in 1 .. Len(w1) : V[n + i].to = w1[i] /\ V[n + i].block = c
    /\ \A i \in 1 .. Len(w) : V[o + i].to = w[i] /\ V[o + i].block = c
    /\ \A i \in 1 .. Len(V) : /\ V[i].type = "PROPOSAL"
                               /\ V[i].from = GetLeader(EpochOf(V[i].block))
                               /\ V[i].from \in DishonestNodes

\* So a dishonest node is sent the first block before the second, whatever the
\* walks.
LEMMA DishonestSides ==
    ASSUME NEW w0, NEW w1, NEW w, NEW b, NEW c, NEW V, NEW n, NEW o,
           TwoHalves(w0, w1, w, b, c, V, n, o)
    PROVE  \E place, B : Sides(V, place, B, TRUE)
<1> DEFINE H(k) == HonestNodesFractions(k)
           at(q, u) == CHOOSE i \in 1 .. Len(q) : q[i] = u
           place == [u \in Nodes |-> [k \in 0 .. 1 |->
                        IF k = 0 THEN IF u \in DishonestNodes THEN Len(w0) + at(w, u) ELSE at(w0, u)
                                 ELSE IF u \in DishonestNodes THEN o + at(w, u) ELSE n + at(w1, u)]]
           B == [k \in 0 .. 1 |-> IF k = 0 THEN b ELSE c]
<1>a. /\ Lists(w0, H(0)) /\ Lists(w1, H(1)) /\ Lists(w, DishonestNodes)
      /\ \A i \in 1 .. Len(V) : /\ V[i].type = "PROPOSAL"
                                 /\ V[i].from = GetLeader(EpochOf(V[i].block))
                                 /\ V[i].from \in DishonestNodes
  BY DEF TwoHalves
<1>1. /\ Len(w0) \in Nat /\ Len(w1) \in Nat /\ Len(w) \in Nat
      /\ n \in Nat /\ o \in Nat /\ Len(V) \in Nat /\ Len(V) = o + Len(w)
      /\ n = Len(w0) + Len(w) /\ o = n + Len(w1)
  BY DEF TwoHalves, Lists
<1>2. /\ \A i \in 1 .. Len(w0) : V[i].to = w0[i] /\ V[i].block = b
      /\ \A i \in 1 .. Len(w) : V[Len(w0) + i].to = w[i] /\ V[Len(w0) + i].block = b
      /\ \A i \in 1 .. Len(w1) : V[n + i].to = w1[i] /\ V[n + i].block = c
      /\ \A i \in 1 .. Len(w) : V[o + i].to = w[i] /\ V[o + i].block = c
  BY DEF TwoHalves
<1>3. B[0] = b /\ B[1] = c
  OBVIOUS
<1>4. \A u \in Nodes :
         /\ place[u][0] = IF u \in DishonestNodes THEN Len(w0) + at(w, u) ELSE at(w0, u)
         /\ place[u][1] = IF u \in DishonestNodes THEN o + at(w, u) ELSE n + at(w1, u)
  OBVIOUS
<1>5. ASSUME NEW q, NEW R, Lists(q, R), NEW u \in R
      PROVE  at(q, u) \in 1 .. Len(q) /\ q[at(q, u)] = u
  BY <1>5 DEF Lists
<1> HIDE DEF place, B, at
<1>6. ASSUME NEW q, NEW R, Lists(q, R), NEW i \in 1 .. Len(q)
      PROVE  q[i] \in R /\ \A u \in R : q[i] = u => i = at(q, u)
  <2>1. q[i] \in R
    BY <1>6, ElementOfSeq DEF Lists
  <2>2. ASSUME NEW u \in R, q[i] = u PROVE i = at(q, u)
    <3>1. at(q, u) \in 1 .. Len(q) /\ q[at(q, u)] = u
      BY <1>5, <1>6
    <3>2. \A j, k \in 1 .. Len(q) : q[j] = q[k] => j = k
      BY <1>6 DEF Lists
    <3> QED
      BY <2>2, <3>1, <3>2
  <2> QED
    BY <2>1, <2>2
<1>7. /\ H(0) \cap H(1) = {} /\ H(0) \cap DishonestNodes = {} /\ H(1) \cap DishonestNodes = {}
      /\ HonestNodes \subseteq Nodes /\ DishonestNodes \subseteq Nodes
      /\ HonestNodes \cap DishonestNodes = {}
  BY SidesApart, NodeSets
\* Every message is in one of the four parts.
<1>8. ASSUME NEW i \in 1 .. Len(V)
      PROVE  \/ i \in 1 .. Len(w0)
             \/ \E j \in 1 .. Len(w) : i = Len(w0) + j
             \/ \E j \in 1 .. Len(w1) : i = n + j
             \/ \E j \in 1 .. Len(w) : i = o + j
  <2>1. CASE i <= Len(w0)
    BY <1>1, <2>1
  <2>2. CASE Len(w0) < i /\ i <= n
    <3>1. i - Len(w0) \in 1 .. Len(w) /\ i = Len(w0) + (i - Len(w0))
      BY <1>1, <2>2
    <3> QED
      BY <3>1
  <2>3. CASE n < i /\ i <= o
    <3>1. i - n \in 1 .. Len(w1) /\ i = n + (i - n)
      BY <1>1, <2>3
    <3> QED
      BY <3>1
  <2>4. CASE o < i
    <3>1. i - o \in 1 .. Len(w) /\ i = o + (i - o)
      BY <1>1, <2>4
    <3> QED
      BY <3>1
  <2> QED
    BY <1>1, <2>1, <2>2, <2>3, <2>4
\* Who receives which.
<1>9. ASSUME NEW i \in 1 .. Len(V)
      PROVE  \/ V[i].to \in H(0) /\ i = at(w0, V[i].to)
             \/ V[i].to \in DishonestNodes /\ i = Len(w0) + at(w, V[i].to)
             \/ V[i].to \in H(1) /\ i = n + at(w1, V[i].to)
             \/ V[i].to \in DishonestNodes /\ i = o + at(w, V[i].to)
  <2>1. CASE i \in 1 .. Len(w0)
    BY <1>a, <1>2, <1>6, <2>1
  <2>2. ASSUME NEW j \in 1 .. Len(w), i = Len(w0) + j
        PROVE  V[i].to \in DishonestNodes /\ i = Len(w0) + at(w, V[i].to)
    <3>1. w[j] \in DishonestNodes /\ j = at(w, w[j])
      BY <1>a, <1>6
    <3>2. V[i].to = w[j]
      BY <1>2, <2>2
    <3> QED
      BY <2>2, <3>1, <3>2
  <2>3. ASSUME NEW j \in 1 .. Len(w1), i = n + j
        PROVE  V[i].to \in H(1) /\ i = n + at(w1, V[i].to)
    <3>1. w1[j] \in H(1) /\ j = at(w1, w1[j])
      BY <1>a, <1>6
    <3>2. V[i].to = w1[j]
      BY <1>2, <2>3
    <3> QED
      BY <2>3, <3>1, <3>2
  <2>4. ASSUME NEW j \in 1 .. Len(w), i = o + j
        PROVE  V[i].to \in DishonestNodes /\ i = o + at(w, V[i].to)
    <3>1. w[j] \in DishonestNodes /\ j = at(w, w[j])
      BY <1>a, <1>6
    <3>2. V[i].to = w[j]
      BY <1>2, <2>4
    <3> QED
      BY <2>4, <3>1, <3>2
  <2> QED
    BY <1>8, <2>1, <2>2, <2>3, <2>4
<1>10. ASSUME NEW u \in DishonestNodes
       PROVE  /\ place[u][0] \in 1 .. Len(V) /\ place[u][1] \in 1 .. Len(V)
              /\ V[place[u][0]].to = u /\ V[place[u][0]].block = B[0]
              /\ V[place[u][1]].to = u /\ V[place[u][1]].block = B[1]
              /\ \A i \in 1 .. Len(V) : V[i].to = u => i \in {place[u][0], place[u][1]}
              /\ place[u][0] < place[u][1]
  <2>1. at(w, u) \in 1 .. Len(w) /\ w[at(w, u)] = u
    BY <1>a, <1>5
  <2>2. place[u][0] = Len(w0) + at(w, u) /\ place[u][1] = o + at(w, u)
    BY <1>4, <1>7
  <2>3. /\ place[u][0] \in 1 .. Len(V) /\ place[u][1] \in 1 .. Len(V)
        /\ place[u][0] < place[u][1]
    BY <1>1, <2>1, <2>2
  <2>4. /\ V[place[u][0]].to = u /\ V[place[u][0]].block = B[0]
        /\ V[place[u][1]].to = u /\ V[place[u][1]].block = B[1]
    BY <1>2, <1>3, <2>1, <2>2
  <2>5. \A i \in 1 .. Len(V) : V[i].to = u => i \in {place[u][0], place[u][1]}
    BY <1>7, <1>9, <2>2
  <2> QED
    BY <2>3, <2>4, <2>5
<1>11. ASSUME NEW u \in HonestNodes, u \in H(0)
       PROVE  /\ place[u][0] \in 1 .. Len(V)
              /\ V[place[u][0]].to = u /\ V[place[u][0]].block = B[0]
              /\ \A i \in 1 .. Len(V) : V[i].to = u => i = place[u][0]
  <2>1. at(w0, u) \in 1 .. Len(w0) /\ w0[at(w0, u)] = u
    BY <1>a, <1>5, <1>11
  <2>2. place[u][0] = at(w0, u)
    BY <1>4, <1>7
  <2>3. place[u][0] \in 1 .. Len(V)
    BY <1>1, <2>1, <2>2
  <2>4. V[place[u][0]].to = u /\ V[place[u][0]].block = B[0]
    BY <1>2, <1>3, <2>1, <2>2
  <2>5. u \notin H(1) /\ u \notin DishonestNodes
    BY <1>7, <1>11
  <2> QED
    BY <1>9, <2>2, <2>3, <2>4, <2>5
<1>12. ASSUME NEW u \in HonestNodes, u \in H(1)
       PROVE  /\ place[u][1] \in 1 .. Len(V)
              /\ V[place[u][1]].to = u /\ V[place[u][1]].block = B[1]
              /\ \A i \in 1 .. Len(V) : V[i].to = u => i = place[u][1]
  <2>1. at(w1, u) \in 1 .. Len(w1) /\ w1[at(w1, u)] = u
    BY <1>a, <1>5, <1>12
  <2>2. place[u][1] = n + at(w1, u)
    BY <1>4, <1>7
  <2>3. place[u][1] \in 1 .. Len(V)
    BY <1>1, <2>1, <2>2
  <2>4. V[place[u][1]].to = u /\ V[place[u][1]].block = B[1]
    BY <1>2, <1>3, <2>1, <2>2
  <2>5. u \notin H(0) /\ u \notin DishonestNodes
    BY <1>7, <1>12
  <2> QED
    BY <1>9, <2>2, <2>3, <2>4, <2>5
<1>13. ASSUME NEW u, NEW k, k \in 0 .. 1, OnSide(u, k)
       PROVE  /\ place[u][k] \in 1 .. Len(V)
              /\ V[place[u][k]].to = u /\ V[place[u][k]].block = B[k]
              /\ u \in HonestNodes => \A i \in 1 .. Len(V) : V[i].to = u => i = place[u][k]
  <2>1. k = 0 \/ k = 1
    BY <1>13
  <2>2. CASE u \in DishonestNodes
    BY <1>7, <1>10, <2>1, <2>2
  <2>3. CASE u \in HonestNodes /\ u \in H(k)
    BY <1>11, <1>12, <2>1, <2>3
  <2> QED
    BY <1>13, <2>2, <2>3 DEF OnSide
<1>14. Sides(V, place, B, TRUE)
  BY <1>a, <1>1, <1>10, <1>13 DEF Sides
<1> QED
  BY <1>14

\* Two pairs make four.
LEMMA TwoAndTwo ==
    ASSUME NEW a, NEW b, NEW c, NEW d
    PROVE  << a, b >> \o << c, d >> = << a, b, c, d >>
<1> DEFINE E == {a, b, c, d}
           x == << a, b >>
           y == << c, d >>
           z == << a, b, c, d >>
<1>1. /\ x \in Seq(E) /\ y \in Seq(E) /\ z \in Seq(E)
      /\ Len(x) = 2 /\ Len(y) = 2 /\ Len(z) = 4
  OBVIOUS
<1>2. x[1] = z[1] /\ x[2] = z[2] /\ y[1] = z[3] /\ y[2] = z[4]
  OBVIOUS
<1> HIDE DEF x, y, z, E
<1>3. /\ x \o y \in Seq(E) /\ Len(x \o y) = 4
      /\ \A i \in 1 .. 2 : (x \o y)[i] = x[i]
      /\ \A i \in 1 .. 2 : (x \o y)[2 + i] = y[i]
  <2>1. \A s, t \in Seq(E) :
           /\ s \o t \in Seq(E) /\ Len(s \o t) = Len(s) + Len(t)
           /\ \A i \in 1 .. Len(s) : (s \o t)[i] = s[i]
           /\ \A i \in 1 .. Len(t) : (s \o t)[Len(s) + i] = t[i]
    OBVIOUS
  <2>2. /\ x \o y \in Seq(E) /\ Len(x \o y) = Len(x) + Len(y)
        /\ \A i \in 1 .. Len(x) : (x \o y)[i] = x[i]
        /\ \A i \in 1 .. Len(y) : (x \o y)[Len(x) + i] = y[i]
    BY <1>1, <2>1, Zenon
  <2>3. x \o y \in Seq(E) /\ Len(x \o y) = 2 + 2
    BY <1>1, <2>2, Zenon
  <2>4. \A i \in 1 .. 2 : (x \o y)[i] = x[i]
    BY <1>1, <2>2, Zenon
  <2>5. \A i \in 1 .. 2 : (x \o y)[2 + i] = y[i]
    BY <1>1, <2>2, Zenon
  <2>6. 2 + 2 = 4
    OBVIOUS
  <2> QED
    BY <2>3, <2>4, <2>5, <2>6
<1>4. ASSUME NEW i \in 1 .. 4 PROVE (x \o y)[i] = z[i]
  <2>1. /\ (x \o y)[1] = x[1] /\ (x \o y)[2] = x[2]
        /\ (x \o y)[3] = y[1] /\ (x \o y)[4] = y[2]
    BY <1>3, 1 \in 1 .. 2, 2 \in 1 .. 2, 2 + 1 = 3, 2 + 2 = 4
  <2>2. CASE i = 1
    BY <1>2, <2>1, <2>2
  <2>3. CASE i = 2
    BY <1>2, <2>1, <2>3
  <2>4. CASE i = 3
    BY <1>2, <2>1, <2>4
  <2>5. CASE i = 4
    BY <1>2, <2>1, <2>5
  <2>6. i = 1 \/ i = 2 \/ i = 3 \/ i = 4
    OBVIOUS
  <2> QED
    BY <2>2, <2>3, <2>4, <2>5, <2>6
<1>5. x \o y = z
  BY <1>1, <1>3, <1>4, SeqEqual
<1> QED
  BY <1>5 DEF x, y, z

\* What the leader of an epoch sends in its first round.
LEMMA LeaderSides ==
    ASSUME NodesInv(honest, dishonest, sent), walk \in Walks, time \in Nat,
           NEW payload \in Draws, NEW v \in Nodes, AtTime(v, payload) # << >>
    PROVE  \E place, B : \E mischief \in BOOLEAN :
              Sides(Vector(walk, AtTime(v, payload)), place, B, mischief)
<1> DEFINE out == AtTime(v, payload)
           V == Vector(walk, out)
<1>1. /\ V \in Seq(Messages(out)) /\ v \in HonestNodes \cup DishonestNodes
      /\ GetLeader(GetEpoch(time)) = v
      /\ \A w \in Messages(out) : /\ w.from = v /\ w.type = "PROPOSAL"
                                   /\ EpochOf(w.block) = GetEpoch(time)
  BY Announcement
<1> HIDE DEF V
<1>2. \A i \in 1 .. Len(V) : /\ V[i].type = "PROPOSAL" /\ V[i].from = v
                             /\ V[i].from = GetLeader(EpochOf(V[i].block))
  <2> HIDE DEF out
  <2>1. \A i \in 1 .. Len(V) : V[i] \in Messages(out)
    BY <1>1, ElementOfSeq
  <2> QED
    BY <1>1, <2>1
<1>3. CASE v \in HonestNodes
  <2> DEFINE b == BlockHash(honest[v].tree.deepestNotarized, GetEpoch(time), payload[0])
  <2>1. out = HonestAtTime(v, honest[v], time, payload[0])
    BY <1>3, NodeSets DEF AtTime
  <2>2. out = << Envelope(v, Nodes, "PROPOSAL", b) >>
    BY <2>1 DEF HonestAtTime
  <2> HIDE DEF b, out
  <2>3. V = [i \in 1 .. N |-> [from |-> v, to |-> i - 1, type |-> "PROPOSAL", block |-> b]]
    BY <1>3, <2>2, HonestBroadcast DEF V
  <2>4. \E place, B : Sides(V, place, B, FALSE)
    BY <1>2, <1>3, <2>3, HonestSides
  <2> QED
    BY <2>4 DEF V, out
<1>4. CASE v \in DishonestNodes
  <2> DEFINE d == dishonest[v]
             b == BlockHash(d.faces[0].tree.deepestNotarized, GetEpoch(time), payload[0])
             c == BlockHash(d.faces[1].tree.deepestNotarized, GetEpoch(time), payload[1])
             H(k) == HonestNodesFractions(k)
             w(R) == walk[R]
             p == Piece(walk, v, H(0), "PROPOSAL", b)
             q == Piece(walk, v, DishonestNodes, "PROPOSAL", b)
             r == Piece(walk, v, H(1), "PROPOSAL", c)
             s == Piece(walk, v, DishonestNodes, "PROPOSAL", c)
  <2>1. out = DishonestAtTime(v, d, time, payload)
    BY <1>4, NodeSets DEF AtTime
  <2>2. out = PreparePropose(v, d, GetEpoch(time), 0, payload[0])
                 \o PreparePropose(v, d, GetEpoch(time), 1, payload[1])
    BY <2>1 DEF DishonestAtTime
  <2>3. /\ PreparePropose(v, d, GetEpoch(time), 0, payload[0])
             = << Envelope(v, H(0), "PROPOSAL", b), Envelope(v, DishonestNodes, "PROPOSAL", b) >>
        /\ PreparePropose(v, d, GetEpoch(time), 1, payload[1])
             = << Envelope(v, H(1), "PROPOSAL", c), Envelope(v, DishonestNodes, "PROPOSAL", c) >>
    BY DEF PreparePropose
  <2> HIDE DEF out, b, c, d
  <2>4. out = << Envelope(v, H(0), "PROPOSAL", b), Envelope(v, DishonestNodes, "PROPOSAL", b),
                 Envelope(v, H(1), "PROPOSAL", c), Envelope(v, DishonestNodes, "PROPOSAL", c) >>
    BY <2>2, <2>3, TwoAndTwo, Zenon
  <2>5. V = p \o q \o r \o s
    BY <1>4, <2>4, DishonestBroadcast DEF V
  <2>6. /\ Lists(w(H(0)), H(0)) /\ Lists(w(H(1)), H(1)) /\ Lists(w(DishonestNodes), DishonestNodes)
    BY <1>4, WalksList DEF ReceiverSets
  <2>7. /\ Len(w(H(0))) \in Nat /\ Len(w(H(1))) \in Nat /\ Len(w(DishonestNodes)) \in Nat
    BY <2>6 DEF Lists
  <2> DEFINE M(R, x, i) == [from |-> v, to |-> w(R)[i], type |-> "PROPOSAL", block |-> x]
             E == { M(R, x, i) : R \in {H(0), H(1), DishonestNodes}, x \in {b, c}, i \in Nat }
  <2>8. ASSUME NEW R \in {H(0), H(1), DishonestNodes}, NEW x \in {b, c}
        PROVE  LET e == Piece(walk, v, R, "PROPOSAL", x)
               IN  /\ e \in Seq(E) /\ Len(e) = Len(w(R))
                   /\ \A i \in 1 .. Len(w(R)) : e[i].to = w(R)[i] /\ e[i].block = x
    <3> DEFINE e == Piece(walk, v, R, "PROPOSAL", x)
    <3>1. e = [i \in 1 .. Len(w(R)) |-> M(R, x, i)] /\ Len(w(R)) \in Nat
      BY <2>7 DEF Piece
    <3>2. \A i \in Nat : M(R, x, i) \in E
      OBVIOUS
    <3>3. \A i : M(R, x, i).to = w(R)[i] /\ M(R, x, i).block = x
      OBVIOUS
    <3> HIDE DEF e, w, M, E
    <3>4. \A i \in 1 .. Len(w(R)) : M(R, x, i) \in E
      BY <3>2
    <3>5. e \in Seq(E) /\ Len(e) = Len(w(R)) /\ \A i \in 1 .. Len(w(R)) : e[i] = M(R, x, i)
      BY <3>1, <3>4
    <3> QED
      BY <3>3, <3>5 DEF e
  <2> HIDE DEF E, M
  <2>9. /\ p \in Seq(E) /\ Len(p) = Len(w(H(0)))
        /\ \A i \in 1 .. Len(w(H(0))) : p[i].to = w(H(0))[i] /\ p[i].block = b
    BY <2>8
  <2>10. /\ q \in Seq(E) /\ Len(q) = Len(w(DishonestNodes))
         /\ \A i \in 1 .. Len(w(DishonestNodes)) : q[i].to = w(DishonestNodes)[i] /\ q[i].block = b
    BY <2>8
  <2>11. /\ r \in Seq(E) /\ Len(r) = Len(w(H(1)))
         /\ \A i \in 1 .. Len(w(H(1))) : r[i].to = w(H(1))[i] /\ r[i].block = c
    BY <2>8
  <2>12. /\ s \in Seq(E) /\ Len(s) = Len(w(DishonestNodes))
         /\ \A i \in 1 .. Len(w(DishonestNodes)) : s[i].to = w(DishonestNodes)[i] /\ s[i].block = c
    BY <2>8
  <2> DEFINE n == Len(p) + Len(q)
             o == n + Len(r)
  <2>a. n = Len(p) + Len(q) /\ o = n + Len(r)
    OBVIOUS
  <2> HIDE DEF p, q, r, s, w, n, o
  <2>13. /\ Len(V) = o + Len(s)
         /\ \A i \in 1 .. Len(p) : V[i] = p[i]
         /\ \A i \in 1 .. Len(q) : V[Len(p) + i] = q[i]
         /\ \A i \in 1 .. Len(r) : V[n + i] = r[i]
         /\ \A i \in 1 .. Len(s) : V[o + i] = s[i]
    <3>1. p \in Seq(E) /\ q \in Seq(E) /\ r \in Seq(E) /\ s \in Seq(E)
      BY <2>9, <2>10, <2>11, <2>12
    <3> QED
      <4>1. Row(E, p, q, r, s, V, n, o)
        BY <2>a, <2>5, <3>1 DEF Row
      <4> QED
        BY <4>1, FourInARow
  <2> DEFINE Goal(W) == \E place, B : Sides(W, place, B, TRUE)
  <2>14. Goal(V)
    <3> DEFINE w0 == w(H(0))
               w1 == w(H(1))
               wd == w(DishonestNodes)
    <3>1. /\ Len(p) = Len(w0) /\ Len(q) = Len(wd) /\ Len(r) = Len(w1) /\ Len(s) = Len(wd)
          /\ n = Len(w0) + Len(wd) /\ o = n + Len(w1)
      BY <2>a, <2>9, <2>10, <2>11, <2>12
    <3>4. /\ Len(V) = o + Len(wd)
          /\ \A i \in 1 .. Len(w0) : V[i].to = w0[i] /\ V[i].block = b
          /\ \A i \in 1 .. Len(wd) : V[Len(w0) + i].to = wd[i] /\ V[Len(w0) + i].block = b
          /\ \A i \in 1 .. Len(w1) : V[n + i].to = w1[i] /\ V[n + i].block = c
          /\ \A i \in 1 .. Len(wd) : V[o + i].to = wd[i] /\ V[o + i].block = c
      <4>1. Len(V) = o + Len(wd)
        BY <2>13, <3>1
      <4>2. \A i \in 1 .. Len(w0) : V[i].to = w0[i] /\ V[i].block = b
        BY <2>9, <2>13, <3>1
      <4>3. \A i \in 1 .. Len(wd) : V[Len(w0) + i].to = wd[i] /\ V[Len(w0) + i].block = b
        <5>1. ASSUME NEW i \in 1 .. Len(wd)
              PROVE  V[Len(w0) + i] = q[i] /\ q[i].to = wd[i] /\ q[i].block = b
          BY <2>10, <2>13, <3>1
        <5> QED
          BY <5>1
      <4>4. \A i \in 1 .. Len(w1) : V[n + i].to = w1[i] /\ V[n + i].block = c
        BY <2>11, <2>13, <3>1
      <4>5. \A i \in 1 .. Len(wd) : V[o + i].to = wd[i] /\ V[o + i].block = c
        BY <2>12, <2>13, <3>1
      <4> QED
        BY <4>1, <4>2, <4>3, <4>4, <4>5
    <3>2. \A i \in 1 .. Len(V) : /\ V[i].type = "PROPOSAL"
                                 /\ V[i].from = GetLeader(EpochOf(V[i].block))
                                 /\ V[i].from \in DishonestNodes
      BY <1>2, <1>4
    <3>3. /\ Lists(w0, HonestNodesFractions(0)) /\ Lists(w1, HonestNodesFractions(1))
          /\ Lists(wd, DishonestNodes)
      BY <2>6
    <3> HIDE DEF w0, w1, wd
    <3> QED
      <4>1. TwoHalves(w0, w1, wd, b, c, V, n, o)
        BY <3>1, <3>2, <3>3, <3>4, Zenon DEF TwoHalves
      <4> QED
        BY <4>1, DishonestSides, Zenon
  <2> QED
    BY <2>14 DEF V, out
<1> QED
  BY <1>1, <1>3, <1>4

\* All who follow a side have one book, and a dishonest node's next proposal of
\* a dishonest leader is for its first face.
Alike(h, d) ==
    /\ \E F : \A u, k : k \in 0 .. 1 /\ OnSide(u, k) => Book(h, d, u, k) = F[k]
    /\ \A u \in DishonestNodes : Turn(d[u]) = 0

\* q is what is left of a leader's proposals, of which P have been delivered.
Leaves(q, V, P) ==
    /\ Len(V) = P + Len(q)
    /\ \A i \in 1 .. Len(q) : q[i] = V[P + i]

Showing(h, d, q) ==
    \E V, place, B, F : \E mischief \in BOOLEAN : \E P \in Nat :
        /\ Sides(V, place, B, mischief)
        /\ Leaves(q, V, P)
        /\ Shown(h, d, V, place, B, mischief, F, P)

\* The inductive invariant.
FacesInv ==
    IF pc = "sendFromRound" /\ pass = "before" /\ roundMessages[time] # << >>
    THEN Showing(honest, dishonest, roundMessages[time])
    ELSE Alike(honest, dishonest)

\* Before the first of the proposals is delivered.
LEMMA ShownNone ==
    ASSUME NEW h, NEW d, Alike(h, d), NEW V, NEW place, NEW B,
           NEW mischief \in BOOLEAN, Sides(V, place, B, mischief)
    PROVE  Showing(h, d, V)
<1>1. PICK F : \A u, k : k \in 0 .. 1 /\ OnSide(u, k) => Book(h, d, u, k) = F[k]
  BY DEF Alike
<1>2. Len(V) \in Nat
  BY DEF Sides
<1>3. \A u, k : k \in 0 .. 1 /\ OnSide(u, k) => ~(place[u][k] <= 0)
  BY <1>2 DEF Sides
<1>4. \A u \in DishonestNodes : ~(place[u][0] <= 0)
  BY <1>3, 0 \in 0 .. 1 DEF OnSide
<1>5. Shown(h, d, V, place, B, mischief, F, 0)
  BY <1>1, <1>3, <1>4 DEF Shown, Alike
<1>6. Leaves(V, V, 0)
  BY <1>2 DEF Leaves
<1> QED
  BY <1>5, <1>6, 0 \in Nat DEF Showing

\* After the last one.
LEMMA ShownAll ==
    ASSUME NEW h, NEW d, NEW V, NEW place, NEW B, NEW mischief \in BOOLEAN, NEW F,
           Sides(V, place, B, mischief), Shown(h, d, V, place, B, mischief, F, Len(V))
    PROVE  Alike(h, d)
<1>1. Len(V) \in Nat
  BY DEF Sides
<1>2. \A u, k : k \in 0 .. 1 /\ OnSide(u, k) => place[u][k] <= Len(V) /\ place[u][k] \in Nat
  BY <1>1 DEF Sides
<1> DEFINE G == [k \in 0 .. 1 |-> Entered(F[k], B[k])]
<1>3. \A k \in 0 .. 1 : G[k] = Entered(F[k], B[k])
  OBVIOUS
<1> HIDE DEF G
<1>4. \A u, k : k \in 0 .. 1 /\ OnSide(u, k) => Book(h, d, u, k) = G[k]
  BY <1>2, <1>3 DEF Shown
<1>5. \A u \in DishonestNodes : ~(Len(V) < place[u][1])
  BY <1>1, <1>2, 1 \in 0 .. 1 DEF OnSide
<1>6. \A u \in DishonestNodes : Turn(d[u]) = 0
  BY <1>5 DEF Shown
<1> QED
  BY <1>4, <1>6 DEF Alike

\* The next one is delivered.
LEMMA ShowingNext ==
    ASSUME NodesInv(honest, dishonest, sent), NEW q \in Seq(sent), q # << >>,
           Showing(honest, dishonest, q)
    PROVE  IF Tail(q) = << >>
           THEN Alike(SendRec(q[1]).honest, SendRec(q[1]).dishonest)
           ELSE Showing(SendRec(q[1]).honest, SendRec(q[1]).dishonest, Tail(q))
<1> DEFINE h == SendRec(q[1]).honest
           d == SendRec(q[1]).dishonest
<1>1. PICK V, place, B, F :
         \E mischief \in BOOLEAN : \E P \in Nat :
            /\ Sides(V, place, B, mischief)
            /\ Leaves(q, V, P)
            /\ Shown(honest, dishonest, V, place, B, mischief, F, P)
  BY DEF Showing
<1>2. PICK mischief \in BOOLEAN : \E P \in Nat :
            /\ Sides(V, place, B, mischief)
            /\ Leaves(q, V, P)
            /\ Shown(honest, dishonest, V, place, B, mischief, F, P)
  BY <1>1
<1>3. PICK P \in Nat :
            /\ Sides(V, place, B, mischief)
            /\ Leaves(q, V, P)
            /\ Shown(honest, dishonest, V, place, B, mischief, F, P)
  BY <1>2
<1>4. /\ Len(q) \in Nat /\ Len(q) > 0 /\ Tail(q) \in Seq(sent) /\ q[1] \in sent
      /\ Len(Tail(q)) = Len(q) - 1
      /\ \A i \in 1 .. Len(Tail(q)) : Tail(q)[i] = q[i + 1]
  OBVIOUS
<1>5. P + 1 \in 1 .. Len(V) /\ q[1] = V[P + 1] /\ Len(V) = P + Len(q)
  BY <1>3, <1>4 DEF Leaves
<1>6. Shown(h, d, V, place, B, mischief, F, P + 1)
  BY <1>3, <1>4, <1>5, ShowNext
<1>7. CASE Tail(q) = << >>
  <2>1. Len(Tail(q)) = 0
    BY <1>4, <1>7, EmptySeq
  <2> HIDE DEF h, d
  <2>2. P + 1 = Len(V)
    <3> DEFINE n == Len(q)
    <3>1. n - 1 = 0 /\ n \in Nat
      BY <1>4, <2>1
    <3>2. Len(V) = P + n
      BY <1>5
    <3> HIDE DEF n
    <3> QED
      BY <3>1, <3>2
  <2>3. Alike(h, d)
    BY <1>3, <1>6, <2>2, ShownAll
  <2> QED
    BY <1>7, <2>3 DEF h, d
<1>8. CASE Tail(q) # << >>
  <2>1. Leaves(Tail(q), V, P + 1)
    <3>1. Len(V) = (P + 1) + Len(Tail(q))
      BY <1>4, <1>5
    <3>2. ASSUME NEW i \in 1 .. Len(Tail(q))
          PROVE  Tail(q)[i] = V[(P + 1) + i]
      <4>1. i + 1 \in 1 .. Len(q) /\ Tail(q)[i] = q[i + 1] /\ P + (i + 1) = (P + 1) + i
        BY <1>4
      <4> QED
        BY <1>3, <4>1 DEF Leaves
    <3> QED
      BY <3>1, <3>2 DEF Leaves
  <2> HIDE DEF h, d
  <2>2. Showing(h, d, Tail(q))
    BY <1>3, <1>6, <2>1, P + 1 \in Nat DEF Showing
  <2> QED
    BY <1>8, <2>2 DEF h, d
<1> QED
  BY <1>7, <1>8

\* All start with empty books.
LEMMA FacesInit == Init => FacesInv
<1> SUFFICES ASSUME Init PROVE Alike(honest, dishonest)
  BY DEF Init, FacesInv
<1> DEFINE F == [k \in 0 .. 1 |-> NewReplica.proposedBlocks]
<1>1. \A k \in 0 .. 1 : F[k] = NewReplica.proposedBlocks
  OBVIOUS
<1> HIDE DEF F
<1>2. /\ honest = [v \in HonestNodes |-> NewReplica]
      /\ dishonest = [v \in DishonestNodes |-> NewDishonest]
  BY DEF Init
<1>3. \A k \in 0 .. 1 : NewDishonest.faces[k] = NewReplica /\ NewDishonest.firstHalf = TRUE
  BY DEF NewDishonest
<1>4. \A u, k : k \in 0 .. 1 /\ OnSide(u, k) => Book(honest, dishonest, u, k) = F[k]
  BY <1>1, <1>2, <1>3 DEF Book, OnSide
<1>5. \A u \in DishonestNodes : Turn(dishonest[u]) = 0
  BY <1>2, <1>3 DEF Turn
<1> QED
  BY <1>4, <1>5 DEF Alike

\* The leader's proposals are filed where nothing was.
LEMMA FacesBroadcast ==
    ASSUME SimpleInv, FacesInv, BroadcastTime
    PROVE  FacesInv'
<1>1. /\ NodesInv(honest, dishonest, sent) /\ walk \in Walks /\ time \in Nat
      /\ time \in Rounds /\ pc = "broadcastTime" /\ UNCHANGED <<time, honest, dishonest>>
      /\ roundMessages[time] = << >>
      /\ roundMessages = [r \in Rounds |-> roundMessages[r]]
  BY SimpleInvFacts DEF SimpleInv, FieldsInv, QueuesInv, Idle, BroadcastTime
<1>2. Alike(honest, dishonest)
  BY <1>1 DEF FacesInv
<1>3. Alike(honest', dishonest')
  BY <1>1, <1>2
<1>4. CASE roundMessages'[time] = << >>
  BY <1>1, <1>3, <1>4 DEF FacesInv
<1>5. CASE roundMessages'[time] # << >>
  <2>1. PICK payload \in Draws :
          LET answers == { v \in Nodes : AtTime(v, payload) # << >> }
          IN  \/ /\ answers = {}
                 /\ UNCHANGED <<roundMessages, sent>>
              \/ \E v \in answers : File(AtTime(v, payload), time, roundMessages)
    BY DEF BroadcastTime
  <2>2. PICK v \in Nodes : /\ AtTime(v, payload) # << >>
                           /\ File(AtTime(v, payload), time, roundMessages)
    BY <1>1, <1>5, <2>1
  <2> DEFINE V == Vector(walk, AtTime(v, payload))
  <2>3. V \in Seq(Messages(AtTime(v, payload)))
    BY <1>1, Announcement
  <2>4. roundMessages'[time] = << >> \o V
    BY <1>1, <2>2 DEF File
  <2>5. roundMessages'[time] = V
    BY <2>3, <2>4, ConcatEmptySeq
  <2>6. PICK place, B : \E mischief \in BOOLEAN : Sides(V, place, B, mischief)
    BY <1>1, <2>2, LeaderSides
  <2> HIDE DEF V
  <2>7. Showing(honest', dishonest', V)
    BY <1>3, <2>6, ShownNone
  <2> QED
    BY <1>1, <1>3, <2>5, <2>7 DEF FacesInv
<1> QED
  BY <1>4, <1>5

\* In the tick's first queue the next proposal is delivered, in the second a vote.
LEMMA FacesSend ==
    ASSUME SimpleInv, FacesInv, Send
    PROVE  FacesInv'
<1> DEFINE q == roundMessages[time]
           m == NextMessage
           V == Vector(walk, SendRec(m).out)
<1>1. /\ NodesInv(honest, dishonest, sent) /\ walk \in Walks
      /\ time \in Nat /\ time \in Rounds /\ time + 1 \in Rounds /\ q # << >>
      /\ pc = "sendFromRound" /\ pass \in {"before", "after"}
      /\ roundMessages = [r \in Rounds |-> roundMessages[r]]
      /\ UNCHANGED <<time, pc, pass>>
  BY SimpleInvFacts DEF SimpleInv, FieldsInv, Send, Delivering
<1>2. /\ honest' = SendRec(m).honest /\ dishonest' = SendRec(m).dishonest
      /\ roundMessages' = [[roundMessages EXCEPT ![time] = Tail(@)] EXCEPT ![time + 1] = @ \o V]
  BY DEF Send, File
<1>3. q \in Seq(Waiting(time)) /\ m = q[1]
  BY <1>1 DEF SimpleInv, QueuesInv, NextMessage
<1>4. m \in Waiting(time)
  BY <1>1, <1>3
<1>5. q \in Seq(sent)
  <2>1. Waiting(time) \subseteq sent
    BY DEF Waiting
  <2> HIDE DEF q
  <2> QED
    BY <1>3, <2>1, SeqWiden
<1>6. roundMessages'[time] = Tail(q)
  <2>1. time # time + 1
    BY <1>1
  <2> HIDE DEF V
  <2> QED
    BY <1>1, <1>2, <2>1
<1> HIDE DEF q, m, V
<1>7. CASE pass = "before"
  <2>1. Showing(honest, dishonest, q)
    BY <1>1, <1>7 DEF FacesInv, q
  <2>2. IF Tail(q) = << >> THEN Alike(honest', dishonest')
                           ELSE Showing(honest', dishonest', Tail(q))
    BY <1>1, <1>2, <1>3, <1>5, <2>1, ShowingNext
  <2> QED
    BY <1>1, <1>6, <1>7, <2>2 DEF FacesInv
<1>8. CASE pass = "after"
  <2>1. Alike(honest, dishonest)
    BY <1>8 DEF FacesInv
  <2>2. m \in sent /\ m.type = "VOTE"
    <3>1. Tick = time - 1
      BY <1>8 DEF Tick
    <3>2. time > Tick
      BY <1>1, <3>1
    <3> QED
      BY <1>4, <3>2 DEF Waiting
  <2>3. /\ \A u \in HonestNodes \cup DishonestNodes : \A k \in 0 .. 1 :
              Book(honest', dishonest', u, k) = Book(honest, dishonest, u, k)
        /\ \A u \in DishonestNodes : Turn(dishonest'[u]) = Turn(dishonest[u])
    BY <1>1, <1>2, <2>2, DeliveryToBooks DEF Taken
  <2>4. Alike(honest', dishonest')
    BY <2>1, <2>3 DEF Alike, OnSide
  <2> QED
    BY <1>1, <1>8, <2>4 DEF FacesInv
<1> QED
  BY <1>1, <1>7, <1>8

\* Every step keeps the sides alike or shows them the next proposal.
LEMMA FacesStep ==
    ASSUME SimpleInv, FacesInv, [Next]_vars
    PROVE  FacesInv'
<1>1. CASE BroadcastTime
  BY <1>1, FacesBroadcast
<1>2. CASE Send
  BY <1>2, FacesSend
<1>3. CASE EndSendThis \/ EndSendNext
  <2>1. /\ roundMessages[time] = << >> /\ UNCHANGED <<honest, dishonest>>
        /\ pass' = "after" \/ pc' = "broadcastTime"
    BY <1>3 DEF EndSendThis, EndSendNext, Returning
  <2>2. Alike(honest, dishonest)
    BY <2>1 DEF FacesInv
  <2>3. Alike(honest', dishonest')
    BY <2>1, <2>2
  <2> QED
    BY <2>1, <2>3 DEF FacesInv
<1>4. CASE UNCHANGED vars
  BY <1>4 DEF vars, FacesInv
<1> QED
  BY <1>1, <1>2, <1>3, <1>4 DEF Next, Terminating

\* When a tick has ended, face k of every dishonest node has recorded what the
\* honest nodes of fraction k recorded, whatever the payloads and the order in
\* which a dishonest leader walks its sets: the toggling of firstHalf
\* (dishonest_node.cpp:63, 118) keeps in step with the order of the proposals.
THEOREM FacesMatch == Spec => []FacesMatchFractions
<1>1. Init => FacesInv
  BY FacesInit
<1>2. SimpleInv /\ FacesInv /\ [Next]_vars => FacesInv'
  BY FacesStep
<1>3. SimpleInv /\ FacesInv => FacesMatchFractions
  <2> SUFFICES ASSUME FacesInv, pc = "broadcastTime",
                      NEW d \in DishonestNodes, NEW k \in 0 .. 1,
                      NEW v \in HonestNodesFractions(k) \cap HonestNodes
               PROVE  dishonest[d].faces[k].proposedBlocks = honest[v].proposedBlocks
    BY DEF FacesMatchFractions
  <2>1. PICK F : \A u, j : j \in 0 .. 1 /\ OnSide(u, j) => Book(honest, dishonest, u, j) = F[j]
    BY DEF FacesInv, Alike
  <2>2. d \notin HonestNodes /\ OnSide(d, k) /\ OnSide(v, k)
    BY NodeSets DEF OnSide
  <2> QED
    BY <2>1, <2>2 DEF Book
<1> QED
  BY <1>1, <1>2, <1>3, SimpleInvariant, PTL DEF Spec
=============================================================================
