--------------------- MODULE PartitioningSchedulerProofs ---------------------
(***************************************************************************)
(* PartitioningScheduler holds a proposal only in rounds that have come, so *)
(* the answers it drops are empty and it implements Streamlet; and nothing  *)
(* crosses between the sides but in the rounds the decider names.  Without  *)
(* dishonest nodes a proposal comes before the votes for it, so that what   *)
(* is delivered again does nothing, and no message is held twice; it comes  *)
(* after the votes for its parent, so that no assert fails; and the nodes   *)
(* of one side take turns with the same messages in the same order, so that *)
(* those of both sides finalize one ledger.  If every node is honest, what  *)
(* a node has notarized determines its tree, and a synchronization leaves   *)
(* nobody behind.                                                           *)
(***************************************************************************)
EXTENDS PartitioningScheduler, SchedulerProofs

\* The types of the scheduler's own fields, and where in clockTick it is: the
\* queues between the sides are emptied only in rounds the decider names.
FieldsInv ==
    /\ time \in 0 .. NrRounds /\ walk \in Walks
    /\ pc \in EdgeTypes \cup {"broadcastTime"} /\ pass \in {"before", "after"}
    /\ pc = "broadcastTime" => pass = "before" /\ ~S!Aborted
    /\ pc # "broadcastTime" /\ pass = "before" => time < NrRounds
    /\ pc \in {"min2maj", "maj2min"} => time \in syncRounds
    /\ queues = [e \in EdgeTypes |-> queues[e]]

\* What a queue may hold: messages sent, and proposals of rounds that have come.
\* Deferred are votes only.
Holdable(e) ==
    { x \in [round : Nat, message : sent] :
        /\ EdgeType(x.message) = e
        /\ x.message.type = "PROPOSAL" => x.round <= time }

Deferrable == { x \in [round : Nat, message : sent] : x.message.type # "PROPOSAL" }

QueuesInv ==
    /\ \A e \in EdgeTypes : queues[e] \in Seq(Holdable(e))
    /\ deferred \in Seq(Deferrable)

\* No message is of an epoch that has not begun.
EpochsInv == \A m \in sent : StartOf(EpochOf(m.block)) <= time

\* The epochs of whose proposal or votes node v has heard from the other side.
HeardFromAfar(v) ==
    { e \in DOMAIN honest[v].proposedBlocks \ {0} : GetLeader(e) \in OtherSide(v) }
    \cup { vote[1] : vote \in { x \in honest[v].votes : x[2] \in OtherSide(v) } }

\* There was a round of synchronization since epoch e began.
SynchronizedSince(e) == \E r \in syncRounds \cap Nat : StartOf(e) <= r /\ r <= time

SidesInv == \A v \in HonestNodes : \A e \in HeardFromAfar(v) : SynchronizedSince(e)

\* The inductive invariant.
PartitionInv ==
    /\ FieldsInv
    /\ NodesInv(honest, dishonest, sent)
    /\ QueuesInv
    /\ EpochsInv
    /\ SidesInv
-----------------------------------------------------------------------------
\* A sequence over a set is one over a larger set.
LEMMA SeqWiden ==
    ASSUME NEW A, NEW B, A \subseteq B, NEW s \in Seq(A)
    PROVE  s \in Seq(B)
OBVIOUS

\* Messages are filed under one round.
LEMMA FiledType ==
    ASSUME NEW M, NEW messages \in Seq(M), NEW round \in Nat
    PROVE  Filed(messages, round) \in Seq([round : {round}, message : M])
<1>1. Len(messages) \in Nat /\ DOMAIN messages = 1 .. Len(messages)
      /\ \A i \in 1 .. Len(messages) : messages[i] \in M
  BY LenProperties, ElementOfSeq
<1>2. \A i \in 1 .. Len(messages) :
         [round |-> round, message |-> messages[i]] \in [round : {round}, message : M]
  BY <1>1
<1> QED
  BY <1>1, <1>2 DEF Filed

\* redirectMessagesToQueue appends to each queue the entries of its two sides.
LEMMA RedirectType ==
    ASSUME NEW qs, NEW E, NEW entries \in Seq(E), NEW e \in EdgeTypes, NEW Q,
           qs[e] \in Seq(Q), \A x \in E : EdgeType(x.message) = e => x \in Q
    PROVE  Redirect(qs, entries)[e] \in Seq(Q)
<1> DEFINE part(i) == IF EdgeType(entries[i].message) = e THEN << entries[i] >> ELSE << >>
           parts == [i \in DOMAIN entries |-> part(i)]
<1>1. Len(entries) \in Nat /\ DOMAIN entries = 1 .. Len(entries)
      /\ \A i \in 1 .. Len(entries) : entries[i] \in E
  BY LenProperties, ElementOfSeq
<1>2. ASSUME NEW i \in 1 .. Len(entries) PROVE part(i) \in Seq(Q)
  <2>1. CASE EdgeType(entries[i].message) = e
    <3>1. entries[i] \in Q /\ part(i) = << entries[i] >>
      BY <1>1, <2>1
    <3> HIDE DEF part
    <3> QED
      BY <3>1
  <2>2. CASE EdgeType(entries[i].message) # e
    <3>1. part(i) = << >>
      BY <2>2
    <3> HIDE DEF part
    <3> QED
      BY <3>1, EmptySeq
  <2> QED
    BY <2>1, <2>2
<1> HIDE DEF part
<1>3. parts \in [1 .. Len(entries) -> Seq(Q)]
  BY <1>1, <1>2
<1>4. parts \in Seq(Seq(Q))
  BY <1>1, <1>3
<1> HIDE DEF parts
<1>5. FlattenSeq(parts) \in Seq(Q)
  BY <1>4, FlattenSeqType
<1>6. Redirect(qs, entries)[e] = qs[e] \o FlattenSeq(parts)
  BY DEF Redirect, parts, part
<1> QED
  BY <1>5, <1>6, ConcatProperties

\* It makes queues of queues.
LEMMA RedirectQueues ==
    ASSUME NEW qs, NEW entries
    PROVE  Redirect(qs, entries) = [e \in EdgeTypes |-> Redirect(qs, entries)[e]]
BY DEF Redirect

\* An epoch begins at or before each of its rounds.
LEMMA EpochBegins == ASSUME NEW round \in Nat PROVE StartOf(GetEpoch(round)) <= round
<1>1. EpochLength \in Nat /\ EpochLength > 0
  BY CountsAssumption
<1>2. (round \div EpochLength) * EpochLength <= round
  BY <1>1, Z3
<1>3. round \div EpochLength \in Nat
  BY <1>1
<1> DEFINE q == round \div EpochLength
<1>4. GetEpoch(round) = q + 1 /\ q + 1 - 1 = q
  BY <1>3 DEF GetEpoch
<1>5. ASSUME NEW e \in Nat PROVE StartOf(e) = (e - 1) * EpochLength
  BY <1>5, Zenon DEF StartOf
<1> HIDE DEF q
<1>6. GetEpoch(round) \in Nat /\ GetEpoch(round) - 1 = q
  BY <1>3, <1>4 DEF q
<1>7. StartOf(GetEpoch(round)) = q * EpochLength
  BY <1>5, <1>6
<1> QED
  BY <1>2, <1>7 DEF q

\* Facts about the invariant every step needs.
LEMMA PartitionInvFacts ==
    ASSUME PartitionInv
    PROVE  /\ NrRounds \in Nat /\ time \in Nat
           /\ \A m \in sent : /\ m \in Message
                              /\ EpochOf(m.block) \in Nat /\ StartOf(EpochOf(m.block)) \in Int
<1>1. NrRounds \in Nat /\ time \in Nat
  BY NrRoundsAssumption DEF PartitionInv, FieldsInv
<1>2. \A m \in sent : m \in Message /\ EpochOf(m.block) \in Nat
  BY EpochOfNat DEF PartitionInv, NodesInv, Message
<1>3. \A e \in Nat : StartOf(e) \in Int
  BY CountsAssumption DEF StartOf
<1> QED
  BY <1>1, <1>2, <1>3

\* It holds initially.
LEMMA PartitionInvInit == Init => PartitionInv
<1> SUFFICES ASSUME Init PROVE PartitionInv
  OBVIOUS
<1>1. ~S!Aborted
  BY SameHashes, SameReplicas DEF Init, S!Aborted, NewReplica, NewTree, NewDishonest
<1>2. FieldsInv
  BY <1>1, NrRoundsAssumption DEF Init, FieldsInv, EdgeTypes
<1>3. NodesInv(honest, dishonest, sent)
  BY FreshNodes DEF Init
<1>4. QueuesInv
  BY EmptySeq DEF Init, QueuesInv
<1>5. EpochsInv
  BY DEF Init, EpochsInv
<1>6. SidesInv
  BY DEF Init, SidesInv, HeardFromAfar, NewReplica
<1> QED
  BY <1>2, <1>3, <1>4, <1>5, <1>6 DEF PartitionInv
-----------------------------------------------------------------------------
\* What a queue may hold it may hold later, when more has been sent.
LEMMA HoldableGrows ==
    ASSUME time \in Nat, time' \in Nat, time <= time', sent \subseteq sent'
    PROVE  /\ \A e \in EdgeTypes : Holdable(e) \subseteq Holdable(e)'
           /\ Deferrable \subseteq Deferrable'
<1>1. Deferrable' = { x \in [round : Nat, message : sent'] : x.message.type # "PROPOSAL" }
  BY DEF Deferrable
<1>2. Deferrable \subseteq Deferrable'
  BY <1>1 DEF Deferrable
<1>3. ASSUME NEW e \in EdgeTypes, NEW x \in Holdable(e) PROVE x \in Holdable(e)'
  <2>1. Holdable(e)' = { y \in [round : Nat, message : sent'] :
                           /\ EdgeType(y.message) = e
                           /\ y.message.type = "PROPOSAL" => y.round <= time' }
    BY DEF Holdable
  <2>2. /\ x \in [round : Nat, message : sent] /\ EdgeType(x.message) = e
        /\ x.message.type = "PROPOSAL" => x.round <= time
    BY <1>3 DEF Holdable
  <2>3. x \in [round : Nat, message : sent'] /\ x.round \in Nat
    BY <2>2
  <2> QED
    BY <2>1, <2>2, <2>3
<1> QED
  BY <1>2, <1>3

\* Nor is a synchronization forgotten.
LEMMA SynchronizedStays ==
    ASSUME time \in Nat, time' \in Nat, time <= time', syncRounds' = syncRounds, NEW e,
           SynchronizedSince(e)
    PROVE  SynchronizedSince(e)'
<1>1. PICK r \in syncRounds \cap Nat : StartOf(e) <= r /\ r <= time
  BY DEF SynchronizedSince
<1>2. r <= time'
  BY <1>1
<1> QED
  BY <1>1, <1>2 DEF SynchronizedSince, StartOf

\* So what was heard from afar stays justified while nobody hears anything.
LEMMA SidesStay ==
    ASSUME SidesInv, time \in Nat, time' \in Nat, time <= time', syncRounds' = syncRounds,
           honest' = honest
    PROVE  SidesInv'
<1>1. \A v \in HonestNodes : HeardFromAfar(v)' = HeardFromAfar(v)
  BY DEF HeardFromAfar
<1> QED
  BY <1>1, SynchronizedStays DEF SidesInv, HonestNodes

\* broadcastTime files the proposals of the leader of the round's epoch under the
\* round that has come.
LEMMA PartitionBroadcast ==
    ASSUME PartitionInv, BroadcastTime
    PROVE  PartitionInv' /\ S!BroadcastTime
<1>1. PICK payload \in Draws :
          LET answers == { v \in Nodes : AtTime(v, payload) # << >> }
          IN  \/ /\ answers = {}
                 /\ UNCHANGED <<queues, sent>>
              \/ \E v \in answers : \E messages \in {Vector(walk, AtTime(v, payload))} :
                    /\ queues' = Redirect(queues, Filed(messages, time))
                    /\ sent' = sent \cup Messages(AtTime(v, payload))
  BY DEF BroadcastTime
<1> DEFINE out(v) == AtTime(v, payload)
<1>2. /\ NodesInv(honest, dishonest, sent) /\ walk \in Walks /\ time \in Nat
      /\ time < NrRounds /\ pc = "broadcastTime" /\ pass = "before" /\ ~S!Aborted
      /\ pc' = "maj2maj" /\ pass' = "before"
      /\ UNCHANGED <<time, honest, dishonest, walk, syncRounds, deferred>>
  BY PartitionInvFacts DEF PartitionInv, FieldsInv, BroadcastTime
<1>3. \A v \in Nodes :
         /\ Vector(walk, out(v)) \in Seq(Messages(out(v)))
         /\ out(v) # << >> => GetLeader(GetEpoch(time)) = v
         /\ \A w \in Messages(out(v)) :
               /\ w \in Message /\ w.from = v /\ w.type = "PROPOSAL"
               /\ EpochOf(w.block) = GetEpoch(time)
         /\ out(v) # << >> => v \in HonestNodes \cup DishonestNodes
  BY <1>2, Announcement
<1>4. \/ /\ \A v \in Nodes : out(v) = << >>
         /\ sent' = sent /\ queues' = queues
      \/ \E v \in Nodes :
            /\ out(v) # << >>
            /\ queues' = Redirect(queues, Filed(Vector(walk, out(v)), time))
            /\ sent' = sent \cup Messages(out(v))
  BY <1>1
<1>5. S!BroadcastTime
  <2>1. Announced' = time + 1
    BY <1>2 DEF Announced
  <2> QED
    BY <1>2, <1>3, <1>4, <2>1, BroadcastIsStreamlets
<1> HIDE DEF out
<1> DEFINE Filing(q, P) ==
             /\ sent' = sent \cup P
             /\ \A w \in P : /\ w \in Message /\ w.type = "PROPOSAL"
                             /\ w.from \in HonestNodes \cup DishonestNodes
                             /\ EpochOf(w.block) = GetEpoch(time)
             /\ \/ queues' = queues
                \/ q \in Seq(P) /\ queues' = Redirect(queues, Filed(q, time))
<1>6. PICK q, P : Filing(q, P)
  <2>1. CASE /\ \A v \in Nodes : out(v) = << >>
             /\ sent' = sent /\ queues' = queues
    <3>1. Filing(<< >>, {})
      BY <2>1
    <3> HIDE DEF Filing
    <3> QED
      BY <3>1
  <2>2. ASSUME NEW v \in Nodes, out(v) # << >>,
               queues' = Redirect(queues, Filed(Vector(walk, out(v)), time)),
               sent' = sent \cup Messages(out(v))
        PROVE  \E q, P : Filing(q, P)
    <3>1. Filing(Vector(walk, out(v)), Messages(out(v)))
      BY <1>3, <2>2
    <3> HIDE DEF Filing
    <3> QED
      BY <3>1
  <2> HIDE DEF Filing
  <2> QED
    BY <1>4, <2>1, <2>2
<1>7. queues' = [e \in EdgeTypes |-> queues'[e]]
  BY <1>6, RedirectQueues DEF PartitionInv, FieldsInv
<1>8. FieldsInv'
  BY <1>2, <1>7 DEF PartitionInv, FieldsInv, EdgeTypes
<1>9. NodesInv(honest', dishonest', sent')
  BY <1>2, <1>6, NodesPropose
<1>10. QueuesInv'
  <2>1. /\ \A e \in EdgeTypes : Holdable(e) \subseteq Holdable(e)'
        /\ Deferrable \subseteq Deferrable'
    BY <1>2, <1>6, HoldableGrows
  <2>2. ASSUME NEW e \in EdgeTypes PROVE queues'[e] \in Seq(Holdable(e)')
    <3>1. queues[e] \in Seq(Holdable(e)')
      BY <2>1, SeqWiden DEF PartitionInv, QueuesInv
    <3>2. CASE q \in Seq(P) /\ queues' = Redirect(queues, Filed(q, time))
      <4>1. Filed(q, time) \in Seq([round : {time}, message : P])
        BY <1>2, <3>2, FiledType
      <4>2. Holdable(e)' = { y \in [round : Nat, message : sent'] :
                               /\ EdgeType(y.message) = e
                               /\ y.message.type = "PROPOSAL" => y.round <= time' }
        BY DEF Holdable
      <4>3. ASSUME NEW x \in [round : {time}, message : P], EdgeType(x.message) = e
            PROVE  x \in Holdable(e)'
        BY <1>2, <1>6, <4>2, <4>3
      <4> QED
        BY <3>1, <3>2, <4>1, <4>3, RedirectType
    <3> QED
      BY <1>6, <3>1, <3>2
  <2>3. deferred' \in Seq(Deferrable')
    BY <1>2, <2>1, SeqWiden DEF PartitionInv, QueuesInv
  <2> QED
    BY <2>2, <2>3 DEF QueuesInv, EdgeTypes
<1>11. EpochsInv'
  BY <1>2, <1>6, EpochBegins DEF PartitionInv, EpochsInv, StartOf
<1>12. SidesInv'
  BY <1>2, SidesStay DEF PartitionInv
<1> QED
  BY <1>5, <1>8, <1>9, <1>10, <1>11, <1>12 DEF PartitionInv
\* The entry at the head of the queue being emptied may be in it.
LEMMA EntryHoldable ==
    ASSUME PartitionInv, Pop
    PROVE  /\ Entry \in Holdable(pc) /\ Tail(queues[pc]) \in Seq(Holdable(pc))
           /\ pc \in EdgeTypes /\ EdgeType(Entry.message) = pc
           /\ Entry = [round |-> Entry.round, message |-> Entry.message]
           /\ Entry.round \in Nat /\ Entry.message \in sent
           /\ Entry.message.type = "PROPOSAL" => Entry.round <= time
<1>1. pc \in EdgeTypes /\ queues[pc] # << >>
  BY DEF Pop, Emptying
<1>2. queues[pc] \in Seq(Holdable(pc))
  BY <1>1 DEF PartitionInv, QueuesInv
<1>3. Entry \in Holdable(pc) /\ Tail(queues[pc]) \in Seq(Holdable(pc))
  BY <1>1, <1>2, HeadTailProperties DEF Entry
<1> QED
  BY <1>1, <1>3 DEF Holdable

\* Only in a round the decider names does a node hear from the other side, and
\* then of an epoch that has begun: the node a message is from and the one it is
\* to decide which queue it is in.
LEMMA HeardInRound ==
    ASSUME NodesInv(honest, dishonest, sent), time \in Nat, EpochsInv,
           NEW m \in sent, NEW v \in HonestNodes,
           m.to \in HonestNodes => ReplicaStep(m.to, honest[m.to], m, honest'[m.to]),
           \A x \in HonestNodes : x # m.to => honest'[x] = honest[x],
           EdgeType(m) \in {"min2maj", "maj2min"} => time \in syncRounds,
           NEW e \in HeardFromAfar(v)', e \notin HeardFromAfar(v)
    PROVE  SynchronizedSince(e)
<1>1. v = m.to
  BY DEF HeardFromAfar
<1>2. ReplicaStep(v, honest[v], m, honest'[v])
  BY <1>1
<1>3. /\ m \in Message /\ m.from \in Nodes
      /\ honest[v].votes \subseteq Nat \X Nodes
  BY DEF NodesInv, ReplicaInv, IsReplica, Message
<1>4. e = EpochOf(m.block) /\ m.from \in OtherSide(v)
  <2>1. CASE e \in DOMAIN honest'[v].proposedBlocks \ {0} /\ GetLeader(e) \in OtherSide(v)
    <3>1. e \notin DOMAIN honest[v].proposedBlocks
      BY <2>1 DEF HeardFromAfar
    <3> QED
      BY <1>2, <2>1, <3>1 DEF ReplicaStep
  <2>2. CASE \E vote \in honest'[v].votes : vote[2] \in OtherSide(v) /\ e = vote[1]
    <3>1. PICK vote \in honest'[v].votes : vote[2] \in OtherSide(v) /\ e = vote[1]
      BY <2>2
    <3>2. vote \notin honest[v].votes
      BY <3>1 DEF HeardFromAfar
    <3>3. vote = <<EpochOf(m.block), m.from>>
      BY <1>2, <3>1, <3>2 DEF ReplicaStep
    <3> QED
      BY <3>1, <3>3
  <2> QED
    BY <2>1, <2>2 DEF HeardFromAfar, OtherSide
<1>5. EdgeType(m) \in {"min2maj", "maj2min"}
  BY <1>1, <1>4 DEF EdgeType, OtherSide
<1>6. StartOf(e) <= time /\ time <= time /\ time \in syncRounds \cap Nat
  BY <1>4, <1>5 DEF EpochsInv
<1> QED
  BY <1>6 DEF SynchronizedSince

\* Action::onPop files the answer for the next round, or it drops the answer,
\* which is then empty, and keeps the message.
LEMMA PartitionPop ==
    ASSUME PartitionInv, Pop
    PROVE  PartitionInv' /\ [S!Next]_(S!vars)
<1> DEFINE m == Entry.message
           V == Vector(walk, SendRec(m).out)
           W == Messages(SendRec(m).out)
<1>1. /\ NodesInv(honest, dishonest, sent) /\ walk \in Walks /\ time \in Nat
      /\ pc \in EdgeTypes /\ ~S!Aborted
      /\ UNCHANGED <<time, pc, pass, walk, syncRounds>> /\ Announced' = Announced
  BY PartitionInvFacts DEF PartitionInv, FieldsInv, Pop, Emptying, Announced
<1>2. /\ Tail(queues[pc]) \in Seq(Holdable(pc)) /\ EdgeType(m) = pc
      /\ Entry = [round |-> Entry.round, message |-> m]
      /\ Entry.round \in Nat /\ m \in sent
      /\ m.type = "PROPOSAL" => Entry.round <= time
  BY EntryHoldable
<1>3. /\ V \in Seq(W)
      /\ NodesInv(SendRec(m).honest, SendRec(m).dishonest, sent \cup W)
      /\ m.type # "PROPOSAL" => SendRec(m).out = << >>
      /\ \A w \in W : w.type = "VOTE" /\ w.block = m.block
      /\ m.to \in HonestNodes => ReplicaStep(m.to, honest[m.to], m, SendRec(m).honest[m.to])
      /\ \A x \in HonestNodes : x # m.to => SendRec(m).honest[x] = honest[x]
  <2> HIDE DEF m
  <2> QED
    BY <1>1, <1>2, Delivery
<1>4. /\ honest' = SendRec(m).honest /\ dishonest' = SendRec(m).dishonest
      /\ OnPop(SendRec(m).out)
  BY DEF Pop
<1>5. \/ /\ Entry.round <= time /\ sent' = sent \cup W /\ deferred' = deferred
         /\ queues' = Redirect(Popped, Filed(V, Entry.round + 1))
      \/ /\ Entry.round > time /\ sent' = sent /\ queues' = Popped
         /\ deferred' = Append(deferred, [Entry EXCEPT !.round = @ + 1])
  <2>1. \/ /\ Entry.round <= time
           /\ \E messages \in {Vector(walk, SendRec(m).out)} :
                 queues' = Redirect(Popped, Filed(messages, Entry.round + 1))
           /\ sent' = sent \cup Messages(SendRec(m).out)
           /\ UNCHANGED deferred
        \/ /\ Entry.round > time
           /\ queues' = Popped
           /\ deferred' = Append(deferred, [Entry EXCEPT !.round = @ + 1])
           /\ UNCHANGED sent
    BY <1>4 DEF OnPop
  <2>2. (\E messages \in {V} : queues' = Redirect(Popped, Filed(messages, Entry.round + 1)))
           => queues' = Redirect(Popped, Filed(V, Entry.round + 1))
    <3> HIDE DEF V
    <3> QED
      OBVIOUS
  <2> QED
    BY <2>1, <2>2
<1>6. Entry.round > time => W = {} /\ m.type # "PROPOSAL"
  <2>1. Entry.round > time => m.type # "PROPOSAL"
    BY <1>1, <1>2
  <2> QED
    BY <1>3, <2>1, NothingFiled
<1>7. [S!Next]_(S!vars)
  <2>1. sent' = sent \cup W
    BY <1>5, <1>6
  <2> HIDE DEF m
  <2> QED
    BY <1>1, <1>2, <1>4, <2>1, DeliveryIsStreamlets
<1> HIDE DEF m, V, W
<1>8. sent' = sent \cup W
  BY <1>5, <1>6
<1>9. NodesInv(honest', dishonest', sent')
  BY <1>3, <1>4, <1>8
<1>10. FieldsInv'
  <2>1. queues = [e \in EdgeTypes |-> queues[e]]
    BY DEF PartitionInv, FieldsInv
  <2>2. Popped = [e \in EdgeTypes |-> Popped[e]]
    BY <2>1 DEF Popped
  <2>3. queues' = [e \in EdgeTypes |-> queues'[e]]
    BY <1>5, <2>2, RedirectQueues
  <2>4. pc # "broadcastTime"
    BY <1>1 DEF EdgeTypes
  <2> QED
    BY <1>1, <2>3, <2>4 DEF PartitionInv, FieldsInv
<1>11. QueuesInv'
  <2>1. /\ \A e \in EdgeTypes : Holdable(e) \subseteq Holdable(e)'
        /\ Deferrable \subseteq Deferrable'
    BY <1>1, <1>8, HoldableGrows
  <2>2. ASSUME NEW e \in EdgeTypes PROVE Popped[e] \in Seq(Holdable(e)')
    <3>1. queues[e] \in Seq(Holdable(e)')
      BY <2>1, SeqWiden DEF PartitionInv, QueuesInv
    <3>2. Tail(queues[pc]) \in Seq(Holdable(pc)')
      BY <1>1, <1>2, <2>1, SeqWiden
    <3>3. Popped[e] = IF e = pc THEN Tail(queues[pc]) ELSE queues[e]
      BY <1>1 DEF Popped, PartitionInv, FieldsInv
    <3>4. CASE e = pc
      <4>1. Holdable(e)' = Holdable(pc)'
        BY <1>1, <3>4 DEF Holdable
      <4> QED
        BY <3>2, <3>3, <3>4, <4>1
    <3> QED
      BY <3>1, <3>3, <3>4
  <2>3. deferred \in Seq(Deferrable')
    BY <2>1, SeqWiden DEF PartitionInv, QueuesInv
  <2>4. CASE /\ Entry.round <= time /\ deferred' = deferred
             /\ queues' = Redirect(Popped, Filed(V, Entry.round + 1))
    <3>1. Filed(V, Entry.round + 1) \in Seq([round : {Entry.round + 1}, message : W])
      BY <1>2, <1>3, FiledType
    <3>2. ASSUME NEW e \in EdgeTypes PROVE queues'[e] \in Seq(Holdable(e)')
      <4>1. Holdable(e)' = { y \in [round : Nat, message : sent'] :
                               /\ EdgeType(y.message) = e
                               /\ y.message.type = "PROPOSAL" => y.round <= time' }
        BY DEF Holdable
      <4>2. ASSUME NEW x \in [round : {Entry.round + 1}, message : W],
                   EdgeType(x.message) = e
            PROVE  x \in Holdable(e)'
        BY <1>2, <1>3, <1>8, <4>1, <4>2
      <4> QED
        BY <2>2, <2>4, <3>1, <4>2, RedirectType
    <3> QED
      BY <2>3, <2>4, <3>2 DEF QueuesInv, EdgeTypes
  <2>5. CASE /\ Entry.round > time /\ queues' = Popped
             /\ deferred' = Append(deferred, [Entry EXCEPT !.round = @ + 1])
    <3>1. [Entry EXCEPT !.round = @ + 1] = [round |-> Entry.round + 1, message |-> m]
      BY <1>2
    <3>2. Deferrable' = { x \in [round : Nat, message : sent'] : x.message.type # "PROPOSAL" }
      BY DEF Deferrable
    <3>3. [round |-> Entry.round + 1, message |-> m] \in Deferrable'
      BY <1>2, <1>6, <1>8, <2>5, <3>2
    <3>4. deferred' \in Seq(Deferrable')
      BY <2>3, <2>5, <3>1, <3>3, AppendProperties
    <3> QED
      BY <2>2, <2>5, <3>4 DEF QueuesInv, EdgeTypes
  <2> QED
    BY <1>5, <2>4, <2>5
<1>12. EpochsInv'
  BY <1>1, <1>2, <1>3, <1>8 DEF PartitionInv, EpochsInv, StartOf
<1>13. SidesInv'
  <2> SUFFICES ASSUME NEW v \in HonestNodes, NEW e \in HeardFromAfar(v)'
               PROVE  SynchronizedSince(e)'
    BY DEF SidesInv, HonestNodes
  <2>1. SynchronizedSince(e)
    <3>1. CASE e \in HeardFromAfar(v)
      BY <3>1 DEF PartitionInv, SidesInv
    <3>2. CASE e \notin HeardFromAfar(v)
      <4>1. EdgeType(m) \in {"min2maj", "maj2min"} => time \in syncRounds
        BY <1>2 DEF PartitionInv, FieldsInv
      <4>2. EpochsInv
        BY DEF PartitionInv
      <4> QED
        BY <1>1, <1>2, <1>3, <1>4, <3>2, <4>1, <4>2, HeardInRound
    <3> QED
      BY <3>1, <3>2
  <2> QED
    BY <1>1, <2>1, SynchronizedStays
<1> QED
  BY <1>7, <1>9, <1>10, <1>11, <1>12, <1>13 DEF PartitionInv
\* beforeAndAfter goes on to the next queue, to those between the sides only in a
\* round of synchronization.
LEMMA PartitionNextQueue ==
    ASSUME PartitionInv, NextQueue
    PROVE  PartitionInv' /\ UNCHANGED S!vars
<1>1. /\ time \in Nat /\ pc \in EdgeTypes /\ pc # LastQueue
      /\ pc' = CASE pc = "maj2maj" -> "min2min"
                 [] pc = "min2min" -> "min2maj"
                 [] pc = "min2maj" -> "maj2min"
      /\ UNCHANGED <<time, honest, dishonest, walk, sent, syncRounds, queues, deferred, pass>>
  BY PartitionInvFacts DEF NextQueue, Emptying
<1>2. pc' \in EdgeTypes /\ (pc' \in {"min2maj", "maj2min"} => time \in syncRounds)
      /\ pc # "broadcastTime" /\ pc' # "broadcastTime"
  <2>1. CASE time \in syncRounds
    BY <1>1, <2>1 DEF EdgeTypes, LastQueue, Synchronizing
  <2>2. CASE time \notin syncRounds
    <3>1. pc = "maj2maj" \/ pc = "min2min"
      BY <1>1, <2>2 DEF EdgeTypes, PartitionInv, FieldsInv
    <3>2. pc = "maj2maj"
      BY <1>1, <2>2, <3>1 DEF LastQueue, Synchronizing
    <3> QED
      BY <1>1, <3>2 DEF EdgeTypes
  <2> QED
    BY <2>1, <2>2
<1>3. FieldsInv'
  BY <1>1, <1>2 DEF PartitionInv, FieldsInv
<1>4. QueuesInv' /\ EpochsInv'
  BY <1>1 DEF PartitionInv, QueuesInv, EpochsInv, Holdable, Deferrable, StartOf
<1>5. SidesInv'
  BY <1>1, SidesStay DEF PartitionInv
<1>6. UNCHANGED S!vars
  BY <1>1, <1>2 DEF S!vars, Announced
<1> QED
  BY <1>1, <1>3, <1>4, <1>5, <1>6 DEF PartitionInv

\* At its end what was deferred goes back into the queues of its sides.
LEMMA PartitionEndPass ==
    ASSUME PartitionInv, EndPass
    PROVE  PartitionInv' /\ UNCHANGED S!vars
<1>1. /\ time \in Nat /\ NrRounds \in Nat /\ pc # "broadcastTime" /\ ~S!Aborted
      /\ queues' = Redirect(queues, deferred) /\ deferred' = << >>
      /\ UNCHANGED <<honest, dishonest, walk, sent, syncRounds>>
      /\ \/ /\ pass = "before" /\ pass' = "after" /\ time' = time + 1 /\ pc' = "maj2maj"
            /\ time < NrRounds
         \/ pass = "after" /\ pass' = "before" /\ pc' = "broadcastTime" /\ time' = time
  BY PartitionInvFacts DEF EndPass, Emptying, EdgeTypes, PartitionInv, FieldsInv
<1>2. time' \in Nat /\ time <= time' /\ time' \in 0 .. NrRounds
  BY <1>1 DEF PartitionInv, FieldsInv
<1>3. ~S!Aborted'
  BY <1>1 DEF S!Aborted
<1>4. FieldsInv'
  BY <1>1, <1>2, <1>3, RedirectQueues DEF PartitionInv, FieldsInv, EdgeTypes
<1>5. QueuesInv'
  <2>1. /\ \A e \in EdgeTypes : Holdable(e) \subseteq Holdable(e)'
        /\ Deferrable \subseteq Deferrable'
    BY <1>1, <1>2, HoldableGrows
  <2>2. ASSUME NEW e \in EdgeTypes PROVE queues'[e] \in Seq(Holdable(e)')
    <3>1. queues[e] \in Seq(Holdable(e)')
      BY <2>1, SeqWiden DEF PartitionInv, QueuesInv
    <3>2. \A x \in Deferrable : EdgeType(x.message) = e => x \in Holdable(e)'
      <4>1. \A x \in Deferrable : EdgeType(x.message) = e => x \in Holdable(e)
        BY DEF Deferrable, Holdable
      <4> QED
        BY <2>1, <4>1
    <3>3. deferred \in Seq(Deferrable)
      BY DEF PartitionInv, QueuesInv
    <3> QED
      BY <1>1, <3>1, <3>2, <3>3, RedirectType
  <2> QED
    BY <1>1, <2>2, EmptySeq DEF QueuesInv, EdgeTypes
<1>6. EpochsInv'
  BY <1>1, <1>2, PartitionInvFacts DEF PartitionInv, EpochsInv, StartOf
<1>7. SidesInv'
  BY <1>1, <1>2, SidesStay DEF PartitionInv
<1>8. UNCHANGED S!vars
  BY <1>1 DEF S!vars, Announced
<1> QED
  BY <1>1, <1>4, <1>5, <1>6, <1>7, <1>8 DEF PartitionInv
-----------------------------------------------------------------------------
\* Every step keeps the invariant and is one of Streamlet's, or none.
LEMMA PartitionStep ==
    ASSUME PartitionInv, [Next]_vars
    PROVE  PartitionInv' /\ [S!Next]_(S!vars)
<1>1. CASE BroadcastTime
  BY <1>1, PartitionBroadcast DEF S!Next
<1>2. CASE Pop
  BY <1>2, PartitionPop
<1>3. CASE NextQueue
  BY <1>3, PartitionNextQueue
<1>4. CASE EndPass
  BY <1>4, PartitionEndPass
<1>5. CASE UNCHANGED vars
  <2>1. UNCHANGED <<time, honest, dishonest, walk, sent, syncRounds, queues, deferred, pc, pass>>
    BY <1>5 DEF vars
  <2>2. FieldsInv' /\ QueuesInv' /\ EpochsInv'
    BY <2>1 DEF PartitionInv, FieldsInv, QueuesInv, EpochsInv, Holdable, Deferrable, StartOf,
                S!Aborted
  <2>3. SidesInv'
    BY <2>1, PartitionInvFacts, SidesStay DEF PartitionInv
  <2>4. UNCHANGED S!vars
    BY <2>1 DEF S!vars, Announced
  <2> QED
    BY <2>1, <2>2, <2>3, <2>4 DEF PartitionInv
<1> QED
  BY <1>1, <1>2, <1>3, <1>4, <1>5 DEF Next, Terminating

\* The invariant holds throughout (PartitioningScheduler::start, clockTick).
THEOREM PartitionInvariant == Spec => []PartitionInv
<1>1. Init => PartitionInv
  BY PartitionInvInit
<1>2. PartitionInv /\ [Next]_vars => PartitionInv'
  BY PartitionStep
<1> QED
  BY <1>1, <1>2, PTL DEF Spec

\* The fields have their types, and every message waits in the queue of its two
\* sides (partitioning_scheduler.cpp:37-55).
THEOREM TypeCorrect == Spec => []TypeOK
<1>1. PartitionInv => TypeOK
  <2> SUFFICES ASSUME PartitionInv PROVE TypeOK
    OBVIOUS
  <2>1. \A m \in sent : m \in Message
    BY PartitionInvFacts
  <2>2. ASSUME NEW e \in EdgeTypes, NEW i \in DOMAIN queues[e]
        PROVE  IsFiled(queues[e][i]) /\ EdgeType(queues[e][i].message) = e
    <3>1. queues[e][i] \in Holdable(e)
      <4>1. queues[e] \in Seq(Holdable(e))
        BY DEF PartitionInv, QueuesInv
      <4> QED
        BY <4>1, ElementOfSeq, LenProperties
    <3> QED
      BY <2>1, <3>1 DEF Holdable, IsFiled
  <2>3. ASSUME NEW i \in DOMAIN deferred PROVE IsFiled(deferred[i])
    <3>1. deferred[i] \in Deferrable
      <4>1. deferred \in Seq(Deferrable)
        BY DEF PartitionInv, QueuesInv
      <4> QED
        BY <4>1, ElementOfSeq, LenProperties
    <3> QED
      BY <2>1, <3>1 DEF Deferrable, IsFiled
  <2>4. /\ \A v \in HonestNodes : IsReplica(honest[v])
        /\ \A v \in DishonestNodes : IsDishonest(dishonest[v])
    BY DEF PartitionInv, NodesInv, ReplicaInv, DishonestInv
  <2> QED
    BY <2>2, <2>3, <2>4 DEF PartitionInv, FieldsInv, TypeOK
<1> QED
  BY <1>1, PartitionInvariant, PTL

\* A node knows a block or counts a vote from the other side only if the two
\* sides were synchronized since its epoch began (partitioning_scheduler.cpp:66-74).
THEOREM NothingCrosses == Spec => []SidesSeparated
<1>1. PartitionInv => SidesSeparated
  BY DEF PartitionInv, SidesInv, HeardFromAfar, SynchronizedSince, SidesSeparated
<1> QED
  BY <1>1, PartitionInvariant, PTL

\* Whatever this scheduler lets the nodes do, Streamlet's does: no answer is lost
\* where onPop drops it (partitioning_scheduler.cpp:112-116).
THEOREM PartitionRefinesStreamlet == Spec => ImplementsStreamlet
<1>1. Init => S!Init
  BY InitialIsStreamlets DEF Init
<1>2. PartitionInv /\ [Next]_vars => [S!Next]_(S!vars)
  BY PartitionStep
<1> QED
  BY <1>1, <1>2, PartitionInvariant, PTL DEF Spec, ImplementsStreamlet, S!Spec
-----------------------------------------------------------------------------
(* Without dishonest nodes every vote comes to a node after the proposal it *)
(* is for, so that the first delivery of a vote decides and the others do   *)
(* nothing.                                                                 *)

\* The receiver of m, if honest, has recorded a proposal of the epoch; h are the
\* replicas.
OpenedBy(h, m) == m.to \in HonestNodes => EpochOf(m.block) \in DOMAIN h[m.to].proposedBlocks

\* x is the proposal m is a vote for, to the same receiver.
Opens(x, m) == x.type = "PROPOSAL" /\ x.to = m.to /\ x.block = m.block

\* The queue being emptied leads from one side to the other.
Crossing == pc \in {"min2maj", "maj2min"}

\* A vote is opened, or its proposal is before it in its queue, or comes first
\* because it is in the queue being emptied.
OrderInv ==
    \A e \in EdgeTypes : \A j \in 1 .. Len(queues[e]) :
        \/ queues[e][j].message.type = "PROPOSAL"
        \/ OpenedBy(honest, queues[e][j].message)
        \/ \E i \in 1 .. j - 1 : Opens(queues[e][i].message, queues[e][j].message)
        \/ /\ Crossing /\ e # pc
           /\ \E i \in 1 .. Len(queues[pc]) : Opens(queues[pc][i].message, queues[e][j].message)

\* A proposal was sent to every node by the leader of its epoch, and is in its
\* queue until it is delivered.
ProposalsInv ==
    \A x \in sent : x.type = "PROPOSAL" =>
        /\ x.from = GetLeader(EpochOf(x.block))
        /\ \A u \in Nodes : [from |-> x.from, to |-> u, type |-> x.type, block |-> x.block] \in sent
        /\ \/ OpenedBy(honest, x)
           \/ \E i \in 1 .. Len(queues[EdgeType(x)]) : queues[EdgeType(x)][i].message = x

\* Within a side proposals are delivered in the pass that follows.
PlacesInv ==
    /\ \A j \in 1 .. Len(queues["maj2maj"]) :
          queues["maj2maj"][j].message.type = "PROPOSAL" => pc = "maj2maj"
    /\ \A j \in 1 .. Len(queues["min2min"]) :
          queues["min2min"][j].message.type = "PROPOSAL" => pc \in {"maj2maj", "min2min"}

\* A vote would be counted by r only as it has been, without making a quorum.
Settled(r, m) ==
    CountsVote(r, m) => /\ <<EpochOf(m.block), m.from>> \in r.votes
                        /\ ~IsQuorum(Voters(r, EpochOf(m.block)))

\* What delivering m does to its receiver has been done.
SpentBy(h, m) ==
    /\ OpenedBy(h, m)
    /\ m.to \in HonestNodes /\ m.type # "PROPOSAL" => Settled(h[m.to], m)

\* What has been delivered has had its effect.
DeliveredInv ==
    /\ \A m \in delivered : m \in sent /\ SpentBy(honest, m)
    /\ \A i \in 1 .. Len(deferred) : deferred[i].message \in delivered

\* What has been sent is of an epoch whose first round has been announced.
AnnouncedInv == \A m \in sent : StartOf(EpochOf(m.block)) < Announced

\* No message is held twice.
Distinct(q) == \A i, j \in 1 .. Len(q) : q[i].message = q[j].message => i = j

DistinctInv ==
    /\ \A e \in EdgeTypes : Distinct(queues[e])
    /\ Distinct(deferred)
    /\ \A e \in EdgeTypes : \A i \in 1 .. Len(deferred), j \in 1 .. Len(queues[e]) :
          deferred[i].message # queues[e][j].message

\* The inductive invariant where no node is dishonest.
IdleInv ==
    /\ OrderInv
    /\ ProposalsInv
    /\ PlacesInv
    /\ DeliveredInv
    /\ AnnouncedInv
    /\ DistinctInv
-----------------------------------------------------------------------------
\* The entries carry the messages of W, each once.
Carries(entries, W) ==
    /\ \A i \in 1 .. Len(entries) : entries[i].message \in W
    /\ \A w \in W : \E i \in 1 .. Len(entries) : entries[i].message = w
    /\ Distinct(entries)

\* Queue q is queue p with the messages of W for queue e behind it, each once.
Extended(p, q, e, W) ==
    /\ Len(p) \in Nat /\ Len(q) \in Nat /\ Len(p) <= Len(q)
    /\ \A j \in 1 .. Len(p) : q[j] = p[j]
    /\ \A j \in 1 .. Len(q) : j > Len(p) => q[j].message \in W /\ EdgeType(q[j].message) = e
    /\ \A w \in W : EdgeType(w) = e => \E j \in 1 .. Len(q) : q[j].message = w
    /\ \A j, k \in 1 .. Len(q) :
          j > Len(p) /\ k > Len(p) /\ q[j].message = q[k].message => j = k

\* The vector of a broadcast is filed message by message.
LEMMA FilesBroadcast ==
    ASSUME DishonestCount = 0, NEW v \in HonestNodes, NEW type, NEW b, NEW round \in Nat
    PROVE  LET F == Filed(Vector(walk, << Envelope(v, Nodes, type, b) >>), round)
           IN  /\ F \in Seq([round : Nat, message : Sendings(v, type, b)])
               /\ Carries(F, Sendings(v, type, b))
<1> DEFINE M(u) == [from |-> v, to |-> u, type |-> type, block |-> b]
           V == Vector(walk, << Envelope(v, Nodes, type, b) >>)
           F == Filed(V, round)
<1>1. N \in Nat /\ Sendings(v, type, b) = { M(u) : u \in Nodes }
  BY AllHonest DEF Sendings
<1>2. V = [i \in 1 .. N |-> M(i - 1)]
  BY HonestBroadcast
<1>3. \A u, w : M(u) = M(w) => u = w
  <2> SUFFICES ASSUME NEW u, NEW w, M(u) = M(w) PROVE u = w
    OBVIOUS
  <2>1. M(u).to = u /\ M(w).to = w
    OBVIOUS
  <2> HIDE DEF M
  <2> QED
    BY <2>1
<1> HIDE DEF M, V
<1>4. /\ F = [i \in 1 .. N |-> [round |-> round, message |-> M(i - 1)]]
      /\ \A i \in 1 .. N : F[i].message = M(i - 1) /\ i - 1 \in Nodes
  BY <1>1, <1>2 DEF Filed, Nodes
<1>5. /\ F \in Seq([round : Nat, message : Sendings(v, type, b)])
      /\ Len(F) = N
  <2>1. \A i \in 1 .. N : M(i - 1) \in Sendings(v, type, b)
    BY <1>1, <1>4
  <2> DEFINE entry(i) == [round |-> round, message |-> M(i - 1)]
  <2>2. \A i \in 1 .. N : entry(i) \in [round : Nat, message : Sendings(v, type, b)]
    BY <2>1
  <2>3. F = [i \in 1 .. N |-> entry(i)]
    BY <1>4
  <2> HIDE DEF entry, F
  <2> QED
    BY <1>1, <2>2, <2>3
<1> HIDE DEF F
<1>6. \A i \in 1 .. Len(F) : F[i].message \in Sendings(v, type, b)
  BY <1>1, <1>4, <1>5
<1>7. ASSUME NEW w \in Sendings(v, type, b)
      PROVE  \E i \in 1 .. Len(F) : F[i].message = w
  <2>1. PICK u \in Nodes : w = M(u)
    BY <1>1
  <2>2. u + 1 \in 1 .. N /\ (u + 1) - 1 = u
    BY <1>1 DEF Nodes
  <2> QED
    BY <1>4, <1>5, <2>1, <2>2
<1>8. Distinct(F)
  <2> SUFFICES ASSUME NEW i \in 1 .. Len(F), NEW j \in 1 .. Len(F),
                      F[i].message = F[j].message
               PROVE  i = j
    BY DEF Distinct
  <2>1. i - 1 = j - 1
    BY <1>3, <1>4, <1>5
  <2> QED
    BY <1>1, <1>5, <2>1
<1> QED
  BY <1>5, <1>6, <1>7, <1>8 DEF Carries, F, V

\* No answer fills no place.
LEMMA FilesNothing ==
    ASSUME NEW round
    PROVE  Filed(<< >>, round) = << >> /\ Carries(<< >>, {})
BY EmptySeq DEF Filed, Carries, Distinct

\* redirectMessagesToQueue.
LEMMA RedirectExtends ==
    ASSUME NEW qs, NEW E, NEW entries \in Seq(E), NEW e \in EdgeTypes, qs[e] \in Seq(E),
           NEW W, Carries(entries, W)
    PROVE  Extended(qs[e], Redirect(qs, entries)[e], e, W)
<1> DEFINE K == { i \in DOMAIN entries : EdgeType(entries[i].message) = e }
           F == FlattenSeq([i \in DOMAIN entries |->
                               IF i \in K THEN << entries[i] >> ELSE << >>])
           p == qs[e]
           q == p \o F
<1>1. Redirect(qs, entries)[e] = q
  <2>1. [i \in DOMAIN entries |-> IF i \in K THEN << entries[i] >> ELSE << >>]
          = [i \in DOMAIN entries |->
                IF EdgeType(entries[i].message) = e THEN << entries[i] >> ELSE << >>]
    OBVIOUS
  <2>2. Redirect(qs, entries)[e] =
           p \o FlattenSeq([i \in DOMAIN entries |->
                IF EdgeType(entries[i].message) = e THEN << entries[i] >> ELSE << >>])
    BY DEF Redirect
  <2> QED
    BY <2>1, <2>2, Zenon
<1>2. F \in Seq(E) /\ \E g : PicksBy(F, entries, K, g)
  BY FlattenSeqOfSome
<1>3. PICK g : PicksBy(F, entries, K, g)
  BY <1>2
<1>4. /\ DOMAIN entries = 1 .. Len(entries)
      /\ \A i \in K : i \in 1 .. Len(entries) /\ EdgeType(entries[i].message) = e
  BY LenProperties
<1> HIDE DEF F, K
<1>5. /\ \A j \in 1 .. Len(F) : F[j] = entries[g[j]] /\ g[j] \in K
      /\ \A j, k \in 1 .. Len(F) : g[j] = g[k] => j = k
      /\ \A i \in K : \E j \in 1 .. Len(F) : g[j] = i
  BY <1>3 DEF PicksBy
<1>6. /\ Len(p) \in Nat /\ Len(F) \in Nat /\ Len(q) = Len(p) + Len(F)
      /\ \A j \in 1 .. Len(p) : q[j] = p[j]
      /\ \A j \in 1 .. Len(q) : j > Len(p) => q[j] = F[j - Len(p)]
  BY <1>2, ConcatProperties, LenProperties
<1> HIDE DEF p, q
<1>7. \A j \in 1 .. Len(q) : j > Len(p) => /\ j - Len(p) \in 1 .. Len(F)
                                          /\ q[j] = entries[g[j - Len(p)]]
                                          /\ g[j - Len(p)] \in K
  BY <1>5, <1>6
<1>8. \A j \in 1 .. Len(q) : j > Len(p) => q[j].message \in W /\ EdgeType(q[j].message) = e
  BY <1>4, <1>7 DEF Carries
<1>9. ASSUME NEW w \in W, EdgeType(w) = e
      PROVE  \E j \in 1 .. Len(q) : q[j].message = w
  <2>1. PICK i \in 1 .. Len(entries) : entries[i].message = w
    BY DEF Carries
  <2>2. i \in K
    BY <1>4, <1>9, <2>1 DEF K
  <2>3. PICK j \in 1 .. Len(F) : g[j] = i
    BY <1>5, <2>2
  <2>4. /\ Len(p) + j \in 1 .. Len(q) /\ Len(p) + j > Len(p)
        /\ (Len(p) + j) - Len(p) = j
    BY <1>6
  <2>5. q[Len(p) + j] = entries[i]
    BY <1>7, <2>3, <2>4
  <2> QED
    BY <2>1, <2>4, <2>5
<1>10. ASSUME NEW j \in 1 .. Len(q), NEW k \in 1 .. Len(q), j > Len(p), k > Len(p),
              q[j].message = q[k].message
       PROVE  j = k
  <2>1. g[j - Len(p)] = g[k - Len(p)]
    <3> DEFINE a == g[j - Len(p)]
               c == g[k - Len(p)]
    <3>1. a \in K /\ c \in K /\ q[j] = entries[a] /\ q[k] = entries[c]
      BY <1>7, <1>10
    <3>2. a \in 1 .. Len(entries) /\ c \in 1 .. Len(entries)
      BY <1>4, <3>1
    <3>3. entries[a].message = entries[c].message
      BY <1>10, <3>1
    <3> HIDE DEF a, c
    <3>4. a = c
      BY <3>2, <3>3 DEF Carries, Distinct
    <3> QED
      BY <3>4 DEF a, c
  <2>2. j - Len(p) = k - Len(p)
    BY <1>5, <1>7, <1>10, <2>1
  <2> QED
    BY <1>6, <2>2
<1>11. Extended(p, q, e, W)
  <2>1. Len(p) <= Len(q) /\ Len(q) \in Nat
    BY <1>6
  <2> QED
    BY <1>6, <1>8, <1>9, <1>10, <2>1 DEF Extended
<1> QED
  BY <1>1, <1>11 DEF p, q
-----------------------------------------------------------------------------
\* A settled vote does nothing (HonestNode::handleVote).
LEMMA SettledIsIdle ==
    ASSUME NEW r, IsReplica(r), NEW m, Settled(r, m)
    PROVE  HandleVote(r, m) = r
<1>1. CASE ~CountsVote(r, m)
  BY <1>1 DEF HandleVote
<1>2. CASE CountsVote(r, m)
  <2> DEFINE x == r.votes \cup {<<EpochOf(m.block), m.from>>}
             Q == IsQuorum({ v \in Nodes : <<EpochOf(m.block), v>> \in x })
             u == Notarize(r.tree, m.block)
             s == HandleVote(r, m)
  <2>1. s = [tree |-> (IF Q THEN u ELSE r.tree), proposedBlocks |-> r.proposedBlocks,
             votes |-> x]
    BY <1>2, HandleVoteFields
  <2>2. x = r.votes /\ ~IsQuorum({ v \in Nodes : <<EpochOf(m.block), v>> \in r.votes })
    BY <1>2 DEF Settled, Voters
  <2>3. ~Q
    BY <2>2
  <2> HIDE DEF x, Q, u, s
  <2>4. s = [tree |-> r.tree, proposedBlocks |-> r.proposedBlocks, votes |-> r.votes]
    BY <2>1, <2>2, <2>3
  <2>5. s = r
    BY <2>4 DEF IsReplica
  <2> QED
    BY <2>5 DEF s
<1> QED
  BY <1>1, <1>2

\* Counting a vote settles it and leaves settled what was.
LEMMA SettledByVote ==
    ASSUME NEW r, ReplicaInv(r), NEW m \in Message, NEW x, x = m \/ Settled(r, x)
    PROVE  Settled(HandleVote(r, m), x)
<1> DEFINE s == HandleVote(r, m)
           t == r.tree
           b == m.block
           e == EpochOf(m.block)
           c == EpochOf(x.block)
<1>1. /\ s.proposedBlocks = r.proposedBlocks
      /\ DOMAIN s.tree.hbMapping = DOMAIN t.hbMapping
      /\ \A k \in DOMAIN t.hbMapping :
            t.hbMapping[k] # "PRESENT" => s.tree.hbMapping[k] # "PRESENT"
  BY HandleVoteInv
<1> HIDE DEF s
<1>2. SUFFICES ASSUME CountsVote(s, x)
               PROVE  <<c, x.from>> \in s.votes /\ ~IsQuorum(Voters(s, c))
  BY DEF Settled, s
<1>3. CountsVote(r, x)
  BY <1>1, <1>2 DEF CountsVote, IsPresent
<1>4. CASE ~CountsVote(r, m)
  <2>1. s = r /\ Settled(r, x)
    BY <1>3, <1>4 DEF HandleVote, s
  <2> QED
    BY <1>3, <2>1 DEF Settled
<1>5. CASE CountsVote(r, m)
  <2> DEFINE votes == r.votes \cup {<<e, m.from>>}
             Q == IsQuorum({ v \in Nodes : <<e, v>> \in votes })
             u == Notarize(t, b)
  <2>1. s = [tree |-> (IF Q THEN u ELSE t), proposedBlocks |-> r.proposedBlocks,
             votes |-> votes]
    BY <1>5, HandleVoteFields DEF ReplicaInv, s
  <2>2. u.hbMapping[b] = "NOTARIZED"
    <3>1. TreeInv(t) /\ b \in DOMAIN t.hbMapping /\ t.hbMapping[b] = "PRESENT"
      BY <1>5 DEF CountsVote, IsPresent, ReplicaInv
    <3> HIDE DEF t, b
    <3> QED
      BY <3>1, NotarizeInv
  <2>3. Q => s.tree = u
    <3> HIDE DEF u, Q, votes
    <3> QED
      BY <2>1
  <2>4. s.votes = votes
    <3> HIDE DEF u, Q, votes
    <3> QED
      BY <2>1
  <2> HIDE DEF u, t
  <2>5. CASE c = e
    <3>1. x.block = b
      BY <1>3, <1>5, <2>5 DEF CountsVote
    <3>2. ~Q
      BY <1>2, <2>2, <2>3, <3>1 DEF CountsVote
    <3>3. Voters(s, c) = { v \in Nodes : <<e, v>> \in votes }
      BY <2>4, <2>5 DEF Voters
    <3>4. <<c, x.from>> \in s.votes
      <4>1. CASE x = m
        BY <2>4, <4>1
      <4>2. CASE Settled(r, x)
        BY <1>3, <2>4, <4>2 DEF Settled
      <4> QED
        BY <4>1, <4>2
    <3> QED
      BY <3>2, <3>3, <3>4
  <2>6. CASE c # e
    <3>1. Settled(r, x)
      BY <2>6
    <3>2. Voters(s, c) = Voters(r, c)
      <4>1. \A v : <<c, v>> # <<e, m.from>>
        BY <2>6
      <4> HIDE DEF c, e
      <4> QED
        BY <2>4, <4>1 DEF Voters
    <3> QED
      BY <1>3, <2>4, <3>1, <3>2 DEF Settled
  <2> QED
    BY <2>5, <2>6
<1> QED
  BY <1>4, <1>5

\* So does recording a proposal of another epoch.
LEMMA SettledByProposal ==
    ASSUME NEW r, ReplicaInv(r), NEW block \in Hash,
           EpochOf(block) \notin DOMAIN r.proposedBlocks,
           NEW x, EpochOf(x.block) \in DOMAIN r.proposedBlocks, Settled(r, x)
    PROVE  Settled(RecordProposal(r, block), x)
<1> DEFINE s == RecordProposal(r, block)
<1>1. /\ s.votes = r.votes
      /\ \A e \in DOMAIN r.proposedBlocks : s.proposedBlocks[e] = r.proposedBlocks[e]
      /\ \A b \in DOMAIN s.tree.hbMapping :
            IF b \in DOMAIN r.tree.hbMapping
            THEN s.tree.hbMapping[b] = r.tree.hbMapping[b]
            ELSE s.tree.hbMapping[b] = "PRESENT"
      /\ DOMAIN r.tree.hbMapping \subseteq DOMAIN s.tree.hbMapping
  BY RecordProposalInv
<1>2. \A b \in DOMAIN s.tree.hbMapping : b = block \/ b \in DOMAIN r.tree.hbMapping
  <2>1. CASE IsPresent(r.tree, ParentHash(block))
    <3>1. s.tree = AddBlock(r.tree, block)
      BY <2>1, RecordProposalFields DEF ReplicaInv
    <3>2. IsTree(r.tree)
      BY DEF ReplicaInv, IsReplica
    <3>3. s.tree.hbMapping = TryEmplace(r.tree.hbMapping, block, "PRESENT")
      <4> HIDE DEF s
      <4> QED
        BY <3>1, <3>2, AddBlockFields
    <3> HIDE DEF s
    <3> QED
      BY <3>3 DEF TryEmplace
  <2>2. CASE ~IsPresent(r.tree, ParentHash(block))
    BY <2>2, RecordProposalFields DEF ReplicaInv
  <2> QED
    BY <2>1, <2>2
<1> HIDE DEF s
<1>3. SUFFICES ASSUME CountsVote(s, x)
               PROVE  /\ <<EpochOf(x.block), x.from>> \in s.votes
                      /\ ~IsQuorum(Voters(s, EpochOf(x.block)))
  BY DEF Settled, s
<1>4. x.block # block
  OBVIOUS
<1>5. CountsVote(r, x)
  BY <1>1, <1>2, <1>3, <1>4 DEF CountsVote, IsPresent
<1> QED
  BY <1>1, <1>5 DEF Settled, Voters

\* So it stays settled, whatever the node receives.
LEMMA SettledStays ==
    ASSUME NEW r, ReplicaInv(r), NEW m \in Message, NEW x,
           EpochOf(x.block) \in DOMAIN r.proposedBlocks, Settled(r, x)
    PROVE  Settled(Handled(r, m), x)
<1>1. m.block \in Hash
  BY DEF Message
<1>2. CASE m.type # "PROPOSAL"
  BY <1>2, SettledByVote DEF Handled
<1>3. CASE m.type = "PROPOSAL" /\ AcceptsProposal(r, m)
  BY <1>1, <1>3, SettledByProposal DEF Handled, AcceptsProposal
<1>4. CASE m.type = "PROPOSAL" /\ ~AcceptsProposal(r, m)
  BY <1>4 DEF Handled
<1> QED
  BY <1>2, <1>3, <1>4

\* Delivering it again does nothing.
LEMMA SpentIsIdle ==
    ASSUME DishonestCount = 0, NodesInv(honest, dishonest, sent), NEW m, SpentBy(honest, m)
    PROVE  /\ SendRec(m).honest = honest /\ SendRec(m).dishonest = dishonest
           /\ SendRec(m).out = << >>
<1>1. /\ SendRec(m).dishonest = dishonest
      /\ SendRec(m).honest = IF m.to \in HonestNodes
                             THEN [honest EXCEPT ![m.to] = Handled(honest[m.to], m)]
                             ELSE honest
      /\ \/ SendRec(m).out = << >>
         \/ /\ m.to \in HonestNodes /\ m.type = "PROPOSAL"
            /\ AcceptsProposal(honest[m.to], m)
  BY DeliveryAmongHonest
<1>2. CASE m.to \in HonestNodes
  <2>1. ~AcceptsProposal(honest[m.to], m)
    BY <1>2 DEF SpentBy, OpenedBy, AcceptsProposal
  <2>2. IsReplica(honest[m.to]) /\ honest = [v \in HonestNodes |-> honest[v]]
    BY <1>2 DEF NodesInv, ReplicaInv
  <2>3. Handled(honest[m.to], m) = honest[m.to]
    BY <1>2, <2>1, <2>2, SettledIsIdle DEF Handled, SpentBy
  <2>4. [honest EXCEPT ![m.to] = honest[m.to]] = honest
    BY <1>2, <2>2
  <2> QED
    BY <1>1, <1>2, <2>1, <2>3, <2>4
<1>3. CASE m.to \notin HonestNodes
  BY <1>1, <1>3
<1> QED
  BY <1>2, <1>3
-----------------------------------------------------------------------------
(* What a step does to the queues. *)

\* Each queue e loses its first D[e] entries, at most one, and gets the messages
\* of W of its two sides at its end.
QueuesMove(D, W) ==
    \A e \in EdgeTypes :
        /\ Len(queues[e]) \in Nat /\ Len(queues'[e]) \in Nat /\ D[e] \in 0 .. 1
        /\ \A j \in 1 .. Len(queues[e]) :
              j > D[e] => /\ j - D[e] \in 1 .. Len(queues'[e])
                          /\ queues'[e][j - D[e]] = queues[e][j]
        /\ \A k \in 1 .. Len(queues'[e]) :
              \/ /\ k + D[e] \in 1 .. Len(queues[e])
                 /\ queues'[e][k] = queues[e][k + D[e]]
              \/ /\ k > Len(queues[e]) - D[e]
                 /\ queues'[e][k].message \in W /\ EdgeType(queues'[e][k].message) = e
        /\ \A w \in W : EdgeType(w) = e =>
              \E k \in 1 .. Len(queues'[e]) : queues'[e][k].message = w
        /\ \A j, k \in 1 .. Len(queues'[e]) :
              /\ j > Len(queues[e]) - D[e] /\ k > Len(queues[e]) - D[e]
              /\ queues'[e][j].message = queues'[e][k].message
              => j = k

\* No queue loses anything, or the one being emptied does.
None == [e \in EdgeTypes |-> 0]
One  == [e \in EdgeTypes |-> IF e = pc THEN 1 ELSE 0]

\* qs are the queues without what they lose.
Shorter(D, qs) ==
    \A e \in EdgeTypes : /\ D[e] \in 0 .. 1 /\ D[e] <= Len(queues[e])
                         /\ qs[e] \in Seq(Holdable(e))
                         /\ Len(qs[e]) = Len(queues[e]) - D[e]
                         /\ \A j \in 1 .. Len(qs[e]) : qs[e][j] = queues[e][j + D[e]]

\* redirectMessagesToQueue moves the queues in this way.
LEMMA RedirectMoves ==
    ASSUME PartitionInv, NEW E, NEW entries \in Seq(E), NEW W, Carries(entries, W),
           NEW D, NEW qs, queues' = Redirect(qs, entries), Shorter(D, qs)
    PROVE  QueuesMove(D, W)
<1> SUFFICES ASSUME NEW e \in EdgeTypes
             PROVE
        /\ Len(queues[e]) \in Nat /\ Len(queues'[e]) \in Nat /\ D[e] \in 0 .. 1
        /\ \A j \in 1 .. Len(queues[e]) :
              j > D[e] => /\ j - D[e] \in 1 .. Len(queues'[e])
                          /\ queues'[e][j - D[e]] = queues[e][j]
        /\ \A k \in 1 .. Len(queues'[e]) :
              \/ /\ k + D[e] \in 1 .. Len(queues[e])
                 /\ queues'[e][k] = queues[e][k + D[e]]
              \/ /\ k > Len(queues[e]) - D[e]
                 /\ queues'[e][k].message \in W /\ EdgeType(queues'[e][k].message) = e
        /\ \A w \in W : EdgeType(w) = e =>
              \E k \in 1 .. Len(queues'[e]) : queues'[e][k].message = w
        /\ \A j, k \in 1 .. Len(queues'[e]) :
              /\ j > Len(queues[e]) - D[e] /\ k > Len(queues[e]) - D[e]
              /\ queues'[e][j].message = queues'[e][k].message
              => j = k
  BY DEF QueuesMove
<1> DEFINE p == qs[e]
           q == queues'[e]
           d == D[e]
           n == Len(queues[e])
<1>1. Extended(p, q, e, W)
  <2> DEFINE B == Holdable(e) \cup E
  <2>1. p \in Seq(B) /\ entries \in Seq(B)
    BY SeqWiden DEF Shorter
  <2> QED
    BY <2>1, RedirectExtends DEF Shorter
<1>2. n \in Nat /\ d \in 0 .. 1 /\ d <= n /\ Len(p) = n - d
      /\ \A j \in 1 .. Len(p) : p[j] = queues[e][j + d]
  BY LenProperties DEF PartitionInv, QueuesInv, Shorter
<1> HIDE DEF p, q, d, n
<1>3. /\ Len(q) \in Nat /\ n - d <= Len(q)
      /\ \A j \in 1 .. n - d : q[j] = queues[e][j + d]
      /\ \A j \in 1 .. Len(q) : j > n - d => q[j].message \in W /\ EdgeType(q[j].message) = e
      /\ \A w \in W : EdgeType(w) = e => \E j \in 1 .. Len(q) : q[j].message = w
      /\ \A j, k \in 1 .. Len(q) :
            j > n - d /\ k > n - d /\ q[j].message = q[k].message => j = k
  BY <1>1, <1>2 DEF Extended
<1>4. \A j \in 1 .. n : j > d => j - d \in 1 .. Len(q) /\ q[j - d] = queues[e][j]
  <2> SUFFICES ASSUME NEW j \in 1 .. n, j > d
               PROVE  j - d \in 1 .. Len(q) /\ q[j - d] = queues[e][j]
    OBVIOUS
  <2>1. j - d \in 1 .. n - d /\ (j - d) + d = j /\ j - d \in 1 .. Len(q)
    BY <1>2, <1>3
  <2> QED
    BY <1>3, <2>1
<1>5. \A k \in 1 .. Len(q) :
         \/ k + d \in 1 .. n /\ q[k] = queues[e][k + d]
         \/ k > n - d /\ q[k].message \in W /\ EdgeType(q[k].message) = e
  <2> SUFFICES ASSUME NEW k \in 1 .. Len(q), ~(k > n - d)
               PROVE  k + d \in 1 .. n /\ q[k] = queues[e][k + d]
    BY <1>3
  <2>1. k \in 1 .. n - d /\ k + d \in 1 .. n
    BY <1>2, <1>3
  <2> QED
    BY <1>3, <2>1
<1> QED
  BY <1>2, <1>3, <1>4, <1>5 DEF q, d, n

\* What it means that no queue loses anything.
LEMMA NoneLost ==
    ASSUME PartitionInv
    PROVE  \A e \in EdgeTypes :
              /\ None[e] = 0 /\ Len(queues[e]) \in Nat /\ queues[e] \in Seq(Holdable(e))
              /\ None[e] \in 0 .. 1 /\ None[e] <= Len(queues[e])
              /\ Len(queues[e]) = Len(queues[e]) - None[e]
              /\ \A j \in 1 .. Len(queues[e]) : queues[e][j] = queues[e][j + None[e]]
<1> SUFFICES ASSUME NEW e \in EdgeTypes
             PROVE  /\ None[e] = 0 /\ Len(queues[e]) \in Nat /\ queues[e] \in Seq(Holdable(e))
                    /\ None[e] \in 0 .. 1 /\ None[e] <= Len(queues[e])
                    /\ Len(queues[e]) = Len(queues[e]) - None[e]
                    /\ \A j \in 1 .. Len(queues[e]) : queues[e][j] = queues[e][j + None[e]]
  OBVIOUS
<1>1. queues[e] \in Seq(Holdable(e)) /\ Len(queues[e]) \in Nat /\ None[e] = 0
  BY LenProperties DEF PartitionInv, QueuesInv, None
<1> QED
  BY <1>1

\* broadcastTime: the leader's proposals are filed, if any.
LEMMA BroadcastMoves ==
    ASSUME DishonestCount = 0, PartitionInv, BroadcastTime
    PROVE  \E W : /\ QueuesMove(None, W) /\ sent' = sent \cup W
                  /\ \/ W = {}
                     \/ /\ IsEpochStart(time)
                        /\ \E v \in HonestNodes : \E b :
                              /\ v = GetLeader(GetEpoch(time))
                              /\ W = Sendings(v, "PROPOSAL", b)
                              /\ ParentHash(b) = honest[v].tree.deepestNotarized
                              /\ \A w \in W : EpochOf(w.block) = GetEpoch(time)
<1>1. PICK payload \in Draws :
          LET answers == { v \in Nodes : AtTime(v, payload) # << >> }
          IN  \/ /\ answers = {}
                 /\ UNCHANGED <<queues, sent>>
              \/ \E v \in answers : \E messages \in {Vector(walk, AtTime(v, payload))} :
                    /\ queues' = Redirect(queues, Filed(messages, time))
                    /\ sent' = sent \cup Messages(AtTime(v, payload))
  BY DEF BroadcastTime
<1> DEFINE out(v) == AtTime(v, payload)
           Goal(W) == /\ QueuesMove(None, W) /\ sent' = sent \cup W
                      /\ \/ W = {}
                         \/ /\ IsEpochStart(time)
                            /\ \E v \in HonestNodes : \E b :
                                  /\ v = GetLeader(GetEpoch(time))
                                  /\ W = Sendings(v, "PROPOSAL", b)
                                  /\ ParentHash(b) = honest[v].tree.deepestNotarized
                                  /\ \A w \in W : EpochOf(w.block) = GetEpoch(time)
<1>2. \/ sent' = sent /\ queues' = queues
      \/ \E v \in Nodes : /\ out(v) # << >>
                          /\ queues' = Redirect(queues, Filed(Vector(walk, out(v)), time))
                          /\ sent' = sent \cup Messages(out(v))
  BY <1>1
<1>3. time \in Nat
  BY PartitionInvFacts
<1>5. CASE sent' = sent /\ queues' = queues
  <2>1. QueuesMove(None, {})
    BY <1>5, NoneLost DEF QueuesMove
  <2>2. Goal({})
    BY <1>5, <2>1
  <2> HIDE DEF Goal
  <2>3. \E W : Goal(W)
    BY <2>2
  <2> QED
    BY <2>3 DEF Goal
<1>6. ASSUME NEW v \in Nodes, out(v) # << >>,
             queues' = Redirect(queues, Filed(Vector(walk, out(v)), time)),
             sent' = sent \cup Messages(out(v))
      PROVE  \E W : Goal(W)
  <2>1. /\ v \in HonestNodes /\ IsEpochStart(time) /\ GetLeader(GetEpoch(time)) = v
        /\ \E b : /\ out(v) = << Envelope(v, Nodes, "PROPOSAL", b) >>
                  /\ ParentHash(b) = honest[v].tree.deepestNotarized
    BY <1>3, <1>6, ProposalOnDeepest DEF PartitionInv
  <2>2. PICK b : /\ out(v) = << Envelope(v, Nodes, "PROPOSAL", b) >>
                 /\ ParentHash(b) = honest[v].tree.deepestNotarized
    BY <2>1
  <2> DEFINE W == Sendings(v, "PROPOSAL", b)
             F == Filed(Vector(walk, out(v)), time)
  <2>3. Messages(out(v)) = W
    BY <2>2, MessagesOfBroadcast
  <2>4. \A w \in W : EpochOf(w.block) = GetEpoch(time)
    <3>1. \A w \in Messages(out(v)) : EpochOf(w.block) = GetEpoch(time)
      BY <1>3, Announcement DEF PartitionInv, FieldsInv
    <3> QED
      BY <2>3, <3>1
  <2>5. F \in Seq([round : Nat, message : W]) /\ Carries(F, W)
    BY <1>3, <2>1, <2>2, FilesBroadcast
  <2> HIDE DEF F, W
  <2>6. QueuesMove(None, W)
    <3>1. queues' = Redirect(queues, F)
      BY <1>6 DEF F
    <3>2. Shorter(None, queues)
      BY NoneLost DEF Shorter
    <3> DEFINE E == [round : Nat, message : W]
    <3>3. F \in Seq(E)
      BY <2>5
    <3> HIDE DEF E
    <3> QED
      BY <2>5, <3>1, <3>2, <3>3, RedirectMoves
  <2>7. Goal(W)
    BY <1>6, <2>1, <2>2, <2>3, <2>4, <2>6 DEF W
  <2> HIDE DEF Goal
  <2> QED
    BY <2>7
<1> HIDE DEF Goal, out
<1>7. \E W : Goal(W)
  BY <1>2, <1>5, <1>6 DEF Goal
<1> QED
  BY <1>7 DEF Goal

\* At the end of beforeAndAfter what was deferred is filed.
LEMMA EndPassMoves ==
    ASSUME PartitionInv, Distinct(deferred), EndPass
    PROVE  QueuesMove(None, { deferred[i].message : i \in 1 .. Len(deferred) })
<1> DEFINE W == { deferred[i].message : i \in 1 .. Len(deferred) }
<1>1. Carries(deferred, W)
  BY DEF Carries
<1>2. deferred \in Seq(Deferrable) /\ queues' = Redirect(queues, deferred)
  BY DEF PartitionInv, QueuesInv, EndPass
<1>3. Shorter(None, queues)
  BY NoneLost DEF Shorter
<1> HIDE DEF W
<1>4. QueuesMove(None, W)
  BY <1>1, <1>2, <1>3, RedirectMoves
<1> QED
  BY <1>4 DEF W

\* The queue being emptied loses its head.
LEMMA OneLost ==
    ASSUME PartitionInv, Pop
    PROVE  \A e \in EdgeTypes :
              /\ One[e] \in 0 .. 1 /\ One[e] <= Len(queues[e]) /\ Len(queues[e]) \in Nat
              /\ Popped[e] \in Seq(Holdable(e))
              /\ Len(Popped[e]) = Len(queues[e]) - One[e]
              /\ \A j \in 1 .. Len(Popped[e]) : Popped[e][j] = queues[e][j + One[e]]
<1> SUFFICES ASSUME NEW e \in EdgeTypes
             PROVE  /\ One[e] \in 0 .. 1 /\ One[e] <= Len(queues[e]) /\ Len(queues[e]) \in Nat
                    /\ Popped[e] \in Seq(Holdable(e))
                    /\ Len(Popped[e]) = Len(queues[e]) - One[e]
                    /\ \A j \in 1 .. Len(Popped[e]) : Popped[e][j] = queues[e][j + One[e]]
  OBVIOUS
<1> DEFINE q == queues[e]
<1>1. /\ pc \in EdgeTypes /\ queues[pc] # << >> /\ q \in Seq(Holdable(e))
      /\ queues = [x \in EdgeTypes |-> queues[x]]
  BY DEF Pop, Emptying, PartitionInv, QueuesInv, FieldsInv
<1>2. CASE e = pc
  <2>1. Popped[e] = Tail(q) /\ One[e] = 1 /\ q # << >>
    BY <1>1, <1>2 DEF Popped, One
  <2>2. /\ Tail(q) \in Seq(Holdable(e)) /\ Len(Tail(q)) = Len(q) - 1
        /\ \A j \in 1 .. Len(Tail(q)) : Tail(q)[j] = q[j + 1]
        /\ Len(q) \in Nat /\ Len(q) >= 1
    <3> HIDE DEF q
    <3> QED
      BY <1>1, <2>1, HeadTailProperties, EmptySeq, LenProperties
  <2> QED
    BY <2>1, <2>2
<1>3. CASE e # pc
  <2>1. Popped[e] = q /\ One[e] = 0 /\ Len(q) \in Nat
    BY <1>1, <1>3, LenProperties DEF Popped, One
  <2> HIDE DEF q
  <2>2. \A j \in 1 .. Len(q) : q[j] = q[j + 0]
    BY <2>1
  <2> QED
    BY <1>1, <2>1, <2>2 DEF q
<1> QED
  BY <1>2, <1>3

\* Action::onPop: the receiver's votes are filed, if any, or the message is
\* deferred.
LEMMA PopMoves ==
    ASSUME DishonestCount = 0, PartitionInv, Pop
    PROVE  LET m == Entry.message
           IN  \E W : /\ QueuesMove(One, W) /\ sent' = sent \cup W
                      /\ \/ W = {}
                         \/ /\ m.to \in HonestNodes /\ m.type = "PROPOSAL"
                            /\ AcceptsProposal(honest[m.to], m)
                            /\ W = Sendings(m.to, "VOTE", m.block)
                      /\ \/ deferred' = deferred
                         \/ /\ W = {}
                            /\ deferred' = Append(deferred, [round   |-> Entry.round + 1,
                                                             message |-> m])
<1> DEFINE m == Entry.message
           out == SendRec(m).out
           Goal(W) == /\ QueuesMove(One, W) /\ sent' = sent \cup W
                      /\ \/ W = {}
                         \/ /\ m.to \in HonestNodes /\ m.type = "PROPOSAL"
                            /\ AcceptsProposal(honest[m.to], m)
                            /\ W = Sendings(m.to, "VOTE", m.block)
                      /\ \/ deferred' = deferred
                         \/ /\ W = {}
                            /\ deferred' = Append(deferred, [round   |-> Entry.round + 1,
                                                             message |-> m])
<1>1. /\ time \in Nat /\ Entry.round \in Nat
      /\ Entry = [round |-> Entry.round, message |-> m]
  BY PartitionInvFacts, EntryHoldable
<1>2. \/ /\ sent' = sent \cup Messages(out) /\ deferred' = deferred
         /\ \E messages \in {Vector(walk, out)} :
               queues' = Redirect(Popped, Filed(messages, Entry.round + 1))
      \/ /\ sent' = sent /\ queues' = Popped
         /\ deferred' = Append(deferred, [Entry EXCEPT !.round = @ + 1])
  <2> HIDE DEF m
  <2> QED
    BY DEF Pop, OnPop, m
<1>3. [Entry EXCEPT !.round = @ + 1] = [round |-> Entry.round + 1, message |-> m]
  BY <1>1
<1>4. \/ out = << >>
      \/ /\ m.to \in HonestNodes /\ m.type = "PROPOSAL"
         /\ AcceptsProposal(honest[m.to], m)
         /\ out = << Envelope(m.to, Nodes, "VOTE", m.block) >>
  <2> HIDE DEF m
  <2> QED
    BY DeliveryAmongHonest
<1> HIDE DEF m, out
<1>5. ASSUME queues' = Popped PROVE QueuesMove(One, {})
  <2> SUFFICES ASSUME NEW e \in EdgeTypes
               PROVE
        /\ Len(queues[e]) \in Nat /\ Len(queues'[e]) \in Nat /\ One[e] \in 0 .. 1
        /\ \A j \in 1 .. Len(queues[e]) :
              j > One[e] => /\ j - One[e] \in 1 .. Len(queues'[e])
                            /\ queues'[e][j - One[e]] = queues[e][j]
        /\ \A k \in 1 .. Len(queues'[e]) :
              /\ k + One[e] \in 1 .. Len(queues[e])
              /\ queues'[e][k] = queues[e][k + One[e]]
              /\ ~(k > Len(queues[e]) - One[e])
    BY DEF QueuesMove
  <2> DEFINE p == Popped[e]
             d == One[e]
             n == Len(queues[e])
  <2>1. /\ d \in 0 .. 1 /\ d <= n /\ n \in Nat /\ Len(p) = n - d
        /\ \A j \in 1 .. Len(p) : p[j] = queues[e][j + d]
    BY OneLost
  <2>2. queues'[e] = p
    BY <1>5
  <2> HIDE DEF p, d, n
  <2>3. \A j \in 1 .. n : j > d => j - d \in 1 .. n - d /\ (j - d) + d = j
    BY <2>1
  <2>4. \A k \in 1 .. n - d : k + d \in 1 .. n /\ ~(k > n - d)
    BY <2>1
  <2>5. \A j \in 1 .. n : j > d => j - d \in 1 .. Len(p) /\ p[j - d] = queues[e][j]
    BY <2>1, <2>3
  <2> QED
    BY <2>1, <2>2, <2>4, <2>5 DEF d, n
<1>6. CASE queues' = Popped /\ sent' = sent
           /\ deferred' = Append(deferred, [Entry EXCEPT !.round = @ + 1])
  <2>1. Goal({})
    <3> HIDE DEF One
    <3> QED
      BY <1>3, <1>5, <1>6
  <2> HIDE DEF Goal
  <2>2. \E W : Goal(W)
    BY <2>1
  <2> QED
    BY <2>2 DEF Goal, m
<1>7. CASE /\ sent' = sent \cup Messages(out) /\ deferred' = deferred
           /\ queues' = Redirect(Popped, Filed(Vector(walk, out), Entry.round + 1))
  <2> DEFINE F == Filed(Vector(walk, out), Entry.round + 1)
             W == Messages(out)
             E == [round : Nat, message : W]
  <2>1. F \in Seq(E) /\ Carries(F, W)
    <3>1. CASE out = << >>
      <4>1. F = << >> /\ W = {}
        BY <3>1, NothingFiled, FilesNothing
      <4>2. << >> \in Seq(E)
        BY EmptySeq
      <4> HIDE DEF F, W, E
      <4> QED
        BY <4>1, <4>2, FilesNothing
    <3>2. CASE m.to \in HonestNodes /\ out = << Envelope(m.to, Nodes, "VOTE", m.block) >>
      <4>1. Entry.round + 1 \in Nat
        BY <1>1
      <4>2. W = Sendings(m.to, "VOTE", m.block)
        BY <3>2, MessagesOfBroadcast
      <4> QED
        BY <3>2, <4>1, <4>2, FilesBroadcast
    <3> QED
      BY <1>4, <3>1, <3>2
  <2>2. W = {} \/ (/\ m.to \in HonestNodes /\ m.type = "PROPOSAL"
                   /\ AcceptsProposal(honest[m.to], m)
                   /\ W = Sendings(m.to, "VOTE", m.block))
    BY <1>4, NothingFiled, MessagesOfBroadcast
  <2>3. queues' = Redirect(Popped, F)
    BY <1>7
  <2>4. Shorter(One, Popped)
    BY OneLost DEF Shorter
  <2>5. sent' = sent \cup W
    BY <1>7
  <2> HIDE DEF F, W, E
  <2>6. QueuesMove(One, W)
    <3>1. F \in Seq(E)
      BY <2>1
    <3>2. Carries(F, W)
      BY <2>1
    <3> QED
      BY <2>3, <2>4, <3>1, <3>2, RedirectMoves
  <2>7. Goal(W)
    BY <1>7, <2>2, <2>5, <2>6
  <2> HIDE DEF Goal
  <2>8. \E X : Goal(X)
    BY <2>7
  <2> QED
    BY <2>8 DEF Goal, m
<1>8. (\E messages \in {Vector(walk, out)} :
          queues' = Redirect(Popped, Filed(messages, Entry.round + 1)))
      => queues' = Redirect(Popped, Filed(Vector(walk, out), Entry.round + 1))
  OBVIOUS
<1> QED
  BY <1>2, <1>6, <1>7, <1>8
-----------------------------------------------------------------------------
(* The invariant where no node is dishonest. *)

\* What is held was sent.
LEMMA HeldFacts ==
    ASSUME PartitionInv
    PROVE  /\ \A e \in EdgeTypes :
                 /\ Len(queues[e]) \in Nat
                 /\ \A j \in 1 .. Len(queues[e]) :
                       queues[e][j].message \in sent /\ EdgeType(queues[e][j].message) = e
           /\ Len(deferred) \in Nat
           /\ \A i \in 1 .. Len(deferred) :
                 deferred[i].message \in sent /\ deferred[i].message.type # "PROPOSAL"
<1>1. ASSUME NEW e \in EdgeTypes
      PROVE  /\ Len(queues[e]) \in Nat
             /\ \A j \in 1 .. Len(queues[e]) :
                   queues[e][j].message \in sent /\ EdgeType(queues[e][j].message) = e
  <2>1. queues[e] \in Seq(Holdable(e))
    BY DEF PartitionInv, QueuesInv
  <2>2. Len(queues[e]) \in Nat /\ \A j \in 1 .. Len(queues[e]) : queues[e][j] \in Holdable(e)
    BY <2>1, ElementOfSeq, LenProperties
  <2> QED
    BY <2>2 DEF Holdable
<1>2. /\ Len(deferred) \in Nat
      /\ \A i \in 1 .. Len(deferred) :
            deferred[i].message \in sent /\ deferred[i].message.type # "PROPOSAL"
  <2>1. deferred \in Seq(Deferrable)
    BY DEF PartitionInv, QueuesInv
  <2>2. Len(deferred) \in Nat /\ \A i \in 1 .. Len(deferred) : deferred[i] \in Deferrable
    BY <2>1, ElementOfSeq, LenProperties
  <2> QED
    BY <2>2 DEF Deferrable
<1> QED
  BY <1>1, <1>2

\* The message being delivered is the first of its queue.
LEMMA EntryFirst ==
    ASSUME PartitionInv, Pop
    PROVE  /\ pc \in EdgeTypes /\ pc' = pc /\ 1 \in 1 .. Len(queues[pc])
           /\ queues[pc][1] = Entry /\ Entry.message \in sent
           /\ EdgeType(Entry.message) = pc
<1>1. /\ pc \in EdgeTypes /\ queues[pc] # << >> /\ pc' = pc
      /\ queues[pc] \in Seq(Holdable(pc))
  BY DEF Pop, Emptying, PartitionInv, QueuesInv
<1>2. queues[pc][1] = Entry /\ Len(queues[pc]) \in Nat /\ Len(queues[pc]) # 0
  BY <1>1, HeadTailProperties, EmptySeq, LenProperties DEF Entry
<1> QED
  BY <1>1, <1>2, EntryHoldable

\* Its delivery has its effect, and that of what was delivered before stays.
LEMMA PopSpends ==
    ASSUME DishonestCount = 0, PartitionInv, OrderInv, ProposalsInv, Pop
    PROVE  /\ \A x : OpenedBy(honest, x) => OpenedBy(honest', x)
           /\ \A x : SpentBy(honest, x) => SpentBy(honest', x)
           /\ SpentBy(honest', Entry.message)
<1> DEFINE m == Entry.message
<1>1. /\ NodesInv(honest, dishonest, sent) /\ honest' = SendRec(m).honest
      /\ m \in sent /\ m \in Message /\ m.block \in Hash
  BY EntryFirst DEF PartitionInv, NodesInv, Message, Pop
<1>2. honest' = IF m.to \in HonestNodes
                THEN [honest EXCEPT ![m.to] = Handled(honest[m.to], m)]
                ELSE honest
  BY <1>1, DeliveryAmongHonest
<1>3. m.type # "PROPOSAL" => OpenedBy(honest, m)
  <2>1. /\ 1 \in 1 .. Len(queues[pc]) /\ queues[pc][1].message = m /\ pc \in EdgeTypes
        /\ ~\E i \in 1 .. 1 - 1 : TRUE
    BY EntryFirst
  <2> HIDE DEF m
  <2> QED
    BY <2>1 DEF OrderInv
<1>4. m.type = "PROPOSAL" => m.from = GetLeader(EpochOf(m.block))
  BY <1>1 DEF ProposalsInv
<1> HIDE DEF m
<1>5. CASE m.to \notin HonestNodes
  BY <1>2, <1>5 DEF OpenedBy, SpentBy, m
<1>6. CASE m.to \in HonestNodes
  <2> DEFINE v == m.to
             r == honest[v]
             s == Handled(r, m)
  <2>1. /\ honest'[v] = s /\ \A x \in HonestNodes : x # v => honest'[x] = honest[x]
        /\ ReplicaInv(r)
    BY <1>1, <1>2, <1>6 DEF NodesInv
  <2>2. DOMAIN r.proposedBlocks \subseteq DOMAIN s.proposedBlocks
    <3>1. m.type # "PROPOSAL" => s.proposedBlocks = r.proposedBlocks
      BY <1>1, <2>1, HandleVoteInv DEF Handled
    <3>2. m.type = "PROPOSAL" /\ AcceptsProposal(r, m) =>
             DOMAIN s.proposedBlocks = DOMAIN r.proposedBlocks \cup {EpochOf(m.block)}
      BY <1>1, <2>1, RecordProposalInv DEF Handled, AcceptsProposal
    <3>3. m.type = "PROPOSAL" /\ ~AcceptsProposal(r, m) => s = r
      BY DEF Handled
    <3> QED
      BY <3>1, <3>2, <3>3
  <2>3. EpochOf(m.block) \in DOMAIN s.proposedBlocks
    <3>1. CASE m.type # "PROPOSAL"
      BY <1>3, <1>6, <2>2, <3>1 DEF OpenedBy
    <3>2. CASE m.type = "PROPOSAL" /\ AcceptsProposal(r, m)
      BY <1>1, <2>1, <3>2, RecordProposalInv DEF Handled, AcceptsProposal
    <3>3. CASE m.type = "PROPOSAL" /\ ~AcceptsProposal(r, m)
      BY <1>4, <2>2, <3>3 DEF AcceptsProposal
    <3> QED
      BY <3>1, <3>2, <3>3
  <2>4. m.type # "PROPOSAL" => Settled(s, m)
    BY <1>1, <2>1, SettledByVote DEF Handled
  <2>5. \A x : EpochOf(x.block) \in DOMAIN r.proposedBlocks /\ Settled(r, x) => Settled(s, x)
    BY <1>1, <2>1, SettledStays
  <2> HIDE DEF s
  <2>6. \A x : OpenedBy(honest, x) => OpenedBy(honest', x)
    BY <2>1, <2>2 DEF OpenedBy
  <2>7. SpentBy(honest', m)
    BY <2>1, <2>3, <2>4 DEF SpentBy, OpenedBy
  <2>8. ASSUME NEW x, SpentBy(honest, x) PROVE SpentBy(honest', x)
    <3>1. CASE x.to = v
      BY <1>6, <2>1, <2>2, <2>5, <2>8, <3>1 DEF SpentBy, OpenedBy
    <3>2. CASE x.to # v
      BY <2>1, <2>8, <3>2 DEF SpentBy, OpenedBy
    <3> QED
      BY <3>1, <3>2
  <2> QED
    BY <2>6, <2>7, <2>8 DEF m
<1> QED
  BY <1>5, <1>6

\* Where new messages are behind all others, none is twice in a queue.
LEMMA MoveDistinct ==
    ASSUME NEW D, NEW W, QueuesMove(D, W),
           \A e \in EdgeTypes : Distinct(queues[e]),
           \A e \in EdgeTypes : \A j \in 1 .. Len(queues[e]) : queues[e][j].message \notin W
    PROVE  \A e \in EdgeTypes : Distinct(queues'[e])
<1> SUFFICES ASSUME NEW e \in EdgeTypes,
                    NEW j \in 1 .. Len(queues'[e]), NEW k \in 1 .. Len(queues'[e]),
                    queues'[e][j].message = queues'[e][k].message
             PROVE  j = k
  BY DEF Distinct
<1> DEFINE Old(i) == /\ i + D[e] \in 1 .. Len(queues[e])
                     /\ queues'[e][i] = queues[e][i + D[e]]
           Fresh(i) == i > Len(queues[e]) - D[e] /\ queues'[e][i].message \in W
<1>1. (Old(j) \/ Fresh(j)) /\ (Old(k) \/ Fresh(k)) /\ D[e] \in 0 .. 1
  BY DEF QueuesMove
<1>2. Fresh(j) /\ Fresh(k) => j = k
  BY DEF QueuesMove
<1>3. Old(j) /\ Old(k) => j + D[e] = k + D[e]
  BY DEF Distinct
<1>4. j + D[e] = k + D[e] => j = k
  <2>1. j \in Int /\ k \in Int /\ D[e] \in Int
    BY <1>1
  <2> QED
    BY <2>1
<1>5. ~(Old(j) /\ Fresh(k)) /\ ~(Fresh(j) /\ Old(k))
  OBVIOUS
<1> HIDE DEF Old, Fresh
<1> QED
  BY <1>1, <1>2, <1>3, <1>4, <1>5

\* A node's votes for a proposal are filed behind the proposal, or the other side
\* gets the proposal before it looks at the queue they are in.
LEMMA PopKeepsOrder ==
    ASSUME DishonestCount = 0, PartitionInv, OrderInv, ProposalsInv, PlacesInv, Pop
    PROVE  OrderInv'
<1> DEFINE m == Entry.message
<1>1. /\ pc \in EdgeTypes /\ pc' = pc /\ queues[pc][1].message = m
      /\ m \in sent /\ EdgeType(m) = pc
  BY EntryFirst
<1>2. /\ \A x : OpenedBy(honest, x) => OpenedBy(honest', x)
      /\ OpenedBy(honest', m)
  BY PopSpends DEF SpentBy
<1>3. PICK W : /\ QueuesMove(One, W)
               /\ \/ W = {}
                  \/ /\ m.to \in HonestNodes /\ m.type = "PROPOSAL"
                     /\ W = Sendings(m.to, "VOTE", m.block)
  BY PopMoves
<1> HIDE DEF m
<1> SUFFICES ASSUME NEW e \in EdgeTypes, NEW k \in 1 .. Len(queues'[e])
             PROVE  \/ queues'[e][k].message.type = "PROPOSAL"
                    \/ OpenedBy(honest', queues'[e][k].message)
                    \/ \E i \in 1 .. k - 1 :
                          Opens(queues'[e][i].message, queues'[e][k].message)
                    \/ /\ pc' \in {"min2maj", "maj2min"} /\ e # pc'
                       /\ \E i \in 1 .. Len(queues'[pc']) :
                             Opens(queues'[pc'][i].message, queues'[e][k].message)
  BY DEF OrderInv, Crossing, EdgeTypes
<1> DEFINE x == queues'[e][k].message
<1>4. \A y : Opens(y, x) /\ OpenedBy(honest', y) => OpenedBy(honest', x)
  BY DEF Opens, OpenedBy
<1>5. /\ One[e] = IF e = pc THEN 1 ELSE 0
      /\ \A f \in EdgeTypes : One[f] = IF f = pc THEN 1 ELSE 0
  BY DEF One
<1>6. ASSUME NEW f \in EdgeTypes, NEW i \in 1 .. Len(queues[f]), Opens(queues[f][i].message, x)
      PROVE  \/ OpenedBy(honest', x)
             \/ /\ i > One[f] /\ i - One[f] \in 1 .. Len(queues'[f])
                /\ Opens(queues'[f][i - One[f]].message, x)
  <2>1. CASE i > One[f]
    <3>1. i - One[f] \in 1 .. Len(queues'[f]) /\ queues'[f][i - One[f]] = queues[f][i]
      BY <1>3, <2>1 DEF QueuesMove
    <3> QED
      BY <1>6, <2>1, <3>1
  <2>2. CASE ~(i > One[f])
    <3>1. f = pc /\ i = 1
      BY <1>5, <2>2
    <3> QED
      BY <1>1, <1>2, <1>4, <1>6, <3>1
  <2> QED
    BY <2>1, <2>2
<1>7. CASE /\ k + One[e] \in 1 .. Len(queues[e])
           /\ queues'[e][k] = queues[e][k + One[e]]
  <2> DEFINE j == k + One[e]
  <2>1. \/ x.type = "PROPOSAL" \/ OpenedBy(honest, x)
        \/ \E i \in 1 .. j - 1 : Opens(queues[e][i].message, x)
        \/ /\ Crossing /\ e # pc
           /\ \E i \in 1 .. Len(queues[pc]) : Opens(queues[pc][i].message, x)
    BY <1>7 DEF OrderInv
  <2>2. j \in Nat /\ k \in Nat /\ Len(queues[e]) \in Nat /\ j <= Len(queues[e])
        /\ One[e] \in 0 .. 1
    BY <1>5, <1>7, HeldFacts
  <2>3. ASSUME NEW i \in 1 .. j - 1, Opens(queues[e][i].message, x)
        PROVE  \/ OpenedBy(honest', x)
               \/ \E l \in 1 .. k - 1 : Opens(queues'[e][l].message, x)
    <3>1. i \in 1 .. Len(queues[e])
      BY <2>2
    <3>2. i - One[e] \in 1 .. Len(queues'[e]) => i - One[e] \in 1 .. k - 1
      BY <2>2
    <3> HIDE DEF x, j
    <3> QED
      BY <1>6, <2>3, <3>1, <3>2
  <2>4. ASSUME Crossing, e # pc, NEW i \in 1 .. Len(queues[pc]),
               Opens(queues[pc][i].message, x)
        PROVE  \/ OpenedBy(honest', x)
               \/ /\ pc' \in {"min2maj", "maj2min"} /\ e # pc'
                  /\ \E l \in 1 .. Len(queues'[pc']) : Opens(queues'[pc'][l].message, x)
    <3>1. \/ OpenedBy(honest', x)
          \/ \E l \in 1 .. Len(queues'[pc]) : Opens(queues'[pc][l].message, x)
      BY <1>1, <1>6, <2>4
    <3> QED
      BY <1>1, <2>4, <3>1 DEF Crossing
  <2> HIDE DEF x, j
  <2> QED
    BY <1>2, <2>1, <2>3, <2>4 DEF x
<1>8. CASE /\ k > Len(queues[e]) - One[e] /\ x \in W /\ EdgeType(x) = e
  <2> DEFINE y == [from |-> m.from, to |-> x.to, type |-> m.type, block |-> m.block]
             f == EdgeType(y)
  <2>1. /\ m.to \in HonestNodes /\ m.type = "PROPOSAL" /\ x.to \in Nodes
        /\ x = [from |-> m.to, to |-> x.to, type |-> "VOTE", block |-> m.block]
    BY <1>3, <1>8 DEF Sendings
  <2>2. /\ y \in sent /\ y.type = "PROPOSAL" /\ y.from = m.from /\ y.to = x.to
        /\ y.block = x.block
    BY <1>1, <2>1 DEF ProposalsInv
  <2> HIDE DEF y
  <2>3. Opens(y, x) /\ f \in EdgeTypes
    BY <2>1, <2>2 DEF Opens, EdgeType, EdgeTypes
  <2>4. OpenedBy(honest, y) \/ \E i \in 1 .. Len(queues[f]) : queues[f][i].message = y
    BY <2>2 DEF ProposalsInv
  <2>5. CASE OpenedBy(honest, y)
    BY <1>2, <1>4, <2>3, <2>5
  <2>6. ASSUME NEW i \in 1 .. Len(queues[f]), queues[f][i].message = y, ~OpenedBy(honest', x)
        PROVE  \/ \E l \in 1 .. k - 1 : Opens(queues'[e][l].message, x)
               \/ /\ pc' \in {"min2maj", "maj2min"} /\ e # pc'
                  /\ \E l \in 1 .. Len(queues'[pc']) : Opens(queues'[pc'][l].message, x)
    <3>1. /\ i > One[f] /\ i - One[f] \in 1 .. Len(queues'[f])
          /\ Opens(queues'[f][i - One[f]].message, x)
      BY <1>6, <2>3, <2>6
    <3>2. CASE f = e
      <4>1. Len(queues[e]) \in Nat /\ One[e] \in 0 .. 1
        BY <1>5, HeldFacts
      <4>2. i - One[e] \in 1 .. k - 1
        BY <1>8, <2>6, <3>1, <3>2, <4>1
      <4> QED
        BY <3>1, <3>2, <4>2
    <3>3. CASE f # e /\ f = pc
      <4>1. pc \in {"min2maj", "maj2min"}
        BY <1>1, <1>8, <2>1, <2>2, <3>3 DEF EdgeType
      <4> QED
        BY <1>1, <3>1, <3>3, <4>1
    <3>4. CASE f # e /\ f # pc
      <4>1. pc \in {"min2maj", "maj2min"} /\ f \in {"min2min", "maj2maj"}
        BY <1>1, <1>8, <2>1, <2>2, <3>4 DEF EdgeType
      <4>2. f = "maj2maj" => pc = "maj2maj"
        BY <2>2, <2>6 DEF PlacesInv
      <4>3. f = "min2min" => pc \in {"maj2maj", "min2min"}
        BY <2>2, <2>6 DEF PlacesInv
      <4> QED
        BY <4>1, <4>2, <4>3
    <3> QED
      BY <3>2, <3>3, <3>4
  <2> QED
    BY <2>4, <2>5, <2>6
<1>9. \/ /\ k + One[e] \in 1 .. Len(queues[e])
         /\ queues'[e][k] = queues[e][k + One[e]]
      \/ /\ k > Len(queues[e]) - One[e] /\ x \in W /\ EdgeType(x) = e
  BY <1>3 DEF QueuesMove
<1> QED
  BY <1>7, <1>8, <1>9

\* A delivery keeps the invariant.
LEMMA PopKeepsIdle ==
    ASSUME DishonestCount = 0, PartitionInv, IdleInv, Pop
    PROVE  IdleInv'
<1> DEFINE m == Entry.message
<1>1. /\ pc \in EdgeTypes /\ pc' = pc /\ queues[pc][1].message = m
      /\ 1 \in 1 .. Len(queues[pc]) /\ m \in sent /\ EdgeType(m) = pc
  BY EntryFirst
<1>2. /\ \A x : OpenedBy(honest, x) => OpenedBy(honest', x)
      /\ \A x : SpentBy(honest, x) => SpentBy(honest', x)
      /\ OpenedBy(honest', m) /\ SpentBy(honest', m)
  BY PopSpends DEF SpentBy, IdleInv
<1>3. PICK W : /\ QueuesMove(One, W) /\ sent' = sent \cup W
               /\ \/ W = {}
                  \/ /\ m.to \in HonestNodes /\ m.type = "PROPOSAL"
                     /\ AcceptsProposal(honest[m.to], m)
                     /\ W = Sendings(m.to, "VOTE", m.block)
               /\ \/ deferred' = deferred
                  \/ /\ W = {}
                     /\ deferred' = Append(deferred, [round   |-> Entry.round + 1,
                                                      message |-> m])
  BY PopMoves
<1>4. /\ delivered' = delivered \cup {m} /\ UNCHANGED <<time, pc, pass>>
      /\ Announced' = Announced
  BY DEF Pop, OnPop, Announced
<1> HIDE DEF m
<1>5. \A w \in W : w.type = "VOTE" /\ w.block = m.block /\ w \notin sent
  <2> SUFFICES ASSUME NEW w \in W PROVE w.type = "VOTE" /\ w.block = m.block /\ w \notin sent
    OBVIOUS
  <2>1. /\ m.to \in HonestNodes /\ AcceptsProposal(honest[m.to], m)
        /\ w.from = m.to /\ w.type = "VOTE" /\ w.block = m.block
    BY <1>3 DEF Sendings
  <2>2. w \notin sent
    BY <2>1 DEF AcceptsProposal, PartitionInv, NodesInv, VotesStand
  <2> QED
    BY <2>1, <2>2
<1>6. ASSUME NEW e \in EdgeTypes, NEW k \in 1 .. Len(queues'[e])
      PROVE  \/ /\ k + One[e] \in 1 .. Len(queues[e])
                /\ queues'[e][k] = queues[e][k + One[e]]
             \/ queues'[e][k].message \in W
  BY <1>3 DEF QueuesMove
<1>7. OrderInv'
  BY PopKeepsOrder DEF IdleInv
<1>8. ProposalsInv'
  <2> SUFFICES ASSUME NEW x \in sent', x.type = "PROPOSAL"
               PROVE  /\ x.from = GetLeader(EpochOf(x.block))
                      /\ \A u \in Nodes :
                            [from |-> x.from, to |-> u, type |-> x.type, block |-> x.block]
                               \in sent'
                      /\ \/ OpenedBy(honest', x)
                         \/ \E i \in 1 .. Len(queues'[EdgeType(x)]) :
                               queues'[EdgeType(x)][i].message = x
    BY DEF ProposalsInv, EdgeType, Nodes
  <2> DEFINE e == EdgeType(x)
  <2>1. x \in sent /\ e \in EdgeTypes
    BY <1>3, <1>5 DEF EdgeType, EdgeTypes
  <2>2. /\ x.from = GetLeader(EpochOf(x.block))
        /\ \A u \in Nodes :
              [from |-> x.from, to |-> u, type |-> x.type, block |-> x.block] \in sent'
    BY <1>3, <2>1 DEF IdleInv, ProposalsInv
  <2>3. ASSUME NEW i \in 1 .. Len(queues[e]), queues[e][i].message = x
        PROVE  \/ OpenedBy(honest', x)
               \/ \E k \in 1 .. Len(queues'[e]) : queues'[e][k].message = x
    <3> HIDE DEF e
    <3>1. CASE i > One[e]
      <4>1. i - One[e] \in 1 .. Len(queues'[e]) /\ queues'[e][i - One[e]] = queues[e][i]
        BY <1>3, <2>1, <3>1 DEF QueuesMove
      <4> QED
        BY <2>3, <4>1
    <3>2. CASE ~(i > One[e])
      <4>1. e = pc /\ i = 1
        BY <2>1, <3>2 DEF One
      <4> QED
        BY <1>1, <1>2, <2>3, <4>1
    <3> QED
      BY <3>1, <3>2
  <2>4. OpenedBy(honest, x) \/ \E i \in 1 .. Len(queues[e]) : queues[e][i].message = x
    BY <2>1 DEF IdleInv, ProposalsInv
  <2> HIDE DEF e
  <2> QED
    BY <1>2, <2>2, <2>3, <2>4 DEF e
<1>9. PlacesInv'
  <2>1. ASSUME NEW e \in EdgeTypes, NEW k \in 1 .. Len(queues'[e]),
               queues'[e][k].message.type = "PROPOSAL"
        PROVE  \E j \in 1 .. Len(queues[e]) : queues[e][j].message.type = "PROPOSAL"
    BY <1>5, <1>6, <2>1
  <2>2. "maj2maj" \in EdgeTypes /\ "min2min" \in EdgeTypes
    BY DEF EdgeTypes
  <2> QED
    BY <1>1, <2>1, <2>2 DEF IdleInv, PlacesInv
<1>10. DeliveredInv'
  <2>1. \A x \in delivered' : x \in sent' /\ SpentBy(honest', x)
    BY <1>1, <1>2, <1>3, <1>4 DEF IdleInv, DeliveredInv
  <2>2. \A i \in 1 .. Len(deferred') : deferred'[i].message \in delivered'
    <3>1. CASE deferred' = deferred
      BY <1>4, <3>1 DEF IdleInv, DeliveredInv
    <3>2. CASE deferred' = Append(deferred, [round |-> Entry.round + 1, message |-> m])
      <4> DEFINE x == [round |-> Entry.round + 1, message |-> m]
                 E == Deferrable \cup {x}
      <4>1. x.message = m /\ x \in E
        OBVIOUS
      <4>2. deferred \in Seq(E)
        BY SeqWiden DEF PartitionInv, QueuesInv
      <4>3. deferred' = Append(deferred, x)
        BY <3>2
      <4> HIDE DEF x, E
      <4>4. /\ Len(deferred') = Len(deferred) + 1 /\ Len(deferred) \in Nat
            /\ \A i \in 1 .. Len(deferred) : deferred'[i] = deferred[i]
            /\ deferred'[Len(deferred) + 1] = x
        BY <4>1, <4>2, <4>3, AppendProperties, LenProperties
      <4> QED
        BY <1>4, <4>1, <4>4 DEF IdleInv, DeliveredInv
    <3> QED
      BY <1>3, <3>1, <3>2
  <2> QED
    BY <2>1, <2>2 DEF DeliveredInv
<1>11. AnnouncedInv'
  BY <1>1, <1>3, <1>4, <1>5 DEF IdleInv, AnnouncedInv, StartOf
<1>12. DistinctInv'
  <2>1. \A e \in EdgeTypes : \A j \in 1 .. Len(queues[e]) : queues[e][j].message \notin W
    BY <1>5, HeldFacts
  <2>2. \A e \in EdgeTypes : Distinct(queues'[e])
    BY <1>3, <2>1, MoveDistinct DEF IdleInv, DistinctInv
  <2>3. CASE deferred' = deferred
    <3>1. ASSUME NEW e \in EdgeTypes, NEW i \in 1 .. Len(deferred),
                 NEW k \in 1 .. Len(queues'[e])
          PROVE  deferred[i].message # queues'[e][k].message
      BY <1>5, <1>6, HeldFacts DEF IdleInv, DistinctInv
    <3> QED
      BY <2>2, <2>3, <3>1 DEF IdleInv, DistinctInv, EdgeTypes
  <2>4. CASE /\ W = {}
             /\ deferred' = Append(deferred, [round |-> Entry.round + 1, message |-> m])
    <3> DEFINE x == [round |-> Entry.round + 1, message |-> m]
               E == Deferrable \cup {x}
               n == Len(deferred)
    <3>1. x.message = m /\ x \in E
      OBVIOUS
    <3>2. deferred \in Seq(E)
      BY SeqWiden DEF PartitionInv, QueuesInv
    <3>3. deferred' = Append(deferred, x)
      BY <2>4
    <3> HIDE DEF x, E
    <3>4. /\ Len(deferred') = n + 1 /\ n \in Nat
          /\ \A i \in 1 .. n : deferred'[i] = deferred[i]
          /\ deferred'[n + 1] = x
      BY <3>1, <3>2, <3>3, AppendProperties, LenProperties
    <3>5. \A i \in 1 .. n : deferred[i].message # m
      BY <1>1 DEF IdleInv, DistinctInv
    <3> HIDE DEF n
    <3>6. \A i \in 1 .. Len(deferred') :
             \/ i \in 1 .. n /\ deferred'[i] = deferred[i]
             \/ i = n + 1 /\ deferred'[i].message = m
      BY <3>1, <3>4
    <3>7. Distinct(deferred')
      BY <3>5, <3>6 DEF IdleInv, DistinctInv, Distinct, n
    <3>8. ASSUME NEW e \in EdgeTypes, NEW k \in 1 .. Len(queues'[e])
          PROVE  /\ queues'[e][k].message # m
                 /\ \A i \in 1 .. n : deferred[i].message # queues'[e][k].message
      <4> DEFINE j == k + One[e]
      <4>1. j \in 1 .. Len(queues[e]) /\ queues'[e][k] = queues[e][j]
        BY <1>6, <2>4
      <4>2. \A i \in 1 .. n : deferred[i].message # queues[e][j].message
        BY <4>1 DEF IdleInv, DistinctInv, n
      <4>3. CASE e = pc
        <5>1. j # 1
          BY <4>3 DEF One
        <5>2. queues[e][j].message # queues[e][1].message
          BY <1>1, <4>1, <4>3, <5>1 DEF IdleInv, DistinctInv, Distinct
        <5> QED
          BY <1>1, <4>1, <4>2, <4>3, <5>2
      <4>4. CASE e # pc
        BY <1>1, <4>1, <4>2, <4>4, HeldFacts
      <4> QED
        BY <4>3, <4>4
    <3>9. \A e \in EdgeTypes : \A i \in 1 .. Len(deferred'), k \in 1 .. Len(queues'[e]) :
             deferred'[i].message # queues'[e][k].message
      BY <3>6, <3>8
    <3> QED
      BY <2>2, <3>7, <3>9 DEF DistinctInv, EdgeTypes
  <2> QED
    BY <1>3, <2>3, <2>4
<1> QED
  BY <1>7, <1>8, <1>9, <1>10, <1>11, <1>12 DEF IdleInv

\* An epoch begins in the round of its announcement.
LEMMA EpochStarts ==
    ASSUME NEW round \in Nat, IsEpochStart(round)
    PROVE  StartOf(GetEpoch(round)) = round
<1>1. EpochLength \in Nat /\ EpochLength > 0 /\ round % EpochLength = 0
  BY CountsAssumption DEF IsEpochStart
<1>2. (round \div EpochLength) * EpochLength = round
  BY <1>1, Z3
<1>3. round \div EpochLength \in Nat
  BY <1>1
<1> DEFINE q == round \div EpochLength
<1>4. GetEpoch(round) = q + 1 /\ q + 1 - 1 = q
  BY <1>3 DEF GetEpoch
<1>5. ASSUME NEW e \in Nat PROVE StartOf(e) = (e - 1) * EpochLength
  BY <1>5, Zenon DEF StartOf
<1> HIDE DEF q
<1>6. GetEpoch(round) \in Nat /\ GetEpoch(round) - 1 = q
  BY <1>3, <1>4 DEF q
<1>7. StartOf(GetEpoch(round)) = q * EpochLength
  BY <1>5, <1>6
<1> QED
  BY <1>2, <1>7 DEF q

\* A step that delivers nothing keeps the order of what it leaves in place, if the
\* queue being emptied does not lead across.
LEMMA MoveKeepsOrder ==
    ASSUME NEW W, QueuesMove(None, W), honest' = honest, OrderInv,
           Crossing => queues[pc] = << >>,
           \A w \in W : w.type = "PROPOSAL" \/ OpenedBy(honest, w)
    PROVE  OrderInv'
<1> SUFFICES ASSUME NEW e \in EdgeTypes, NEW k \in 1 .. Len(queues'[e])
             PROVE  \/ queues'[e][k].message.type = "PROPOSAL"
                    \/ OpenedBy(honest', queues'[e][k].message)
                    \/ \E i \in 1 .. k - 1 :
                          Opens(queues'[e][i].message, queues'[e][k].message)
  BY DEF OrderInv
<1> DEFINE x == queues'[e][k].message
<1>1. /\ None[e] = 0 /\ Len(queues[e]) \in Nat /\ Len(queues'[e]) \in Nat
      /\ \A j \in 1 .. Len(queues[e]) :
            j - 0 \in 1 .. Len(queues'[e]) /\ queues'[e][j - 0] = queues[e][j]
      /\ \/ k + 0 \in 1 .. Len(queues[e]) /\ queues'[e][k] = queues[e][k + 0]
         \/ x \in W
  <2>1. None[e] = 0
    BY DEF None
  <2> QED
    BY <2>1 DEF QueuesMove
<1>2. \/ k \in 1 .. Len(queues[e]) /\ queues'[e][k] = queues[e][k]
      \/ x \in W
  BY <1>1
<1>3. CASE x \in W
  BY <1>3
<1>4. CASE k \in 1 .. Len(queues[e]) /\ queues'[e][k] = queues[e][k]
  <2>1. Crossing => ~\E i \in 1 .. Len(queues[pc]) : TRUE
    BY EmptySeq
  <2>2. \/ x.type = "PROPOSAL" \/ OpenedBy(honest, x)
        \/ \E i \in 1 .. k - 1 : Opens(queues[e][i].message, x)
    BY <1>4, <2>1 DEF OrderInv
  <2>3. ASSUME NEW i \in 1 .. k - 1 PROVE queues'[e][i] = queues[e][i]
    <3>1. i \in 1 .. Len(queues[e]) /\ i - 0 = i
      BY <1>1, <1>4
    <3> QED
      BY <1>1, <3>1
  <2> HIDE DEF x
  <2> QED
    BY <2>2, <2>3 DEF x
<1> QED
  BY <1>2, <1>3, <1>4

\* A step that delivers nothing leaves every proposal where it is.
LEMMA MoveKeepsProposal ==
    ASSUME NEW W, QueuesMove(None, W), NEW x, EdgeType(x) \in EdgeTypes,
           \E i \in 1 .. Len(queues[EdgeType(x)]) : queues[EdgeType(x)][i].message = x
    PROVE  \E i \in 1 .. Len(queues'[EdgeType(x)]) : queues'[EdgeType(x)][i].message = x
<1> DEFINE e == EdgeType(x)
<1>1. PICK i \in 1 .. Len(queues[e]) : queues[e][i].message = x
  OBVIOUS
<1> HIDE DEF e
<1>2. None[e] = 0 /\ e \in EdgeTypes
  BY DEF None, e
<1>3. i > None[e] /\ i - None[e] = i
  <2>1. Len(queues[e]) \in Nat
    BY <1>2 DEF QueuesMove
  <2> QED
    BY <1>2, <2>1
<1>4. i \in 1 .. Len(queues'[e]) /\ queues'[e][i] = queues[e][i]
  <2>1. i - None[e] \in 1 .. Len(queues'[e]) /\ queues'[e][i - None[e]] = queues[e][i]
    BY <1>2, <1>3 DEF QueuesMove
  <2> QED
    BY <1>3, <2>1
<1> QED
  BY <1>1, <1>4 DEF e

\* A step that delivers and defers nothing keeps the messages distinct, if those it
\* files are new.
LEMMA KeepsApart ==
    ASSUME PartitionInv, DistinctInv, NEW W, QueuesMove(None, W), deferred' = deferred,
           \A w \in W : w \notin sent
    PROVE  DistinctInv'
<1>1. \A e \in EdgeTypes : Distinct(queues'[e])
  <2>1. \A e \in EdgeTypes : \A j \in 1 .. Len(queues[e]) : queues[e][j].message \notin W
    BY HeldFacts
  <2> QED
    BY <2>1, MoveDistinct DEF DistinctInv
<1>2. ASSUME NEW e \in EdgeTypes, NEW i \in 1 .. Len(deferred), NEW k \in 1 .. Len(queues'[e])
      PROVE  deferred[i].message # queues'[e][k].message
  <2>1. \/ k + None[e] \in 1 .. Len(queues[e]) /\ queues'[e][k] = queues[e][k + None[e]]
        \/ queues'[e][k].message \in W
    BY DEF QueuesMove
  <2>2. CASE queues'[e][k].message \in W
    BY <2>2, HeldFacts
  <2>3. CASE k + None[e] \in 1 .. Len(queues[e]) /\ queues'[e][k] = queues[e][k + None[e]]
    BY <2>3 DEF DistinctInv
  <2> QED
    BY <2>1, <2>2, <2>3
<1> QED
  BY <1>1, <1>2 DEF DistinctInv, EdgeTypes

\* broadcastTime keeps the invariant: its proposals are the first of their epoch
\* and go to every node.
LEMMA BroadcastKeepsIdle ==
    ASSUME DishonestCount = 0, PartitionInv, IdleInv, BroadcastTime
    PROVE  IdleInv'
<1>1. /\ pc = "broadcastTime" /\ pc' = "maj2maj" /\ pass = "before" /\ pass' = "before"
      /\ UNCHANGED <<time, honest, deferred, delivered>>
      /\ time \in Nat /\ Announced = time /\ Announced' = time + 1
  BY PartitionInvFacts DEF PartitionInv, FieldsInv, BroadcastTime, Announced
<1>2. PICK W : /\ QueuesMove(None, W) /\ sent' = sent \cup W
               /\ \/ W = {}
                  \/ /\ IsEpochStart(time)
                     /\ \E v \in HonestNodes : \E b :
                           /\ v = GetLeader(GetEpoch(time))
                           /\ W = Sendings(v, "PROPOSAL", b)
                           /\ \A w \in W : EpochOf(w.block) = GetEpoch(time)
  BY BroadcastMoves
<1>3. ASSUME NEW w \in W
      PROVE  /\ w.type = "PROPOSAL" /\ EpochOf(w.block) = GetEpoch(time)
             /\ w.from = GetLeader(EpochOf(w.block))
             /\ \A u \in Nodes :
                   [from |-> w.from, to |-> u, type |-> w.type, block |-> w.block] \in W
             /\ StartOf(EpochOf(w.block)) = time
  <2>1. PICK v \in HonestNodes : \E b :
           /\ v = GetLeader(GetEpoch(time))
           /\ W = Sendings(v, "PROPOSAL", b)
           /\ \A x \in W : EpochOf(x.block) = GetEpoch(time)
    BY <1>2
  <2>2. PICK b : W = Sendings(v, "PROPOSAL", b)
    BY <2>1
  <2>3. w.from = v /\ w.type = "PROPOSAL" /\ w.block = b
    BY <2>2 DEF Sendings
  <2>4. \A u \in Nodes :
           [from |-> w.from, to |-> u, type |-> w.type, block |-> w.block] \in W
    BY <2>2, <2>3 DEF Sendings
  <2>5. EpochOf(w.block) = GetEpoch(time)
    BY <2>1
  <2>6. StartOf(GetEpoch(time)) = time
    BY <1>1, <1>2, EpochStarts
  <2> QED
    BY <2>1, <2>3, <2>4, <2>5, <2>6
<1>4. \A w \in W : w \notin sent
  BY <1>1, <1>3, PartitionInvFacts DEF IdleInv, AnnouncedInv
<1>5. OrderInv'
  <2>1. ~Crossing
    BY <1>1 DEF Crossing
  <2> QED
    BY <1>1, <1>2, <1>3, <2>1, MoveKeepsOrder DEF IdleInv
<1>6. ProposalsInv'
  <2> SUFFICES ASSUME NEW x \in sent', x.type = "PROPOSAL"
               PROVE  /\ x.from = GetLeader(EpochOf(x.block))
                      /\ \A u \in Nodes :
                            [from |-> x.from, to |-> u, type |-> x.type, block |-> x.block]
                               \in sent'
                      /\ \/ OpenedBy(honest, x)
                         \/ \E i \in 1 .. Len(queues'[EdgeType(x)]) :
                               queues'[EdgeType(x)][i].message = x
    BY <1>1 DEF ProposalsInv, EdgeType, Nodes
  <2>1. EdgeType(x) \in EdgeTypes
    BY DEF EdgeType, EdgeTypes
  <2>2. CASE x \in sent
    BY <1>2, <2>1, <2>2, MoveKeepsProposal DEF IdleInv, ProposalsInv
  <2>3. CASE x \in W
    <3>1. \E i \in 1 .. Len(queues'[EdgeType(x)]) : queues'[EdgeType(x)][i].message = x
      BY <1>2, <2>1, <2>3 DEF QueuesMove
    <3> QED
      BY <1>2, <1>3, <2>3, <3>1
  <2> QED
    BY <1>2, <2>2, <2>3
<1>7. PlacesInv'
  BY <1>1 DEF PlacesInv
<1>8. DeliveredInv'
  BY <1>1, <1>2 DEF IdleInv, DeliveredInv, SpentBy, OpenedBy
<1>9. AnnouncedInv'
  <2>1. \A m \in sent : StartOf(EpochOf(m.block)) < time + 1
    BY <1>1, PartitionInvFacts DEF IdleInv, AnnouncedInv
  <2>2. \A m \in W : StartOf(EpochOf(m.block)) < time + 1
    BY <1>1, <1>3
  <2> QED
    BY <1>1, <1>2, <2>1, <2>2 DEF AnnouncedInv, StartOf
<1>10. DistinctInv'
  BY <1>1, <1>2, <1>4, KeepsApart DEF IdleInv, DeliveredInv
<1> QED
  BY <1>5, <1>6, <1>7, <1>8, <1>9, <1>10 DEF IdleInv

\* Turning to the next queue keeps the invariant.
LEMMA NextQueueKeepsIdle ==
    ASSUME PartitionInv, IdleInv, NextQueue
    PROVE  IdleInv'
<1>1. /\ pc \in EdgeTypes /\ queues[pc] = << >> /\ pc # LastQueue
      /\ pc' = CASE pc = "maj2maj" -> "min2min"
                 [] pc = "min2min" -> "min2maj"
                 [] pc = "min2maj" -> "maj2min"
      /\ UNCHANGED <<time, honest, sent, queues, deferred, pass, delivered>>
  BY DEF NextQueue, Emptying
<1>2. /\ pc # "maj2min"
      /\ pc = "maj2maj" => pc' = "min2min"
      /\ pc = "min2min" => pc' = "min2maj"
      /\ pc = "min2maj" => pc' = "maj2min"
      /\ pc \in {"maj2maj", "min2min", "min2maj"} /\ pc' # "broadcastTime"
  <2>1. pc # "maj2min"
    BY <1>1 DEF LastQueue, Synchronizing, PartitionInv, FieldsInv
  <2>2. pc \in {"maj2maj", "min2min", "min2maj"}
    BY <1>1, <2>1 DEF EdgeTypes
  <2>3. CASE pc = "maj2maj"
    BY <1>1, <2>3
  <2>4. CASE pc = "min2min"
    BY <1>1, <2>4
  <2>5. CASE pc = "min2maj"
    BY <1>1, <2>5
  <2> QED
    BY <2>1, <2>2, <2>3, <2>4, <2>5
<1>3. Len(queues[pc]) = 0 /\ ~\E i \in 1 .. Len(queues[pc]) : TRUE
  BY <1>1, EmptySeq
<1>4. OrderInv'
  <2> SUFFICES ASSUME NEW e \in EdgeTypes, NEW j \in 1 .. Len(queues[e])
               PROVE  \/ queues[e][j].message.type = "PROPOSAL"
                      \/ OpenedBy(honest, queues[e][j].message)
                      \/ \E i \in 1 .. j - 1 :
                            Opens(queues[e][i].message, queues[e][j].message)
    BY <1>1 DEF OrderInv
  <2> QED
    BY <1>3 DEF IdleInv, OrderInv
<1>5. ProposalsInv'
  BY <1>1 DEF IdleInv, ProposalsInv
<1>6. PlacesInv'
  <2>1. CASE pc = "maj2maj"
    BY <1>1, <1>2, <1>3, <2>1 DEF IdleInv, PlacesInv
  <2>2. CASE pc = "min2min"
    BY <1>1, <1>2, <1>3, <2>2 DEF IdleInv, PlacesInv
  <2>3. CASE pc = "min2maj"
    BY <1>1, <1>2, <2>3 DEF IdleInv, PlacesInv
  <2> QED
    BY <1>2, <2>1, <2>2, <2>3
<1>7. DeliveredInv'
  BY <1>1 DEF IdleInv, DeliveredInv
<1>8. AnnouncedInv'
  <2>1. pc # "broadcastTime" /\ Announced' = Announced
    BY <1>1, <1>2 DEF Announced
  <2> QED
    BY <1>1, <2>1 DEF IdleInv, AnnouncedInv, StartOf
<1>9. DistinctInv'
  BY <1>1 DEF IdleInv, DistinctInv
<1> QED
  BY <1>4, <1>5, <1>6, <1>7, <1>8, <1>9 DEF IdleInv

\* So does the end of beforeAndAfter: what it files again has had its effect.
LEMMA EndPassKeepsIdle ==
    ASSUME DishonestCount = 0, PartitionInv, IdleInv, EndPass
    PROVE  IdleInv'
<1> DEFINE W == { deferred[i].message : i \in 1 .. Len(deferred) }
<1>1. /\ pc \in EdgeTypes /\ queues[pc] = << >> /\ pc = LastQueue
      /\ deferred' = << >>
      /\ UNCHANGED <<honest, sent, delivered>>
      /\ \/ pass = "before" /\ pass' = "after" /\ time' = time + 1 /\ pc' = "maj2maj"
         \/ pass = "after" /\ pass' = "before" /\ pc' = "broadcastTime" /\ time' = time
      /\ pc # "broadcastTime"
  BY DEF EndPass, Emptying, EdgeTypes
<1>2. QueuesMove(None, W)
  BY EndPassMoves DEF IdleInv, DistinctInv
<1>3. \A w \in W : /\ w \in sent /\ w.type # "PROPOSAL" /\ OpenedBy(honest, w)
                   /\ \A e \in EdgeTypes : \A j \in 1 .. Len(queues[e]) :
                         queues[e][j].message # w
  BY HeldFacts DEF IdleInv, DeliveredInv, SpentBy, DistinctInv
<1> HIDE DEF W
<1>4. OrderInv'
  BY <1>1, <1>2, <1>3, MoveKeepsOrder DEF IdleInv
<1>5. ProposalsInv'
  <2> SUFFICES ASSUME NEW x \in sent, x.type = "PROPOSAL"
               PROVE  /\ x.from = GetLeader(EpochOf(x.block))
                      /\ \A u \in Nodes :
                            [from |-> x.from, to |-> u, type |-> x.type, block |-> x.block]
                               \in sent
                      /\ \/ OpenedBy(honest, x)
                         \/ \E i \in 1 .. Len(queues'[EdgeType(x)]) :
                               queues'[EdgeType(x)][i].message = x
    BY <1>1 DEF ProposalsInv, EdgeType, Nodes
  <2>1. EdgeType(x) \in EdgeTypes
    BY DEF EdgeType, EdgeTypes
  <2> QED
    BY <1>2, <2>1, MoveKeepsProposal DEF IdleInv, ProposalsInv
<1>6. PlacesInv'
  <2>1. ~\E j \in 1 .. Len(queues["maj2maj"]) : queues["maj2maj"][j].message.type = "PROPOSAL"
    <3>1. CASE pc = "maj2maj"
      BY <1>1, <3>1, EmptySeq
    <3>2. CASE pc # "maj2maj"
      BY <3>2 DEF IdleInv, PlacesInv
    <3> QED
      BY <3>1, <3>2
  <2>2. ~\E j \in 1 .. Len(queues["min2min"]) : queues["min2min"][j].message.type = "PROPOSAL"
    <3>1. pc \in {"min2min", "maj2min"}
      BY <1>1 DEF LastQueue
    <3>2. CASE pc = "min2min"
      BY <1>1, <3>2, EmptySeq
    <3>3. CASE pc = "maj2min"
      BY <3>3 DEF IdleInv, PlacesInv
    <3> QED
      BY <3>1, <3>2, <3>3
  <2>3. ASSUME NEW e \in EdgeTypes, NEW k \in 1 .. Len(queues'[e]),
               queues'[e][k].message.type = "PROPOSAL"
        PROVE  \E j \in 1 .. Len(queues[e]) : queues[e][j].message.type = "PROPOSAL"
    <3>1. \/ /\ k + None[e] \in 1 .. Len(queues[e])
             /\ queues'[e][k] = queues[e][k + None[e]]
          \/ queues'[e][k].message \in W
      BY <1>2 DEF QueuesMove
    <3>2. queues'[e][k].message \notin W
      BY <1>3, <2>3
    <3> QED
      BY <2>3, <3>1, <3>2
  <2>4. "maj2maj" \in EdgeTypes /\ "min2min" \in EdgeTypes
    BY DEF EdgeTypes
  <2> QED
    BY <2>1, <2>2, <2>3, <2>4 DEF PlacesInv
<1>7. DeliveredInv'
  BY <1>1, EmptySeq DEF IdleInv, DeliveredInv
<1>8. AnnouncedInv'
  <2>1. Announced' = Announced
    BY <1>1 DEF Announced
  <2> QED
    BY <1>1, <2>1 DEF IdleInv, AnnouncedInv, StartOf
<1>9. DistinctInv'
  <2>1. \A e \in EdgeTypes : Distinct(queues'[e])
    BY <1>2, <1>3, MoveDistinct DEF IdleInv, DistinctInv
  <2>2. Len(deferred') = 0
    BY <1>1, EmptySeq
  <2> QED
    BY <2>1, <2>2 DEF DistinctInv, Distinct, EdgeTypes
<1> QED
  BY <1>4, <1>5, <1>6, <1>7, <1>8, <1>9 DEF IdleInv
-----------------------------------------------------------------------------
\* Initially nothing is held and nothing was sent.
LEMMA IdleInit == Init => IdleInv
<1> SUFFICES ASSUME Init PROVE IdleInv
  OBVIOUS
<1>1. /\ sent = {} /\ delivered = {} /\ deferred = << >>
      /\ \A e \in EdgeTypes : queues[e] = << >>
      /\ Len(<< >>) = 0
  BY EmptySeq DEF Init
<1>2. /\ \A e \in EdgeTypes : Len(queues[e]) = 0
      /\ Len(deferred) = 0 /\ "maj2maj" \in EdgeTypes /\ "min2min" \in EdgeTypes
  BY <1>1 DEF EdgeTypes
<1>3. OrderInv /\ ProposalsInv /\ PlacesInv
  BY <1>1, <1>2 DEF OrderInv, ProposalsInv, PlacesInv
<1>4. DeliveredInv /\ AnnouncedInv /\ DistinctInv
  BY <1>1, <1>2 DEF DeliveredInv, AnnouncedInv, DistinctInv, Distinct
<1> QED
  BY <1>3, <1>4 DEF IdleInv

\* Every step keeps the invariant.
LEMMA IdleStep ==
    ASSUME DishonestCount = 0, PartitionInv, IdleInv, [Next]_vars
    PROVE  IdleInv'
<1>1. CASE BroadcastTime
  BY <1>1, BroadcastKeepsIdle
<1>2. CASE Pop
  BY <1>2, PopKeepsIdle
<1>3. CASE NextQueue
  BY <1>3, NextQueueKeepsIdle
<1>4. CASE EndPass
  BY <1>4, EndPassKeepsIdle
<1>5. CASE UNCHANGED vars
  <2>1. /\ UNCHANGED <<time, honest, sent, queues, deferred, pc, pass, delivered>>
        /\ Announced' = Announced
    BY <1>5 DEF vars, Announced
  <2>2. OrderInv' /\ ProposalsInv' /\ PlacesInv'
    BY <2>1 DEF IdleInv, OrderInv, ProposalsInv, PlacesInv, Crossing
  <2>3. DeliveredInv' /\ AnnouncedInv' /\ DistinctInv'
    BY <2>1 DEF IdleInv, DeliveredInv, AnnouncedInv, DistinctInv, StartOf
  <2> QED
    BY <2>2, <2>3 DEF IdleInv
<1> QED
  BY <1>1, <1>2, <1>3, <1>4, <1>5 DEF Next, Terminating

\* Without dishonest nodes the invariant of redelivery holds throughout
\* (partitioning_scheduler.cpp:57-116).
THEOREM IdleInvariant ==
    ASSUME DishonestCount = 0
    PROVE  Spec => [](PartitionInv /\ IdleInv)
<1>1. Init => PartitionInv /\ IdleInv
  BY PartitionInvInit, IdleInit
<1>2. PartitionInv /\ IdleInv /\ [Next]_vars => (PartitionInv /\ IdleInv)'
  BY PartitionStep, IdleStep
<1> QED
  BY <1>1, <1>2, PTL DEF Spec

\* Without dishonest nodes a second delivery of a message does nothing
\* (partitioning_scheduler.cpp:109, 115): a proposal comes before the votes for it,
\* so the first delivery of a vote has counted it, and a vote that made a quorum
\* has notarized its block.
THEOREM RedeliveredInVain ==
    ASSUME DishonestCount = 0
    PROVE  Spec => RedeliveryIsIdle
<1> DEFINE Idle == Pop /\ Entry.message \in delivered
                     => UNCHANGED <<honest, dishonest, sent>>
<1>1. ASSUME PartitionInv, IdleInv, Pop, Entry.message \in delivered
      PROVE  UNCHANGED <<honest, dishonest, sent>>
  <2>1. /\ SendRec(Entry.message).honest = honest
        /\ SendRec(Entry.message).dishonest = dishonest
        /\ SendRec(Entry.message).out = << >>
    BY <1>1, SpentIsIdle DEF PartitionInv, IdleInv, DeliveredInv
  <2>2. honest' = honest /\ dishonest' = dishonest
    BY <1>1, <2>1 DEF Pop
  <2>3. sent' = sent
    <3>1. \/ sent' = sent \cup Messages(<< >>)
          \/ sent' = sent
      BY <1>1, <2>1 DEF Pop, OnPop
    <3>2. Messages(<< >>) = {}
      BY DEF Messages
    <3> QED
      BY <3>1, <3>2
  <2> QED
    BY <2>2, <2>3
<1>2. PartitionInv /\ IdleInv /\ [Next]_vars => [Idle]_vars
  BY <1>1
<1> QED
  BY <1>2, IdleInvariant, PTL DEF Spec, RedeliveryIsIdle
-----------------------------------------------------------------------------
(* Distinct messages are as many as the entries that carry them. *)

\* A sequence has as many elements as entries if no two entries are the same.
LEMMA DistinctCounts ==
    ASSUME NEW T, NEW q \in Seq(T), \A i, j \in 1 .. Len(q) : q[i] = q[j] => i = j
    PROVE  Cardinality(ToSet(q)) = Len(q)
<1> DEFINE n == Len(q)
<1>1. n \in Nat /\ DOMAIN q = 1 .. n /\ \A i \in 1 .. n : q[i] \in ToSet(q)
  BY LenProperties DEF ToSet
<1>2. ToSet(q) = { q[i] : i \in 1 .. n }
  BY <1>1 DEF ToSet
<1>3. IsFiniteSet(1 .. n) /\ Cardinality(1 .. n) = n
  BY <1>1, FS_Interval
<1>4. q \in Bijection(1 .. n, ToSet(q))
  <2>1. q \in [1 .. n -> ToSet(q)]
    BY <1>1, SeqDef
  <2>2. \A i, j \in 1 .. n : q[i] = q[j] => i = j
    OBVIOUS
  <2>3. \A x \in ToSet(q) : \E i \in 1 .. n : q[i] = x
    BY <1>2
  <2> HIDE DEF n
  <2> QED
    BY <2>1, <2>2, <2>3 DEF Bijection, Injection, Surjection, IsInjective
<1>5. ExistsBijection(1 .. n, ToSet(q))
  BY <1>4 DEF ExistsBijection
<1> QED
  BY <1>3, <1>5, FS_Bijection

\* No entry of p carries the message of an entry of q.
Apart(p, q) == \A i \in 1 .. Len(p), j \in 1 .. Len(q) : p[i].message # q[j].message

\* Two sequences of distinct messages that share none are one.
LEMMA ConcatDistinct ==
    ASSUME NEW E, NEW p \in Seq(E), NEW q \in Seq(E),
           Distinct(p), Distinct(q), Apart(p, q)
    PROVE  /\ p \o q \in Seq(E) /\ Distinct(p \o q)
           /\ \A r : Apart(p, r) /\ Apart(q, r) => Apart(p \o q, r)
<1> DEFINE s == p \o q
           n == Len(p)
<1>1. /\ s \in Seq(E) /\ n \in Nat /\ Len(q) \in Nat /\ Len(s) = n + Len(q)
      /\ \A i \in 1 .. n + Len(q) : s[i] = IF i <= n THEN p[i] ELSE q[i - n]
  BY ConcatProperties, LenProperties
<1> HIDE DEF s
<1>2. \A i \in 1 .. Len(s) :
         \/ i \in 1 .. n /\ s[i] = p[i]
         \/ i - n \in 1 .. Len(q) /\ s[i] = q[i - n]
  <2> SUFFICES ASSUME NEW i \in 1 .. Len(s)
               PROVE  \/ i \in 1 .. n /\ s[i] = p[i]
                      \/ i - n \in 1 .. Len(q) /\ s[i] = q[i - n]
    OBVIOUS
  <2>1. CASE i <= n
    BY <1>1, <2>1
  <2>2. CASE ~(i <= n)
    BY <1>1, <2>2
  <2> QED
    BY <2>1, <2>2
<1>3. Distinct(s)
  <2> SUFFICES ASSUME NEW i \in 1 .. Len(s), NEW j \in 1 .. Len(s), s[i].message = s[j].message
               PROVE  i = j
    BY DEF Distinct
  <2>1. CASE i \in 1 .. n /\ s[i] = p[i] /\ j \in 1 .. n /\ s[j] = p[j]
    BY <2>1 DEF Distinct
  <2>2. CASE /\ i - n \in 1 .. Len(q) /\ s[i] = q[i - n]
             /\ j - n \in 1 .. Len(q) /\ s[j] = q[j - n]
    <3>1. i - n = j - n
      BY <2>2 DEF Distinct
    <3> QED
      BY <1>1, <3>1
  <2>3. CASE i \in 1 .. n /\ s[i] = p[i] /\ j - n \in 1 .. Len(q) /\ s[j] = q[j - n]
    BY <2>3 DEF Apart
  <2>4. CASE i - n \in 1 .. Len(q) /\ s[i] = q[i - n] /\ j \in 1 .. n /\ s[j] = p[j]
    BY <2>4 DEF Apart
  <2> QED
    BY <1>2, <2>1, <2>2, <2>3, <2>4
<1>4. ASSUME NEW r, Apart(p, r), Apart(q, r) PROVE Apart(s, r)
  BY <1>2, <1>4 DEF Apart
<1> QED
  BY <1>1, <1>3, <1>4 DEF s

\* Without dishonest nodes no message is held twice (partitioning_scheduler.cpp:115,
\* 76-79): a deferred message has left its queue, and a node answers an epoch once.
THEOREM HeldOnce ==
    ASSUME DishonestCount = 0
    PROVE  Spec => []NotMultiplied
<1>1. ASSUME PartitionInv, IdleInv PROVE NotMultiplied
  <2> DEFINE E == [round : Nat, message : sent]
             a == queues["maj2maj"]
             b == queues["min2min"]
             c == queues["min2maj"]
             d == queues["maj2min"]
             all == a \o b \o c \o d \o deferred
             mine == [i \in DOMAIN all |-> all[i].message]
  <2>1. /\ a \in Seq(E) /\ b \in Seq(E) /\ c \in Seq(E) /\ d \in Seq(E)
        /\ deferred \in Seq(E)
    <3>1. \A e \in EdgeTypes : queues[e] \in Seq(E)
      <4>1. \A e \in EdgeTypes : Holdable(e) \subseteq E
        BY DEF Holdable
      <4> QED
        BY <1>1, <4>1, SeqWiden DEF PartitionInv, QueuesInv
    <3>2. deferred \in Seq(E)
      <4>1. Deferrable \subseteq E
        BY DEF Deferrable
      <4> QED
        BY <1>1, <4>1, SeqWiden DEF PartitionInv, QueuesInv
    <3> QED
      BY <3>1, <3>2 DEF EdgeTypes
  <2>2. /\ Distinct(a) /\ Distinct(b) /\ Distinct(c) /\ Distinct(d) /\ Distinct(deferred)
    BY <1>1 DEF IdleInv, DistinctInv, EdgeTypes
  <2>3. \A e, f \in EdgeTypes : e # f => Apart(queues[e], queues[f])
    <3> SUFFICES ASSUME NEW e \in EdgeTypes, NEW f \in EdgeTypes, e # f,
                        NEW i \in 1 .. Len(queues[e]), NEW j \in 1 .. Len(queues[f])
                 PROVE  queues[e][i].message # queues[f][j].message
      BY DEF Apart
    <3> QED
      BY <1>1, HeldFacts
  <2>4. \A e \in EdgeTypes : Apart(queues[e], deferred)
    BY <1>1 DEF IdleInv, DistinctInv, Apart
  <2>5. /\ Apart(a, b) /\ Apart(a, c) /\ Apart(a, d) /\ Apart(b, c) /\ Apart(b, d)
        /\ Apart(c, d) /\ Apart(a, deferred) /\ Apart(b, deferred) /\ Apart(c, deferred)
        /\ Apart(d, deferred)
    BY <2>3, <2>4 DEF EdgeTypes
  <2> HIDE DEF E, a, b, c, d
  <2>6. /\ a \o b \in Seq(E) /\ Distinct(a \o b) /\ Apart(a \o b, c) /\ Apart(a \o b, d)
        /\ Apart(a \o b, deferred)
    BY <2>1, <2>2, <2>5, ConcatDistinct
  <2>7. /\ a \o b \o c \in Seq(E) /\ Distinct(a \o b \o c) /\ Apart(a \o b \o c, d)
        /\ Apart(a \o b \o c, deferred)
    BY <2>1, <2>2, <2>5, <2>6, ConcatDistinct
  <2>8. /\ a \o b \o c \o d \in Seq(E) /\ Distinct(a \o b \o c \o d)
        /\ Apart(a \o b \o c \o d, deferred)
    BY <2>1, <2>2, <2>5, <2>7, ConcatDistinct
  <2>9. all \in Seq(E) /\ Distinct(all)
    BY <2>1, <2>2, <2>8, ConcatDistinct
  <2>10. mine = Held
    BY DEF Held, a, b, c, d
  <2> HIDE DEF all
  <2>11. /\ Len(all) \in Nat /\ DOMAIN all = 1 .. Len(all)
         /\ \A i \in 1 .. Len(all) : all[i].message \in sent
    <3>1. Len(all) \in Nat /\ DOMAIN all = 1 .. Len(all)
      BY <2>9, LenProperties
    <3>2. \A i \in 1 .. Len(all) : all[i] \in E
      BY <2>9, ElementOfSeq
    <3>3. \A x \in E : x.message \in sent
      BY DEF E
    <3> QED
      BY <3>1, <3>2, <3>3
  <2>12. mine \in Seq(sent) /\ Len(mine) = Len(all)
    BY <2>11
  <2>13. \A i, j \in 1 .. Len(mine) : mine[i] = mine[j] => i = j
    BY <2>9, <2>11, <2>12 DEF Distinct
  <2> HIDE DEF mine
  <2>14. Cardinality(ToSet(mine)) = Len(mine)
    BY <2>12, <2>13, DistinctCounts
  <2> QED
    BY <2>10, <2>14 DEF NotMultiplied
<1> QED
  BY <1>1, IdleInvariant, PTL
-----------------------------------------------------------------------------
(* Without dishonest nodes the votes that notarized a block at a leader come *)
(* to every node before the proposal the leader builds on it.                *)

\* The vote of u for block b, as sent to w.
VoteFor(b, u, w) == [from |-> u, to |-> w, type |-> "VOTE", block |-> b]

\* The queues within a side.
Within == {"maj2maj", "min2min"}

\* All that is sent of one epoch is about one block.
OneBlockInv == \A x, y \in sent : EpochOf(x.block) = EpochOf(y.block) => x.block = y.block

\* A vote goes to every node.
VotesInv ==
    \A x \in sent : x.type = "VOTE" => \A u \in Nodes : VoteFor(x.block, x.from, u) \in sent

Queued(x) == \E i \in 1 .. Len(queues[EdgeType(x)]) : queues[EdgeType(x)][i].message = x

\* What was not delivered waits in its queue, and that of the majority is empty
\* when the one of the minority is emptied.
HeldInv ==
    /\ \A x \in sent : x \in delivered \/ Queued(x)
    /\ pc = "min2min" => queues["maj2maj"] = << >>

OfOneBroadcast(x, y) == x.from = y.from /\ x.type = y.type /\ x.block = y.block

\* Of a broadcast a queue has delivered all or nothing, if it is not just being
\* emptied.
FateInv ==
    \A x, y \in sent :
        /\ OfOneBroadcast(x, y) /\ EdgeType(x) = EdgeType(y)
        /\ x \in delivered /\ y \notin delivered
        => pc = EdgeType(x)

BroadcastsInv == OneBlockInv /\ VotesInv /\ HeldInv /\ FateInv

\* y is ahead of m in its queue.
Ahead(y, m) ==
    \E j \in 1 .. Len(queues[EdgeType(m)]) : \E i \in 1 .. j - 1 :
        queues[EdgeType(m)][i].message = y /\ queues[EdgeType(m)][j].message = m

\* y is delivered before m: the queues within the sides are emptied before those
\* between them.
Before(y, m) ==
    \/ y \in delivered
    \/ Ahead(y, m)
    \/ ~Crossing /\ EdgeType(y) \in Within /\ EdgeType(m) \notin Within

\* A quorum of votes for block b comes to the receiver of m before m.
QuorumBefore(b, m) ==
    \E Q \in SUBSET Nodes :
        /\ IsQuorum(Q)
        /\ \A u \in Q : VoteFor(b, u, m.to) \in sent /\ Before(VoteFor(b, u, m.to), m)

\* What m proposes will stand on a notarized block at its receiver.
Ready(m) ==
    \/ OpenedBy(honest, m)
    \/ NotarizedIn(honest[m.to], ParentHash(m.block))
    \/ QuorumBefore(ParentHash(m.block), m)

ReadyInv == \A m \in sent : m.type = "PROPOSAL" /\ m.to \in HonestNodes => Ready(m)

\* Every recorded block was sent and is stored, and the votes counted for it were
\* delivered.
RecordedInv ==
    \A v \in HonestNodes :
        /\ \A e \in DOMAIN honest[v].proposedBlocks :
              /\ honest[v].proposedBlocks[e] \in DOMAIN honest[v].tree.hbMapping
              /\ e # 0 => \E x \in sent :
                             x.block = honest[v].proposedBlocks[e] /\ EpochOf(x.block) = e
        /\ \A vote \in honest[v].votes :
              VoteFor(honest[v].proposedBlocks[vote[1]], vote[2], v) \in delivered

\* The inductive invariant.
GroundedInv ==
    /\ BroadcastsInv
    /\ RecordedInv
    /\ ReadyInv
    /\ \A v \in HonestNodes : Grounded(honest[v])
-----------------------------------------------------------------------------
\* A step that moves the queues, where what a queue loses is delivered.
Stepping(D, W) ==
    /\ QueuesMove(D, W)
    /\ sent' = sent \cup W
    /\ delivered \subseteq delivered'
    /\ \A e \in EdgeTypes : D[e] # 0 => queues[e][1].message \in delivered'

\* Every message has a queue.
LEMMA EdgeTypeIs == \A x : EdgeType(x) \in EdgeTypes
BY DEF EdgeType, EdgeTypes

\* What waits goes on waiting or is delivered.
LEMMA StepKeepsQueued ==
    ASSUME NEW D, NEW W, Stepping(D, W), NEW x, Queued(x) \/ x \in W
    PROVE  x \in delivered' \/ Queued(x)'
<1> DEFINE e == EdgeType(x)
<1>1. e \in EdgeTypes
  BY EdgeTypeIs
<1>2. Queued(x)' <=> \E k \in 1 .. Len(queues'[e]) : queues'[e][k].message = x
  BY DEF Queued, EdgeType, MinorityIds
<1>3. CASE x \in W
  BY <1>1, <1>2, <1>3 DEF Stepping, QueuesMove
<1>4. CASE Queued(x)
  <2>1. PICK i \in 1 .. Len(queues[e]) : queues[e][i].message = x
    BY <1>4 DEF Queued
  <2>2. D[e] \in 0 .. 1 /\ Len(queues[e]) \in Nat
    BY <1>1 DEF Stepping, QueuesMove
  <2>3. CASE i > D[e]
    <3>1. i - D[e] \in 1 .. Len(queues'[e]) /\ queues'[e][i - D[e]] = queues[e][i]
      BY <1>1, <2>3 DEF Stepping, QueuesMove
    <3> QED
      BY <1>2, <2>1, <3>1
  <2>4. CASE ~(i > D[e])
    <3>1. i = 1 /\ D[e] # 0
      BY <2>2, <2>4
    <3> QED
      BY <1>1, <2>1, <3>1 DEF Stepping
  <2> QED
    BY <2>3, <2>4
<1> QED
  BY <1>3, <1>4

\* What is ahead of m stays ahead or is delivered.
LEMMA StepKeepsAhead ==
    ASSUME NEW D, NEW W, Stepping(D, W), NEW y, NEW m, Ahead(y, m)
    PROVE  y \in delivered' \/ Ahead(y, m)'
<1> DEFINE e == EdgeType(m)
<1>1. e \in EdgeTypes
  BY EdgeTypeIs
<1>2. PICK j \in 1 .. Len(queues[e]) : \E i \in 1 .. j - 1 :
          queues[e][i].message = y /\ queues[e][j].message = m
  BY DEF Ahead
<1>3. PICK i \in 1 .. j - 1 : queues[e][i].message = y /\ queues[e][j].message = m
  BY <1>2
<1>4. Ahead(y, m)' <=> \E l \in 1 .. Len(queues'[e]) : \E k \in 1 .. l - 1 :
          queues'[e][k].message = y /\ queues'[e][l].message = m
  BY DEF Ahead, EdgeType, MinorityIds
<1>5. /\ D[e] \in 0 .. 1 /\ Len(queues[e]) \in Nat
      /\ \A k \in 1 .. Len(queues[e]) :
            k > D[e] => /\ k - D[e] \in 1 .. Len(queues'[e])
                        /\ queues'[e][k - D[e]] = queues[e][k]
      /\ D[e] # 0 => queues[e][1].message \in delivered'
  BY <1>1 DEF Stepping, QueuesMove
<1> HIDE DEF e
<1>6. i \in 1 .. Len(queues[e]) /\ j > D[e]
  BY <1>3, <1>5
<1>7. CASE i > D[e]
  <2>1. /\ i - D[e] \in 1 .. (j - D[e]) - 1 /\ j - D[e] \in 1 .. Len(queues'[e])
        /\ queues'[e][i - D[e]].message = y /\ queues'[e][j - D[e]].message = m
    <3>1. /\ i - D[e] \in 1 .. Len(queues'[e]) /\ queues'[e][i - D[e]] = queues[e][i]
          /\ j - D[e] \in 1 .. Len(queues'[e]) /\ queues'[e][j - D[e]] = queues[e][j]
      BY <1>5, <1>6, <1>7
    <3>2. i - D[e] \in 1 .. (j - D[e]) - 1
      <4> DEFINE d == D[e]
      <4>1. d \in Int /\ i \in Int /\ j \in Int /\ i > d /\ i <= j - 1
        BY <1>5, <1>6, <1>7
      <4> HIDE DEF d
      <4>2. i - d \in 1 .. (j - d) - 1
        BY <4>1
      <4> QED
        BY <4>2 DEF d
    <3> QED
      BY <1>3, <3>1, <3>2
  <2> QED
    BY <1>4, <2>1
<1>8. CASE ~(i > D[e])
  <2>1. i = 1 /\ D[e] # 0
    BY <1>5, <1>6, <1>8
  <2> QED
    BY <1>3, <1>5, <2>1
<1> QED
  BY <1>7, <1>8

\* While the queues between the sides are not reached nothing else changes.
LEMMA StepKeepsBefore ==
    ASSUME NEW D, NEW W, Stepping(D, W), Crossing' => Crossing,
           NEW y, NEW m, Before(y, m)
    PROVE  Before(y, m)'
<1>1. EdgeType(y)' = EdgeType(y) /\ EdgeType(m)' = EdgeType(m) /\ Within' = Within
  BY DEF EdgeType, MinorityIds, Within
<1>2. CASE y \in delivered
  BY <1>2 DEF Stepping, Before
<1>3. CASE Ahead(y, m)
  BY <1>3, StepKeepsAhead DEF Before
<1>4. CASE ~Crossing /\ EdgeType(y) \in Within /\ EdgeType(m) \notin Within
  BY <1>1, <1>4 DEF Before
<1> QED
  BY <1>2, <1>3, <1>4 DEF Before

\* So a quorum that comes before m still does.
LEMMA StepKeepsQuorum ==
    ASSUME NEW D, NEW W, Stepping(D, W), Crossing' => Crossing,
           NEW b, NEW m, QuorumBefore(b, m)
    PROVE  QuorumBefore(b, m)'
<1>1. PICK Q \in SUBSET Nodes :
         /\ IsQuorum(Q)
         /\ \A u \in Q : VoteFor(b, u, m.to) \in sent /\ Before(VoteFor(b, u, m.to), m)
  BY DEF QuorumBefore
<1>2. \A u \in Q : VoteFor(b, u, m.to)' = VoteFor(b, u, m.to)
  BY DEF VoteFor
<1>3. \A u \in Q : VoteFor(b, u, m.to) \in sent' /\ Before(VoteFor(b, u, m.to), m)'
  <2> SUFFICES ASSUME NEW u \in Q
               PROVE  VoteFor(b, u, m.to) \in sent' /\ Before(VoteFor(b, u, m.to), m)'
    OBVIOUS
  <2> DEFINE y == VoteFor(b, u, m.to)
  <2>1. y \in sent /\ Before(y, m)
    BY <1>1
  <2> HIDE DEF y
  <2>2. Before(y, m)'
    BY <2>1, StepKeepsBefore
  <2> QED
    BY <2>1, <2>2 DEF Stepping, y
<1> QED
  BY <1>1, <1>3 DEF QuorumBefore, IsQuorum, Nodes

-----------------------------------------------------------------------------
\* A delivery takes the first message of the queue being emptied.
LEMMA PopStepping ==
    ASSUME DishonestCount = 0, PartitionInv, Pop
    PROVE  LET m == Entry.message
           IN  /\ delivered' = delivered \cup {m} /\ pc' = pc
               /\ \E W : /\ Stepping(One, W)
                         /\ \/ W = {}
                            \/ /\ m.to \in HonestNodes /\ m.type = "PROPOSAL"
                               /\ AcceptsProposal(honest[m.to], m)
                               /\ W = Sendings(m.to, "VOTE", m.block)
<1> DEFINE m == Entry.message
           Answer(W) == \/ W = {}
                        \/ /\ m.to \in HonestNodes /\ m.type = "PROPOSAL"
                           /\ AcceptsProposal(honest[m.to], m)
                           /\ W = Sendings(m.to, "VOTE", m.block)
<1>1. delivered' = delivered \cup {m} /\ pc' = pc
  <2> HIDE DEF m
  <2> QED
    BY DEF Pop, OnPop, m
<1>2. PICK W : QueuesMove(One, W) /\ sent' = sent \cup W /\ Answer(W)
  BY PopMoves
<1>3. \A e \in EdgeTypes : One[e] # 0 => queues[e][1].message \in delivered'
  BY <1>1, EntryFirst DEF One
<1> HIDE DEF m, Answer
<1>4. Stepping(One, W)
  BY <1>1, <1>2, <1>3 DEF Stepping
<1> QED
  BY <1>1, <1>2, <1>4 DEF m, Answer

\* An answer is the first of its broadcast: a node votes once in an epoch.
LEMMA PopAnswersAfresh ==
    ASSUME DishonestCount = 0, PartitionInv, IdleInv, NEW m, m \in sent,
           m.to \in HonestNodes, AcceptsProposal(honest[m.to], m),
           NEW w \in Sendings(m.to, "VOTE", m.block), NEW x \in sent
    PROVE  ~OfOneBroadcast(w, x)
<1>1. w.from = m.to /\ w.type = "VOTE" /\ w.block = m.block
  BY DEF Sendings
<1>2. SUFFICES ASSUME x.from = m.to, x.type = "VOTE", x.block = m.block PROVE FALSE
  BY <1>1 DEF OfOneBroadcast
<1>3. EpochOf(m.block) \in DOMAIN honest[m.to].proposedBlocks
  BY <1>2 DEF PartitionInv, NodesInv, VotesStand
<1> QED
  BY <1>3 DEF AcceptsProposal

\* A delivery keeps what is said of broadcasts.
LEMMA PopKeepsBroadcasts ==
    ASSUME DishonestCount = 0, PartitionInv, IdleInv, BroadcastsInv, Pop
    PROVE  BroadcastsInv'
<1> DEFINE m == Entry.message
<1>1. /\ m \in sent /\ pc \in EdgeTypes /\ pc' = pc /\ EdgeType(m) = pc
      /\ delivered' = delivered \cup {m}
  BY EntryFirst, PopStepping
<1>2. PICK W : /\ Stepping(One, W)
               /\ \/ W = {}
                  \/ /\ m.to \in HonestNodes /\ m.type = "PROPOSAL"
                     /\ AcceptsProposal(honest[m.to], m)
                     /\ W = Sendings(m.to, "VOTE", m.block)
  BY PopStepping
<1> HIDE DEF m
<1>3. sent' = sent \cup W /\ \A w \in W : w.block = m.block /\ w.from = m.to /\ w.type = "VOTE"
  BY <1>2 DEF Stepping, Sendings
<1>4. \A w \in W, x \in sent : ~OfOneBroadcast(w, x)
  BY <1>1, <1>2, PopAnswersAfresh
<1>5. OneBlockInv'
  BY <1>1, <1>3 DEF BroadcastsInv, OneBlockInv
<1>6. VotesInv'
  <2> SUFFICES ASSUME NEW x \in sent', x.type = "VOTE", NEW u \in Nodes
               PROVE  VoteFor(x.block, x.from, u) \in sent'
    BY DEF VotesInv, VoteFor, Nodes
  <2>1. CASE x \in sent
    BY <1>3, <2>1 DEF BroadcastsInv, VotesInv
  <2>2. CASE x \in W
    <3>1. W = Sendings(m.to, "VOTE", m.block)
      BY <1>2, <2>2
    <3> QED
      BY <1>3, <2>2, <3>1 DEF Sendings, VoteFor
  <2> QED
    BY <1>3, <2>1, <2>2
<1>7. HeldInv'
  <2>1. \A x \in sent' : x \in delivered' \/ Queued(x)'
    <3> SUFFICES ASSUME NEW x \in sent' PROVE x \in delivered' \/ Queued(x)'
      OBVIOUS
    <3>1. x \in delivered \/ Queued(x) \/ x \in W
      BY <1>3 DEF BroadcastsInv, HeldInv
    <3> QED
      BY <1>1, <1>2, <3>1, StepKeepsQueued
  <2>2. ASSUME pc = "min2min" PROVE queues'["maj2maj"] = << >>
    <3> DEFINE e == "maj2maj"
    <3>1. queues[e] = << >> /\ Len(queues[e]) = 0 /\ e \in EdgeTypes
      BY <2>2, EmptySeq DEF BroadcastsInv, HeldInv, EdgeTypes
    <3>2. m.to \in MinorityIds
      BY <1>1, <2>2 DEF EdgeType
    <3>3. \A w \in W : EdgeType(w) # e
      BY <1>3, <3>2 DEF EdgeType
    <3>4. One[e] \in Nat /\ \A k \in 1 .. Len(queues'[e]) :
             \/ k + One[e] \in 1 .. Len(queues[e])
             \/ queues'[e][k].message \in W /\ EdgeType(queues'[e][k].message) = e
      BY <1>2, <3>1 DEF Stepping, QueuesMove
    <3>5. ~\E k \in 1 .. Len(queues'[e]) : TRUE
      BY <3>1, <3>3, <3>4
    <3>6. Len(queues'[e]) \in Nat /\ queues'[e] \in Seq(Holdable(e)')
      <4>1. PartitionInv'
        BY PartitionStep DEF Next
      <4> QED
        BY <3>1, <4>1, LenProperties DEF PartitionInv, QueuesInv, EdgeTypes
    <3>7. Len(queues'[e]) = 0
      BY <3>5, <3>6
    <3> QED
      BY <3>6, <3>7, EmptySeq
  <2> QED
    BY <1>1, <2>1, <2>2 DEF HeldInv
<1>8. FateInv'
  <2> SUFFICES ASSUME NEW x \in sent', NEW y \in sent', OfOneBroadcast(x, y),
                      EdgeType(x) = EdgeType(y), x \in delivered', y \notin delivered'
               PROVE  pc = EdgeType(x)
    BY <1>1 DEF FateInv, OfOneBroadcast, EdgeType, MinorityIds
  <2>1. CASE x = m
    BY <1>1, <2>1
  <2>2. CASE x \in delivered
    <3>1. x \in sent
      BY <2>2 DEF IdleInv, DeliveredInv
    <3>2. y \notin W
      BY <1>4, <3>1 DEF OfOneBroadcast
    <3>3. y \in sent /\ y \notin delivered
      BY <1>1, <1>3, <3>2
    <3> QED
      BY <2>2, <3>1, <3>3 DEF BroadcastsInv, FateInv
  <2> QED
    BY <1>1, <2>1, <2>2
<1> QED
  BY <1>5, <1>6, <1>7, <1>8 DEF BroadcastsInv

\* broadcastTime delivers nothing; the leader's proposals are the first messages
\* of their epoch.
LEMMA BroadcastStepping ==
    ASSUME DishonestCount = 0, PartitionInv, IdleInv, BroadcastTime
    PROVE  /\ pc = "broadcastTime" /\ pc' = "maj2maj"
           /\ UNCHANGED <<honest, dishonest, delivered, time>> /\ time \in Nat
           /\ \E W : /\ Stepping(None, W)
                     /\ \A w \in W, x \in sent : EpochOf(w.block) # EpochOf(x.block)
                     /\ \/ W = {}
                        \/ \E v \in HonestNodes : \E b :
                              /\ W = Sendings(v, "PROPOSAL", b)
                              /\ ParentHash(b) = honest[v].tree.deepestNotarized
<1>1. /\ pc = "broadcastTime" /\ pc' = "maj2maj" /\ pass = "before"
      /\ UNCHANGED <<honest, dishonest, delivered, time>> /\ time \in Nat
      /\ Announced = time
  BY PartitionInvFacts DEF BroadcastTime, PartitionInv, FieldsInv, Announced
<1>2. PICK W : /\ QueuesMove(None, W) /\ sent' = sent \cup W
               /\ \/ W = {}
                  \/ /\ IsEpochStart(time)
                     /\ \E v \in HonestNodes : \E b :
                           /\ v = GetLeader(GetEpoch(time))
                           /\ W = Sendings(v, "PROPOSAL", b)
                           /\ ParentHash(b) = honest[v].tree.deepestNotarized
                           /\ \A w \in W : EpochOf(w.block) = GetEpoch(time)
  BY BroadcastMoves
<1>3. Stepping(None, W)
  BY <1>1, <1>2 DEF Stepping, None
<1>4. \A w \in W, x \in sent : EpochOf(w.block) # EpochOf(x.block)
  <2> SUFFICES ASSUME NEW w \in W, NEW x \in sent, EpochOf(w.block) = EpochOf(x.block)
               PROVE  FALSE
    OBVIOUS
  <2>1. EpochOf(w.block) = GetEpoch(time) /\ StartOf(GetEpoch(time)) = time
    BY <1>1, <1>2, EpochStarts
  <2>2. StartOf(EpochOf(x.block)) < time
    BY <1>1 DEF IdleInv, AnnouncedInv
  <2> QED
    BY <1>1, <2>1, <2>2
<1>5. \/ W = {}
      \/ \E v \in HonestNodes : \E b :
            /\ W = Sendings(v, "PROPOSAL", b)
            /\ ParentHash(b) = honest[v].tree.deepestNotarized
  BY <1>2
<1> QED
  BY <1>1, <1>3, <1>4, <1>5

\* broadcastTime keeps what is said of broadcasts.
LEMMA BroadcastKeepsBroadcasts ==
    ASSUME DishonestCount = 0, PartitionInv, IdleInv, BroadcastsInv, BroadcastTime
    PROVE  BroadcastsInv'
<1>1. /\ pc = "broadcastTime" /\ pc' = "maj2maj" /\ delivered' = delivered
  BY BroadcastStepping
<1>2. PICK W : /\ Stepping(None, W)
               /\ \A w \in W, x \in sent : EpochOf(w.block) # EpochOf(x.block)
               /\ \/ W = {}
                  \/ \E v \in HonestNodes : \E b :
                        /\ W = Sendings(v, "PROPOSAL", b)
                        /\ ParentHash(b) = honest[v].tree.deepestNotarized
  BY BroadcastStepping
<1>3. sent' = sent \cup W /\ \A x, y \in W : x.block = y.block /\ x.type = "PROPOSAL"
  BY <1>2 DEF Stepping, Sendings
<1>4. OneBlockInv'
  BY <1>2, <1>3 DEF BroadcastsInv, OneBlockInv
<1>5. VotesInv'
  BY <1>3 DEF BroadcastsInv, VotesInv, VoteFor, Nodes
<1>6. HeldInv'
  <2>1. \A x \in sent' : x \in delivered' \/ Queued(x)'
    <3> SUFFICES ASSUME NEW x \in sent' PROVE x \in delivered' \/ Queued(x)'
      OBVIOUS
    <3>1. x \in delivered \/ Queued(x) \/ x \in W
      BY <1>3 DEF BroadcastsInv, HeldInv
    <3> QED
      BY <1>1, <1>2, <3>1, StepKeepsQueued
  <2> QED
    BY <1>1, <2>1 DEF HeldInv
<1>7. FateInv'
  <2> SUFFICES ASSUME NEW x \in sent', NEW y \in sent', OfOneBroadcast(x, y),
                      EdgeType(x) = EdgeType(y), x \in delivered, y \notin delivered
               PROVE  FALSE
    BY <1>1 DEF FateInv, OfOneBroadcast, EdgeType, MinorityIds
  <2>1. x \in sent
    BY DEF IdleInv, DeliveredInv
  <2>2. y \in sent
    BY <1>2, <1>3, <2>1 DEF OfOneBroadcast
  <2>3. pc = EdgeType(x)
    BY <2>1, <2>2 DEF BroadcastsInv, FateInv
  <2> QED
    BY <1>1, <2>3, EdgeTypeIs DEF EdgeTypes
<1> QED
  BY <1>4, <1>5, <1>6, <1>7 DEF BroadcastsInv

\* When the queue being emptied is empty, all that was sent through it was delivered.
LEMMA AllDelivered ==
    ASSUME BroadcastsInv, NEW e \in EdgeTypes, queues[e] = << >>, NEW x \in sent, EdgeType(x) = e
    PROVE  x \in delivered
BY EmptySeq DEF BroadcastsInv, HeldInv, Queued

\* Turning to the next queue or the next pass.
LEMMA TurnKeepsBroadcasts ==
    ASSUME BroadcastsInv, NEW W, Stepping(None, W), sent' = sent, delivered' = delivered,
           pc \in EdgeTypes, queues[pc] = << >>,
           pc' = "min2min" => queues'["maj2maj"] = << >>
    PROVE  BroadcastsInv'
<1>1. OneBlockInv' /\ VotesInv'
  BY DEF BroadcastsInv, OneBlockInv, VotesInv, VoteFor, Nodes
<1>2. HeldInv'
  <2>1. \A x \in sent' : x \in delivered' \/ Queued(x)'
    <3> SUFFICES ASSUME NEW x \in sent' PROVE x \in delivered' \/ Queued(x)'
      OBVIOUS
    <3>1. x \in delivered \/ Queued(x)
      BY DEF BroadcastsInv, HeldInv
    <3> QED
      BY <3>1, StepKeepsQueued
  <2> QED
    BY <2>1 DEF HeldInv
<1>3. FateInv'
  <2> SUFFICES ASSUME NEW x \in sent, NEW y \in sent, OfOneBroadcast(x, y),
                      EdgeType(x) = EdgeType(y), x \in delivered, y \notin delivered
               PROVE  FALSE
    BY DEF FateInv, OfOneBroadcast, EdgeType, MinorityIds
  <2>1. EdgeType(y) = pc
    BY DEF BroadcastsInv, FateInv
  <2> QED
    BY <2>1, AllDelivered
<1> QED
  BY <1>1, <1>2, <1>3 DEF BroadcastsInv

\* NextQueue is such a turn.
LEMMA NextQueueTurns ==
    ASSUME PartitionInv, NextQueue
    PROVE  /\ Stepping(None, {}) /\ UNCHANGED <<honest, sent, delivered, queues>>
           /\ pc \in EdgeTypes /\ queues[pc] = << >>
           /\ pc' = "min2min" => pc = "maj2maj"
           /\ Crossing' /\ ~Crossing => pc = "min2min"
<1>1. /\ pc \in EdgeTypes /\ queues[pc] = << >>
      /\ pc' = CASE pc = "maj2maj" -> "min2min"
                 [] pc = "min2min" -> "min2maj"
                 [] pc = "min2maj" -> "maj2min"
      /\ UNCHANGED <<time, honest, sent, queues, deferred, pass, delivered>>
      /\ pc # LastQueue
  BY DEF NextQueue, Emptying
<1>2. /\ pc = "maj2maj" => pc' = "min2min"
      /\ pc = "min2min" => pc' = "min2maj"
      /\ pc = "min2maj" => pc' = "maj2min"
      /\ pc \in {"maj2maj", "min2min", "min2maj"}
  <2>1. pc # "maj2min"
    BY <1>1 DEF LastQueue, Synchronizing, PartitionInv, FieldsInv
  <2>2. pc \in {"maj2maj", "min2min", "min2maj"}
    BY <1>1, <2>1 DEF EdgeTypes
  <2>3. CASE pc = "maj2maj"
    BY <1>1, <2>3
  <2>4. CASE pc = "min2min"
    BY <1>1, <2>4
  <2>5. CASE pc = "min2maj"
    BY <1>1, <2>5
  <2> QED
    BY <2>2, <2>3, <2>4, <2>5
<1>3. QueuesMove(None, {})
  BY <1>1, NoneLost DEF QueuesMove
<1>4. Stepping(None, {})
  BY <1>1, <1>3 DEF Stepping, None
<1> QED
  BY <1>1, <1>2, <1>4 DEF Crossing

\* So is EndPass.
LEMMA EndPassTurns ==
    ASSUME PartitionInv, IdleInv, EndPass
    PROVE  /\ \E W : Stepping(None, W) /\ W \subseteq delivered
           /\ UNCHANGED <<honest, sent, delivered>>
           /\ pc \in EdgeTypes /\ queues[pc] = << >>
           /\ pc' \in {"maj2maj", "broadcastTime"}
<1> DEFINE W == { deferred[i].message : i \in 1 .. Len(deferred) }
<1>1. /\ UNCHANGED <<honest, sent, delivered>>
      /\ pc \in EdgeTypes /\ queues[pc] = << >>
      /\ pc' \in {"maj2maj", "broadcastTime"}
  BY DEF EndPass, Emptying
<1>2. QueuesMove(None, W)
  BY EndPassMoves DEF IdleInv, DistinctInv
<1>3. W \subseteq delivered /\ delivered \subseteq sent
  BY DEF IdleInv, DeliveredInv
<1> HIDE DEF W
<1>4. sent' = sent \cup W /\ delivered \subseteq delivered'
  BY <1>1, <1>3
<1>5. \A e \in EdgeTypes : None[e] = 0
  BY DEF None
<1>6. Stepping(None, W)
  BY <1>2, <1>4, <1>5 DEF Stepping
<1> QED
  BY <1>1, <1>3, <1>6

-----------------------------------------------------------------------------
\* A quorum has a member.
LEMMA QuorumInhabited ==
    ASSUME NEW Q, IsQuorum(Q)
    PROVE  \E u : u \in Q
<1> SUFFICES ASSUME Q = {} PROVE FALSE
  OBVIOUS
<1>1. Cardinality({}) = 0 /\ N \in Nat
  BY FS_EmptySet, CountsAssumption DEF N
<1> QED
  BY <1>1 DEF IsQuorum

\* A node to which a quorum of votes for a block was delivered has notarized it.
LEMMA QuorumNotarizes ==
    ASSUME DishonestCount = 0, PartitionInv, IdleInv, BroadcastsInv, RecordedInv,
           NEW v \in HonestNodes, NEW b, NEW Q \in SUBSET Nodes, IsQuorum(Q),
           \A u \in Q : VoteFor(b, u, v) \in delivered
    PROVE  NotarizedIn(honest[v], b)
<1> DEFINE r == honest[v]
           e == EpochOf(b)
           y(u) == VoteFor(b, u, v)
<1>1. \A u : /\ y(u).block = b /\ y(u).from = u /\ y(u).to = v /\ y(u).type = "VOTE"
  BY DEF VoteFor
<1>2. \A u \in Q : /\ y(u) \in sent /\ e \in DOMAIN r.proposedBlocks
                   /\ Settled(r, y(u))
  BY <1>1 DEF IdleInv, DeliveredInv, SpentBy, OpenedBy
<1>3. PICK u \in Q : TRUE
  BY QuorumInhabited
<1> HIDE DEF y
<1>4. e # 0
  <2>1. u \in HonestNodes
    BY <1>1, <1>2, <1>3, AllHonest DEF PartitionInv, NodesInv
  <2>2. honest[u].proposedBlocks[e] = b /\ b # GenesisHash
    BY <1>1, <1>2, <1>3, <2>1 DEF PartitionInv, NodesInv, VotesStand
  <2>3. honest[u].proposedBlocks[0] = GenesisHash
    BY <2>1 DEF PartitionInv, NodesInv, ReplicaInv
  <2> QED
    BY <2>2, <2>3
<1>5. r.proposedBlocks[e] = b /\ b \in DOMAIN r.tree.hbMapping
  <2>1. PICK x \in sent : x.block = r.proposedBlocks[e] /\ EpochOf(x.block) = e
    BY <1>2, <1>3, <1>4 DEF RecordedInv
  <2>2. x.block = b
    BY <1>1, <1>2, <1>3, <2>1 DEF BroadcastsInv, OneBlockInv
  <2> QED
    BY <1>2, <1>3, <2>1, <2>2 DEF RecordedInv
<1>6. SUFFICES ASSUME r.tree.hbMapping[b] = "PRESENT" PROVE FALSE
  BY <1>5 DEF NotarizedIn, IsPresent
<1>7. \A w \in Q : CountsVote(r, y(w))
  BY <1>1, <1>2, <1>5, <1>6 DEF CountsVote, IsPresent
<1>8. \A w \in Q : <<e, w>> \in r.votes /\ ~IsQuorum(Voters(r, e))
  BY <1>1, <1>2, <1>7 DEF Settled
<1>9. Q \subseteq Voters(r, e) /\ Voters(r, e) \subseteq Nodes
  BY <1>8 DEF Voters
<1>10. IsQuorum(Voters(r, e))
  BY <1>9, QuorumGrows
<1> QED
  BY <1>3, <1>8, <1>10

\* A proposal that is accepted extends a block notarized at its receiver.
LEMMA AcceptedOnNotarized ==
    ASSUME DishonestCount = 0, PartitionInv, IdleInv, GroundedInv, Pop,
           Entry.message.type = "PROPOSAL", Entry.message.to \in HonestNodes,
           AcceptsProposal(honest[Entry.message.to], Entry.message)
    PROVE  NotarizedIn(honest[Entry.message.to], ParentHash(Entry.message.block))
<1> DEFINE m == Entry.message
           p == ParentHash(m.block)
<1>1. /\ m \in sent /\ EdgeType(m) = pc /\ pc \in EdgeTypes
      /\ 1 \in 1 .. Len(queues[pc]) /\ queues[pc][1].message = m
  BY EntryFirst
<1> HIDE DEF m
<1>2. m.type = "PROPOSAL" /\ m.to \in HonestNodes /\ AcceptsProposal(honest[m.to], m)
  BY DEF m
<1>3. Ready(m) /\ ~OpenedBy(honest, m)
  BY <1>1, <1>2 DEF GroundedInv, ReadyInv, OpenedBy, AcceptsProposal
<1>4. ASSUME QuorumBefore(p, m) PROVE NotarizedIn(honest[m.to], p)
  <2>1. PICK Q \in SUBSET Nodes :
           /\ IsQuorum(Q)
           /\ \A u \in Q : VoteFor(p, u, m.to) \in sent /\ Before(VoteFor(p, u, m.to), m)
    BY <1>4 DEF QuorumBefore
  <2>2. ASSUME NEW y, Before(y, m) PROVE y \in delivered
    <3>1. ~Ahead(y, m)
      <4> SUFFICES ASSUME NEW j \in 1 .. Len(queues[pc]), NEW i \in 1 .. j - 1,
                          queues[pc][j].message = m
                   PROVE  FALSE
        BY <1>1 DEF Ahead
      <4>1. j = 1
        BY <1>1 DEF IdleInv, DistinctInv, Distinct
      <4> QED
        BY <4>1
    <3>2. pc \notin Within => Crossing
      BY <1>1 DEF Within, Crossing, EdgeTypes
    <3> QED
      BY <1>1, <2>2, <3>1, <3>2 DEF Before
  <2>3. \A u \in Q : VoteFor(p, u, m.to) \in delivered
    BY <2>1, <2>2
  <2> HIDE DEF p
  <2> QED
    BY <1>2, <2>1, <2>3, QuorumNotarizes DEF GroundedInv
<1>5. NotarizedIn(honest[m.to], p)
  BY <1>3, <1>4 DEF Ready
<1> QED
  BY <1>5 DEF m, p

\* What a delivery does to its receiver.
LEMMA PopHandles ==
    ASSUME DishonestCount = 0, PartitionInv, Pop
    PROVE  LET m == Entry.message
           IN  /\ m \in sent /\ m \in Message
               /\ \A v \in HonestNodes : v # m.to => honest'[v] = honest[v]
               /\ m.to \in HonestNodes =>
                     /\ ReplicaInv(honest[m.to])
                     /\ honest'[m.to] = Handled(honest[m.to], m)
                     /\ ReplicaStep(m.to, honest[m.to], m, honest'[m.to])
<1> DEFINE m == Entry.message
<1>1. /\ m \in sent /\ m \in Message /\ NodesInv(honest, dishonest, sent) /\ walk \in Walks
      /\ honest' = SendRec(m).honest
  BY EntryFirst DEF PartitionInv, NodesInv, FieldsInv, Pop
<1> HIDE DEF m
<1>2. honest' = IF m.to \in HonestNodes
                THEN [honest EXCEPT ![m.to] = Handled(honest[m.to], m)]
                ELSE honest
  BY <1>1, DeliveryAmongHonest
<1>3. m.to \in HonestNodes => ReplicaStep(m.to, honest[m.to], m, honest'[m.to])
  BY <1>1, Delivery
<1>4. m.to \in HonestNodes => ReplicaInv(honest[m.to]) /\ honest = [v \in HonestNodes |-> honest[v]]
  BY <1>1 DEF NodesInv
<1> QED
  BY <1>1, <1>2, <1>3, <1>4 DEF m

\* Recorded blocks are stored: their parents are.
LEMMA PopKeepsRecorded ==
    ASSUME DishonestCount = 0, PartitionInv, IdleInv, GroundedInv, Pop
    PROVE  RecordedInv' /\ \A v \in HonestNodes : Grounded(honest'[v])
<1> DEFINE m == Entry.message
<1>1. /\ m \in sent /\ m \in Message
      /\ \A v \in HonestNodes : v # m.to => honest'[v] = honest[v]
      /\ m.to \in HonestNodes =>
            /\ ReplicaInv(honest[m.to])
            /\ honest'[m.to] = Handled(honest[m.to], m)
            /\ ReplicaStep(m.to, honest[m.to], m, honest'[m.to])
  BY PopHandles
<1>2. delivered' = delivered \cup {m} /\ sent \subseteq sent'
  BY PopStepping DEF Stepping
<1>3. /\ m.to \in HonestNodes /\ m.type = "PROPOSAL" /\ AcceptsProposal(honest[m.to], m)
      => NotarizedIn(honest[m.to], ParentHash(m.block))
  BY AcceptedOnNotarized
<1> HIDE DEF m
<1>4. ASSUME NEW v \in HonestNodes
      PROVE  /\ Grounded(honest'[v])
             /\ \A e \in DOMAIN honest'[v].proposedBlocks :
                   /\ honest'[v].proposedBlocks[e] \in DOMAIN honest'[v].tree.hbMapping
                   /\ e # 0 => \E x \in sent : /\ x.block = honest'[v].proposedBlocks[e]
                                               /\ EpochOf(x.block) = e
             /\ \A vote \in honest'[v].votes :
                   VoteFor(honest'[v].proposedBlocks[vote[1]], vote[2], v) \in delivered'
  <2> DEFINE r == honest[v]
             s == honest'[v]
  <2>1. /\ Grounded(r)
        /\ \A e \in DOMAIN r.proposedBlocks :
              /\ r.proposedBlocks[e] \in DOMAIN r.tree.hbMapping
              /\ e # 0 => \E x \in sent : x.block = r.proposedBlocks[e] /\ EpochOf(x.block) = e
        /\ \A vote \in r.votes : /\ vote[1] \in DOMAIN r.proposedBlocks
                                 /\ VoteFor(r.proposedBlocks[vote[1]], vote[2], v) \in delivered
    BY DEF GroundedInv, RecordedInv, PartitionInv, NodesInv, CountedWereSent
  <2>2. CASE v # m.to
    BY <1>1, <1>2, <2>1, <2>2
  <2>3. CASE v = m.to
    <3>1. ReplicaInv(r) /\ s = Handled(r, m) /\ ReplicaStep(v, r, m, s)
      BY <1>1, <2>3
    <3> HIDE DEF r, s
    <3>2. ASSUME NEW vote \in s.votes
          PROVE  VoteFor(s.proposedBlocks[vote[1]], vote[2], v) \in delivered'
      <4>1. CASE vote \in r.votes
        <5>1. s.proposedBlocks[vote[1]] = r.proposedBlocks[vote[1]]
          BY <2>1, <3>1, <4>1 DEF ReplicaStep
        <5> QED
          BY <1>2, <2>1, <4>1, <5>1
      <4>2. CASE vote \notin r.votes
        <5>1. /\ m.type = "VOTE" /\ m.to = v /\ vote = <<EpochOf(m.block), m.from>>
              /\ s.proposedBlocks[EpochOf(m.block)] = m.block
          BY <3>1, <4>2 DEF ReplicaStep
        <5>2. VoteFor(m.block, m.from, v) = m
          BY <1>1, <5>1 DEF Message, VoteFor
        <5> QED
          BY <1>2, <5>1, <5>2
      <4> QED
        BY <4>1, <4>2
    <3>3. CASE m.type # "PROPOSAL"
      <4>1. s = HandleVote(r, m)
        BY <3>1, <3>3 DEF Handled
      <4>2. /\ Grounded(s) /\ s.proposedBlocks = r.proposedBlocks
            /\ DOMAIN s.tree.hbMapping = DOMAIN r.tree.hbMapping
        BY <1>1, <2>1, <3>1, <4>1, GroundedVote, HandleVoteInv
      <4> QED
        BY <2>1, <3>2, <4>2 DEF s
    <3>4. CASE m.type = "PROPOSAL" /\ AcceptsProposal(r, m)
      <4>1. s = RecordProposal(r, m.block) /\ NotarizedIn(r, ParentHash(m.block))
        BY <1>3, <2>3, <3>1, <3>4 DEF Handled, r
      <4>2. Grounded(s)
        BY <1>1, <2>1, <3>1, <3>4, <4>1, GroundedProposal
      <4>3. /\ EpochOf(m.block) \notin DOMAIN r.proposedBlocks /\ m.block \in Hash
            /\ IsTree(r.tree)
        BY <1>1, <3>1, <3>4 DEF AcceptsProposal, Message, ReplicaInv, IsReplica
      <4>4. /\ DOMAIN s.proposedBlocks = DOMAIN r.proposedBlocks \cup {EpochOf(m.block)}
            /\ s.proposedBlocks[EpochOf(m.block)] = m.block
            /\ \A e \in DOMAIN r.proposedBlocks : s.proposedBlocks[e] = r.proposedBlocks[e]
            /\ DOMAIN r.tree.hbMapping \subseteq DOMAIN s.tree.hbMapping
        BY <3>1, <4>1, <4>3, RecordProposalInv
      <4>5. m.block \in DOMAIN s.tree.hbMapping
        <5>1. s.tree = AddBlock(r.tree, m.block)
          BY <3>1, <4>1, RecordProposalFields DEF ReplicaInv, NotarizedIn
        <5>2. s.tree.hbMapping = TryEmplace(r.tree.hbMapping, m.block, "PRESENT")
          BY <4>3, <5>1, AddBlockFields
        <5> QED
          BY <5>2 DEF TryEmplace
      <4> QED
        BY <1>1, <2>1, <3>2, <4>2, <4>4, <4>5 DEF s
    <3>5. CASE m.type = "PROPOSAL" /\ ~AcceptsProposal(r, m)
      <4>1. s = r
        BY <3>1, <3>5 DEF Handled
      <4> QED
        BY <2>1, <3>2, <4>1 DEF s
    <3> QED
      BY <3>3, <3>4, <3>5
  <2> QED
    BY <2>2, <2>3
<1>5. ASSUME NEW v \in HonestNodes, NEW vote \in honest'[v].votes
      PROVE  VoteFor(honest'[v].proposedBlocks[vote[1]], vote[2], v)
                = VoteFor(honest[v].proposedBlocks[vote[1]], vote[2], v)'
  BY DEF VoteFor
<1> QED
  BY <1>2, <1>4, <1>5 DEF RecordedInv

\* A delivery leaves every proposal ready.
LEMMA PopKeepsReady ==
    ASSUME DishonestCount = 0, PartitionInv, IdleInv, GroundedInv, Pop
    PROVE  ReadyInv'
<1> SUFFICES ASSUME NEW m \in sent', m.type = "PROPOSAL", m.to \in HonestNodes
             PROVE  Ready(m)'
  BY DEF ReadyInv, HonestNodes
<1>1. PICK W : /\ Stepping(One, W)
               /\ \/ W = {}
                  \/ W = Sendings(Entry.message.to, "VOTE", Entry.message.block)
  BY PopStepping
<1>2. m \in sent
  BY <1>1 DEF Stepping, Sendings
<1>3. Ready(m)
  BY <1>2 DEF GroundedInv, ReadyInv
<1>4. OpenedBy(honest, m) => OpenedBy(honest, m)'
  BY PopSpends DEF IdleInv, OpenedBy, HonestNodes, EpochOf, GenesisHash
<1>5. NotarizedIn(honest[m.to], ParentHash(m.block))
         => NotarizedIn(honest'[m.to], ParentHash(m.block))
  BY PopHandles DEF ReplicaStep, NotarizedIn, IsPresent
<1>6. QuorumBefore(ParentHash(m.block), m) => QuorumBefore(ParentHash(m.block), m)'
  <2>1. Crossing' => Crossing
    BY PopStepping DEF Crossing
  <2> QED
    BY <1>1, <2>1, StepKeepsQuorum
<1>7. NotarizedIn(honest'[m.to], ParentHash(m.block))
         => NotarizedIn(honest[m.to], ParentHash(m.block))'
  BY DEF NotarizedIn, IsPresent
<1> QED
  BY <1>3, <1>4, <1>5, <1>6, <1>7 DEF Ready

\* The votes a leader has counted for a block come to every node before the
\* proposal it makes on that block: they wait in the same queue or are delivered
\* within the side, or came through the same queue as those it has counted.
LEMMA LeaderCounted ==
    ASSUME DishonestCount = 0, PartitionInv, IdleInv, GroundedInv, BroadcastTime,
           NEW W, Stepping(None, W), NEW v \in HonestNodes,
           NEW m \in W, m.from = v, m.to \in Nodes, m \notin sent,
           NEW b, NEW u \in Nodes, VoteFor(b, u, v) \in delivered
    PROVE  VoteFor(b, u, m.to) \in sent /\ Before(VoteFor(b, u, m.to), m)'
<1> DEFINE x == VoteFor(b, u, v)
           y == VoteFor(b, u, m.to)
           e == EdgeType(m)
<1>1. /\ x.from = u /\ x.to = v /\ x.type = "VOTE" /\ x.block = b
      /\ y.from = u /\ y.to = m.to /\ y.type = "VOTE" /\ y.block = b
  BY DEF VoteFor
<1>2. x \in sent /\ x \in delivered
  BY DEF IdleInv, DeliveredInv
<1>3. y \in sent
  BY <1>1, <1>2 DEF GroundedInv, BroadcastsInv, VotesInv
<1>4. pc = "broadcastTime" /\ pc' = "maj2maj" /\ delivered' = delivered
  BY BroadcastStepping
<1>5. e \in EdgeTypes /\ e' = e
  BY EdgeTypeIs DEF EdgeType, MinorityIds
<1> HIDE DEF x, y
<1>6. CASE y \in delivered
  BY <1>3, <1>4, <1>6 DEF Before, y
<1>7. CASE y \notin delivered /\ EdgeType(y) = e
  <2>1. PICK i \in 1 .. Len(queues[e]) : queues[e][i].message = y
    BY <1>3, <1>7 DEF GroundedInv, BroadcastsInv, HeldInv, Queued
  <2>2. /\ Len(queues[e]) \in Nat /\ None[e] = 0
        /\ i - 0 \in 1 .. Len(queues'[e]) /\ queues'[e][i - 0] = queues[e][i]
    BY <1>5 DEF Stepping, QueuesMove, None
  <2>3. PICK j \in 1 .. Len(queues'[e]) : queues'[e][j].message = m
    BY <1>5 DEF Stepping, QueuesMove
  <2>4. j > Len(queues[e])
    <3> SUFFICES ASSUME ~(j > Len(queues[e])) PROVE FALSE
      OBVIOUS
    <3>1. j \in 1 .. Len(queues[e]) /\ j - 0 = j
      BY <2>2
    <3>2. queues'[e][j] = queues[e][j]
      BY <1>5, <2>2, <3>1 DEF Stepping, QueuesMove
    <3> QED
      BY <1>5, <2>3, <3>1, <3>2, HeldFacts
  <2>5. i \in 1 .. j - 1 /\ queues'[e][i].message = y
    BY <2>1, <2>2, <2>4
  <2>6. \E l \in 1 .. Len(queues'[e]) : \E k \in 1 .. l - 1 :
           queues'[e][k].message = y /\ queues'[e][l].message = m
    BY <2>3, <2>5
  <2>7. Ahead(y, m)'
    BY <1>5, <2>6 DEF Ahead, y
  <2> QED
    BY <1>3, <2>7 DEF Before, y
<1>8. CASE y \notin delivered /\ EdgeType(y) # e
  <2>1. EdgeType(y) \in Within /\ e \notin Within
    <3> SUFFICES ASSUME ~(EdgeType(y) \in Within /\ e \notin Within) PROVE FALSE
      OBVIOUS
    <3>1. EdgeType(x) = EdgeType(y)
      BY <1>1, <1>8 DEF EdgeType, Within
    <3>2. pc = EdgeType(x)
      BY <1>1, <1>2, <1>3, <1>8, <3>1
         DEF GroundedInv, BroadcastsInv, FateInv, OfOneBroadcast
    <3> QED
      BY <1>4, <3>2, EdgeTypeIs DEF EdgeTypes
  <2>2. ~Crossing' /\ EdgeType(y)' \in Within' /\ EdgeType(m)' \notin Within'
    BY <1>4, <2>1 DEF Crossing, Within, EdgeType, MinorityIds, y
  <2> QED
    BY <1>3, <2>2 DEF Before, y
<1> QED
  BY <1>6, <1>7, <1>8

\* So what a leader proposes is ready.
LEMMA BroadcastKeepsReady ==
    ASSUME DishonestCount = 0, PartitionInv, IdleInv, GroundedInv, BroadcastTime
    PROVE  ReadyInv'
<1> SUFFICES ASSUME NEW m \in sent', m.type = "PROPOSAL", m.to \in HonestNodes
             PROVE  Ready(m)'
  BY DEF ReadyInv, HonestNodes
<1>1. /\ pc = "broadcastTime" /\ pc' = "maj2maj" /\ UNCHANGED <<honest, delivered>>
  BY BroadcastStepping
<1>2. PICK W : /\ Stepping(None, W)
               /\ \A w \in W, x \in sent : EpochOf(w.block) # EpochOf(x.block)
               /\ \/ W = {}
                  \/ \E v \in HonestNodes : \E b :
                        /\ W = Sendings(v, "PROPOSAL", b)
                        /\ ParentHash(b) = honest[v].tree.deepestNotarized
  BY BroadcastStepping
<1>3. CASE m \in sent
  <2>1. Ready(m)
    BY <1>3 DEF GroundedInv, ReadyInv
  <2>2. QuorumBefore(ParentHash(m.block), m) => QuorumBefore(ParentHash(m.block), m)'
    <3>1. Crossing' => Crossing
      BY <1>1 DEF Crossing
    <3> QED
      BY <1>2, <3>1, StepKeepsQuorum
  <2> QED
    BY <1>1, <2>1, <2>2 DEF Ready, OpenedBy, NotarizedIn, IsPresent
<1>4. CASE m \notin sent
  <2>1. m \in W
    BY <1>2, <1>4 DEF Stepping
  <2>0. PICK v \in HonestNodes :
           \E b : /\ W = Sendings(v, "PROPOSAL", b)
                  /\ ParentHash(b) = honest[v].tree.deepestNotarized
    BY <1>2, <2>1
  <2>2. PICK b : /\ W = Sendings(v, "PROPOSAL", b)
                 /\ ParentHash(b) = honest[v].tree.deepestNotarized
    BY <2>0
  <2> DEFINE r == honest[v]
             p == ParentHash(b)
             e == EpochOf(p)
  <2>3. m.from = v /\ m.to \in Nodes /\ m.block = b
    BY <2>1, <2>2 DEF Sendings
  <2>4. ReplicaInv(r) /\ ReplicaInv(honest[m.to])
    BY DEF PartitionInv, NodesInv
  <2>5. p \in DOMAIN r.tree.hbMapping /\ NotarizedIn(r, p)
    BY <2>2, <2>4 DEF ReplicaInv, TreeInv, IsTree, DeepestNotarizedIsDeepest, NotarizedIn,
                      IsPresent
  <2>6. CASE p = GenesisHash
    <3>1. NotarizedIn(honest[m.to], GenesisHash)
      BY <2>4 DEF ReplicaInv, TreeInv, RootedAtGenesis, NotarizedIn, IsPresent
    <3>2. NotarizedIn(honest[m.to], ParentHash(m.block))'
      BY <1>1, <2>2, <2>3, <2>6, <3>1 DEF NotarizedIn, IsPresent
    <3> QED
      BY <3>2 DEF Ready
  <2>7. CASE p # GenesisHash
    <3>1. /\ e \in DOMAIN r.proposedBlocks /\ r.proposedBlocks[e] = p
          /\ IsQuorum(Voters(r, e)) /\ Voters(r, e) \in SUBSET Nodes
      BY <2>5, <2>7 DEF PartitionInv, NodesInv, QuorumBehind, Voters
    <3> PICK Q \in SUBSET Nodes : Q = Voters(r, e)
      BY <3>1
    <3>2. ASSUME NEW u \in Q PROVE VoteFor(p, u, v) \in delivered
      <4>1. <<e, u>> \in r.votes
        BY DEF Voters
      <4>2. <<e, u>>[1] = e /\ <<e, u>>[2] = u
        OBVIOUS
      <4> QED
        BY <3>1, <4>1, <4>2 DEF GroundedInv, RecordedInv
    <3>3. ASSUME NEW u \in Q
          PROVE  VoteFor(p, u, m.to) \in sent /\ Before(VoteFor(p, u, m.to), m)'
      <4>1. u \in Nodes /\ VoteFor(p, u, v) \in delivered
        BY <3>2
      <4> HIDE DEF p
      <4> QED
        BY <1>2, <1>4, <2>1, <2>3, <4>1, LeaderCounted
    <3>4. ParentHash(m.block) = p /\ sent \subseteq sent' /\ IsQuorum(Q)
      BY <1>2, <2>2, <2>3, <3>1 DEF Stepping
    <3> HIDE DEF p
    <3>5. \A u \in Q : VoteFor(p, u, m.to) \in sent' /\ Before(VoteFor(p, u, m.to), m)'
      BY <3>3, <3>4
    <3>6. QuorumBefore(p, m)'
      BY <3>4, <3>5 DEF QuorumBefore, IsQuorum, Nodes
    <3> QED
      BY <3>4, <3>6 DEF Ready
  <2> QED
    BY <2>6, <2>7
<1> QED
  BY <1>3, <1>4

\* Turning to the next queue or pass leaves every proposal ready: before the queues
\* between the sides are reached those within them are empty.
LEMMA TurnKeepsReady ==
    ASSUME GroundedInv, NEW W, Stepping(None, W), sent' = sent, honest' = honest,
           Crossing' /\ ~Crossing => pc = "min2min" /\ queues[pc] = << >>
    PROVE  ReadyInv'
<1> SUFFICES ASSUME NEW m \in sent, m.type = "PROPOSAL", m.to \in HonestNodes
             PROVE  Ready(m)'
  BY DEF ReadyInv, HonestNodes
<1>1. Ready(m)
  BY DEF GroundedInv, ReadyInv
<1> DEFINE p == ParentHash(m.block)
<1>2. ASSUME QuorumBefore(p, m) PROVE QuorumBefore(p, m)'
  <2>1. CASE Crossing' => Crossing
    BY <1>2, <2>1, StepKeepsQuorum
  <2>2. CASE Crossing' /\ ~Crossing
    <3>1. PICK Q \in SUBSET Nodes :
             /\ IsQuorum(Q)
             /\ \A u \in Q : VoteFor(p, u, m.to) \in sent /\ Before(VoteFor(p, u, m.to), m)
      BY <1>2 DEF QuorumBefore
    <3>2. queues["maj2maj"] = << >> /\ queues["min2min"] = << >>
      BY <2>2 DEF GroundedInv, BroadcastsInv, HeldInv
    <3>3. ASSUME NEW y \in sent, Before(y, m) PROVE Before(y, m)'
      <4>1. CASE Ahead(y, m)
        BY <4>1, StepKeepsAhead DEF Before
      <4>2. CASE EdgeType(y) \in Within
        <5>1. y \in delivered
          BY <3>2, <4>2, EdgeTypeIs, AllDelivered DEF Within, GroundedInv
        <5> QED
          BY <5>1 DEF Before, Stepping
      <4> QED
        BY <3>3, <4>1, <4>2 DEF Before, Stepping
    <3> HIDE DEF p
    <3>4. ASSUME NEW u \in Q
          PROVE  VoteFor(p, u, m.to) \in sent' /\ Before(VoteFor(p, u, m.to), m)'
      <4> DEFINE y == VoteFor(p, u, m.to)
      <4>1. y \in sent /\ Before(y, m)
        BY <3>1
      <4> HIDE DEF y
      <4>2. Before(y, m)'
        BY <3>3, <4>1
      <4> QED
        BY <4>1, <4>2 DEF y
    <3> QED
      BY <3>1, <3>4 DEF QuorumBefore, IsQuorum, Nodes
  <2> QED
    BY <2>1, <2>2
<1> QED
  BY <1>1, <1>2 DEF Ready, OpenedBy, NotarizedIn, IsPresent
-----------------------------------------------------------------------------
\* Initially nothing was sent, and the trees hold the genesis block only.
LEMMA GroundedInit == Init => GroundedInv
<1> SUFFICES ASSUME Init PROVE GroundedInv
  OBVIOUS
<1>1. /\ sent = {} /\ delivered = {} /\ pc = "broadcastTime"
      /\ \A v \in HonestNodes : honest[v] = NewReplica
  BY DEF Init
<1>2. BroadcastsInv
  BY <1>1 DEF BroadcastsInv, OneBlockInv, VotesInv, HeldInv, FateInv
<1>3. RecordedInv
  BY <1>1 DEF RecordedInv, NewReplica, NewTree
<1>4. ReadyInv
  BY <1>1 DEF ReadyInv
<1>5. Grounded(NewReplica)
  BY DEF Grounded, NewReplica, NewTree
<1> QED
  BY <1>1, <1>2, <1>3, <1>4, <1>5 DEF GroundedInv

\* A step that changes no node and delivers nothing keeps what was recorded.
LEMMA RecordedStays ==
    ASSUME RecordedInv, honest' = honest, delivered' = delivered, sent \subseteq sent'
    PROVE  RecordedInv'
BY DEF RecordedInv, VoteFor, HonestNodes

\* Every step keeps the invariant.
LEMMA GroundedStep ==
    ASSUME DishonestCount = 0, PartitionInv, IdleInv, GroundedInv, [Next]_vars
    PROVE  GroundedInv'
<1>1. CASE BroadcastTime
  <2>1. BroadcastsInv' /\ ReadyInv'
    BY <1>1, BroadcastKeepsBroadcasts, BroadcastKeepsReady DEF GroundedInv
  <2>2. honest' = honest /\ delivered' = delivered /\ sent \subseteq sent'
    BY <1>1, BroadcastStepping DEF Stepping
  <2> QED
    BY <2>1, <2>2, RecordedStays DEF GroundedInv, HonestNodes
<1>2. CASE Pop
  <2>1. BroadcastsInv' /\ ReadyInv' /\ RecordedInv' /\ \A v \in HonestNodes : Grounded(honest'[v])
    BY <1>2, PopKeepsBroadcasts, PopKeepsReady, PopKeepsRecorded DEF GroundedInv
  <2> QED
    BY <2>1 DEF GroundedInv, HonestNodes, Grounded, NotarizedIn, IsPresent
<1>3. CASE NextQueue
  <2>1. /\ Stepping(None, {}) /\ UNCHANGED <<honest, sent, delivered, queues>>
        /\ pc \in EdgeTypes /\ queues[pc] = << >>
        /\ pc' = "min2min" => pc = "maj2maj"
        /\ Crossing' /\ ~Crossing => pc = "min2min"
    BY <1>3, NextQueueTurns
  <2>2. BroadcastsInv'
    BY <2>1, TurnKeepsBroadcasts DEF GroundedInv
  <2>3. ReadyInv'
    BY <2>1, TurnKeepsReady
  <2> QED
    BY <2>1, <2>2, <2>3, RecordedStays DEF GroundedInv, HonestNodes
<1>4. CASE EndPass
  <2>1. /\ UNCHANGED <<honest, sent, delivered>>
        /\ pc \in EdgeTypes /\ queues[pc] = << >>
        /\ pc' \in {"maj2maj", "broadcastTime"}
    BY <1>4, EndPassTurns
  <2>2. PICK W : Stepping(None, W)
    BY <1>4, EndPassTurns
  <2>3. pc' # "min2min" /\ ~Crossing'
    BY <2>1 DEF Crossing
  <2>4. BroadcastsInv'
    BY <2>1, <2>2, <2>3, TurnKeepsBroadcasts DEF GroundedInv
  <2>5. ReadyInv'
    BY <2>1, <2>2, <2>3, TurnKeepsReady
  <2> QED
    BY <2>1, <2>4, <2>5, RecordedStays DEF GroundedInv, HonestNodes
<1>5. CASE UNCHANGED vars
  <2>1. UNCHANGED <<honest, sent, queues, pc, delivered>>
    BY <1>5 DEF vars
  <2>2. BroadcastsInv'
    BY <2>1 DEF GroundedInv, BroadcastsInv, OneBlockInv, VotesInv, HeldInv, FateInv, Queued,
                OfOneBroadcast, VoteFor, EdgeType, MinorityIds, Nodes
  <2>3. ReadyInv'
    <3>1. Stepping(None, {})
      BY <2>1, NoneLost DEF Stepping, QueuesMove
    <3> QED
      BY <2>1, <3>1, TurnKeepsReady DEF Crossing
  <2> QED
    BY <2>1, <2>2, <2>3, RecordedStays DEF GroundedInv, HonestNodes
<1> QED
  BY <1>1, <1>2, <1>3, <1>4, <1>5 DEF Next, Terminating

\* Without dishonest nodes no assert of Block::notarize or Block::finalize
\* (block.cpp:30, 36) fails under the partitioning scheduler either, whatever its
\* decider and however much a synchronization brings at once.
THEOREM NoAssertFailsAmongHonest ==
    ASSUME DishonestCount = 0
    PROVE  Spec => []NoAssertFails
<1>1. Init => GroundedInv
  BY GroundedInit
<1>2. PartitionInv /\ IdleInv /\ GroundedInv /\ [Next]_vars => GroundedInv'
  BY GroundedStep
<1>3. GroundedInv => NoAssertFails
  BY AllHonest, SameHashes DEF GroundedInv, NoAssertFails, S!Aborted, Grounded
<1> QED
  BY <1>1, <1>2, <1>3, IdleInvariant, PTL DEF Spec
-----------------------------------------------------------------------------
(* Without dishonest nodes the nodes of one side handle the same messages in *)
(* the same order, and whichever side a quorum is made of has seen whatever  *)
(* came before it: so the nodes keep one ledger.                             *)

\* The copy of message x that goes to node u.
Copy(x, u) == [from |-> x.from, to |-> u, type |-> x.type, block |-> x.block]

SameSide(u, w) == (u \in MinorityIds) <=> (w \in MinorityIds)

\* The message at place k of queue e, and whether it waits for its first delivery.
At(e, k) == queues[e][k].message

Waits(e, k) == At(e, k) \notin delivered

\* If j is ahead of k and both wait, j is of the broadcast of k when something of it
\* waits ahead of j or was delivered from this queue.
Row(e, k, j) ==
    Waits(e, j) /\ Waits(e, k) =>
        /\ \A i \in 1 .. j : Waits(e, i) /\ OfOneBroadcast(At(e, i), At(e, k))
                               => OfOneBroadcast(At(e, j), At(e, k))
        /\ (\E x \in delivered : EdgeType(x) = e /\ OfOneBroadcast(x, At(e, k)))
              => OfOneBroadcast(At(e, j), At(e, k))

\* What waits of a broadcast stands together in its queue, and stands first when a
\* part of it was delivered.
RowsInv ==
    \A e \in EdgeTypes : \A k \in 1 .. Len(queues[e]) : \A j \in 1 .. k : Row(e, k, j)

\* The messages of W are the first of one broadcast.
Afresh(W) ==
    /\ \A w \in W, x \in sent : ~OfOneBroadcast(w, x)
    /\ \A w, x \in W : OfOneBroadcast(w, x)

\* Where the entries of a queue come from.
LEMMA StepPlaces ==
    ASSUME NEW D, NEW W, Stepping(D, W), NEW e \in EdgeTypes
    PROVE  /\ D[e] \in 0 .. 1 /\ Len(queues[e]) \in Nat /\ Len(queues'[e]) \in Nat
           /\ \A k \in 1 .. Len(queues'[e]) :
                 /\ k <= Len(queues[e]) - D[e] => /\ k + D[e] \in 1 .. Len(queues[e])
                                                  /\ At(e, k)' = At(e, k + D[e])
                 /\ k > Len(queues[e]) - D[e] => At(e, k)' \in W
<1>1. /\ D[e] \in 0 .. 1 /\ Len(queues[e]) \in Nat /\ Len(queues'[e]) \in Nat
      /\ \A k \in 1 .. Len(queues'[e]) :
            \/ /\ k + D[e] \in 1 .. Len(queues[e])
               /\ queues'[e][k] = queues[e][k + D[e]]
            \/ /\ k > Len(queues[e]) - D[e]
               /\ queues'[e][k].message \in W /\ EdgeType(queues'[e][k].message) = e
  BY DEF Stepping, QueuesMove
<1>2. ASSUME NEW k \in 1 .. Len(queues'[e])
      PROVE  /\ k <= Len(queues[e]) - D[e] => /\ k + D[e] \in 1 .. Len(queues[e])
                                               /\ queues'[e][k] = queues[e][k + D[e]]
             /\ k > Len(queues[e]) - D[e] => queues'[e][k].message \in W
  BY <1>1
<1> QED
  BY <1>1, <1>2 DEF At

\* A step keeps the rows, if what it delivers is the first message of its queue and
\* what it files is new or was delivered before.
LEMMA StepKeepsRows ==
    ASSUME RowsInv, NEW D, NEW W, Stepping(D, W),
           delivered \subseteq sent,
           \A e \in EdgeTypes : \A k \in 1 .. Len(queues[e]) : At(e, k) \in sent,
           W \subseteq delivered' \/ Afresh(W),
           \/ delivered' = delivered
           \/ \E e \in EdgeTypes : /\ D[e] = 1 /\ 1 \in 1 .. Len(queues[e])
                                   /\ EdgeType(At(e, 1)) = e
                                   /\ delivered' = delivered \cup {At(e, 1)}
    PROVE  RowsInv'
<1> SUFFICES ASSUME NEW e \in EdgeTypes, NEW k \in 1 .. Len(queues'[e]), NEW j \in 1 .. k
             PROVE  Row(e, k, j)'
  BY DEF RowsInv, EdgeTypes
<1> SUFFICES ASSUME Waits(e, j)', Waits(e, k)'
             PROVE  /\ \A i \in 1 .. j : Waits(e, i)' /\ OfOneBroadcast(At(e, i)', At(e, k)')
                                           => OfOneBroadcast(At(e, j)', At(e, k)')
                    /\ (\E x \in delivered' : EdgeType(x) = e /\ OfOneBroadcast(x, At(e, k)'))
                          => OfOneBroadcast(At(e, j)', At(e, k)')
  BY DEF Row, OfOneBroadcast, EdgeType, MinorityIds
<1> DEFINE d == D[e]
           n == Len(queues[e])
<1>1. /\ d \in 0 .. 1 /\ n \in Nat /\ Len(queues'[e]) \in Nat
      /\ \A l \in 1 .. Len(queues'[e]) :
            /\ l <= n - d => l + d \in 1 .. n /\ At(e, l)' = At(e, l + d)
            /\ l > n - d => At(e, l)' \in W
  BY StepPlaces
<1>2. delivered \subseteq delivered' /\ \A l \in 1 .. n : At(e, l) \in sent
  BY DEF Stepping
<1>3. j \in 1 .. Len(queues'[e]) /\ j <= k /\ \A i \in 1 .. j : i \in 1 .. Len(queues'[e]) /\ i <= j
  BY <1>1
<1> HIDE DEF d, n
<1>4. CASE k <= n - d
  <2> DEFINE kk == k + d
             jj == j + d
  <2>1. /\ kk \in 1 .. n /\ jj \in 1 .. kk
        /\ At(e, k)' = At(e, kk) /\ At(e, j)' = At(e, jj)
        /\ \A i \in 1 .. j : i + d \in 1 .. jj /\ At(e, i)' = At(e, i + d)
    BY <1>1, <1>3, <1>4
  <2> HIDE DEF kk, jj
  <2>2. Waits(e, jj) /\ Waits(e, kk) /\ \A i \in 1 .. j : Waits(e, i)' => Waits(e, i + d)
    BY <1>2, <2>1 DEF Waits
  <2>3. /\ \A i \in 1 .. jj : Waits(e, i) /\ OfOneBroadcast(At(e, i), At(e, kk))
                                => OfOneBroadcast(At(e, jj), At(e, kk))
        /\ (\E x \in delivered : EdgeType(x) = e /\ OfOneBroadcast(x, At(e, kk)))
              => OfOneBroadcast(At(e, jj), At(e, kk))
    BY <2>1, <2>2 DEF RowsInv, Row, n
  <2>4. ASSUME NEW x \in delivered', EdgeType(x) = e, OfOneBroadcast(x, At(e, kk))
        PROVE  OfOneBroadcast(At(e, jj), At(e, kk))
    <3>1. CASE x \in delivered
      BY <2>3, <2>4, <3>1
    <3>2. CASE x \notin delivered
      <4>1. d = 1 /\ x = At(e, 1)
        <5>1. PICK f \in EdgeTypes : /\ D[f] = 1 /\ EdgeType(At(f, 1)) = f
                                     /\ delivered' = delivered \cup {At(f, 1)}
          BY <2>4, <3>2
        <5> QED
          BY <2>4, <3>2, <5>1 DEF d
      <4>2. Waits(e, 1) /\ 1 \in 1 .. jj
        BY <1>3, <3>2, <4>1 DEF Waits, jj
      <4> QED
        BY <2>3, <2>4, <4>1, <4>2
    <3> QED
      BY <3>1, <3>2
  <2> QED
    BY <2>1, <2>2, <2>3, <2>4
<1>5. CASE k > n - d
  <2>1. At(e, k)' \in W /\ Afresh(W)
    BY <1>1, <1>5 DEF Waits
  <2>2. ASSUME NEW i \in 1 .. Len(queues'[e]), OfOneBroadcast(At(e, i)', At(e, k)')
        PROVE  i > n - d
    <3> SUFFICES ASSUME ~(i > n - d) PROVE FALSE
      OBVIOUS
    <3>1. i + d \in 1 .. n /\ At(e, i)' = At(e, i + d)
      BY <1>1
    <3> QED
      BY <1>2, <2>1, <2>2, <3>1 DEF Afresh, OfOneBroadcast
  <2>3. ASSUME NEW i \in 1 .. j, OfOneBroadcast(At(e, i)', At(e, k)')
        PROVE  OfOneBroadcast(At(e, j)', At(e, k)')
    <3>1. i > n - d
      BY <1>3, <2>2, <2>3
    <3>2. j > n - d
      BY <1>1, <1>3, <3>1
    <3> QED
      BY <1>1, <1>3, <2>1, <3>2 DEF Afresh
  <2>4. ASSUME NEW x \in delivered', EdgeType(x) = e, OfOneBroadcast(x, At(e, k)')
        PROVE  OfOneBroadcast(At(e, j)', At(e, k)')
    <3>1. x \in sent
      BY <1>2
    <3> QED
      BY <2>1, <2>4, <3>1 DEF Afresh, OfOneBroadcast
  <2> QED
    BY <2>3, <2>4
<1> QED
  BY <1>1, <1>4, <1>5
-----------------------------------------------------------------------------
\* The proposal of block b as sent to u by the leader of its epoch.
ProposalTo(b, u) ==
    [from |-> GetLeader(EpochOf(b)), to |-> u, type |-> "PROPOSAL", block |-> b]

\* Node u has voted for block b.
Voted(b, u) == VoteFor(b, u, u) \in sent

\* Whether a node with replica r answers proposal m with a vote.
WouldVote(r, m) ==
    /\ AcceptsProposal(r, m)
    /\ IsDeepestNotarized(RecordProposal(r, m.block).tree, ParentHash(m.block))

\* What is sent goes to every node.
LEMMA CopiesSent ==
    ASSUME PartitionInv, IdleInv, BroadcastsInv, NEW x \in sent, NEW u \in Nodes
    PROVE  Copy(x, u) \in sent
<1>1. x \in Message
  BY DEF PartitionInv, NodesInv
<1>2. CASE x.type = "PROPOSAL"
  BY <1>2 DEF IdleInv, ProposalsInv, Copy
<1>3. CASE x.type = "VOTE"
  BY <1>3 DEF BroadcastsInv, VotesInv, VoteFor, Copy
<1> QED
  BY <1>1, <1>2, <1>3 DEF Message

\* Its copies differ in the receiver only.
LEMMA CopyFields ==
    ASSUME NEW x, NEW u
    PROVE  /\ Copy(x, u).from = x.from /\ Copy(x, u).to = u
           /\ Copy(x, u).type = x.type /\ Copy(x, u).block = x.block
           /\ OfOneBroadcast(x, Copy(x, u)) /\ OfOneBroadcast(Copy(x, u), x)
           /\ \A w : Copy(Copy(x, u), w) = Copy(x, w)
           /\ x \in Message /\ x.to = u => Copy(x, u) = x
           /\ \A w : SameSide(u, w) => EdgeType(Copy(x, u)) = EdgeType(Copy(x, w))
<1>1. \A w : /\ Copy(x, w).from = x.from /\ Copy(x, w).to = w
             /\ Copy(x, w).type = x.type /\ Copy(x, w).block = x.block
  BY DEF Copy
<1>2. OfOneBroadcast(x, Copy(x, u)) /\ OfOneBroadcast(Copy(x, u), x)
  BY <1>1 DEF OfOneBroadcast
<1>3. \A w : Copy(Copy(x, u), w) = Copy(x, w)
  BY DEF Copy
<1>4. x \in Message /\ x.to = u => Copy(x, u) = x
  BY DEF Copy, Message
<1>5. \A w : SameSide(u, w) => EdgeType(Copy(x, u)) = EdgeType(Copy(x, w))
  BY <1>1 DEF EdgeType, SameSide
<1> QED
  BY <1>1, <1>2, <1>3, <1>4, <1>5

\* Messages of one broadcast to one node are the same.
LEMMA SameMessage ==
    ASSUME PartitionInv, NEW x \in sent, NEW y \in sent, OfOneBroadcast(x, y), x.to = y.to
    PROVE  x = y
<1>1. x \in Message /\ y \in Message
  BY DEF PartitionInv, NodesInv
<1> QED
  BY <1>1 DEF Message, OfOneBroadcast

\* A proposal comes from the leader of its epoch.
LEMMA ProposalIs ==
    ASSUME PartitionInv, IdleInv, NEW x \in sent, x.type = "PROPOSAL"
    PROVE  x = ProposalTo(x.block, x.to)
<1>1. x \in Message /\ x.from = GetLeader(EpochOf(x.block))
  BY DEF PartitionInv, NodesInv, IdleInv, ProposalsInv
<1> QED
  BY <1>1 DEF Message, ProposalTo

\* While a part of a broadcast is delivered, a first delivery is of that broadcast.
LEMMA FreshFirst ==
    ASSUME PartitionInv, IdleInv, BroadcastsInv, RowsInv, Pop, Entry.message \notin delivered,
           NEW x \in delivered, NEW y \in sent, y \notin delivered,
           OfOneBroadcast(x, y), EdgeType(x) = EdgeType(y)
    PROVE  OfOneBroadcast(Entry.message, y)
<1>1. pc = EdgeType(y)
  BY DEF BroadcastsInv, FateInv, IdleInv, DeliveredInv
<1>2. PICK j \in 1 .. Len(queues[pc]) : queues[pc][j].message = y
  BY <1>1 DEF BroadcastsInv, HeldInv, Queued
<1>3. /\ pc \in EdgeTypes /\ 1 \in 1 .. j /\ At(pc, 1) = Entry.message /\ At(pc, j) = y
  BY <1>2, EntryFirst DEF At
<1>4. Row(pc, j, 1)
  BY <1>2, <1>3 DEF RowsInv
<1> QED
  BY <1>1, <1>3, <1>4 DEF Row, Waits

\* Replicas make no difference between the copies.
LEMMA HandledCopy ==
    ASSUME NEW r, NEW x, NEW u
    PROVE  /\ Handled(r, Copy(x, u)) = Handled(r, x)
           /\ WouldVote(r, Copy(x, u)) <=> WouldVote(r, x)
<1> DEFINE y == Copy(x, u)
<1>1. y.from = x.from /\ y.type = x.type /\ y.block = x.block
  BY CopyFields
<1> HIDE DEF y
<1>2. /\ CountsVote(r, y) <=> CountsVote(r, x)
      /\ AcceptsProposal(r, y) <=> AcceptsProposal(r, x)
  BY <1>1 DEF CountsVote, AcceptsProposal
<1>3. HandleVote(r, y) = HandleVote(r, x)
  BY <1>1, <1>2 DEF HandleVote
<1>4. WouldVote(r, y) <=> WouldVote(r, x)
  BY <1>1, <1>2 DEF WouldVote
<1>5. Handled(r, y) = Handled(r, x)
  BY <1>1, <1>2, <1>3 DEF Handled
<1> QED
  BY <1>4, <1>5 DEF y

\* An honest node answers a proposal if it would vote for it.
LEMMA AnswerIs ==
    ASSUME DishonestCount = 0, NEW m, m.to \in HonestNodes, m.type = "PROPOSAL"
    PROVE  SendRec(m).out = IF WouldVote(honest[m.to], m)
                            THEN << Envelope(m.to, Nodes, "VOTE", m.block) >> ELSE << >>
<1> DEFINE h == HonestOnMessageReceive(m.to, honest[m.to], m)
<1>1. SendRec(m).out = h.out
  BY NodeSets DEF SendRec
<1>2. h.out = IF WouldVote(honest[m.to], m)
              THEN << Envelope(m.to, Nodes, "VOTE", m.block) >> ELSE << >>
  BY DEF HonestOnMessageReceive, HonestHandlePropose, WouldVote
<1> QED
  BY <1>1, <1>2

\* A delivery makes its receiver vote or nobody.
LEMMA PopVotes ==
    ASSUME DishonestCount = 0, PartitionInv, Pop
    PROVE  LET m == Entry.message
           IN  \A b, u : Voted(b, u)' <=> \/ Voted(b, u)
                                          \/ /\ u = m.to /\ b = m.block
                                             /\ m.to \in HonestNodes /\ m.type = "PROPOSAL"
                                             /\ WouldVote(honest[m.to], m)
<1> DEFINE m == Entry.message
           Answers == /\ m.to \in HonestNodes /\ m.type = "PROPOSAL"
                      /\ WouldVote(honest[m.to], m)
<1>1. m.type = "PROPOSAL" => Entry.round <= time
  BY EntryHoldable
<1>2. /\ Entry.round <= time => sent' = sent \cup Messages(SendRec(m).out)
      /\ sent' = sent \cup Messages(SendRec(m).out) \/ sent' = sent
  <2>1. Entry.round \in Nat /\ time \in Nat
    BY EntryHoldable, PartitionInvFacts
  <2>2. \/ sent' = sent \cup Messages(SendRec(m).out)
        \/ Entry.round > time /\ sent' = sent
    BY DEF Pop, OnPop
  <2> QED
    BY <2>1, <2>2
<1>3. m \in sent /\ m \in Message
  BY EntryFirst DEF PartitionInv, NodesInv
<1>4. Messages(<< >>) = {}
  BY NothingFiled
<1> HIDE DEF m
<1>5. CASE Answers
  <2>1. SendRec(m).out = << Envelope(m.to, Nodes, "VOTE", m.block) >>
    BY <1>5, AnswerIs
  <2>2. sent' = sent \cup Sendings(m.to, "VOTE", m.block)
    BY <1>1, <1>2, <1>5, <2>1, MessagesOfBroadcast
  <2>3. \A b, u : VoteFor(b, u, u) \in Sendings(m.to, "VOTE", m.block)
                     <=> u = m.to /\ b = m.block
    BY <1>3 DEF VoteFor, Sendings, Message
  <2> QED
    BY <1>5, <2>2, <2>3 DEF Voted, VoteFor, m
<1>6. CASE ~Answers
  <2>1. SendRec(m).out = << >>
    <3>1. CASE m.to \in HonestNodes /\ m.type = "PROPOSAL"
      BY <1>6, <3>1, AnswerIs
    <3>2. CASE ~(m.to \in HonestNodes /\ m.type = "PROPOSAL")
      BY <3>2, DeliveryAmongHonest
    <3> QED
      BY <3>1, <3>2
  <2>2. sent' = sent
    BY <1>2, <1>4, <2>1
  <2> QED
    BY <1>6, <2>2 DEF Voted, VoteFor, m
<1> QED
  BY <1>5, <1>6
-----------------------------------------------------------------------------
\* Who has voted got the proposal.
VotedInv ==
    \A y \in sent : y.type = "VOTE" => ProposalTo(y.block, y.from) \in delivered

\* Before a vote of one node of a side is delivered, the other nodes of the side get
\* the proposal: x of y is in time.
InTurn(x, y) ==
    \/ x \in delivered
    \/ y \notin delivered /\ (Ahead(x, y) \/ (pc = EdgeType(x) /\ EdgeType(y) # pc))

VoteAfterInv ==
    \A y \in sent : y.type = "VOTE" =>
        \A u \in HonestNodes : SameSide(u, y.from) => InTurn(ProposalTo(y.block, u), y)

\* Node u has got its copy of x, and w is still to get x.
Behind(w, u, x) ==
    x \in sent /\ x.to = w /\ x \notin delivered /\ Copy(x, u) \in delivered

\* Then u is where w will be, its vote included.
OneAhead(u, w) ==
    \A x : Behind(w, u, x) =>
        /\ honest[u] = Handled(honest[w], x)
        /\ x.type = "PROPOSAL" => (Voted(x.block, u) <=> WouldVote(honest[w], x))

\* Otherwise they are at the same place.
Level(u, w) == (\A x : ~Behind(w, u, x) /\ ~Behind(u, w, x)) => honest[u] = honest[w]

\* Who both got a proposal have both voted for it or both not.
Alike(u, w) ==
    \A x \in delivered : x.type = "PROPOSAL" /\ x.to = u /\ Copy(x, w) \in delivered
        => (Voted(x.block, u) <=> Voted(x.block, w))

LockInv ==
    \A u, w \in HonestNodes : SameSide(u, w) => OneAhead(u, w) /\ Level(u, w) /\ Alike(u, w)

\* The inductive invariant of the sides.
SidesAlikeInv == RowsInv /\ VotedInv /\ VoteAfterInv /\ LockInv
-----------------------------------------------------------------------------
\* Where a message is filed behind those that wait.
LEMMA StepFilesBehind ==
    ASSUME PartitionInv, NEW D, NEW W, Stepping(D, W), NEW x, Queued(x),
           NEW y \in W, y \notin sent, EdgeType(x) = EdgeType(y)
    PROVE  x \in delivered' \/ Ahead(x, y)'
<1> DEFINE e == EdgeType(y)
<1>1. e \in EdgeTypes
  BY EdgeTypeIs
<1>2. SUFFICES ASSUME x \notin delivered' PROVE Ahead(x, y)'
  OBVIOUS
<1>3. Queued(x)'
  BY <1>2, StepKeepsQueued
<1>4. Ahead(x, y)' <=> \E l \in 1 .. Len(queues'[e]) : \E k \in 1 .. l - 1 :
          queues'[e][k].message = x /\ queues'[e][l].message = y
  BY DEF Ahead, EdgeType, MinorityIds
<1>5. Queued(x)' <=> \E k \in 1 .. Len(queues'[e]) : queues'[e][k].message = x
  BY DEF Queued, EdgeType, MinorityIds
<1>6. PICK i \in 1 .. Len(queues[e]) : queues[e][i].message = x
  BY DEF Queued
<1>7. PICK l \in 1 .. Len(queues'[e]) : queues'[e][l].message = y
  BY <1>1 DEF Stepping, QueuesMove
<1>8. /\ D[e] \in 0 .. 1 /\ Len(queues[e]) \in Nat /\ Len(queues'[e]) \in Nat
      /\ i > D[e] => i - D[e] \in 1 .. Len(queues'[e]) /\ queues'[e][i - D[e]] = queues[e][i]
      /\ l <= Len(queues[e]) - D[e] => /\ l + D[e] \in 1 .. Len(queues[e])
                                       /\ queues'[e][l].message = queues[e][l + D[e]].message
      /\ D[e] # 0 => queues[e][1].message \in delivered'
  <2>1. /\ D[e] \in 0 .. 1 /\ Len(queues[e]) \in Nat /\ Len(queues'[e]) \in Nat
        /\ l <= Len(queues[e]) - D[e] => /\ l + D[e] \in 1 .. Len(queues[e])
                                         /\ At(e, l)' = At(e, l + D[e])
    BY <1>1, StepPlaces
  <2>2. /\ i > D[e] => i - D[e] \in 1 .. Len(queues'[e]) /\ queues'[e][i - D[e]] = queues[e][i]
        /\ D[e] # 0 => queues[e][1].message \in delivered'
    BY <1>1 DEF Stepping, QueuesMove
  <2> QED
    BY <2>1, <2>2 DEF At
<1>9. i > D[e]
  BY <1>2, <1>6, <1>8
<1>10. l > Len(queues[e]) - D[e]
  BY <1>1, <1>7, <1>8, HeldFacts
<1> DEFINE k == i - D[e]
           n == Len(queues[e])
           d == D[e]
<1>11. queues'[e][k].message = x
  BY <1>6, <1>8, <1>9
<1>12. k \in 1 .. l - 1
  <2>1. d \in Nat /\ n \in Nat /\ i \in Nat /\ l \in Nat /\ i <= n /\ i > d /\ l > n - d
    BY <1>8, <1>9, <1>10
  <2>2. k = i - d
    OBVIOUS
  <2> HIDE DEF n, d, k
  <2> QED
    BY <2>1, <2>2
<1> HIDE DEF k
<1> QED
  BY <1>4, <1>7, <1>11, <1>12

\* A message is not ahead of the first of its queue.
LEMMA NoneAheadOfFirst ==
    ASSUME PartitionInv, IdleInv, Pop, NEW x, NEW y, Ahead(x, y)
    PROVE  y # Entry.message
<1> SUFFICES ASSUME y = Entry.message PROVE FALSE
  OBVIOUS
<1>1. /\ pc \in EdgeTypes /\ queues[pc][1].message = y
      /\ 1 \in 1 .. Len(queues[pc]) /\ EdgeType(y) = pc
  BY EntryFirst
<1>2. PICK j \in 1 .. Len(queues[pc]) : \E i \in 1 .. j - 1 : queues[pc][j].message = y
  BY <1>1 DEF Ahead
<1>3. j = 1
  BY <1>1, <1>2 DEF IdleInv, DistinctInv, Distinct
<1> QED
  BY <1>2, <1>3

\* A delivery keeps what is in turn.
LEMMA PopKeepsInTurn ==
    ASSUME DishonestCount = 0, PartitionInv, IdleInv, Pop, NEW x, NEW y, InTurn(x, y)
    PROVE  InTurn(x, y)'
<1>1. delivered' = delivered \cup {Entry.message} /\ pc' = pc /\ EdgeType(Entry.message) = pc
  BY PopStepping, EntryFirst
<1>2. PICK W : Stepping(One, W)
  BY PopStepping
<1>3. EdgeType(x)' = EdgeType(x) /\ EdgeType(y)' = EdgeType(y)
  BY DEF EdgeType, MinorityIds
<1>4. CASE x \in delivered
  BY <1>1, <1>4 DEF InTurn
<1>5. CASE y \notin delivered /\ Ahead(x, y)
  <2>1. x \in delivered' \/ Ahead(x, y)'
    BY <1>2, <1>5, StepKeepsAhead
  <2>2. y \notin delivered'
    BY <1>1, <1>5, NoneAheadOfFirst
  <2> QED
    BY <2>1, <2>2 DEF InTurn
<1>6. CASE y \notin delivered /\ pc = EdgeType(x) /\ EdgeType(y) # pc
  BY <1>1, <1>3, <1>6 DEF InTurn
<1> QED
  BY <1>4, <1>5, <1>6 DEF InTurn

\* A step that delivers nothing does, if it does not leave a queue too early.
LEMMA TurnKeepsInTurn ==
    ASSUME BroadcastsInv, NEW W, Stepping(None, W), delivered' = delivered,
           pc \in EdgeTypes => queues[pc] = << >>,
           NEW x \in sent, NEW y, InTurn(x, y)
    PROVE  InTurn(x, y)'
<1>1. CASE x \in delivered
  BY <1>1 DEF InTurn
<1>2. CASE y \notin delivered /\ Ahead(x, y)
  BY <1>2, StepKeepsAhead DEF InTurn
<1>3. CASE pc = EdgeType(x)
  <2>1. x \in delivered
    BY <1>3, EdgeTypeIs, AllDelivered
  <2> QED
    BY <2>1 DEF InTurn
<1> QED
  BY <1>1, <1>2, <1>3 DEF InTurn

\* A delivery keeps the votes behind the proposals.
LEMMA PopKeepsVoteAfter ==
    ASSUME DishonestCount = 0, PartitionInv, IdleInv, BroadcastsInv, VotedInv, VoteAfterInv, Pop
    PROVE  VotedInv' /\ VoteAfterInv'
<1> DEFINE m == Entry.message
<1>1. /\ m \in sent /\ pc' = pc /\ EdgeType(m) = pc /\ delivered' = delivered \cup {m}
      /\ m \in Message
  BY EntryFirst, PopStepping DEF PartitionInv, NodesInv
<1>2. PICK W : /\ Stepping(One, W)
               /\ \/ W = {}
                  \/ /\ m.to \in HonestNodes /\ m.type = "PROPOSAL"
                     /\ AcceptsProposal(honest[m.to], m)
                     /\ W = Sendings(m.to, "VOTE", m.block)
  BY PopStepping
<1> HIDE DEF m
<1>3. sent' = sent \cup W
  BY <1>2 DEF Stepping
<1>4. ASSUME NEW y \in W, y \notin sent
      PROVE  /\ y.from = m.to /\ y.block = m.block /\ y \notin delivered'
             /\ ProposalTo(y.block, y.from) = m /\ m.to \in HonestNodes /\ m.type = "PROPOSAL"
  <2>1. y.from = m.to /\ y.block = m.block /\ m.to \in HonestNodes /\ m.type = "PROPOSAL"
    BY <1>2, <1>4 DEF Sendings
  <2>2. y \notin delivered'
    BY <1>1, <1>4 DEF IdleInv, DeliveredInv
  <2>3. m = ProposalTo(m.block, m.to)
    BY <1>1, <2>1, ProposalIs
  <2> QED
    BY <2>1, <2>2, <2>3
<1>5. VotedInv'
  <2> SUFFICES ASSUME NEW y \in sent', y.type = "VOTE"
               PROVE  ProposalTo(y.block, y.from) \in delivered'
    BY DEF VotedInv, ProposalTo, EpochOf, GenesisHash
  <2> QED
    BY <1>1, <1>3, <1>4 DEF VotedInv
<1>6. VoteAfterInv'
  <2> SUFFICES ASSUME NEW y \in sent', y.type = "VOTE", NEW u \in HonestNodes, SameSide(u, y.from)
               PROVE  InTurn(ProposalTo(y.block, u), y)'
    BY DEF VoteAfterInv, SameSide, MinorityIds, HonestNodes
  <2> PICK x : x = ProposalTo(y.block, u)
    OBVIOUS
  <2> SUFFICES InTurn(x, y)'
    BY DEF InTurn, Ahead, EdgeType, MinorityIds, ProposalTo, EpochOf, GenesisHash
  <2>1. CASE y \in sent
    BY <2>1, PopKeepsInTurn DEF VoteAfterInv
  <2>2. CASE y \notin sent
    <3>1. /\ y \in W /\ y.from = m.to /\ y.block = m.block /\ y \notin delivered'
          /\ ProposalTo(y.block, y.from) = m /\ m.to \in HonestNodes /\ m.type = "PROPOSAL"
      BY <1>3, <1>4, <2>2
    <3>2. x = Copy(m, u)
      BY <3>1 DEF ProposalTo, Copy
    <3>3. EdgeType(x) = pc
      BY <1>1, <3>1, <3>2, CopyFields
    <3>4. x \in sent
      BY <1>1, <3>2, CopiesSent, NodeSets
    <3>5. CASE x \in delivered
      BY <1>1, <3>5 DEF InTurn
    <3>6. CASE x \notin delivered /\ EdgeType(y) = pc
      <4>1. Queued(x)
        BY <3>4, <3>6 DEF BroadcastsInv, HeldInv
      <4>2. x \in delivered' \/ Ahead(x, y)'
        BY <1>2, <2>2, <3>1, <3>3, <3>6, <4>1, StepFilesBehind
      <4> QED
        BY <3>1, <4>2 DEF InTurn
    <3>7. CASE EdgeType(y) # pc
      <4>1. pc' = EdgeType(x)' /\ EdgeType(y)' # pc'
        BY <1>1, <3>3, <3>7 DEF EdgeType, MinorityIds
      <4> QED
        BY <3>1, <4>1 DEF InTurn
    <3> QED
      BY <3>5, <3>6, <3>7
  <2> QED
    BY <2>1, <2>2
<1> QED
  BY <1>5, <1>6
-----------------------------------------------------------------------------
\* A step that delivers nothing and makes nobody vote keeps the sides together.
LEMMA LockStays ==
    ASSUME LockInv, PartitionInv, PartitionInv', IdleInv, BroadcastsInv,
           honest' = honest, delivered' = delivered, sent \subseteq sent',
           \A b, u : Voted(b, u)' <=> Voted(b, u)
    PROVE  LockInv'
<1>1. ASSUME NEW w \in HonestNodes, NEW u \in HonestNodes, NEW x
      PROVE  Behind(w, u, x)' <=> Behind(w, u, x)
  <2>1. Behind(w, u, x)' <=> /\ x \in sent' /\ x.to = w /\ x \notin delivered
                             /\ Copy(x, u) \in delivered
    BY DEF Behind, Copy
  <2>2. ASSUME x \in sent', x.to = w, Copy(x, u) \in delivered PROVE x \in sent
    <3>1. x \in Message
      BY <2>2 DEF PartitionInv, NodesInv, Message, Nodes, Hash
    <3>2. Copy(x, u) \in sent
      BY <2>2 DEF IdleInv, DeliveredInv
    <3>3. Copy(Copy(x, u), w) \in sent
      BY <3>2, CopiesSent, NodeSets
    <3> QED
      BY <2>2, <3>1, <3>3, CopyFields
  <2> QED
    BY <2>1, <2>2 DEF Behind
<1> SUFFICES ASSUME NEW u \in HonestNodes, NEW w \in HonestNodes, SameSide(u, w)
             PROVE  OneAhead(u, w)' /\ Level(u, w)' /\ Alike(u, w)'
  BY DEF LockInv, SameSide, MinorityIds, HonestNodes
<1>2. OneAhead(u, w) /\ Level(u, w) /\ Alike(u, w)
  BY DEF LockInv
<1>3. \A x : Voted(x.block, u)' <=> Voted(x.block, u)
  OBVIOUS
<1>4. \A x : Voted(x.block, w)' <=> Voted(x.block, w)
  OBVIOUS
<1>5. ASSUME NEW x PROVE WouldVote(honest[w], x)' <=> WouldVote(honest[w], x)
  BY DEF WouldVote
<1>6. ASSUME NEW x PROVE Handled(honest[w], x)' = Handled(honest[w], x)
  BY DEF Handled
<1>7. OneAhead(u, w)'
  BY <1>1, <1>2, <1>3, <1>5, <1>6 DEF OneAhead
<1>8. Level(u, w)'
  BY <1>1, <1>2 DEF Level
<1>9. Alike(u, w)'
  BY <1>2, <1>3, <1>4 DEF Alike, Copy
<1> QED
  BY <1>7, <1>8, <1>9

\* If a node is behind when another message is delivered for the first time, that
\* message is of the same broadcast, but not to the node that is ahead.
LEMMA BehindFirst ==
    ASSUME PartitionInv, IdleInv, BroadcastsInv, RowsInv, Pop, Entry.message \notin delivered,
           NEW u \in HonestNodes, NEW w \in HonestNodes, SameSide(u, w),
           NEW x, Behind(w, u, x)
    PROVE  Entry.message.to # u /\ (Entry.message.to = w => x = Entry.message)
<1>1. /\ x \in sent /\ x.to = w /\ x \notin delivered /\ Copy(x, u) \in delivered
      /\ Copy(x, u) \in sent /\ x \in Message
  BY DEF Behind, IdleInv, DeliveredInv, PartitionInv, NodesInv
<1>2. /\ OfOneBroadcast(Copy(x, u), x) /\ Copy(x, w) = x
      /\ EdgeType(Copy(x, u)) = EdgeType(x) /\ Copy(x, u).to = u
  BY <1>1, CopyFields
<1>3. OfOneBroadcast(Entry.message, x)
  BY <1>1, <1>2, FreshFirst
<1>4. Entry.message \in sent
  BY EntryFirst
<1>5. Entry.message.to = w => x = Entry.message
  BY <1>1, <1>3, <1>4, SameMessage
<1>6. Entry.message.to = u => Entry.message = Copy(x, u)
  BY <1>1, <1>2, <1>3, <1>4, SameMessage DEF OfOneBroadcast
<1> QED
  BY <1>1, <1>5, <1>6

\* The first of its side to get a message was where the others are.
LEMMA LevelBefore ==
    ASSUME PartitionInv, IdleInv, BroadcastsInv, RowsInv, LockInv, Pop,
           Entry.message \notin delivered,
           NEW u \in HonestNodes, NEW w \in HonestNodes, SameSide(u, w),
           Entry.message.to = u, Copy(Entry.message, w) \notin delivered
    PROVE  honest[u] = honest[w]
<1>1. \A x : ~Behind(w, u, x)
  BY BehindFirst
<1>2. ASSUME NEW x, Behind(u, w, x) PROVE FALSE
  <2>1. SameSide(w, u)
    BY DEF SameSide
  <2>2. x = Entry.message
    BY <1>2, <2>1, BehindFirst
  <2> QED
    BY <1>2, <2>2 DEF Behind
<1> QED
  BY <1>1, <1>2 DEF LockInv, Level

\* What the step does; m is delivered for the first time.
FirstDelivery(m) ==
    /\ m \in sent /\ m \in Message /\ m \notin delivered
    /\ delivered' = delivered \cup {m} /\ sent \subseteq sent'
    /\ \A v \in HonestNodes : v # m.to => honest'[v] = honest[v]
    /\ m.to \in HonestNodes => honest'[m.to] = Handled(honest[m.to], m)
    /\ \A b, u : Voted(b, u)' <=> \/ Voted(b, u)
                                  \/ /\ u = m.to /\ b = m.block
                                     /\ m.to \in HonestNodes /\ m.type = "PROPOSAL"
                                     /\ WouldVote(honest[m.to], m)
    /\ m.type = "PROPOSAL" => m = ProposalTo(m.block, m.to) /\ ~Voted(m.block, m.to)

\* A message that has not been delivered is, when it is popped.
LEMMA FirstDeliveryIs ==
    ASSUME DishonestCount = 0, PartitionInv, IdleInv, VotedInv, Pop,
           NEW m, m = Entry.message, m \notin delivered
    PROVE  FirstDelivery(m)
<1>1. /\ m \in sent /\ m \in Message
      /\ \A v \in HonestNodes : v # m.to => honest'[v] = honest[v]
      /\ m.to \in HonestNodes => honest'[m.to] = Handled(honest[m.to], m)
  BY PopHandles
<1>2. delivered' = delivered \cup {m} /\ sent \subseteq sent'
  BY PopStepping DEF Stepping
<1>3. \A b, u : Voted(b, u)' <=> \/ Voted(b, u)
                                 \/ /\ u = m.to /\ b = m.block
                                    /\ m.to \in HonestNodes /\ m.type = "PROPOSAL"
                                    /\ WouldVote(honest[m.to], m)
  BY PopVotes
<1>4. ASSUME m.type = "PROPOSAL" PROVE m = ProposalTo(m.block, m.to) /\ ~Voted(m.block, m.to)
  <2>1. m = ProposalTo(m.block, m.to)
    BY <1>1, <1>4, ProposalIs
  <2>2. ASSUME Voted(m.block, m.to) PROVE FALSE
    <3> DEFINE y == VoteFor(m.block, m.to, m.to)
    <3>1. y \in sent /\ y.type = "VOTE" /\ y.block = m.block /\ y.from = m.to
      BY <2>2 DEF Voted, VoteFor
    <3> HIDE DEF y
    <3>2. ProposalTo(m.block, m.to) \in delivered
      BY <3>1 DEF VotedInv
    <3> QED
      BY <2>1, <3>2
  <2> QED
    BY <2>1, <2>2
<1> QED
  BY <1>1, <1>2, <1>3, <1>4 DEF FirstDelivery

\* Then the receiver gets where the other one is if nothing is left for that one.
LEMMA LevelAfter ==
    ASSUME PartitionInv, IdleInv, BroadcastsInv, NEW m, FirstDelivery(m),
           NEW u \in HonestNodes, NEW w \in HonestNodes, u # w, m.to = w,
           OneAhead(u, w), \A x : ~Behind(u, w, x)'
    PROVE  honest'[u] = honest'[w]
<1> DEFINE c == Copy(m, u)
<1>1. /\ m \in sent /\ m \in Message /\ m \notin delivered
      /\ delivered' = delivered \cup {m} /\ sent \subseteq sent'
      /\ honest'[u] = honest[u] /\ honest'[w] = Handled(honest[w], m)
  BY DEF FirstDelivery
<1>2. c \in sent /\ c.to = u /\ Copy(c, w) = m
  BY <1>1, CopiesSent, CopyFields, NodeSets
<1>3. c \in delivered
  <2> SUFFICES ASSUME c \notin delivered PROVE FALSE
    OBVIOUS
  <2> HIDE DEF c
  <2>1. c \in sent' /\ c \notin delivered' /\ Copy(c, w) \in delivered'
    BY <1>1, <1>2
  <2>2. Behind(u, w, c)'
    BY <1>2, <2>1 DEF Behind, Copy
  <2> QED
    BY <2>2
<1>4. Behind(w, u, m)
  BY <1>1, <1>3 DEF Behind
<1> QED
  BY <1>1, <1>4 DEF OneAhead

\* And it votes as the other one did.
LEMMA VotesAlike ==
    ASSUME NEW m, FirstDelivery(m), m.type = "PROPOSAL",
           NEW u \in HonestNodes, NEW w \in HonestNodes, u # w, m.to = w,
           OneAhead(u, w), Copy(m, u) \in delivered
    PROVE  Voted(m.block, u)' <=> Voted(m.block, w)'
<1>1. Behind(w, u, m)
  BY DEF Behind, FirstDelivery
<1>2. Voted(m.block, u) <=> WouldVote(honest[w], m)
  BY <1>1 DEF OneAhead
<1>3. Voted(m.block, u)' <=> Voted(m.block, u)
  BY DEF FirstDelivery
<1>4. Voted(m.block, w)' <=> WouldVote(honest[w], m)
  BY DEF FirstDelivery
<1> QED
  BY <1>2, <1>3, <1>4
-----------------------------------------------------------------------------
\* A first delivery takes one node of the side one message further.
LEMMA PopKeepsOneAhead ==
    ASSUME DishonestCount = 0, PartitionInv, PartitionInv', IdleInv, IdleInv', BroadcastsInv,
           BroadcastsInv', RowsInv, LockInv, Pop, NEW m, m = Entry.message, FirstDelivery(m),
           NEW u \in HonestNodes, NEW w \in HonestNodes, SameSide(u, w)
    PROVE  OneAhead(u, w)'
<1> SUFFICES ASSUME NEW x, Behind(w, u, x)'
             PROVE  /\ honest'[u] = Handled(honest'[w], x)
                    /\ x.type = "PROPOSAL" => (Voted(x.block, u)' <=> WouldVote(honest'[w], x))
  <2>1. ASSUME NEW x PROVE /\ Handled(honest[w], x)' = Handled(honest'[w], x)
                           /\ WouldVote(honest[w], x)' <=> WouldVote(honest'[w], x)
    BY DEF Handled, WouldVote
  <2> QED
    BY <2>1 DEF OneAhead
<1>1. /\ m \in sent /\ m \in Message /\ m \notin delivered
      /\ delivered' = delivered \cup {m} /\ sent \subseteq sent'
      /\ \A v \in HonestNodes : v # m.to => honest'[v] = honest[v]
      /\ m.to \in HonestNodes => honest'[m.to] = Handled(honest[m.to], m)
  BY DEF FirstDelivery
<1>2. /\ x \in sent' /\ x.to = w /\ x \notin delivered' /\ Copy(x, u) \in delivered'
  BY DEF Behind, Copy
<1>3. x \in Message /\ Copy(x, w) = x
  <2>1. x \in Message
    BY <1>2 DEF PartitionInv, NodesInv, Message, Nodes, Hash
  <2> QED
    BY <1>2, <2>1, CopyFields
<1>4. x \in sent
  <2>1. Copy(x, u) \in sent
    BY <1>1, <1>2 DEF IdleInv, DeliveredInv
  <2>2. Copy(Copy(x, u), w) \in sent
    BY <2>1, CopiesSent, NodeSets
  <2> QED
    BY <1>3, <2>2, CopyFields
<1>5. CASE Copy(x, u) \in delivered
  <2>1. Behind(w, u, x)
    BY <1>1, <1>2, <1>4, <1>5 DEF Behind
  <2>2. m.to # u /\ m.to # w
    BY <1>1, <1>2, <2>1, BehindFirst
  <2>3. Voted(x.block, u)' <=> Voted(x.block, u)
    BY <2>2 DEF FirstDelivery
  <2>4. /\ honest[u] = Handled(honest[w], x)
        /\ x.type = "PROPOSAL" => (Voted(x.block, u) <=> WouldVote(honest[w], x))
    BY <2>1 DEF LockInv, OneAhead
  <2> QED
    BY <1>1, <2>2, <2>3, <2>4
<1>6. CASE Copy(x, u) \notin delivered
  <2>1. Copy(x, u) = m
    BY <1>1, <1>2, <1>6
  <2>2. m.to = u /\ m.type = x.type /\ m.block = x.block /\ Copy(m, w) = x
    BY <1>3, <2>1, CopyFields
  <2>3. x # m /\ u # w /\ x \notin delivered
    BY <1>1, <1>2, <1>3, <2>1, <2>2
  <2>4. honest[u] = honest[w]
    BY <1>1, <2>2, <2>3, LevelBefore
  <2>5. honest'[w] = honest[w] /\ honest'[u] = Handled(honest[w], m)
    BY <1>1, <2>2, <2>3, <2>4
  <2>6. Handled(honest[w], m) = Handled(honest[w], x)
        /\ (WouldVote(honest[w], m) <=> WouldVote(honest[w], x))
    BY <2>1, HandledCopy
  <2>7. x.type = "PROPOSAL" => (Voted(x.block, u)' <=> WouldVote(honest[u], m))
    BY <2>2 DEF FirstDelivery
  <2> QED
    BY <2>4, <2>5, <2>6, <2>7
<1> QED
  BY <1>5, <1>6

\* Where nothing is left for one of two nodes they are where they were or meet.
LEMMA PopKeepsLevel ==
    ASSUME PartitionInv, IdleInv, BroadcastsInv, LockInv, NEW m, FirstDelivery(m),
           NEW u \in HonestNodes, NEW w \in HonestNodes, SameSide(u, w)
    PROVE  Level(u, w)'
<1> SUFFICES ASSUME \A x : ~Behind(w, u, x)' /\ ~Behind(u, w, x)', u # w
             PROVE  honest'[u] = honest'[w]
  BY DEF Level
<1>1. SameSide(w, u)
  BY DEF SameSide
<1>2. OneAhead(u, w) /\ OneAhead(w, u) /\ Level(u, w)
  BY <1>1 DEF LockInv
<1>3. CASE m.to = w
  BY <1>2, <1>3, LevelAfter
<1>4. CASE m.to = u
  BY <1>2, <1>4, LevelAfter
<1>5. CASE m.to # u /\ m.to # w
  <2>1. delivered' = delivered \cup {m} /\ sent \subseteq sent'
        /\ honest'[u] = honest[u] /\ honest'[w] = honest[w]
    BY <1>5 DEF FirstDelivery
  <2>2. ASSUME NEW x PROVE ~Behind(w, u, x) /\ ~Behind(u, w, x)
    <3>1. Behind(w, u, x) => Behind(w, u, x)'
      BY <1>5, <2>1 DEF Behind, Copy
    <3>2. Behind(u, w, x) => Behind(u, w, x)'
      BY <1>5, <2>1 DEF Behind, Copy
    <3> QED
      BY <3>1, <3>2
  <2> QED
    BY <1>2, <2>1, <2>2 DEF Level
<1> QED
  BY <1>3, <1>4, <1>5

\* Votes go on being alike.
LEMMA PopKeepsAlike ==
    ASSUME PartitionInv, IdleInv, LockInv, NEW m, FirstDelivery(m),
           NEW u \in HonestNodes, NEW w \in HonestNodes, SameSide(u, w)
    PROVE  Alike(u, w)'
<1> SUFFICES ASSUME NEW x \in delivered', x.type = "PROPOSAL", x.to = u, Copy(x, w) \in delivered',
                    u # w
             PROVE  Voted(x.block, u)' <=> Voted(x.block, w)'
  BY DEF Alike, Copy
<1>1. SameSide(w, u)
  BY DEF SameSide
<1>2. OneAhead(u, w) /\ OneAhead(w, u) /\ Alike(u, w)
  BY <1>1 DEF LockInv
<1>3. m \in sent /\ m \in Message /\ m \notin delivered /\ delivered' = delivered \cup {m}
  BY DEF FirstDelivery
<1>4. x \in sent /\ x \in Message /\ Copy(x, u) = x
  <2>1. x \in sent
    BY <1>3 DEF IdleInv, DeliveredInv
  <2>2. x \in Message
    BY <2>1 DEF PartitionInv, NodesInv
  <2> QED
    BY <2>1, <2>2, CopyFields
<1>5. CASE x \in delivered /\ Copy(x, w) \in delivered
  <2>1. Voted(x.block, u) <=> Voted(x.block, w)
    BY <1>2, <1>5 DEF Alike
  <2>2. x = ProposalTo(x.block, u)
    BY <1>4, ProposalIs
  <2>3. Copy(x, w) = ProposalTo(x.block, w)
    BY <2>2 DEF Copy, ProposalTo
  <2>4. m.type = "PROPOSAL" => m = ProposalTo(m.block, m.to)
    BY DEF FirstDelivery
  <2>5. Voted(x.block, u)' <=> Voted(x.block, u)
    BY <1>3, <1>5, <2>2, <2>4 DEF FirstDelivery
  <2>6. Voted(x.block, w)' <=> Voted(x.block, w)
    BY <1>3, <1>5, <2>3, <2>4 DEF FirstDelivery
  <2> QED
    BY <2>1, <2>5, <2>6
<1>6. CASE x \notin delivered
  <2>1. x = m
    BY <1>3, <1>6
  <2>2. Copy(m, w) \in delivered
    BY <1>3, <2>1, CopyFields
  <2> QED
    BY <1>2, <2>1, <2>2, VotesAlike
<1>7. CASE x \in delivered /\ Copy(x, w) \notin delivered
  <2>1. Copy(x, w) = m
    BY <1>3, <1>7
  <2>2. m.to = w /\ m.type = "PROPOSAL" /\ m.block = x.block /\ Copy(m, u) = x
    BY <1>4, <2>1, CopyFields
  <2> QED
    BY <1>2, <1>7, <2>2, VotesAlike
<1> QED
  BY <1>5, <1>6, <1>7

\* A delivery keeps the nodes of a side together.
LEMMA PopKeepsLock ==
    ASSUME DishonestCount = 0, PartitionInv, PartitionInv', IdleInv, IdleInv', BroadcastsInv,
           BroadcastsInv', RowsInv, VotedInv, LockInv, Pop
    PROVE  LockInv'
<1> PICK m : m = Entry.message
  OBVIOUS
<1>1. CASE m \in delivered
  <2>1. SendRec(m).honest = honest /\ SendRec(m).out = << >>
    BY <1>1, SpentIsIdle DEF IdleInv, DeliveredInv, PartitionInv
  <2>2. honest' = honest /\ (sent' = sent \/ sent' = sent \cup Messages(<< >>))
        /\ delivered' = delivered
    BY <1>1, <2>1 DEF Pop, OnPop
  <2>3. sent' = sent
    BY <2>2, NothingFiled
  <2>4. \A b, u : Voted(b, u)' <=> Voted(b, u)
    BY <2>3 DEF Voted, VoteFor
  <2> QED
    BY <2>2, <2>3, <2>4, LockStays
<1>2. CASE m \notin delivered
  <2>1. FirstDelivery(m)
    BY <1>2, FirstDeliveryIs
  <2> SUFFICES ASSUME NEW u \in HonestNodes, NEW w \in HonestNodes, SameSide(u, w)
               PROVE  OneAhead(u, w)' /\ Level(u, w)' /\ Alike(u, w)'
    BY DEF LockInv, SameSide, MinorityIds, HonestNodes
  <2> QED
    BY <2>1, PopKeepsOneAhead, PopKeepsLevel, PopKeepsAlike
<1> QED
  BY <1>1, <1>2
-----------------------------------------------------------------------------
\* A delivery keeps the rows.
LEMMA PopKeepsRows ==
    ASSUME DishonestCount = 0, PartitionInv, IdleInv, RowsInv, Pop
    PROVE  RowsInv'
<1> PICK m : m = Entry.message
  OBVIOUS
<1>1. /\ m \in sent /\ EdgeType(m) = pc /\ pc \in EdgeTypes /\ delivered' = delivered \cup {m}
      /\ 1 \in 1 .. Len(queues[pc]) /\ At(pc, 1) = m
  BY EntryFirst, PopStepping DEF At
<1>2. PICK W : /\ Stepping(One, W)
               /\ \/ W = {}
                  \/ /\ m.to \in HonestNodes /\ m.type = "PROPOSAL"
                     /\ AcceptsProposal(honest[m.to], m)
                     /\ W = Sendings(m.to, "VOTE", m.block)
  BY PopStepping
<1>3. Afresh(W)
  <2>1. \A w \in W, x \in sent : ~OfOneBroadcast(w, x)
    BY <1>1, <1>2, PopAnswersAfresh
  <2>2. \A w, x \in W : OfOneBroadcast(w, x)
    BY <1>2 DEF Sendings, OfOneBroadcast
  <2> QED
    BY <2>1, <2>2 DEF Afresh
<1>4. /\ delivered \subseteq sent
      /\ \A e \in EdgeTypes : \A k \in 1 .. Len(queues[e]) : At(e, k) \in sent
  BY HeldFacts DEF IdleInv, DeliveredInv, At
<1>5. One[pc] = 1
  BY <1>1 DEF One
<1>6. \E e \in EdgeTypes : /\ One[e] = 1 /\ 1 \in 1 .. Len(queues[e])
                           /\ EdgeType(At(e, 1)) = e
                           /\ delivered' = delivered \cup {At(e, 1)}
  BY <1>1, <1>5
<1> QED
  BY <1>2, <1>3, <1>4, <1>6, StepKeepsRows

\* So does a step that delivers nothing.
LEMMA TurnKeepsRows ==
    ASSUME PartitionInv, IdleInv, RowsInv, NEW W, Stepping(None, W), delivered' = delivered,
           W \subseteq delivered \/ Afresh(W)
    PROVE  RowsInv'
<1>1. /\ delivered \subseteq sent
      /\ \A e \in EdgeTypes : \A k \in 1 .. Len(queues[e]) : At(e, k) \in sent
  BY HeldFacts DEF IdleInv, DeliveredInv, At
<1> QED
  BY <1>1, StepKeepsRows

\* It keeps all that is said of the sides, if nobody votes.
LEMMA TurnKeepsSides ==
    ASSUME PartitionInv, PartitionInv', IdleInv, BroadcastsInv, SidesAlikeInv,
           NEW W, Stepping(None, W), delivered' = delivered, honest' = honest,
           W \subseteq delivered \/ Afresh(W),
           \A w \in W : w.type = "VOTE" => w \in sent,
           pc \in EdgeTypes => queues[pc] = << >>
    PROVE  SidesAlikeInv'
<1>1. sent' = sent \cup W
  BY DEF Stepping
<1>2. \A y \in sent' : y.type = "VOTE" => y \in sent
  BY <1>1
<1>3. RowsInv'
  BY TurnKeepsRows DEF SidesAlikeInv
<1>4. VotedInv'
  BY <1>2 DEF SidesAlikeInv, VotedInv, ProposalTo, EpochOf, GenesisHash
<1>5. VoteAfterInv'
  <2> SUFFICES ASSUME NEW y \in sent', y.type = "VOTE", NEW u \in HonestNodes, SameSide(u, y.from)
               PROVE  InTurn(ProposalTo(y.block, u), y)'
    BY DEF VoteAfterInv, SameSide, MinorityIds, HonestNodes
  <2> PICK x : x = ProposalTo(y.block, u)
    OBVIOUS
  <2> SUFFICES InTurn(x, y)'
    BY DEF InTurn, Ahead, EdgeType, MinorityIds, ProposalTo, EpochOf, GenesisHash
  <2>1. y \in sent /\ InTurn(x, y)
    BY <1>2 DEF SidesAlikeInv, VoteAfterInv
  <2>2. x \in sent
    <3>1. ProposalTo(y.block, y.from) \in sent
      BY <2>1 DEF SidesAlikeInv, VotedInv, IdleInv, DeliveredInv
    <3>2. x = Copy(ProposalTo(y.block, y.from), u)
      BY DEF Copy, ProposalTo
    <3> QED
      BY <3>1, <3>2, CopiesSent, NodeSets
  <2> QED
    BY <2>1, <2>2, TurnKeepsInTurn
<1>6. LockInv'
  <2>1. \A b, u : Voted(b, u)' <=> Voted(b, u)
    BY <1>1, <1>2 DEF Voted, VoteFor
  <2> QED
    BY <1>1, <2>1, LockStays DEF SidesAlikeInv
<1> QED
  BY <1>3, <1>4, <1>5, <1>6 DEF SidesAlikeInv

\* What broadcastTime files is new.
LEMMA BroadcastAfresh ==
    ASSUME DishonestCount = 0, PartitionInv, IdleInv, BroadcastTime
    PROVE  \E W : /\ Stepping(None, W) /\ Afresh(W)
                  /\ \A w \in W : w.type = "PROPOSAL"
<1>1. PICK W : /\ Stepping(None, W)
               /\ \A w \in W, x \in sent : EpochOf(w.block) # EpochOf(x.block)
               /\ \/ W = {}
                  \/ \E v \in HonestNodes : \E b :
                        /\ W = Sendings(v, "PROPOSAL", b)
                        /\ ParentHash(b) = honest[v].tree.deepestNotarized
  BY BroadcastStepping
<1>2. \A w, x \in W : w.type = "PROPOSAL" /\ OfOneBroadcast(w, x)
  BY <1>1 DEF Sendings, OfOneBroadcast
<1>3. \A w \in W, x \in sent : ~OfOneBroadcast(w, x)
  BY <1>1 DEF OfOneBroadcast
<1> QED
  BY <1>1, <1>2, <1>3 DEF Afresh

\* Every step keeps what is said of the sides.
LEMMA SidesAlikeStep ==
    ASSUME DishonestCount = 0, PartitionInv, IdleInv, GroundedInv, SidesAlikeInv, [Next]_vars
    PROVE  SidesAlikeInv'
<1>1. PartitionInv' /\ IdleInv' /\ GroundedInv'
  BY PartitionStep, IdleStep, GroundedStep
<1>2. BroadcastsInv /\ BroadcastsInv'
  BY <1>1 DEF GroundedInv
<1>3. CASE BroadcastTime
  <2>1. UNCHANGED <<honest, delivered>> /\ pc \notin EdgeTypes
    BY <1>3, BroadcastStepping DEF EdgeTypes
  <2>2. PICK W : Stepping(None, W) /\ Afresh(W) /\ \A w \in W : w.type = "PROPOSAL"
    BY <1>3, BroadcastAfresh
  <2> QED
    BY <1>1, <1>2, <2>1, <2>2, TurnKeepsSides
<1>4. CASE Pop
  <2>1. RowsInv' /\ VotedInv' /\ VoteAfterInv'
    BY <1>2, <1>4, PopKeepsRows, PopKeepsVoteAfter DEF SidesAlikeInv
  <2>2. LockInv'
    BY <1>1, <1>2, <1>4, PopKeepsLock DEF SidesAlikeInv
  <2> QED
    BY <2>1, <2>2 DEF SidesAlikeInv
<1>5. CASE NextQueue
  <2>1. /\ Stepping(None, {}) /\ UNCHANGED <<honest, sent, delivered, queues>>
        /\ pc \in EdgeTypes /\ queues[pc] = << >>
    BY <1>5, NextQueueTurns
  <2> QED
    BY <1>1, <1>2, <2>1, TurnKeepsSides
<1>6. CASE EndPass
  <2>1. UNCHANGED <<honest, sent, delivered>> /\ pc \in EdgeTypes /\ queues[pc] = << >>
    BY <1>6, EndPassTurns
  <2>2. PICK W : Stepping(None, W) /\ W \subseteq delivered
    BY <1>6, EndPassTurns
  <2>3. W \subseteq sent
    BY <2>2 DEF IdleInv, DeliveredInv
  <2> QED
    BY <1>1, <1>2, <2>1, <2>2, <2>3, TurnKeepsSides
<1>7. CASE UNCHANGED vars
  <2>1. UNCHANGED <<honest, sent, queues, pc, delivered>>
    BY <1>7 DEF vars
  <2>2. RowsInv' /\ VotedInv'
    BY <2>1 DEF SidesAlikeInv, RowsInv, Row, Waits, At, EdgeTypes, EdgeType, MinorityIds, VotedInv,
                ProposalTo, EpochOf, GenesisHash, OfOneBroadcast
  <2>3. VoteAfterInv'
    BY <2>1 DEF SidesAlikeInv, VoteAfterInv, InTurn, Ahead, EdgeType, MinorityIds, SameSide,
                ProposalTo, EpochOf, GenesisHash, HonestNodes
  <2>4. \A b, u : Voted(b, u)' <=> Voted(b, u)
    BY <2>1 DEF Voted, VoteFor
  <2>5. LockInv'
    BY <1>1, <1>2, <2>1, <2>4, LockStays DEF SidesAlikeInv
  <2> QED
    BY <2>2, <2>3, <2>5 DEF SidesAlikeInv
<1> QED
  BY <1>3, <1>4, <1>5, <1>6, <1>7 DEF Next, Terminating

\* Initially nothing was sent and all replicas are new.
LEMMA SidesAlikeInit == Init => SidesAlikeInv
<1> SUFFICES ASSUME Init PROVE SidesAlikeInv
  OBVIOUS
<1>1. /\ sent = {} /\ delivered = {} /\ queues = [e \in EdgeTypes |-> << >>]
      /\ \A v \in HonestNodes : honest[v] = NewReplica
  BY DEF Init
<1>2. RowsInv
  BY <1>1, EmptySeq DEF RowsInv
<1>3. VotedInv /\ VoteAfterInv
  BY <1>1 DEF VotedInv, VoteAfterInv
<1>4. LockInv
  BY <1>1 DEF LockInv, OneAhead, Level, Alike, Behind
<1> QED
  BY <1>2, <1>3, <1>4 DEF SidesAlikeInv

\* If a vote of one node of a side was delivered, all of the side have voted alike.
LEMMA SideVotes ==
    ASSUME DishonestCount = 0, PartitionInv, IdleInv, BroadcastsInv, SidesAlikeInv,
           NEW b, NEW u \in HonestNodes, NEW v \in Nodes, VoteFor(b, u, v) \in delivered,
           NEW w \in HonestNodes, SameSide(u, w), NEW x \in Nodes
    PROVE  VoteFor(b, w, x) \in sent
<1> DEFINE y == VoteFor(b, u, v)
           p(k) == ProposalTo(b, k)
<1>1. y \in sent /\ y \in delivered /\ y.type = "VOTE" /\ y.from = u /\ y.block = b
  BY DEF IdleInv, DeliveredInv, VoteFor
<1>2. SameSide(u, u) /\ SameSide(w, u)
  BY DEF SameSide
<1> HIDE DEF y
<1>3. p(u) \in delivered /\ p(w) \in delivered
  BY <1>1, <1>2 DEF SidesAlikeInv, VoteAfterInv, InTurn
<1>4. p(u).type = "PROPOSAL" /\ p(u).to = u /\ p(u).block = b /\ Copy(p(u), w) = p(w)
  BY DEF ProposalTo, Copy
<1>5. Voted(b, u)
  BY <1>1, NodeSets DEF BroadcastsInv, VotesInv, Voted
<1> HIDE DEF p
<1>6. Voted(b, w)
  BY <1>3, <1>4, <1>5 DEF SidesAlikeInv, LockInv, Alike
<1>7. VoteFor(b, w, w).type = "VOTE" /\ VoteFor(b, w, w).from = w /\ VoteFor(b, w, w).block = b
  BY DEF VoteFor
<1> QED
  BY <1>6, <1>7 DEF BroadcastsInv, VotesInv, Voted

-----------------------------------------------------------------------------
(* What is notarized on the two sides.  A leader's own side votes on its     *)
(* block before the next epoch begins; and if the majority is a quorum, the  *)
(* minority builds on blocks the majority has voted for.                     *)

\* Every quorum has a node of the majority, and if the majority is none itself,
\* every quorum has a node of each side.
LEMMA QuorumsReach ==
    ASSUME NEW Q \in SUBSET HonestNodes, IsQuorum(Q)
    PROVE  /\ \E u \in Q : u \notin MinorityIds
           /\ ~IsQuorum(Majority) => \E u \in Q : u \in MinorityIds
<1>1. N \in Nat /\ N >= 4 /\ HonestNodes \subseteq Nodes
  BY NodeSets, EnoughNodes
<1> DEFINE k == (N - 1) \div 3
<1>2. k \in Nat /\ 3 * k <= N - 1
  BY <1>1, Z3
<1>3. MinorityIds = 0 .. k - 1
  BY DEF MinorityIds
<1> HIDE DEF k
<1>4. IsFiniteSet(MinorityIds) /\ Cardinality(MinorityIds) = k
  <2>1. IsFiniteSet(0 .. k - 1)
    BY <1>2, FS_Interval
  <2>2. Cardinality(0 .. k - 1) = IF 0 > k - 1 THEN 0 ELSE k - 1 - 0 + 1
    BY <1>2, FS_Interval
  <2>3. Cardinality(0 .. k - 1) = k
    BY <1>2, <2>2
  <2> QED
    BY <1>3, <2>1, <2>3
<1>5. \E u \in Q : u \notin MinorityIds
  <2> SUFFICES ASSUME Q \subseteq MinorityIds PROVE FALSE
    OBVIOUS
  <2>1. Cardinality(Q) <= k /\ Cardinality(Q) \in Nat
    BY <1>4, FS_Subset, FS_CardinalityType
  <2> QED
    BY <1>1, <1>2, <2>1 DEF IsQuorum
<1>6. ASSUME ~IsQuorum(Majority) PROVE \E u \in Q : u \in MinorityIds
  <2> SUFFICES ASSUME \A u \in Q : u \notin MinorityIds PROVE FALSE
    OBVIOUS
  <2>1. Q \subseteq Majority /\ Majority \in SUBSET Nodes /\ Q \in SUBSET Nodes
    BY <1>1 DEF Majority
  <2> QED
    BY <1>6, <2>1, QuorumGrows
<1> QED
  BY <1>5, <1>6

\* A node has notarized what a quorum of votes was delivered to it for.
LEMMA CountedQuorum ==
    ASSUME DishonestCount = 0, PartitionInv, GroundedInv, NEW v \in HonestNodes,
           NEW b, NotarizedIn(honest[v], b), b # GenesisHash
    PROVE  \E Q \in SUBSET HonestNodes :
              IsQuorum(Q) /\ \A u \in Q : VoteFor(b, u, v) \in delivered
<1> DEFINE e == EpochOf(b)
           r == honest[v]
<1>1. /\ IsQuorum(Voters(r, e)) /\ Voters(r, e) \in SUBSET Nodes
      /\ e \in DOMAIN r.proposedBlocks /\ r.proposedBlocks[e] = b
  BY NotarizedTyped DEF PartitionInv
<1>2. ASSUME NEW u \in Voters(r, e) PROVE u \in HonestNodes /\ VoteFor(b, u, v) \in delivered
  <2>1. <<e, u>> \in r.votes /\ <<e, u>>[1] = e /\ <<e, u>>[2] = u
    BY DEF Voters
  <2>2. VoteFor(r.proposedBlocks[<<e, u>>[1]], <<e, u>>[2], v) \in delivered
    BY <2>1 DEF GroundedInv, RecordedInv
  <2>3. u \in HonestNodes
    BY <1>2, AllHonest, CountedVote DEF PartitionInv
  <2> QED
    BY <1>1, <2>1, <2>2, <2>3
<1> QED
  BY <1>1, <1>2

\* The root is notarized everywhere.
LEMMA GenesisNotarized ==
    ASSUME PartitionInv, NEW v \in HonestNodes
    PROVE  NotarizedIn(honest[v], GenesisHash)
<1> QED
  BY DEF PartitionInv, NodesInv, ReplicaInv, TreeInv, RootedAtGenesis, NotarizedIn, IsPresent

\* Between two ticks one node of a side has notarized what another one has.
LEMMA SameSideKnow ==
    ASSUME DishonestCount = 0, PartitionInv, IdleInv, GroundedInv, pc = "broadcastTime",
           NEW u \in HonestNodes, NEW w \in HonestNodes, SameSide(u, w),
           NEW b, NotarizedIn(honest[u], b)
    PROVE  NotarizedIn(honest[w], b)
<1>1. CASE b = GenesisHash
  BY <1>1, GenesisNotarized
<1>2. CASE b # GenesisHash
  <2>1. PICK Q \in SUBSET HonestNodes :
           IsQuorum(Q) /\ \A x \in Q : VoteFor(b, x, u) \in delivered
    BY <1>2, CountedQuorum
  <2>2. ASSUME NEW x \in Q PROVE VoteFor(b, x, w) \in delivered
    <3> DEFINE y == VoteFor(b, x, u)
               z == VoteFor(b, x, w)
    <3>1. /\ y.from = x /\ y.to = u /\ y.type = "VOTE" /\ y.block = b
          /\ z.from = x /\ z.to = w /\ z.type = "VOTE" /\ z.block = b
      BY DEF VoteFor
    <3>2. y \in delivered /\ y \in sent /\ w \in Nodes
      BY <2>1, NodeSets DEF IdleInv, DeliveredInv
    <3>3. z \in sent
      BY <3>1, <3>2 DEF GroundedInv, BroadcastsInv, VotesInv
    <3>4. OfOneBroadcast(y, z) /\ EdgeType(y) = EdgeType(z) /\ EdgeType(y) \in EdgeTypes
      BY <3>1, EdgeTypeIs DEF OfOneBroadcast, EdgeType, SameSide
    <3> QED
      BY <3>2, <3>3, <3>4 DEF GroundedInv, BroadcastsInv, FateInv, EdgeTypes
  <2> QED
    BY <2>1, <2>2, NodeSets, QuorumNotarizes DEF GroundedInv
<1> QED
  BY <1>1, <1>2

\* Before a node is given its copy of a proposal, it has notarized what the others of
\* its side have: the votes they have counted came before.
LEMMA KnowsAlike ==
    ASSUME DishonestCount = 0, PartitionInv, IdleInv, GroundedInv, RowsInv, Pop,
           NEW m, m = Entry.message, m \notin delivered, m.type = "PROPOSAL",
           m.to \in HonestNodes, NEW w \in HonestNodes, SameSide(m.to, w),
           NEW b, NotarizedIn(honest[w], b)
    PROVE  NotarizedIn(honest[m.to], b)
<1>1. CASE b = GenesisHash
  BY <1>1, GenesisNotarized
<1>2. CASE b # GenesisHash
  <2>1. PICK Q \in SUBSET HonestNodes :
           IsQuorum(Q) /\ \A x \in Q : VoteFor(b, x, w) \in delivered
    BY <1>2, CountedQuorum
  <2>2. ASSUME NEW x \in Q PROVE VoteFor(b, x, m.to) \in delivered
    <3> DEFINE y == VoteFor(b, x, w)
               z == VoteFor(b, x, m.to)
    <3>1. /\ y.from = x /\ y.to = w /\ y.type = "VOTE" /\ y.block = b
          /\ z.from = x /\ z.to = m.to /\ z.type = "VOTE" /\ z.block = b
      BY DEF VoteFor
    <3>2. y \in delivered /\ y \in sent /\ m.to \in Nodes
      BY <2>1, NodeSets DEF IdleInv, DeliveredInv
    <3>3. z \in sent
      BY <3>1, <3>2 DEF GroundedInv, BroadcastsInv, VotesInv
    <3>4. OfOneBroadcast(y, z) /\ EdgeType(y) = EdgeType(z)
      BY <3>1 DEF OfOneBroadcast, EdgeType, SameSide
    <3>5. ~OfOneBroadcast(m, z)
      BY <3>1 DEF OfOneBroadcast
    <3> HIDE DEF y, z
    <3>6. z \in delivered
      BY <3>2, <3>3, <3>4, <3>5, FreshFirst DEF GroundedInv
    <3> QED
      BY <3>6 DEF z
  <2> QED
    BY <2>1, <2>2, NodeSets, QuorumNotarizes DEF GroundedInv
<1> QED
  BY <1>1, <1>2

\* A later epoch starts later.
LEMMA LaterStart ==
    ASSUME NEW e \in Nat, NEW g \in Nat, StartOf(e) < StartOf(g)
    PROVE  e < g
<1> SUFFICES ASSUME e >= g PROVE FALSE
  OBVIOUS
<1>1. EpochLength \in Nat
  BY CountsAssumption
<1> DEFINE d == e - g
<1>2. d \in Nat /\ e - 1 = (g - 1) + d
  OBVIOUS
<1> HIDE DEF d
<1>3. d * EpochLength \in Nat
  BY <1>1, <1>2
<1>4. (e - 1) * EpochLength = (g - 1) * EpochLength + d * EpochLength
  BY <1>1, <1>2, Z3
<1>5. (g - 1) * EpochLength \in Int
  BY <1>1
<1> QED
  BY <1>3, <1>4, <1>5 DEF StartOf

\* What a leader says at the start of an epoch: nothing sent before is of this epoch
\* or a later one.
Opening(v, b, W) ==
    /\ W = Sendings(v, "PROPOSAL", b)
    /\ v = GetLeader(EpochOf(b))
    /\ b \in Hash /\ b # GenesisHash
    /\ ParentHash(b) = honest[v].tree.deepestNotarized
    /\ \A x \in sent : EpochOf(x.block) < EpochOf(b)

\* The fields of a broadcast.
LEMMA SendingFields ==
    ASSUME NEW v, NEW type, NEW b, NEW w \in Sendings(v, type, b)
    PROVE  w.from = v /\ w.to \in Nodes /\ w.type = type /\ w.block = b
<1> QED
  BY DEF Sendings

\* broadcastTime sends that, or nothing.
LEMMA Announces ==
    ASSUME DishonestCount = 0, PartitionInv, PartitionInv', IdleInv, BroadcastTime
    PROVE  \E W : /\ Stepping(None, W)
                  /\ W = {} \/ \E v \in HonestNodes : \E b : Opening(v, b, W)
<1>1. Announced = time /\ delivered' = delivered /\ time \in Nat
  BY PartitionInvFacts DEF BroadcastTime, PartitionInv, FieldsInv, Announced
<1>2. PICK W : /\ QueuesMove(None, W) /\ sent' = sent \cup W
               /\ \/ W = {}
                  \/ /\ IsEpochStart(time)
                     /\ \E v \in HonestNodes : \E b :
                           /\ v = GetLeader(GetEpoch(time))
                           /\ W = Sendings(v, "PROPOSAL", b)
                           /\ ParentHash(b) = honest[v].tree.deepestNotarized
                           /\ \A w \in W : EpochOf(w.block) = GetEpoch(time)
  BY BroadcastMoves
<1>3. Stepping(None, W)
  BY <1>1, <1>2 DEF Stepping, None
<1>4. CASE W # {}
  <2>1. PICK v \in HonestNodes : \E b :
           /\ v = GetLeader(GetEpoch(time))
           /\ W = Sendings(v, "PROPOSAL", b)
           /\ ParentHash(b) = honest[v].tree.deepestNotarized
           /\ \A w \in W : EpochOf(w.block) = GetEpoch(time)
    BY <1>2, <1>4
  <2>2. PICK b : /\ v = GetLeader(GetEpoch(time))
                 /\ W = Sendings(v, "PROPOSAL", b)
                 /\ ParentHash(b) = honest[v].tree.deepestNotarized
                 /\ \A w \in W : EpochOf(w.block) = GetEpoch(time)
    BY <2>1
  <2>3. PICK w : w \in W
    BY <1>4
  <2>4. w.block = b /\ w \in sent'
    BY <1>2, <2>2, <2>3, SendingFields
  <2>5. EpochOf(b) = GetEpoch(time) /\ EpochOf(b) \in Nat /\ b \in Hash
    <3>1. w \in Message
      BY <2>4 DEF PartitionInv, NodesInv
    <3> QED
      BY <1>1, <2>2, <2>3, <2>4, <3>1, GetEpochNat DEF Message
  <2>6. StartOf(GetEpoch(time)) = time
    BY <1>1, <1>2, <1>4, EpochStarts
  <2>7. ASSUME NEW x \in sent PROVE EpochOf(x.block) < EpochOf(b)
    <3>1. StartOf(EpochOf(x.block)) < StartOf(EpochOf(b)) /\ EpochOf(x.block) \in Nat
      BY <1>1, <2>5, <2>6, PartitionInvFacts DEF IdleInv, AnnouncedInv
    <3> QED
      BY <2>5, <3>1, LaterStart
  <2>8. b # GenesisHash
    <3>1. GetEpoch(time) # 0
      <4>1. EpochLength \in Nat /\ EpochLength > 0
        BY CountsAssumption
      <4>2. time \div EpochLength \in Nat
        BY <1>1, <4>1
      <4> QED
        BY <4>2 DEF GetEpoch
    <3> QED
      BY <2>5, <3>1 DEF EpochOf, GenesisHash
  <2>9. Opening(v, b, W)
    BY <2>2, <2>5, <2>7, <2>8 DEF Opening
  <2> QED
    BY <1>3, <2>9
<1> QED
  BY <1>3, <1>4

\* What a node answers to a proposal: its first vote for the block, which is just
\* below a deepest block notarized at it.
Answered(m, W) ==
    /\ m \in sent /\ m \notin delivered
    /\ m.type = "PROPOSAL" /\ m.to \in HonestNodes /\ m.from = GetLeader(EpochOf(m.block))
    /\ W = Sendings(m.to, "VOTE", m.block)
    /\ \A w \in W : /\ w \notin sent /\ w.from = m.to /\ w.type = "VOTE" /\ w.block = m.block
                    /\ Len(w.block) = Len(honest[m.to].tree.deepestNotarized) + 1

\* A delivery sends that, or nothing.
LEMMA PopAnswers ==
    ASSUME DishonestCount = 0, PartitionInv, IdleInv, Pop, NEW m, m = Entry.message
    PROVE  \E W : Stepping(One, W) /\ (W = {} \/ Answered(m, W))
<1>1. PICK W : /\ Stepping(One, W)
               /\ \/ W = {}
                  \/ /\ m.to \in HonestNodes /\ m.type = "PROPOSAL"
                     /\ AcceptsProposal(honest[m.to], m)
                     /\ W = Sendings(m.to, "VOTE", m.block)
  BY PopStepping
<1>2. CASE W # {}
  <2>0. /\ m.to \in HonestNodes /\ m.type = "PROPOSAL"
        /\ AcceptsProposal(honest[m.to], m)
        /\ W = Sendings(m.to, "VOTE", m.block)
    BY <1>1, <1>2
  <2>1. /\ m \in sent /\ NodesInv(honest, dishonest, sent) /\ walk \in Walks
        /\ sent' = sent \/ sent' = sent \cup Messages(SendRec(m).out)
    BY EntryFirst DEF PartitionInv, FieldsInv, Pop, OnPop
  <2>2. m \notin delivered
    BY <2>0 DEF IdleInv, DeliveredInv, SpentBy, OpenedBy, AcceptsProposal
  <2>3. m.from = GetLeader(EpochOf(m.block))
    BY <2>0, <2>1 DEF IdleInv, ProposalsInv
  <2>4. ASSUME NEW w \in W
        PROVE  /\ w \notin sent /\ w.from = m.to /\ w.type = "VOTE" /\ w.block = m.block
               /\ Len(w.block) = Len(honest[m.to].tree.deepestNotarized) + 1
    <3>1. w.from = m.to /\ w.type = "VOTE" /\ w.block = m.block
      BY <2>0, SendingFields
    <3>2. w \notin sent
      <4>1. \A x \in sent : ~OfOneBroadcast(w, x)
        BY <2>0, <2>1, PopAnswersAfresh
      <4> QED
        BY <4>1 DEF OfOneBroadcast
    <3>3. w \in Messages(SendRec(m).out)
      BY <1>1, <2>1, <3>2 DEF Stepping
    <3>4. VoteStep(m.to, honest[m.to], SendRec(m).honest[m.to], w)
      BY <2>0, <2>1, <3>1, <3>3, Delivery
    <3> QED
      BY <3>1, <3>2, <3>4 DEF VoteStep
  <2>5. Answered(m, W)
    BY <2>0, <2>1, <2>2, <2>3, <2>4 DEF Answered
  <2> QED
    BY <1>1, <2>5
<1> QED
  BY <1>1, <1>2

\* A block on top of a notarized one is at most one deeper than a deepest one.
LEMMA BelowDeepest ==
    ASSUME NEW r, ReplicaInv(r), NEW c \in Hash, c # GenesisHash, NotarizedIn(r, ParentHash(c))
    PROVE  /\ Len(c) <= Len(r.tree.deepestNotarized) + 1
           /\ Len(c) \in Nat /\ Len(r.tree.deepestNotarized) \in Nat
<1> DEFINE t == r.tree
<1>1. TreeInv(t)
  BY DEF ReplicaInv
<1>2. /\ ParentHash(c) \in DOMAIN t.hbMapping
      /\ t.hbMapping[ParentHash(c)] # "PRESENT"
  BY DEF NotarizedIn, IsPresent
<1> HIDE DEF t
<1>3. /\ t.depths[ParentHash(c)] <= t.depths[t.deepestNotarized]
      /\ t.deepestNotarized \in DOMAIN t.hbMapping
  BY <1>1, <1>2 DEF TreeInv, DeepestNotarizedIsDeepest, IsTree
<1>4. /\ t.depths[ParentHash(c)] = Len(ParentHash(c))
      /\ t.depths[t.deepestNotarized] = Len(t.deepestNotarized)
      /\ t.depths[t.deepestNotarized] \in Nat
  BY <1>1, <1>2, <1>3 DEF TreeInv, RootedAtGenesis, IsTree
<1>5. Len(ParentHash(c)) = Len(c) - 1 /\ Len(c) \in Nat
  BY HashOfParts, AncestorHash
<1> QED
  BY <1>3, <1>4, <1>5 DEF t

\* What a node has notarized stays so.
LEMMA PopNotarized ==
    ASSUME DishonestCount = 0, PartitionInv, Pop, NEW v \in HonestNodes,
           NEW b, NotarizedIn(honest[v], b)
    PROVE  NotarizedIn(honest'[v], b)
<1>1. /\ v # Entry.message.to => honest'[v] = honest[v]
      /\ v = Entry.message.to => ReplicaStep(v, honest[v], Entry.message, honest'[v])
  BY PopHandles
<1>2. b \in DOMAIN honest[v].tree.hbMapping
  BY DEF NotarizedIn, IsPresent
<1> QED
  BY <1>1, <1>2 DEF ReplicaStep

\* While a proposal waits within its side no later epoch has begun.
InTimeInv ==
    \A x, y \in sent : x.type = "PROPOSAL" /\ EdgeType(x) \in Within /\ x \notin delivered
                          => EpochOf(y.block) <= EpochOf(x.block)

\* A vote on the leader's own side.
OwnSide(y) == SameSide(GetLeader(EpochOf(y.block)), y.from)

\* Once a later epoch has begun, all of a leader's side know the parent of a block of
\* its that one of them voted for.
SideKnowsInv ==
    \A y, z \in sent :
        /\ y.type = "VOTE" /\ OwnSide(y)
        /\ z.type = "PROPOSAL" /\ EpochOf(y.block) < EpochOf(z.block)
        => \A w \in HonestNodes :
              SameSide(w, y.from) => NotarizedIn(honest[w], ParentHash(y.block))

\* So a side goes on voting as deep as it voted for its own leader's block.
SideDeepensInv ==
    \A x, y \in sent :
        /\ x.type = "VOTE" /\ y.type = "VOTE" /\ OwnSide(x) /\ SameSide(x.from, y.from)
        /\ EpochOf(x.block) < EpochOf(y.block)
        => Len(x.block) <= Len(y.block)

\* Votes from one side reach a node in the order of their depth.
VoteOrderInv ==
    \A x, y \in sent :
        /\ x.type = "VOTE" /\ y.type = "VOTE" /\ x.to = y.to /\ SameSide(x.from, y.from)
        /\ Len(x.block) < Len(y.block)
        => x \in delivered \/ (y \notin delivered /\ Ahead(x, y))

\* If the majority is a quorum, what the minority builds on is notarized everywhere
\* as soon as the queue within the majority is empty.
MinorityProposal(y) == y \in sent /\ y.type = "PROPOSAL" /\ y.from \in MinorityIds

KnownInv ==
    IsQuorum(Majority) =>
        \A y \in sent : MinorityProposal(y) =>
            \A w \in HonestNodes :
                \/ NotarizedIn(honest[w], ParentHash(y.block))
                \/ /\ w \notin MinorityIds /\ pc = "maj2maj"
                   /\ \A u \in Majority : VoteFor(ParentHash(y.block), u, w) \in sent

\* So every later proposal is as deep.
MinorityDeepensInv ==
    IsQuorum(Majority) =>
        \A y, z \in sent :
            MinorityProposal(y) /\ z.type = "PROPOSAL" /\ EpochOf(y.block) < EpochOf(z.block)
                => Len(y.block) <= Len(z.block)

DeepInv ==
    /\ InTimeInv
    /\ SideKnowsInv
    /\ SideDeepensInv
    /\ VoteOrderInv
    /\ KnownInv
    /\ MinorityDeepensInv

\* It holds initially.
LEMMA DeepInit == Init => DeepInv
<1> SUFFICES ASSUME Init PROVE DeepInv
  OBVIOUS
<1>1. sent = {}
  BY DEF Init
<1> QED
  BY <1>1 DEF DeepInv, InTimeInv, SideKnowsInv, SideDeepensInv, VoteOrderInv, KnownInv,
              MinorityDeepensInv

\* Nothing a leader's side has to decide waits when the next epoch begins.
LEMMA BroadcastKeepsInTime ==
    ASSUME PartitionInv, PartitionInv', IdleInv, GroundedInv, InTimeInv,
           pc = "broadcastTime", delivered' = delivered,
           NEW W, Stepping(None, W), NEW v \in HonestNodes, NEW b, Opening(v, b, W)
    PROVE  InTimeInv'
<1> SUFFICES ASSUME NEW x \in sent', NEW y \in sent',
                    x.type = "PROPOSAL", EdgeType(x) \in Within, x \notin delivered
             PROVE  EpochOf(y.block) <= EpochOf(x.block)
  BY DEF InTimeInv, Within, EdgeType, MinorityIds
<1>1. sent' = sent \cup W /\ \A w \in W : w.block = b
  BY SendingFields DEF Stepping, Opening
<1>2. EpochOf(b) \in Nat /\ \A z \in sent : EpochOf(z.block) \in Nat
  BY EpochOfNat, PartitionInvFacts DEF Opening
<1>3. CASE x \in sent
  <2>1. Queued(x)
    BY <1>3 DEF GroundedInv, BroadcastsInv, HeldInv
  <2> QED
    BY <2>1 DEF Queued, IdleInv, PlacesInv, Within
<1>4. CASE x \in W
  <2>1. x.block = b
    BY <1>1, <1>4
  <2>2. CASE y \in sent
    <3>1. EpochOf(y.block) < EpochOf(b) /\ EpochOf(y.block) \in Nat
      BY <1>2, <2>2 DEF Opening
    <3> QED
      BY <1>2, <2>1, <3>1
  <2>3. CASE y \in W
    BY <1>1, <1>2, <2>1, <2>3
  <2> QED
    BY <1>1, <2>2, <2>3
<1> QED
  BY <1>1, <1>3, <1>4

\* Whatever was decided about a leader's block on its side, its side has in common.
LEMMA BroadcastKeepsSides ==
    ASSUME DishonestCount = 0, PartitionInv, IdleInv, GroundedInv, DeepInv,
           pc = "broadcastTime", UNCHANGED <<honest, delivered>>,
           NEW W, Stepping(None, W), \A w \in W : w.type = "PROPOSAL"
    PROVE  SideKnowsInv' /\ SideDeepensInv' /\ VoteOrderInv'
<1>1. sent' = sent \cup W
  BY DEF Stepping
<1>2. \A y \in sent' : y.type = "VOTE" => y \in sent
  BY <1>1
<1>3. SideKnowsInv'
  <2> SUFFICES ASSUME NEW y \in sent', y.type = "VOTE", NEW w \in HonestNodes,
                      SameSide(w, y.from)
               PROVE  NotarizedIn(honest'[w], ParentHash(y.block))
    BY DEF SideKnowsInv, SameSide, MinorityIds, HonestNodes
  <2>1. y.from \in HonestNodes
    BY <1>2, AllHonest DEF PartitionInv, NodesInv
  <2>2. NotarizedIn(honest[y.from], ParentHash(y.block))
    BY <1>2, <2>1 DEF PartitionInv, NodesInv, VotesStand
  <2>3. SameSide(y.from, w)
    BY DEF SameSide
  <2>4. NotarizedIn(honest[w], ParentHash(y.block))
    BY <2>1, <2>2, <2>3, SameSideKnow
  <2> QED
    BY <2>4
<1>4. SideDeepensInv'
  BY <1>2 DEF DeepInv, SideDeepensInv, OwnSide, SameSide, MinorityIds, EpochOf
<1>5. VoteOrderInv'
  <2> SUFFICES ASSUME NEW x \in sent', NEW y \in sent', x.type = "VOTE", y.type = "VOTE",
                      x.to = y.to, SameSide(x.from, y.from), Len(x.block) < Len(y.block)
               PROVE  x \in delivered' \/ (y \notin delivered' /\ Ahead(x, y)')
    BY DEF VoteOrderInv, SameSide, MinorityIds
  <2>1. x \in delivered \/ (y \notin delivered /\ Ahead(x, y))
    BY <1>2 DEF DeepInv, VoteOrderInv
  <2>2. Ahead(x, y) => x \in delivered' \/ Ahead(x, y)'
    BY StepKeepsAhead
  <2> QED
    BY <2>1, <2>2
<1> QED
  BY <1>3, <1>4, <1>5

\* What the leader builds on is notarized throughout the minority if it is of the
\* minority, and the majority has sent all its votes for it.
LEMMA BroadcastKeepsKnown ==
    ASSUME DishonestCount = 0, PartitionInv, IdleInv, GroundedInv, SidesAlikeInv, KnownInv,
           pc = "broadcastTime", pc' = "maj2maj", UNCHANGED <<honest, delivered>>,
           NEW W, Stepping(None, W), NEW v \in HonestNodes, NEW b, Opening(v, b, W)
    PROVE  KnownInv'
<1> SUFFICES ASSUME IsQuorum(Majority), NEW y \in sent', y.type = "PROPOSAL",
                    y.from \in MinorityIds, NEW w \in HonestNodes,
                    ~NotarizedIn(honest'[w], ParentHash(y.block))
             PROVE  /\ w \notin MinorityIds
                    /\ \A u \in Majority : VoteFor(ParentHash(y.block), u, w) \in sent'
  BY DEF KnownInv, MinorityProposal, Majority, MinorityIds, HonestNodes, IsQuorum
<1> DEFINE p == ParentHash(y.block)
<1>1. sent' = sent \cup W /\ \A x \in W : x.block = b /\ x.from = v
  BY SendingFields DEF Stepping, Opening
<1>2. y \notin sent
  BY DEF KnownInv, MinorityProposal
<1>3. y.block = b /\ v \in MinorityIds
  BY <1>1, <1>2
<1>4. NotarizedIn(honest[v], p)
  <2>1. ReplicaInv(honest[v])
    BY DEF PartitionInv, NodesInv
  <2> QED
    BY <1>3, <2>1 DEF Opening, ReplicaInv, TreeInv, IsTree, DeepestNotarizedIsDeepest,
                      NotarizedIn, IsPresent
<1> HIDE DEF p
<1>5. ~NotarizedIn(honest[w], p)
  BY DEF p
<1>6. w \notin MinorityIds
  BY <1>3, <1>4, <1>5, SameSideKnow DEF SameSide
<1>7. p # GenesisHash
  BY <1>5, GenesisNotarized
<1>8. PICK Q \in SUBSET HonestNodes :
         IsQuorum(Q) /\ \A x \in Q : VoteFor(p, x, v) \in delivered
  BY <1>4, <1>7, CountedQuorum
<1>9. PICK x \in Q : x \notin MinorityIds
  BY <1>8, QuorumsReach
<1>10. ASSUME NEW u \in Majority PROVE VoteFor(p, u, w) \in sent
  <2>1. SameSide(x, u) /\ u \in HonestNodes /\ x \in HonestNodes /\ v \in Nodes /\ w \in Nodes
    BY <1>9, NodeSets DEF SameSide, Majority
  <2> QED
    BY <1>8, <1>9, <2>1, SideVotes DEF GroundedInv
<1> QED
  BY <1>1, <1>6, <1>10 DEF p

\* So it builds at least as deep as the minority did before.
LEMMA BroadcastKeepsMinority ==
    ASSUME PartitionInv, PartitionInv', KnownInv, MinorityDeepensInv, pc = "broadcastTime",
           NEW W, Stepping(None, W), NEW v \in HonestNodes, NEW b, Opening(v, b, W)
    PROVE  MinorityDeepensInv'
<1> SUFFICES ASSUME IsQuorum(Majority), NEW y \in sent', y.type = "PROPOSAL",
                    y.from \in MinorityIds, NEW z \in sent', z.type = "PROPOSAL",
                    EpochOf(y.block) < EpochOf(z.block)
             PROVE  Len(y.block) <= Len(z.block)
  BY DEF MinorityDeepensInv, MinorityProposal, Majority, MinorityIds, HonestNodes, IsQuorum
<1>1. sent' = sent \cup W /\ \A x \in W : x.block = b
  BY SendingFields DEF Stepping, Opening
<1>2. CASE y \in sent /\ z \in sent
  BY <1>2 DEF MinorityDeepensInv, MinorityProposal
<1>3. CASE y \in W
  <2>1. y.block = b /\ EpochOf(b) \in Nat
    BY <1>1, <1>3, EpochOfNat DEF Opening
  <2>2. z \in sent => EpochOf(z.block) < EpochOf(b) /\ EpochOf(z.block) \in Nat
    BY PartitionInvFacts DEF Opening
  <2>3. z \in W => z.block = b
    BY <1>1
  <2> QED
    BY <1>1, <2>1, <2>2, <2>3
<1>4. CASE y \in sent /\ z \in W
  <2>1. z.block = b
    BY <1>1, <1>4
  <2>2. NotarizedIn(honest[v], ParentHash(y.block))
    BY <1>4 DEF KnownInv, MinorityProposal
  <2>3. y.block \in Hash /\ ReplicaInv(honest[v]) /\ EpochOf(y.block) \in Nat
    BY <1>4, PartitionInvFacts DEF PartitionInv, NodesInv, Message
  <2>4. CASE y.block = GenesisHash
    <3>1. Len(y.block) = 0 /\ Len(b) \in Nat
      BY <2>4, EmptySeq DEF GenesisHash, Opening, Hash
    <3> QED
      BY <2>1, <3>1
  <2>5. CASE y.block # GenesisHash
    <3> DEFINE n == Len(honest[v].tree.deepestNotarized)
    <3>1. Len(y.block) <= n + 1 /\ Len(y.block) \in Nat /\ n \in Nat
      BY <2>2, <2>3, <2>5, BelowDeepest
    <3>2. Len(ParentHash(b)) = n
      BY DEF Opening
    <3>3. Len(ParentHash(b)) = Len(b) - 1 /\ Len(b) \in Nat
      BY HashOfParts, AncestorHash DEF Opening
    <3> HIDE DEF n
    <3> QED
      BY <2>1, <3>1, <3>2, <3>3
  <2> QED
    BY <2>4, <2>5
<1> QED
  BY <1>1, <1>2, <1>3, <1>4

\* broadcastTime keeps it all.
LEMMA BroadcastKeepsDeep ==
    ASSUME DishonestCount = 0, PartitionInv, PartitionInv', IdleInv, GroundedInv,
           SidesAlikeInv, DeepInv, BroadcastTime
    PROVE  DeepInv'
<1>1. pc = "broadcastTime" /\ pc' = "maj2maj" /\ UNCHANGED <<honest, delivered>>
  BY DEF BroadcastTime
<1>2. PICK W : /\ Stepping(None, W)
               /\ W = {} \/ \E v \in HonestNodes : \E b : Opening(v, b, W)
  BY Announces
<1>3. CASE W = {}
  <2>1. sent' = sent
    BY <1>2, <1>3 DEF Stepping
  <2>2. SideKnowsInv' /\ SideDeepensInv' /\ VoteOrderInv'
    BY <1>1, <1>2, <1>3, BroadcastKeepsSides
  <2>3. InTimeInv' /\ MinorityDeepensInv'
    BY <1>1, <2>1 DEF DeepInv, InTimeInv, MinorityDeepensInv, MinorityProposal, Within, EdgeType,
                      MinorityIds, Majority, HonestNodes, IsQuorum
  <2>4. KnownInv'
    <3>1. \A y \in sent, w \in HonestNodes :
             IsQuorum(Majority) /\ MinorityProposal(y)
                => NotarizedIn(honest[w], ParentHash(y.block))
      BY <1>1 DEF DeepInv, KnownInv
    <3> QED
      BY <1>1, <2>1, <3>1 DEF KnownInv, MinorityProposal, Majority, MinorityIds, HonestNodes,
                              IsQuorum
  <2> QED
    BY <2>2, <2>3, <2>4 DEF DeepInv
<1>4. CASE W # {}
  <2>1. PICK v \in HonestNodes : \E b : Opening(v, b, W)
    BY <1>2, <1>4
  <2>2. PICK b : Opening(v, b, W)
    BY <2>1
  <2>3. \A w \in W : w.type = "PROPOSAL"
    BY <2>2, SendingFields DEF Opening
  <2>4. SideKnowsInv' /\ SideDeepensInv' /\ VoteOrderInv'
    BY <1>1, <1>2, <2>3, BroadcastKeepsSides
  <2>5. InTimeInv'
    BY <1>1, <1>2, <2>2, BroadcastKeepsInTime DEF DeepInv
  <2>6. KnownInv'
    BY <1>1, <1>2, <2>2, BroadcastKeepsKnown DEF DeepInv
  <2>7. MinorityDeepensInv'
    BY <1>1, <1>2, <2>2, BroadcastKeepsMinority DEF DeepInv
  <2> QED
    BY <2>4, <2>5, <2>6, <2>7 DEF DeepInv
<1> QED
  BY <1>3, <1>4

\* A vote is for a block an epoch of which is known, so no proposal is late by it.
LEMMA PopKeepsInTime ==
    ASSUME InTimeInv, NEW m, NEW W, Stepping(One, W), W = {} \/ Answered(m, W)
    PROVE  InTimeInv'
<1> SUFFICES ASSUME NEW x \in sent', NEW y \in sent',
                    x.type = "PROPOSAL", EdgeType(x) \in Within, x \notin delivered'
             PROVE  EpochOf(y.block) <= EpochOf(x.block)
  BY DEF InTimeInv, Within, EdgeType, MinorityIds
<1>1. sent' = sent \cup W /\ delivered \subseteq delivered'
  BY DEF Stepping
<1>2. x \in sent /\ x \notin delivered
  BY <1>1 DEF Answered
<1>3. CASE y \in sent
  BY <1>2, <1>3 DEF InTimeInv
<1>4. CASE y \in W
  <2>1. y.block = m.block /\ m \in sent
    BY <1>4 DEF Answered
  <2> QED
    BY <1>2, <2>1 DEF InTimeInv
<1> QED
  BY <1>1, <1>3, <1>4

\* A vote on the leader's side is sent before a later epoch begins.
LEMMA AnsweredInTime ==
    ASSUME PartitionInv, InTimeInv, NEW m, NEW W, Answered(m, W), NEW w \in W, OwnSide(w),
           NEW y \in sent
    PROVE  ~(EpochOf(w.block) < EpochOf(y.block))
<1>1. w.block = m.block /\ w.from = m.to /\ m \in sent /\ m \notin delivered
  BY DEF Answered
<1>2. SameSide(m.from, m.to)
  BY <1>1 DEF Answered, OwnSide
<1>3. EdgeType(m) \in Within
  BY <1>2 DEF SameSide, EdgeType, Within
<1>4. EpochOf(y.block) <= EpochOf(m.block)
  BY <1>1, <1>3 DEF InTimeInv, Answered
<1>5. EpochOf(y.block) \in Nat /\ EpochOf(m.block) \in Nat
  BY <1>1, PartitionInvFacts
<1> QED
  BY <1>1, <1>4, <1>5

\* What a side knows it goes on knowing.
LEMMA PopKeepsSideKnows ==
    ASSUME DishonestCount = 0, PartitionInv, InTimeInv, SideKnowsInv, Pop,
           NEW m, NEW W, Stepping(One, W), W = {} \/ Answered(m, W)
    PROVE  SideKnowsInv'
<1> SUFFICES ASSUME NEW y \in sent', NEW z \in sent', y.type = "VOTE", OwnSide(y),
                    z.type = "PROPOSAL", EpochOf(y.block) < EpochOf(z.block),
                    NEW w \in HonestNodes, SameSide(w, y.from)
             PROVE  NotarizedIn(honest'[w], ParentHash(y.block))
  BY DEF SideKnowsInv, OwnSide, SameSide, MinorityIds, HonestNodes
<1>1. sent' = sent \cup W
  BY DEF Stepping
<1>2. z \in sent
  BY <1>1 DEF Answered
<1>3. y \in sent
  BY <1>1, <1>2, AnsweredInTime
<1>4. NotarizedIn(honest[w], ParentHash(y.block))
  BY <1>2, <1>3 DEF SideKnowsInv
<1> QED
  BY <1>4, PopNotarized

\* A node whose side knows the parent of a block votes as deep as that.
LEMMA PopKeepsSideDeepens ==
    ASSUME PartitionInv, InTimeInv, SideKnowsInv, SideDeepensInv,
           NEW m, NEW W, Stepping(One, W), W = {} \/ Answered(m, W)
    PROVE  SideDeepensInv'
<1> SUFFICES ASSUME NEW x \in sent', NEW y \in sent', x.type = "VOTE", y.type = "VOTE",
                    OwnSide(x), SameSide(x.from, y.from), EpochOf(x.block) < EpochOf(y.block)
             PROVE  Len(x.block) <= Len(y.block)
  BY DEF SideDeepensInv, OwnSide, SameSide, MinorityIds
<1>1. sent' = sent \cup W
  BY DEF Stepping
<1>2. CASE x \in sent /\ y \in sent
  BY <1>2 DEF SideDeepensInv
<1>3. CASE x \in W /\ y \in sent
  BY <1>3, AnsweredInTime
<1>4. CASE x \in W /\ y \in W
  <2>1. x.block = y.block /\ m \in sent /\ x.block = m.block
    BY <1>4 DEF Answered
  <2> QED
    BY <2>1, PartitionInvFacts
<1>5. CASE x \in sent /\ y \in W
  <2> DEFINE n == Len(honest[m.to].tree.deepestNotarized)
  <2>1. /\ y.block = m.block /\ y.from = m.to /\ Len(y.block) = n + 1
        /\ m \in sent /\ m.type = "PROPOSAL" /\ m.to \in HonestNodes
    BY <1>5 DEF Answered
  <2>2. NotarizedIn(honest[m.to], ParentHash(x.block))
    BY <1>5, <2>1 DEF SideKnowsInv, SameSide
  <2>3. ReplicaInv(honest[m.to]) /\ x.block \in Hash
    BY <1>5, <2>1, PartitionInvFacts DEF PartitionInv, NodesInv, Message
  <2>4. CASE x.block = GenesisHash
    <3>1. Len(x.block) = 0 /\ Len(y.block) \in Nat
      BY <2>1, <2>4, EmptySeq, PartitionInvFacts DEF GenesisHash, Message, Hash
    <3> QED
      BY <3>1
  <2>5. CASE x.block # GenesisHash
    <3>1. Len(x.block) <= n + 1
      BY <2>2, <2>3, <2>5, BelowDeepest
    <3> HIDE DEF n
    <3> QED
      BY <2>1, <3>1
  <2> QED
    BY <2>4, <2>5
<1> QED
  BY <1>1, <1>2, <1>3, <1>4, <1>5

\* A vote that is sent is queued behind those of the same side, and is no less deep
\* than they are: the parents of what they are for were known to this node, too.
LEMMA PopKeepsVoteOrder ==
    ASSUME DishonestCount = 0, PartitionInv, IdleInv, GroundedInv, RowsInv, VoteOrderInv, Pop,
           NEW m, m = Entry.message, NEW W, Stepping(One, W), W = {} \/ Answered(m, W)
    PROVE  VoteOrderInv'
<1> SUFFICES ASSUME NEW x \in sent', NEW y \in sent', x.type = "VOTE", y.type = "VOTE",
                    x.to = y.to, SameSide(x.from, y.from), Len(x.block) < Len(y.block)
             PROVE  x \in delivered' \/ (y \notin delivered' /\ Ahead(x, y)')
  BY DEF VoteOrderInv, SameSide, MinorityIds
<1>1. /\ sent' = sent \cup W /\ delivered \subseteq delivered'
      /\ delivered' = delivered \cup {m} /\ m \in sent /\ delivered \subseteq sent
  BY PopStepping, EntryFirst DEF Stepping, IdleInv, DeliveredInv
<1>2. CASE x \in sent /\ y \in sent
  <2>1. x \in delivered \/ (y \notin delivered /\ Ahead(x, y))
    BY <1>2 DEF VoteOrderInv
  <2>2. ASSUME Ahead(x, y) PROVE y # m /\ (x \in delivered' \/ Ahead(x, y)')
    BY <2>2, NoneAheadOfFirst, StepKeepsAhead
  <2> QED
    BY <1>1, <2>1, <2>2
<1>3. CASE x \in sent /\ y \in W
  <2>1. y \notin sent /\ y \notin delivered'
    BY <1>1, <1>3 DEF Answered
  <2>2. EdgeType(x) = EdgeType(y)
    BY DEF EdgeType, SameSide
  <2>3. x \in delivered \/ Queued(x)
    BY <1>3 DEF GroundedInv, BroadcastsInv, HeldInv
  <2> QED
    BY <1>1, <1>3, <2>1, <2>2, <2>3, StepFilesBehind
<1>4. CASE x \in W /\ y \in W
  <2>1. x.block = y.block /\ m \in sent /\ x.block = m.block /\ m.block \in Hash
    BY <1>4, PartitionInvFacts DEF Answered, Message
  <2>2. Len(m.block) \in Nat
    BY <2>1 DEF Hash
  <2> QED
    BY <2>1, <2>2
<1>5. CASE x \in W /\ y \in sent
  <2> DEFINE n == Len(honest[m.to].tree.deepestNotarized)
             c == y.block
  <2>1. /\ x.from = m.to /\ Len(x.block) = n + 1
        /\ m \notin delivered /\ m.type = "PROPOSAL" /\ m.to \in HonestNodes
    BY <1>5 DEF Answered
  <2>2. y.from \in HonestNodes
    BY <1>5, AllHonest DEF PartitionInv, NodesInv
  <2>3. NotarizedIn(honest[y.from], ParentHash(c)) /\ c # GenesisHash
    BY <1>5, <2>2 DEF PartitionInv, NodesInv, VotesStand
  <2>4. ReplicaInv(honest[m.to]) /\ c \in Hash
    BY <1>5, <2>1, PartitionInvFacts DEF PartitionInv, NodesInv, Message
  <2>5. SameSide(m.to, y.from)
    BY <2>1
  <2> HIDE DEF c
  <2>6. NotarizedIn(honest[m.to], ParentHash(c))
    BY <2>1, <2>2, <2>3, <2>5, KnowsAlike
  <2>7. Len(c) <= n + 1 /\ Len(c) \in Nat /\ n \in Nat
    BY <2>3, <2>4, <2>6, BelowDeepest
  <2> HIDE DEF n
  <2> QED
    BY <2>1, <2>7 DEF c
<1> QED
  BY <1>1, <1>2, <1>3, <1>4, <1>5

\* Every delivery keeps it all.
LEMMA PopKeepsDeep ==
    ASSUME DishonestCount = 0, PartitionInv, IdleInv, GroundedInv, SidesAlikeInv, DeepInv, Pop
    PROVE  DeepInv'
<1> PICK m : m = Entry.message
  OBVIOUS
<1>1. PICK W : Stepping(One, W) /\ (W = {} \/ Answered(m, W))
  BY PopAnswers
<1>2. InTimeInv'
  BY <1>1, PopKeepsInTime DEF DeepInv
<1>3. SideKnowsInv'
  BY <1>1, PopKeepsSideKnows DEF DeepInv
<1>4. SideDeepensInv'
  BY <1>1, PopKeepsSideDeepens DEF DeepInv
<1>5. VoteOrderInv'
  BY <1>1, PopKeepsVoteOrder DEF DeepInv, SidesAlikeInv
<1>6. sent \subseteq sent' /\ \A y : MinorityProposal(y)' => MinorityProposal(y)
  BY <1>1 DEF Stepping, MinorityProposal, Answered, MinorityIds
<1>7. KnownInv'
  <2> SUFFICES ASSUME IsQuorum(Majority), NEW y \in sent, MinorityProposal(y),
                      NEW w \in HonestNodes
               PROVE  \/ NotarizedIn(honest'[w], ParentHash(y.block))
                      \/ /\ w \notin MinorityIds /\ pc' = "maj2maj"
                         /\ \A u \in Majority : VoteFor(ParentHash(y.block), u, w) \in sent'
    BY <1>6 DEF KnownInv, MinorityProposal, Majority, MinorityIds, HonestNodes, IsQuorum
  <2>1. pc' = pc
    BY DEF Pop
  <2>2. CASE NotarizedIn(honest[w], ParentHash(y.block))
    BY <2>2, PopNotarized
  <2>3. CASE /\ w \notin MinorityIds /\ pc = "maj2maj"
             /\ \A u \in Majority : VoteFor(ParentHash(y.block), u, w) \in sent
    BY <1>6, <2>1, <2>3
  <2> QED
    BY <2>2, <2>3 DEF DeepInv, KnownInv
<1>8. MinorityDeepensInv'
  <2>1. \A z \in sent' : z.type = "PROPOSAL" => z \in sent
    BY <1>1 DEF Stepping, Answered
  <2> QED
    BY <1>6, <2>1 DEF DeepInv, MinorityDeepensInv, MinorityProposal, Majority, MinorityIds,
                      HonestNodes, IsQuorum
<1> QED
  BY <1>2, <1>3, <1>4, <1>5, <1>7, <1>8 DEF DeepInv

\* When the queue within the majority is empty, its votes have notarized what the
\* minority builds on.
LEMMA TurnKeepsDeep ==
    ASSUME DishonestCount = 0, PartitionInv, IdleInv, GroundedInv, DeepInv,
           NEW W, Stepping(None, W), UNCHANGED <<honest, sent, delivered>>,
           pc' = pc \/ (pc \in EdgeTypes /\ queues[pc] = << >>)
    PROVE  DeepInv'
<1>1. InTimeInv' /\ MinorityDeepensInv' /\ SideKnowsInv' /\ SideDeepensInv'
  BY DEF DeepInv, InTimeInv, MinorityDeepensInv, MinorityProposal, SideKnowsInv, SideDeepensInv,
         OwnSide, SameSide, Within, EdgeType, MinorityIds, Majority, HonestNodes, IsQuorum,
         NotarizedIn, IsPresent, EpochOf, GenesisHash
<1>2. VoteOrderInv'
  <2> SUFFICES ASSUME NEW x \in sent, NEW y \in sent, x.type = "VOTE", y.type = "VOTE",
                      x.to = y.to, SameSide(x.from, y.from), Len(x.block) < Len(y.block)
               PROVE  x \in delivered \/ (y \notin delivered /\ Ahead(x, y)')
    BY DEF VoteOrderInv, SameSide, MinorityIds
  <2>1. x \in delivered \/ (y \notin delivered /\ Ahead(x, y))
    BY DEF DeepInv, VoteOrderInv
  <2>2. Ahead(x, y) => x \in delivered \/ Ahead(x, y)'
    BY StepKeepsAhead
  <2> QED
    BY <2>1, <2>2
<1>3. KnownInv'
  <2> SUFFICES ASSUME IsQuorum(Majority), NEW y \in sent, MinorityProposal(y),
                      NEW w \in HonestNodes
               PROVE  \/ NotarizedIn(honest[w], ParentHash(y.block))
                      \/ /\ w \notin MinorityIds /\ pc' = "maj2maj"
                         /\ \A u \in Majority : VoteFor(ParentHash(y.block), u, w) \in sent
    BY DEF KnownInv, MinorityProposal, Majority, MinorityIds, HonestNodes, IsQuorum, NotarizedIn,
           IsPresent, VoteFor
  <2> DEFINE p == ParentHash(y.block)
  <2>1. \/ NotarizedIn(honest[w], p)
        \/ /\ w \notin MinorityIds /\ pc = "maj2maj"
           /\ \A u \in Majority : VoteFor(p, u, w) \in sent
    BY DEF DeepInv, KnownInv
  <2> HIDE DEF p
  <2>2. CASE NotarizedIn(honest[w], p) \/ pc' = pc
    BY <2>1, <2>2 DEF p
  <2>3. CASE /\ w \notin MinorityIds /\ pc = "maj2maj" /\ queues[pc] = << >>
             /\ \A u \in Majority : VoteFor(p, u, w) \in sent
    <3>1. ASSUME NEW u \in Majority PROVE VoteFor(p, u, w) \in delivered
      <4>1. EdgeType(VoteFor(p, u, w)) = "maj2maj"
        BY <2>3 DEF EdgeType, VoteFor, Majority
      <4> QED
        BY <2>3, <4>1, AllDelivered DEF GroundedInv, EdgeTypes
    <3>2. Majority \in SUBSET Nodes
      BY NodeSets DEF Majority
    <3>3. NotarizedIn(honest[w], p)
      BY <3>1, <3>2, QuorumNotarizes DEF GroundedInv
    <3> QED
      BY <3>3 DEF p
  <2> QED
    BY <2>1, <2>2, <2>3
<1> QED
  BY <1>1, <1>2, <1>3 DEF DeepInv

\* Every step keeps it all.
LEMMA DeepStep ==
    ASSUME DishonestCount = 0, PartitionInv, IdleInv, GroundedInv, SidesAlikeInv, DeepInv,
           [Next]_vars
    PROVE  DeepInv'
<1>1. CASE BroadcastTime
  BY <1>1, PartitionStep, BroadcastKeepsDeep
<1>2. CASE Pop
  BY <1>2, PopKeepsDeep
<1>3. CASE NextQueue
  BY <1>3, NextQueueTurns, TurnKeepsDeep
<1>4. CASE EndPass
  <2>1. UNCHANGED <<honest, sent, delivered>> /\ pc \in EdgeTypes /\ queues[pc] = << >>
    BY <1>4, EndPassTurns
  <2>2. PICK W : Stepping(None, W)
    BY <1>4, EndPassTurns
  <2> QED
    BY <2>1, <2>2, TurnKeepsDeep
<1>5. CASE UNCHANGED vars
  <2>1. UNCHANGED <<honest, sent, queues, pc, delivered>>
    BY <1>5 DEF vars
  <2>2. Stepping(None, {})
    BY <2>1, NoneLost DEF Stepping, QueuesMove
  <2> QED
    BY <2>1, <2>2, TurnKeepsDeep
<1> QED
  BY <1>1, <1>2, <1>3, <1>4, <1>5 DEF Next, Terminating

-----------------------------------------------------------------------------
\* Of two notarized blocks the one of the later epoch is no less deep.
LEMMA SidesDeepen ==
    ASSUME DishonestCount = 0, PartitionInv, IdleInv, GroundedInv, SidesAlikeInv, DeepInv
    PROVE  NotarizedDeepens(honest)
<1> SUFFICES ASSUME NEW b, NEW c, NEW v \in HonestNodes, NotarizedIn(honest[v], b),
                    NEW w \in HonestNodes, NotarizedIn(honest[w], c),
                    EpochOf(b) < EpochOf(c)
             PROVE  Len(b) <= Len(c)
  BY DEF NotarizedDeepens, SomeNotarized
<1>1. /\ b \in Hash /\ EpochOf(b) \in Nat /\ Len(b) \in Nat
      /\ c \in Hash /\ EpochOf(c) \in Nat /\ Len(c) \in Nat
  BY NotarizedTyped DEF PartitionInv
<1>2. CASE b = GenesisHash
  <2>1. Len(b) = 0
    BY <1>2, EmptySeq DEF GenesisHash
  <2> QED
    BY <1>1, <2>1
<1>3. CASE b # GenesisHash
  <2>1. c # GenesisHash
    <3>1. EpochOf(GenesisHash) = 0
      BY DEF EpochOf
    <3> QED
      BY <1>1, <3>1
  <2>2. PICK Q \in SUBSET HonestNodes :
           IsQuorum(Q) /\ \A x \in Q : VoteFor(b, x, v) \in delivered
    BY <1>3, CountedQuorum
  <2>3. PICK R \in SUBSET HonestNodes :
           IsQuorum(R) /\ \A y \in R : VoteFor(c, y, w) \in delivered
    BY <2>1, CountedQuorum
  <2>4. \A x \in Q, y \in R : VoteFor(b, x, v) \in sent /\ VoteFor(c, y, w) \in sent
    BY <2>2, <2>3 DEF IdleInv, DeliveredInv
  <2>5. ASSUME NEW x \in Q, NEW y \in R,
               SameSide(GetLeader(EpochOf(b)), x), SameSide(GetLeader(EpochOf(b)), y)
        PROVE  Len(b) <= Len(c)
    <3> DEFINE s == VoteFor(b, x, v)
               t == VoteFor(c, y, w)
    <3>1. /\ s.type = "VOTE" /\ s.from = x /\ s.block = b
          /\ t.type = "VOTE" /\ t.from = y /\ t.block = c
      BY DEF VoteFor
    <3>2. s \in sent /\ t \in sent
      BY <2>4
    <3> HIDE DEF s, t
    <3>3. OwnSide(s) /\ SameSide(s.from, t.from)
      BY <2>5, <3>1 DEF OwnSide, SameSide
    <3> QED
      BY <3>1, <3>2, <3>3 DEF DeepInv, SideDeepensInv
  <2>6. CASE GetLeader(EpochOf(b)) \notin MinorityIds
    <3>1. PICK x \in Q : x \notin MinorityIds
      BY <2>2, QuorumsReach
    <3>2. PICK y \in R : y \notin MinorityIds
      BY <2>3, QuorumsReach
    <3> QED
      BY <2>5, <2>6, <3>1, <3>2 DEF SameSide
  <2>7. CASE GetLeader(EpochOf(b)) \in MinorityIds /\ ~IsQuorum(Majority)
    <3>1. PICK x \in Q : x \in MinorityIds
      BY <2>2, <2>7, QuorumsReach
    <3>2. PICK y \in R : y \in MinorityIds
      BY <2>3, <2>7, QuorumsReach
    <3> QED
      BY <2>5, <2>7, <3>1, <3>2 DEF SameSide
  <2>8. CASE GetLeader(EpochOf(b)) \in MinorityIds /\ IsQuorum(Majority)
    <3>1. PICK x \in Q : TRUE
      BY <2>2, QuorumInhabited
    <3>2. PICK y \in R : TRUE
      BY <2>3, QuorumInhabited
    <3> DEFINE s == ProposalTo(b, x)
               t == ProposalTo(c, y)
    <3>3. s \in sent /\ t \in sent
      <4>1. /\ VoteFor(b, x, v).type = "VOTE" /\ VoteFor(b, x, v).from = x
            /\ VoteFor(b, x, v).block = b
            /\ VoteFor(c, y, w).type = "VOTE" /\ VoteFor(c, y, w).from = y
            /\ VoteFor(c, y, w).block = c
        BY DEF VoteFor
      <4>2. VoteFor(b, x, v) \in sent /\ VoteFor(c, y, w) \in sent
        BY <2>4
      <4>3. s \in delivered /\ t \in delivered
        BY <4>1, <4>2 DEF SidesAlikeInv, VotedInv
      <4> QED
        BY <4>3 DEF IdleInv, DeliveredInv
    <3>4. /\ s.type = "PROPOSAL" /\ s.from = GetLeader(EpochOf(b)) /\ s.block = b
          /\ t.type = "PROPOSAL" /\ t.block = c
      BY DEF ProposalTo
    <3> HIDE DEF s, t
    <3> QED
      BY <2>8, <3>3, <3>4 DEF DeepInv, MinorityDeepensInv, MinorityProposal
  <2> QED
    BY <2>6, <2>7, <2>8
<1> QED
  BY <1>2, <1>3

\* The block m votes for is notarized by m.
NotarizedBy(m) ==
    /\ m.to \in HonestNodes /\ m.type = "VOTE"
    /\ m.block \in DOMAIN honest[m.to].tree.hbMapping
    /\ honest[m.to].tree.hbMapping[m.block] = "PRESENT"
    /\ NotarizedIn(honest'[m.to], m.block)

\* Such a vote is new.
LEMMA NotarizedByNew ==
    ASSUME DishonestCount = 0, PartitionInv, IdleInv, Pop, NEW m, m = Entry.message,
           NotarizedBy(m)
    PROVE  m \notin delivered
<1> SUFFICES ASSUME m \in delivered PROVE FALSE
  OBVIOUS
<1>1. SpentBy(honest, m) /\ NodesInv(honest, dishonest, sent)
  BY DEF IdleInv, DeliveredInv, PartitionInv
<1>2. honest' = honest
  BY <1>1, SpentIsIdle DEF Pop
<1> QED
  BY <1>2 DEF NotarizedBy, NotarizedIn, IsPresent

\* It is none of the minority's if the majority's votes have all been counted: these have
\* sufficed, or there are none.
LEMMA MajorityHeard ==
    ASSUME DishonestCount = 0, PartitionInv, IdleInv, GroundedInv, SidesAlikeInv, Pop,
           IsQuorum(Majority), NEW m, m = Entry.message, NotarizedBy(m),
           m.from \in MinorityIds,
           \A x \in sent : /\ x.type = "VOTE" /\ x.to = m.to /\ x.block = m.block
                           /\ x.from \notin MinorityIds
                           => x \in delivered
    PROVE  FALSE
<1> DEFINE v == m.to
           b == m.block
           r == honest[v]
           s == honest'[v]
           e == EpochOf(b)
<1>1. /\ m \in sent /\ b \in Hash /\ v \in HonestNodes /\ v \in Nodes
      /\ NodesInv(honest, dishonest, sent)
      /\ ReplicaStep(v, r, m, s)
  BY PopHandles, NodeSets DEF PartitionInv, Message, NotarizedBy
<1>2. r.tree.hbMapping[b] = "PRESENT" /\ b \in DOMAIN r.tree.hbMapping /\ NotarizedIn(s, b)
  BY DEF NotarizedBy
<1>3. ~NotarizedIn(r, b)
  BY <1>2 DEF NotarizedIn
<1> HIDE DEF r, s, e
<1>4. /\ e \in DOMAIN s.proposedBlocks /\ s.proposedBlocks[e] = b
      /\ IsQuorum(Voters(s, e)) /\ Voters(s, e) \in SUBSET Nodes
  <2>1. b \in DOMAIN s.tree.hbMapping
    BY <1>2 DEF NotarizedIn, IsPresent
  <2> QED
    BY <1>1, <1>2, <1>3, <2>1 DEF ReplicaStep, Voters, e
<1>5. ASSUME NEW x \in Voters(s, e), x # m.from
      PROVE  VoteFor(b, x, v) \in delivered
  <2>1. <<e, x>> \in s.votes /\ <<e, x>>[1] = e /\ <<e, x>>[2] = x
    BY DEF Voters
  <2>2. <<e, x>> \in r.votes
    BY <1>1, <1>5, <2>1 DEF ReplicaStep
  <2>3. e \in DOMAIN r.proposedBlocks
    BY <1>1, <2>1, <2>2 DEF NodesInv, CountedWereSent, r
  <2>4. r.proposedBlocks[e] = b
    BY <1>1, <1>4, <2>3 DEF ReplicaStep
  <2> QED
    BY <1>1, <2>1, <2>2, <2>4 DEF GroundedInv, RecordedInv, r
<1>6. Voters(s, e) \in SUBSET HonestNodes
  <2> SUFFICES ASSUME NEW x \in Voters(s, e) PROVE x \in HonestNodes
    OBVIOUS
  <2>1. m.from \in HonestNodes
    BY <1>1, AllHonest DEF NodesInv
  <2>2. CASE x # m.from
    <3>1. VoteFor(b, x, v) \in sent /\ VoteFor(b, x, v).from = x
      BY <1>5, <2>2 DEF IdleInv, DeliveredInv, VoteFor
    <3> QED
      BY <1>1, <3>1, AllHonest DEF NodesInv
  <2> QED
    BY <2>1, <2>2
<1>7. PICK x \in Voters(s, e) : x \notin MinorityIds
  BY <1>4, <1>6, QuorumsReach
<1>8. x \in HonestNodes /\ VoteFor(b, x, v) \in delivered
  BY <1>5, <1>6, <1>7
<1>9. ASSUME NEW u \in Majority PROVE VoteFor(b, u, v) \in delivered
  <2>1. u \in HonestNodes /\ u \notin MinorityIds /\ SameSide(x, u)
    BY <1>7 DEF Majority, SameSide
  <2>2. VoteFor(b, u, v) \in sent
    BY <1>1, <1>8, <2>1, SideVotes DEF GroundedInv
  <2>3. /\ VoteFor(b, u, v).type = "VOTE" /\ VoteFor(b, u, v).to = v
        /\ VoteFor(b, u, v).block = b /\ VoteFor(b, u, v).from = u
    BY DEF VoteFor
  <2> QED
    BY <2>1, <2>2, <2>3
<1>10. Majority \in SUBSET Nodes
  BY NodeSets DEF Majority
<1>11. NotarizedIn(honest[v], b)
  BY <1>1, <1>9, <1>10, QuorumNotarizes DEF GroundedInv
<1> QED
  BY <1>3, <1>11 DEF r

\* A vote that notarizes a block, together with what notarized a block before, leaves
\* none of the votes of the majority for the first behind.
LEMMA NotarizedInOrder ==
    ASSUME DishonestCount = 0, PartitionInv, IdleInv, GroundedInv, SidesAlikeInv, DeepInv, Pop,
           NEW m, m = Entry.message, NotarizedBy(m),
           NEW c, NotarizedIn(honest[m.to], c)
    PROVE  Len(c) <= Len(m.block)
<1> DEFINE v == m.to
           b == m.block
<1>1. /\ m \in sent /\ m.from \in HonestNodes /\ v \in HonestNodes /\ m.type = "VOTE"
      /\ NodesInv(honest, dishonest, sent) /\ Len(b) \in Nat
  <2>1. m \in sent /\ m \in Message
    BY PopHandles
  <2>2. m.from \in HonestNodes
    BY <2>1, AllHonest DEF PartitionInv, NodesInv
  <2> QED
    BY <2>1, <2>2 DEF PartitionInv, Message, Hash, NotarizedBy
<1>2. Len(c) \in Nat
  BY <1>1, NotarizedTyped
<1> SUFFICES ASSUME Len(b) < Len(c) PROVE FALSE
  BY <1>1, <1>2
<1>3. c # GenesisHash
  <2>1. Len(GenesisHash) = 0
    BY EmptySeq DEF GenesisHash
  <2> QED
    BY <1>1, <2>1
<1>4. PICK R \in SUBSET HonestNodes :
         IsQuorum(R) /\ \A y \in R : VoteFor(c, y, v) \in delivered
  BY <1>1, <1>3, CountedQuorum
<1> HIDE DEF b, v
<1>5. ASSUME NEW x, x \in sent, x.type = "VOTE", x.to = v, x.block = b,
             NEW y \in R, SameSide(x.from, y)
      PROVE  x \in delivered
  <2> DEFINE z == VoteFor(c, y, v)
  <2>1. z.type = "VOTE" /\ z.from = y /\ z.to = v /\ z.block = c
    BY DEF VoteFor
  <2>2. z \in delivered /\ z \in sent
    BY <1>4 DEF IdleInv, DeliveredInv
  <2> HIDE DEF z
  <2> QED
    BY <1>5, <2>1, <2>2 DEF DeepInv, VoteOrderInv
<1>6. m \notin delivered
  BY NotarizedByNew
<1>7. \A y \in R : ~SameSide(m.from, y)
  BY <1>1, <1>5, <1>6 DEF v, b
<1>8. PICK y \in R : y \notin MinorityIds
  BY <1>4, QuorumsReach
<1>9. m.from \in MinorityIds
  BY <1>7, <1>8 DEF SameSide
<1>10. IsQuorum(Majority)
  <2>1. \A x \in R : x \notin MinorityIds
    BY <1>7, <1>9 DEF SameSide
  <2> QED
    BY <1>4, <2>1, QuorumsReach
<1>11. \A x \in sent : x.type = "VOTE" /\ x.to = v /\ x.block = b /\ x.from \notin MinorityIds
                          => x \in delivered
  BY <1>5, <1>8 DEF SameSide
<1> QED
  BY <1>9, <1>10, <1>11, MajorityHeard DEF v, b

\* So no step takes back what was finalized.
LEMMA PartitionPopDeepens ==
    ASSUME DishonestCount = 0, PartitionInv, PartitionInv', IdleInv, GroundedInv,
           SidesAlikeInv, DeepInv, NotarizedDeepens(honest'), Pop
    PROVE  [L!Next]_(L!vars)
<1> PICK m : m = Entry.message
  OBVIOUS
<1> DEFINE v == m.to
<1>1. /\ NodesInv(honest, dishonest, sent) /\ NodesInv(honest', dishonest', sent')
      /\ 3 * DishonestCount < N
  BY AllHonest, EnoughNodes DEF PartitionInv
<1>2. /\ \A x \in HonestNodes : x # v => honest'[x] = honest[x]
      /\ v \in HonestNodes => ReplicaStep(v, honest[v], m, honest'[v])
  BY PopHandles
<1>3. CASE Finalized' = Finalized
  BY <1>3, SameChains
<1>4. CASE Finalized' # Finalized
  <2>1. v \in HonestNodes
          /\ honest'[v].tree.deepestFinalized # honest[v].tree.deepestFinalized
    <3> SUFFICES ASSUME v \in HonestNodes =>
                           honest'[v].tree.deepestFinalized = honest[v].tree.deepestFinalized
                 PROVE  FALSE
      OBVIOUS
    <3>1. \A x \in HonestNodes :
             honest'[x].tree.deepestFinalized = honest[x].tree.deepestFinalized
      BY <1>2
    <3> QED
      BY <1>4, <3>1 DEF Finalized
  <2>2. m.type = "VOTE" /\ Justified(honest[v], m.block, honest'[v])
    BY <1>2, <2>1 DEF ReplicaStep
  <2>3. Len(honest[v].tree.deepestFinalized) <= Len(honest'[v].tree.deepestFinalized)
    <3> DEFINE b == m.block
    <3>1. /\ NotarizedIn(honest'[v], b) /\ 1 \in 1 .. Len(b)
          /\ honest'[v].tree.deepestFinalized = Ancestor(b, 1)
      BY <2>2 DEF Justified
    <3>2. \A c : NotarizedIn(honest[v], c) => Len(c) <= Len(b)
      <4>1. NotarizedBy(m)
        BY <2>1, <2>2 DEF NotarizedBy, Justified
      <4> QED
        BY <4>1, NotarizedInOrder
    <3> HIDE DEF b, v
    <3>3. b \in Hash
      BY <1>1, <2>1, <3>1, NotarizedTyped
    <3> QED
      BY <1>1, <2>1, <3>1, <3>2, <3>3, FinalizedDeepens
  <2>4. \A b : SomeFinalized(honest, b) => SomeFinalized(honest', b)
    BY <1>2, <2>1 DEF SomeFinalized, ReplicaStep
  <2>5. Len(Finalized[v]) <= Len(Finalized'[v])
    BY <2>1, <2>3 DEF Finalized
  <2> HIDE DEF v
  <2> QED
    BY <1>1, <1>2, <2>1, <2>4, <2>5, LedgerStep
<1> QED
  BY <1>3, <1>4

\* Without dishonest nodes the finalized chains of the nodes of both sides are views of
\* one ledger that only grows, whenever the decider synchronizes the sides
\* (partitioning_scheduler.cpp:57-119; tree.cpp:72, 87-89).
THEOREM PartitionRefinesLedger ==
    ASSUME DishonestCount = 0
    PROVE  Spec => ImplementsLedger
<1> DEFINE I == GroundedInv /\ SidesAlikeInv /\ DeepInv
           K == NotarizedDeepens(honest)
<1>1. Init => I /\ L!Init
  BY GroundedInit, SidesAlikeInit, DeepInit, InitialIsLedgers DEF Init
<1>2. PartitionInv /\ IdleInv /\ I /\ [Next]_vars => I'
  BY GroundedStep, SidesAlikeStep, DeepStep
<1>3. PartitionInv /\ IdleInv /\ I => K
  BY SidesDeepen
<1>4. PartitionInv /\ PartitionInv' /\ IdleInv /\ I /\ K' /\ [Next]_vars
         => [L!Next]_(L!vars)
  <2> SUFFICES ASSUME PartitionInv, PartitionInv', IdleInv, I, K', [Next]_vars
               PROVE  [L!Next]_(L!vars)
    OBVIOUS
  <2>1. CASE Pop
    <3>1. NotarizedDeepens(honest')
      BY DEF NotarizedDeepens, SomeNotarized, NotarizedIn, IsPresent, HonestNodes, EpochOf,
             GenesisHash
    <3> QED
      BY <2>1, <3>1, PartitionPopDeepens
  <2>2. CASE UNCHANGED honest
    <3>1. Finalized' = Finalized
      BY <2>2 DEF Finalized
    <3> QED
      BY <3>1, SameChains
  <2>3. Pop \/ UNCHANGED honest
    BY DEF Next, vars, BroadcastTime, NextQueue, EndPass, Terminating
  <2> QED
    BY <2>1, <2>2, <2>3
<1> HIDE DEF I, K
<1> QED
  BY <1>1, <1>2, <1>3, <1>4, IdleInvariant, PTL DEF Spec, ImplementsLedger, L!Spec

\* So of the chains two nodes have finalized, on whatever sides, one is a prefix of the
\* other, and none is ever taken back (Tree::getFinalizedChain, tree.cpp:87-89).
THEOREM FinalizedForGood ==
    ASSUME DishonestCount = 0
    PROVE  Spec => []L!Agreement /\ L!Growth
<1>1. Spec => L!Spec
  BY PartitionRefinesLedger DEF ImplementsLedger
<1> QED
  BY <1>1, ChainsAgree, ChainsGrow
-----------------------------------------------------------------------------
(* If every node is honest the nodes of both sides notarize the blocks of one *)
(* depth in the order of their epochs, so that what a node has notarized      *)
(* determines its tree; and a synchronization leaves nothing undelivered but  *)
(* votes that change nobody: so it leaves nobody behind.                      *)

\* Of two messages of one queue the first is handed over before the second.
InOrder(x, y) == x \in delivered \/ (y \notin delivered /\ Ahead(x, y))

\* Proposals wait in the order of their epochs.
ProposalOrderInv ==
    \A x, y \in sent :
        /\ x.type = "PROPOSAL" /\ y.type = "PROPOSAL" /\ EdgeType(x) = EdgeType(y)
        /\ EpochOf(x.block) < EpochOf(y.block)
        => InOrder(x, y)

\* The votes of a leader's side for its block wait within the side only while it is served.
OwnVotesInv ==
    \A y \in sent :
        y.type = "VOTE" /\ EdgeType(y) \in Within /\ OwnSide(y) /\ y \notin delivered
            => pc = EdgeType(y)

\* The majority's votes for blocks of one depth wait in the order of their epochs.
MajorityOrderInv ==
    IsQuorum(Majority) =>
        \A x, y \in sent :
            /\ x.type = "VOTE" /\ y.type = "VOTE" /\ x.to = y.to
            /\ x.from \notin MinorityIds /\ y.from \notin MinorityIds
            /\ Len(x.block) = Len(y.block) /\ EpochOf(x.block) < EpochOf(y.block)
            => InOrder(x, y)

\* The order of the epochs is the order of delivery.
EpochOrderInv == ProposalOrderInv /\ OwnVotesInv /\ MajorityOrderInv

\* A delivery keeps the order.
LEMMA PopKeepsInOrder ==
    ASSUME DishonestCount = 0, PartitionInv, IdleInv, Pop, NEW x, NEW y, InOrder(x, y)
    PROVE  InOrder(x, y)'
<1>1. delivered' = delivered \cup {Entry.message}
  BY PopStepping
<1>2. PICK W : Stepping(One, W)
  BY PopStepping
<1>3. CASE x \in delivered
  BY <1>1, <1>3 DEF InOrder
<1>4. CASE y \notin delivered /\ Ahead(x, y)
  <2>1. x \in delivered' \/ Ahead(x, y)'
    BY <1>2, <1>4, StepKeepsAhead
  <2>2. y \notin delivered'
    BY <1>1, <1>4, NoneAheadOfFirst
  <2> QED
    BY <2>1, <2>2 DEF InOrder
<1> QED
  BY <1>3, <1>4 DEF InOrder

\* So does a step that delivers nothing.
LEMMA TurnKeepsInOrder ==
    ASSUME NEW W, Stepping(None, W), delivered' = delivered, NEW x, NEW y, InOrder(x, y)
    PROVE  InOrder(x, y)'
BY StepKeepsAhead DEF InOrder

\* What is new waits behind what is not.
LEMMA FilesInOrder ==
    ASSUME PartitionInv, IdleInv, BroadcastsInv, NEW D, NEW W, Stepping(D, W),
           \A w \in W : w \notin delivered',
           NEW x \in sent, NEW y \in W, y \notin sent, EdgeType(x) = EdgeType(y)
    PROVE  InOrder(x, y)'
<1>1. x \in delivered \/ Queued(x)
  BY DEF BroadcastsInv, HeldInv
<1>2. delivered \subseteq delivered'
  BY DEF Stepping
<1> QED
  BY <1>1, <1>2, StepFilesBehind DEF InOrder

\* Nothing is sent at first.
LEMMA EpochOrderInit == Init => EpochOrderInv
BY DEF Init, EpochOrderInv, ProposalOrderInv, OwnVotesInv, MajorityOrderInv

\* broadcastTime sends proposals of a later epoch than all others.
LEMMA BroadcastKeepsEpochOrder ==
    ASSUME DishonestCount = 0, PartitionInv, PartitionInv', IdleInv, GroundedInv,
           EpochOrderInv, BroadcastTime
    PROVE  EpochOrderInv'
<1>1. UNCHANGED delivered /\ pc = "broadcastTime" /\ delivered \subseteq sent /\ BroadcastsInv
  BY DEF BroadcastTime, IdleInv, DeliveredInv, GroundedInv
<1>2. PICK W : /\ Stepping(None, W)
               /\ W = {} \/ \E v \in HonestNodes : \E b : Opening(v, b, W)
  BY Announces
<1>3. /\ sent' = sent \cup W
      /\ \A w \in W : w.type = "PROPOSAL" /\ w \notin sent
      /\ \A w \in W, x \in sent : EpochOf(x.block) < EpochOf(w.block)
      /\ \A w, x \in W : EpochOf(x.block) = EpochOf(w.block)
  <2>1. ASSUME NEW v \in HonestNodes, NEW b, Opening(v, b, W), NEW w \in W
        PROVE  w.type = "PROPOSAL" /\ w.block = b
               /\ \A x \in sent : EpochOf(x.block) < EpochOf(b)
    BY <2>1, SendingFields DEF Opening
  <2>2. \A x \in sent : EpochOf(x.block) \in Nat
    BY PartitionInvFacts
  <2>3. \A x \in sent : ~(EpochOf(x.block) < EpochOf(x.block))
    BY <2>2
  <2> QED
    BY <1>2, <2>1, <2>3 DEF Stepping
<1>4. \A x, y : x \in sent /\ y \in sent /\ InOrder(x, y) => InOrder(x, y)'
  BY <1>1, <1>2, TurnKeepsInOrder
<1>5. ProposalOrderInv'
  <2> SUFFICES ASSUME NEW x \in sent', NEW y \in sent', x.type = "PROPOSAL",
                      y.type = "PROPOSAL", EdgeType(x) = EdgeType(y),
                      EpochOf(x.block) < EpochOf(y.block)
               PROVE  InOrder(x, y)'
    BY DEF ProposalOrderInv, EdgeType, MinorityIds, EpochOf, GenesisHash
  <2>1. CASE x \in sent /\ y \in sent
    BY <1>4, <2>1 DEF EpochOrderInv, ProposalOrderInv
  <2>2. CASE x \in sent /\ y \in W
    <3>1. \A w \in W : w \notin delivered'
      BY <1>1, <1>3
    <3> QED
      BY <1>1, <1>2, <1>3, <2>2, <3>1, FilesInOrder
  <2>3. CASE x \in W
    <3>1. EpochOf(x.block) \in Nat /\ EpochOf(y.block) \in Nat
      <4>1. /\ \A z \in sent' : z.block \in Hash
        BY DEF PartitionInv, NodesInv, Message
      <4> QED
        BY <4>1, EpochOfNat
    <3> QED
      BY <1>3, <2>3, <3>1
  <2> QED
    BY <1>3, <2>1, <2>2, <2>3
<1>6. OwnVotesInv'
  <2> SUFFICES ASSUME NEW y \in sent', y.type = "VOTE", EdgeType(y) \in Within, OwnSide(y),
                      y \notin delivered'
               PROVE  FALSE
    BY DEF OwnVotesInv, Within, OwnSide, SameSide, EdgeType, MinorityIds, EpochOf, GenesisHash
  <2>1. pc = EdgeType(y)
    BY <1>1, <1>3 DEF EpochOrderInv, OwnVotesInv
  <2> QED
    BY <1>1, <2>1, EdgeTypeIs DEF EdgeTypes
<1>7. MajorityOrderInv'
  <2> SUFFICES ASSUME IsQuorum(Majority),
                      NEW x \in sent', NEW y \in sent', x.type = "VOTE", y.type = "VOTE",
                      x.to = y.to, x.from \notin MinorityIds, y.from \notin MinorityIds,
                      Len(x.block) = Len(y.block), EpochOf(x.block) < EpochOf(y.block)
               PROVE  InOrder(x, y)'
    BY DEF MajorityOrderInv, MinorityIds, Majority, HonestNodes, IsQuorum, EpochOf, GenesisHash
  <2> QED
    BY <1>3, <1>4 DEF EpochOrderInv, MajorityOrderInv
<1> QED
  BY <1>5, <1>6, <1>7 DEF EpochOrderInv

\* A vote of the majority for a block of an epoch that is over is for a deeper block than
\* those of later epochs the majority has voted for.
LEMMA LateMajorityVote ==
    ASSUME DishonestCount = 0, PartitionInv, IdleInv, GroundedInv, SidesAlikeInv, DeepInv,
           ProposalOrderInv, OwnVotesInv, IsQuorum(Majority), Pop, NEW m, m = Entry.message,
           NEW W, Answered(m, W), NEW x \in W, x.from \notin MinorityIds,
           NEW y \in sent, y.type = "VOTE", x.to = y.to, y.from \notin MinorityIds,
           EpochOf(x.block) < EpochOf(y.block)
    PROVE  Len(x.block) # Len(y.block)
<1> DEFINE u == m.to
           c == y.block
           p == ProposalTo(c, y.from)
<1>1. /\ x.from = u /\ x.block = m.block /\ m \in sent /\ m \notin delivered
      /\ m.type = "PROPOSAL" /\ u \in HonestNodes /\ m.from = GetLeader(EpochOf(m.block))
      /\ Len(x.block) = Len(honest[u].tree.deepestNotarized) + 1
  BY DEF Answered
<1>2. pc \in EdgeTypes /\ EdgeType(m) = pc
  BY EntryFirst
<1>3. ~OwnSide(x)
  BY AnsweredInTime DEF DeepInv
<1>4. m.from \in MinorityIds /\ u \notin MinorityIds /\ pc = "min2maj"
  BY <1>1, <1>2, <1>3 DEF OwnSide, SameSide, EdgeType
<1>5. y.from \in HonestNodes /\ y.to \in Nodes /\ c \in Hash
  BY AllHonest DEF PartitionInv, NodesInv, Message
<1>6. p \in delivered /\ p \in sent
  BY DEF SidesAlikeInv, VotedInv, IdleInv, DeliveredInv
<1>7. /\ p.type = "PROPOSAL" /\ p.block = c /\ p.to = y.from
      /\ p.from = GetLeader(EpochOf(c))
  BY DEF ProposalTo
<1> HIDE DEF p
<1>8. GetLeader(EpochOf(c)) \notin MinorityIds
  <2> SUFFICES ASSUME GetLeader(EpochOf(c)) \in MinorityIds PROVE FALSE
    OBVIOUS
  <2>1. EdgeType(m) = EdgeType(p)
    BY <1>4, <1>7 DEF EdgeType
  <2> QED
    BY <1>1, <1>6, <1>7, <2>1 DEF ProposalOrderInv, InOrder
<1>9. OwnSide(y)
  BY <1>8 DEF OwnSide, SameSide
<1>10. ASSUME NEW z \in Majority PROVE VoteFor(c, z, u) \in delivered
  <2> DEFINE t == VoteFor(c, z, u)
  <2>1. t.type = "VOTE" /\ t.block = c /\ t.from = z /\ t.to = u
    BY DEF VoteFor
  <2>2. z \in HonestNodes /\ z \notin MinorityIds /\ u \in Nodes
    BY <1>1, NodeSets DEF Majority
  <2>3. VoteFor(c, y.from, y.from) \in sent
    BY <1>5, NodeSets DEF GroundedInv, BroadcastsInv, VotesInv
  <2>4. VoteFor(c, y.from, y.from) \in delivered
    <3>1. LET q == VoteFor(c, y.from, y.from)
          IN  q.type = "VOTE" /\ q.block = c /\ q.from = y.from /\ q.to = y.from
      BY DEF VoteFor
    <3> QED
      BY <1>4, <1>8, <2>3, <3>1 DEF OwnVotesInv, OwnSide, SameSide, EdgeType, Within
  <2>5. t \in sent
    BY <1>5, <2>2, <2>4, NodeSets, SideVotes DEF GroundedInv, SameSide
  <2> HIDE DEF t
  <2>6. EdgeType(t) = "maj2maj" /\ OwnSide(t)
    BY <1>4, <1>8, <2>1, <2>2 DEF EdgeType, OwnSide, SameSide
  <2>7. t \in delivered
    BY <1>4, <2>1, <2>5, <2>6 DEF OwnVotesInv, Within
  <2> QED
    BY <2>7 DEF t
<1>11. NotarizedIn(honest[u], c)
  <2>1. Majority \in SUBSET Nodes
    BY NodeSets DEF Majority
  <2> QED
    BY <1>1, <1>10, <2>1, QuorumNotarizes DEF GroundedInv
<1>12. Len(c) <= Len(honest[u].tree.deepestNotarized)
  <2>1. TreeInv(honest[u].tree)
    BY <1>1 DEF PartitionInv, NodesInv, ReplicaInv
  <2> HIDE DEF c, u
  <2> QED
    BY <1>11, <2>1 DEF TreeInv, IsTree, RootedAtGenesis, DeepestNotarizedIsDeepest, NotarizedIn,
                       IsPresent
<1>13. Len(honest[u].tree.deepestNotarized) \in Nat /\ Len(c) \in Nat
  <2>1. honest[u].tree.deepestNotarized \in Hash
    BY <1>1 DEF PartitionInv, NodesInv, ReplicaInv, TreeInv, IsTree
  <2>2. \A h \in Hash : Len(h) \in Nat
    BY DEF Hash
  <2> HIDE DEF u, c
  <2> QED
    BY <1>5, <2>1, <2>2
<1> HIDE DEF u, c
<1> QED
  BY <1>1, <1>12, <1>13 DEF c

\* A delivery keeps the orders.
LEMMA PopKeepsEpochOrder ==
    ASSUME DishonestCount = 0, PartitionInv, IdleInv, GroundedInv, SidesAlikeInv, DeepInv,
           EpochOrderInv, Pop
    PROVE  EpochOrderInv'
<1> PICK m : m = Entry.message
  OBVIOUS
<1>1. PICK W : Stepping(One, W) /\ (W = {} \/ Answered(m, W))
  BY PopAnswers
<1>2. /\ delivered' = delivered \cup {m} /\ pc' = pc /\ delivered \subseteq sent
      /\ m \in sent /\ EdgeType(m) = pc
  BY PopStepping, EntryFirst DEF IdleInv, DeliveredInv
<1>3. /\ sent' = sent \cup W
      /\ \A w \in W : /\ Answered(m, W) /\ w.type = "VOTE" /\ w \notin sent
                       /\ w \notin delivered' /\ w.from = m.to /\ w.block = m.block
  <2>1. ASSUME NEW w \in W
        PROVE  Answered(m, W) /\ w.type = "VOTE" /\ w \notin sent
               /\ w.from = m.to /\ w.block = m.block
    <3>1. Answered(m, W)
      BY <1>1
    <3> QED
      BY <3>1 DEF Answered
  <2> QED
    BY <1>1, <1>2, <2>1 DEF Stepping
<1>4. \A x, y : InOrder(x, y) => InOrder(x, y)'
  BY PopKeepsInOrder
<1>5. ProposalOrderInv'
  <2> SUFFICES ASSUME NEW x \in sent', NEW y \in sent', x.type = "PROPOSAL",
                      y.type = "PROPOSAL", EdgeType(x) = EdgeType(y),
                      EpochOf(x.block) < EpochOf(y.block)
               PROVE  InOrder(x, y)'
    BY DEF ProposalOrderInv, EdgeType, MinorityIds, EpochOf, GenesisHash
  <2> QED
    BY <1>3, <1>4 DEF EpochOrderInv, ProposalOrderInv
<1>6. OwnVotesInv'
  <2> SUFFICES ASSUME NEW y \in sent', y.type = "VOTE", EdgeType(y) \in Within, OwnSide(y),
                      y \notin delivered'
               PROVE  pc = EdgeType(y)
    BY <1>2 DEF OwnVotesInv, Within, OwnSide, SameSide, EdgeType, MinorityIds, EpochOf,
                GenesisHash
  <2>1. CASE y \in sent
    BY <1>2, <2>1 DEF EpochOrderInv, OwnVotesInv
  <2>2. CASE y \in W
    <3>1. m.from = GetLeader(EpochOf(m.block)) /\ y.from = m.to /\ y.block = m.block
      BY <1>3, <2>2 DEF Answered
    <3> QED
      BY <1>2, <3>1 DEF OwnSide, SameSide, EdgeType, Within
  <2> QED
    BY <1>3, <2>1, <2>2
<1>7. MajorityOrderInv'
  <2> SUFFICES ASSUME IsQuorum(Majority),
                      NEW x \in sent', NEW y \in sent', x.type = "VOTE", y.type = "VOTE",
                      x.to = y.to, x.from \notin MinorityIds, y.from \notin MinorityIds,
                      Len(x.block) = Len(y.block), EpochOf(x.block) < EpochOf(y.block)
               PROVE  InOrder(x, y)'
    BY DEF MajorityOrderInv, MinorityIds, Majority, HonestNodes, IsQuorum, EpochOf, GenesisHash
  <2>1. CASE x \in sent /\ y \in sent
    BY <1>4, <2>1 DEF EpochOrderInv, MajorityOrderInv
  <2>2. CASE x \in sent /\ y \in W
    <3>1. EdgeType(x) = EdgeType(y)
      BY DEF EdgeType
    <3> QED
      BY <1>1, <1>3, <2>2, <3>1, FilesInOrder DEF GroundedInv
  <2>3. CASE x \in W /\ y \in sent
    BY <1>3, <2>3, LateMajorityVote DEF EpochOrderInv
  <2>4. CASE x \in W /\ y \in W
    <3>1. x.block = y.block /\ x.block = m.block
      BY <1>3, <2>4
    <3>2. EpochOf(m.block) \in Nat
      BY <1>2, PartitionInvFacts
    <3> QED
      BY <3>1, <3>2
  <2> QED
    BY <1>3, <2>1, <2>2, <2>3, <2>4
<1> QED
  BY <1>5, <1>6, <1>7 DEF EpochOrderInv

\* So does a step that delivers nothing and leaves a queue only when it is empty.
LEMMA TurnKeepsEpochOrder ==
    ASSUME PartitionInv, GroundedInv, EpochOrderInv, NEW W, Stepping(None, W),
           UNCHANGED <<honest, sent, delivered>>,
           pc' = pc \/ (pc \in EdgeTypes /\ queues[pc] = << >>)
    PROVE  EpochOrderInv'
<1>1. \A x, y : InOrder(x, y) => InOrder(x, y)'
  BY TurnKeepsInOrder
<1>2. ProposalOrderInv'
  <2> SUFFICES ASSUME NEW x \in sent, NEW y \in sent, x.type = "PROPOSAL",
                      y.type = "PROPOSAL", EdgeType(x) = EdgeType(y),
                      EpochOf(x.block) < EpochOf(y.block)
               PROVE  InOrder(x, y)'
    BY DEF ProposalOrderInv, EdgeType, MinorityIds, EpochOf, GenesisHash
  <2> QED
    BY <1>1 DEF EpochOrderInv, ProposalOrderInv
<1>3. OwnVotesInv'
  <2> SUFFICES ASSUME NEW y \in sent, y.type = "VOTE", EdgeType(y) \in Within, OwnSide(y),
                      y \notin delivered
               PROVE  pc' = EdgeType(y)
    BY DEF OwnVotesInv, Within, OwnSide, SameSide, EdgeType, MinorityIds, EpochOf, GenesisHash
  <2>1. pc = EdgeType(y)
    BY DEF EpochOrderInv, OwnVotesInv
  <2>2. pc' = pc
    BY <2>1, AllDelivered DEF GroundedInv
  <2> QED
    BY <2>1, <2>2
<1>4. MajorityOrderInv'
  <2> SUFFICES ASSUME IsQuorum(Majority),
                      NEW x \in sent, NEW y \in sent, x.type = "VOTE", y.type = "VOTE",
                      x.to = y.to, x.from \notin MinorityIds, y.from \notin MinorityIds,
                      Len(x.block) = Len(y.block), EpochOf(x.block) < EpochOf(y.block)
               PROVE  InOrder(x, y)'
    BY DEF MajorityOrderInv, MinorityIds, Majority, HonestNodes, IsQuorum, EpochOf, GenesisHash
  <2> QED
    BY <1>1 DEF EpochOrderInv, MajorityOrderInv
<1> QED
  BY <1>2, <1>3, <1>4 DEF EpochOrderInv

\* Every step does.
LEMMA EpochOrderStep ==
    ASSUME DishonestCount = 0, PartitionInv, IdleInv, GroundedInv, SidesAlikeInv, DeepInv,
           EpochOrderInv, [Next]_vars
    PROVE  EpochOrderInv'
<1>1. CASE BroadcastTime
  BY <1>1, PartitionStep, BroadcastKeepsEpochOrder
<1>2. CASE Pop
  BY <1>2, PopKeepsEpochOrder
<1>3. CASE NextQueue
  BY <1>3, NextQueueTurns, TurnKeepsEpochOrder
<1>4. CASE EndPass
  <2>1. UNCHANGED <<honest, sent, delivered>> /\ pc \in EdgeTypes /\ queues[pc] = << >>
    BY <1>4, EndPassTurns
  <2>2. PICK W : Stepping(None, W)
    BY <1>4, EndPassTurns
  <2> QED
    BY <2>1, <2>2, TurnKeepsEpochOrder
<1>5. CASE UNCHANGED vars
  <2>1. UNCHANGED <<honest, sent, queues, pc, delivered>>
    BY <1>5 DEF vars
  <2>2. Stepping(None, {})
    BY <2>1, NoneLost DEF Stepping, QueuesMove
  <2> QED
    BY <2>1, <2>2, TurnKeepsEpochOrder
<1> QED
  BY <1>1, <1>2, <1>3, <1>4, <1>5 DEF Next, Terminating

\* Of two blocks of one depth a node notarizes the one of the earlier epoch first.
LEMMA NotarizedInEpochOrder ==
    ASSUME DishonestCount = 0, PartitionInv, IdleInv, GroundedInv, SidesAlikeInv,
           EpochOrderInv, Pop, IsQuorum(Majority), NEW m, m = Entry.message, NotarizedBy(m),
           NEW c, NotarizedIn(honest[m.to], c), Len(c) = Len(m.block)
    PROVE  EpochOf(c) <= EpochOf(m.block)
<1> DEFINE v == m.to
           b == m.block
<1>1. /\ m \in sent /\ m.from \in HonestNodes /\ v \in HonestNodes /\ m.type = "VOTE"
      /\ NodesInv(honest, dishonest, sent) /\ EpochOf(b) \in Nat
  <2>1. m \in sent /\ m.from \in HonestNodes
    BY EntryFirst, AllHonest DEF PartitionInv, NodesInv
  <2> QED
    BY <2>1, PartitionInvFacts DEF PartitionInv, NotarizedBy
<1>2. EpochOf(c) \in Nat
  BY <1>1, NotarizedTyped
<1> SUFFICES ASSUME EpochOf(b) < EpochOf(c) PROVE FALSE
  BY <1>1, <1>2
<1>3. c # GenesisHash
  <2>1. EpochOf(GenesisHash) = 0
    BY DEF EpochOf
  <2> QED
    BY <1>1, <2>1
<1>4. PICK R \in SUBSET HonestNodes :
         IsQuorum(R) /\ \A y \in R : VoteFor(c, y, v) \in delivered
  BY <1>1, <1>3, CountedQuorum
<1>5. PICK y \in R : y \notin MinorityIds
  BY <1>4, QuorumsReach
<1> DEFINE z == VoteFor(c, y, v)
<1>6. z.type = "VOTE" /\ z.from = y /\ z.to = v /\ z.block = c
  BY DEF VoteFor
<1>7. z \in delivered /\ z \in sent
  BY <1>4, <1>5 DEF IdleInv, DeliveredInv
<1> HIDE DEF z, b, v
<1>8. \A x \in sent : x.type = "VOTE" /\ x.to = v /\ x.block = b /\ x.from \notin MinorityIds
                         => x \in delivered
  <2> SUFFICES ASSUME NEW x \in sent, x.type = "VOTE", x.to = v, x.block = b,
                      x.from \notin MinorityIds
               PROVE  x \in delivered
    OBVIOUS
  <2>1. Len(x.block) = Len(z.block) /\ EpochOf(x.block) < EpochOf(z.block)
    BY <1>6 DEF b
  <2>2. InOrder(x, z)
    BY <1>5, <1>6, <1>7, <2>1 DEF EpochOrderInv, MajorityOrderInv
  <2> QED
    BY <1>7, <2>2 DEF InOrder
<1>9. m \notin delivered
  BY NotarizedByNew
<1>10. m.from \in MinorityIds
  BY <1>1, <1>8, <1>9 DEF v, b
<1> QED
  BY <1>8, <1>10, MajorityHeard DEF v, b

\* Every replica stays canonical.
LEMMA PopKeepsCanonical ==
    ASSUME DishonestCount = 0, PartitionInv, PartitionInv', IdleInv, GroundedInv, SidesAlikeInv,
           DeepInv, EpochOrderInv, Pop, IsQuorum(Majority),
           NEW v \in HonestNodes, Canonical(honest[v])
    PROVE  Canonical(honest'[v])
<1> PICK m : m = Entry.message
  OBVIOUS
<1>1. /\ m \in sent /\ m \in Message
      /\ v # m.to => honest'[v] = honest[v]
      /\ v = m.to => /\ ReplicaInv(honest[v])
                     /\ honest'[v] = Handled(honest[v], m)
  BY PopHandles
<1>2. CASE v # m.to
  BY <1>1, <1>2
<1>3. CASE v = m.to /\ m.type = "PROPOSAL" /\ AcceptsProposal(honest[v], m)
  <2>1. NotarizedIn(honest[v], ParentHash(m.block))
    BY <1>3, AcceptedOnNotarized
  <2> QED
    BY <1>1, <1>3, <2>1, CanonicalProposal DEF Handled
<1>4. CASE v = m.to /\ m.type = "PROPOSAL" /\ ~AcceptsProposal(honest[v], m)
  BY <1>1, <1>4 DEF Handled
<1>5. CASE v = m.to /\ m.type # "PROPOSAL"
  <2> DEFINE r == honest[v]
             b == m.block
  <2>1. honest'[v] = HandleVote(r, m) /\ m.type = "VOTE" /\ ReplicaInv(r) /\ Grounded(r)
    BY <1>1, <1>5 DEF Handled, Message, GroundedInv
  <2>2. ASSUME CountsVote(r, m), NotarizedIn(HandleVote(r, m), b)
        PROVE  InTurnIn(r, b)
    <3>1. NotarizedBy(m)
      BY <1>5, <2>1, <2>2 DEF NotarizedBy, CountsVote, IsPresent
    <3>2. \A c : NotarizedIn(r, c) => Len(c) <= Len(b)
      BY <1>5, <3>1, NotarizedInOrder
    <3>3. \A c : NotarizedIn(r, c) /\ Len(c) = Len(b) => EpochOf(c) <= EpochOf(b)
      BY <1>5, <3>1, NotarizedInEpochOrder
    <3>4. Len(b) >= 1 => Len(r.tree.deepestFinalized) <= Len(Ancestor(b, 1))
      <4>1. b \in Hash /\ Len(b) \in Nat /\ NodesInv(honest, dishonest, sent)
        BY <1>1 DEF Message, Hash, PartitionInv
      <4> HIDE DEF b
      <4> QED
        BY <3>2, <4>1, FinalizedDeepens
    <3> QED
      BY <3>2, <3>3, <3>4 DEF InTurnIn
  <2> QED
    BY <1>1, <2>1, <2>2, CanonicalVote
<1> QED
  BY <1>2, <1>3, <1>4, <1>5

\* A vote the minority sends back while the last queue is being emptied.
Late(x) ==
    x.type = "VOTE" /\ EdgeType(x) = "min2maj" /\ GetLeader(EpochOf(x.block)) \notin MinorityIds

\* What is left of a synchronization: in its last queue, in the pass that follows, and when
\* that has ended.
CrossedInv ==
    pc = "maj2min" =>
        \A x \in sent : EdgeType(x) = "min2maj" => x \in delivered \/ Late(x)

AfterInv ==
    pass = "after" /\ time - 1 \in syncRounds =>
        \A x \in sent :
            \/ x \in delivered
            \/ Late(x)
            \/ x.type = "VOTE" /\ EdgeType(x) = "maj2maj" /\ pc = "maj2maj"
            \/ x.type = "VOTE" /\ EdgeType(x) = "min2min" /\ pc \in Within

ReachedInv ==
    pc = "broadcastTime" /\ time - 1 \in syncRounds =>
        \A x \in sent : x \in delivered \/ Late(x)

\* A synchronization on its way from one end to the other.
SynchronizedInv == CrossedInv /\ AfterInv /\ ReachedInv

\* No round has been synchronized before the first.
LEMMA SynchronizedInit == Init => SynchronizedInv
BY DEF Init, SynchronizedInv, CrossedInv, AfterInv, ReachedInv

\* Votes are answered with nothing, so the pass that follows ends with all delivered.
LEMMA PopKeepsSynchronized ==
    ASSUME DishonestCount = 0, PartitionInv, IdleInv, SynchronizedInv, Pop
    PROVE  SynchronizedInv'
<1> PICK m : m = Entry.message
  OBVIOUS
<1>1. PICK W : Stepping(One, W) /\ (W = {} \/ Answered(m, W))
  BY PopAnswers
<1>2. /\ delivered \subseteq delivered' /\ pc \in EdgeTypes /\ EdgeType(m) = pc
      /\ UNCHANGED <<pc, time, pass, syncRounds>> /\ sent' = sent \cup W
  BY <1>1, EntryFirst DEF Stepping, Pop
<1>3. CrossedInv'
  <2> SUFFICES ASSUME pc = "maj2min", NEW x \in sent', EdgeType(x) = "min2maj"
               PROVE  x \in delivered' \/ Late(x)
    BY <1>2 DEF CrossedInv, Late, EdgeType, MinorityIds, EpochOf, GenesisHash
  <2>1. CASE x \in sent
    BY <1>2, <2>1 DEF SynchronizedInv, CrossedInv
  <2>2. CASE x \in W
    <3>1. /\ x.from = m.to /\ x.type = "VOTE" /\ x.block = m.block
          /\ m.from = GetLeader(EpochOf(m.block))
      BY <1>1, <2>2 DEF Answered
    <3> QED
      BY <1>2, <3>1 DEF Late, EdgeType
  <2> QED
    BY <1>2, <2>1, <2>2
<1>4. AfterInv'
  <2> SUFFICES ASSUME pass = "after", time - 1 \in syncRounds, NEW x \in sent'
               PROVE  \/ x \in delivered'
                      \/ Late(x)
                      \/ x.type = "VOTE" /\ EdgeType(x) = "maj2maj" /\ pc = "maj2maj"
                      \/ x.type = "VOTE" /\ EdgeType(x) = "min2min" /\ pc \in Within
    BY <1>2 DEF AfterInv, Late, Within, EdgeType, MinorityIds, EpochOf, GenesisHash
  <2>1. CASE W = {}
    BY <1>2, <2>1 DEF SynchronizedInv, AfterInv
  <2>2. CASE Answered(m, W)
    BY <2>2 DEF SynchronizedInv, AfterInv, Answered, Late
  <2> QED
    BY <1>1, <2>1, <2>2
<1>5. ReachedInv'
  BY <1>2 DEF ReachedInv, EdgeTypes
<1> QED
  BY <1>3, <1>4, <1>5 DEF SynchronizedInv

\* What waits when a queue is empty waits in another one.
LEMMA NextQueueKeepsSynchronized ==
    ASSUME PartitionInv, GroundedInv, SynchronizedInv, NextQueue
    PROVE  SynchronizedInv'
<1>1. /\ UNCHANGED <<sent, delivered, time, pass, syncRounds>>
      /\ pc \in EdgeTypes /\ queues[pc] = << >>
      /\ pc' = "min2min" => pc = "maj2maj"
      /\ Crossing' /\ ~Crossing => pc = "min2min"
  BY NextQueueTurns DEF NextQueue
<1>2. /\ pc' = "maj2min" => pc = "min2maj"
      /\ pc' \in {"min2min", "min2maj", "maj2min"}
  <2>1. pc' = CASE pc = "maj2maj" -> "min2min"
                [] pc = "min2min" -> "min2maj"
                [] pc = "min2maj" -> "maj2min"
    BY DEF NextQueue
  <2>2. pc \in {"maj2maj", "min2min", "min2maj"}
    <3>1. pc # LastQueue /\ pc \in EdgeTypes
      BY <1>1 DEF NextQueue
    <3>2. pc # "maj2min"
      BY <3>1 DEF LastQueue, Synchronizing, PartitionInv, FieldsInv
    <3> QED
      BY <3>1, <3>2 DEF EdgeTypes
  <2>3. CASE pc = "maj2maj"
    BY <2>1, <2>3
  <2>4. CASE pc = "min2min"
    BY <2>1, <2>4
  <2>5. CASE pc = "min2maj"
    BY <2>1, <2>5
  <2> QED
    BY <2>2, <2>3, <2>4, <2>5
<1>3. \A x \in sent : EdgeType(x) = pc => x \in delivered
  BY <1>1, AllDelivered DEF GroundedInv
<1>4. CrossedInv'
  <2> SUFFICES ASSUME pc = "min2maj", NEW x \in sent, EdgeType(x) = "min2maj"
               PROVE  x \in delivered \/ Late(x)
    BY <1>1, <1>2 DEF CrossedInv, Late, EdgeType, MinorityIds, EpochOf, GenesisHash
  <2> QED
    BY <1>3
<1>5. AfterInv'
  <2> SUFFICES ASSUME pass = "after", time - 1 \in syncRounds, NEW x \in sent
               PROVE  \/ x \in delivered
                      \/ Late(x)
                      \/ x.type = "VOTE" /\ EdgeType(x) = "maj2maj" /\ pc' = "maj2maj"
                      \/ x.type = "VOTE" /\ EdgeType(x) = "min2min" /\ pc' \in Within
    BY <1>1 DEF AfterInv, Late, Within, EdgeType, MinorityIds, EpochOf, GenesisHash
  <2>1. pc = "maj2maj" => pc' = "min2min"
    BY DEF NextQueue
  <2> QED
    BY <1>3, <2>1 DEF SynchronizedInv, AfterInv, Within
<1>6. ReachedInv'
  BY <1>2 DEF ReachedInv
<1> QED
  BY <1>4, <1>5, <1>6 DEF SynchronizedInv

\* The pass of the round the decider names ends with no proposal waiting, the next one with
\* nothing waiting but what the minority answered last.
LEMMA EndPassKeepsSynchronized ==
    ASSUME PartitionInv, IdleInv, GroundedInv, SynchronizedInv, EndPass
    PROVE  SynchronizedInv'
<1>1. /\ UNCHANGED <<sent, delivered, syncRounds>> /\ time \in Nat
      /\ pc \in EdgeTypes /\ queues[pc] = << >> /\ pc = LastQueue
      /\ \/ pass = "before" /\ pass' = "after" /\ time' = time + 1 /\ pc' = "maj2maj"
         \/ pass = "after" /\ pass' = "before" /\ pc' = "broadcastTime" /\ time' = time
  BY PartitionInvFacts DEF EndPass, Emptying
<1>2. \A x \in sent : EdgeType(x) = pc => x \in delivered
  BY <1>1, AllDelivered DEF GroundedInv
<1>3. CrossedInv'
  BY <1>1 DEF CrossedInv
<1>4. AfterInv'
  <2> SUFFICES ASSUME pass = "before", pass' = "after", time' = time + 1, pc' = "maj2maj",
                      time' - 1 \in syncRounds, NEW x \in sent, x \notin delivered
               PROVE  \/ Late(x)
                      \/ x.type = "VOTE" /\ EdgeType(x) = "maj2maj"
                      \/ x.type = "VOTE" /\ EdgeType(x) = "min2min"
    BY <1>1 DEF AfterInv, Late, Within, EdgeType, MinorityIds, EpochOf, GenesisHash
  <2>1. time' - 1 = time
    BY <1>1
  <2>2. pc = "maj2min"
    BY <1>1, <2>1 DEF LastQueue, Synchronizing
  <2>3. EdgeType(x) \in EdgeTypes /\ EdgeType(x) # "maj2min"
    BY <1>2, <2>2, EdgeTypeIs
  <2>4. EdgeType(x) = "min2maj" => Late(x)
    BY <2>2 DEF SynchronizedInv, CrossedInv
  <2>5. EdgeType(x) \in Within => x.type = "VOTE"
    <3>1. Queued(x) /\ (x.type = "PROPOSAL" \/ x.type = "VOTE")
      BY DEF GroundedInv, BroadcastsInv, HeldInv, PartitionInv, NodesInv, Message
    <3> QED
      BY <2>2, <3>1 DEF Queued, IdleInv, PlacesInv, Within
  <2> QED
    BY <2>3, <2>4, <2>5 DEF EdgeTypes, Within
<1>5. ReachedInv'
  <2> SUFFICES ASSUME pass = "after", pc' = "broadcastTime", time - 1 \in syncRounds,
                      NEW x \in sent
               PROVE  x \in delivered \/ Late(x)
    BY <1>1 DEF ReachedInv, Late, EdgeType, MinorityIds, EpochOf, GenesisHash
  <2>1. pc # "maj2maj"
    BY <1>1 DEF LastQueue
  <2> QED
    BY <1>2, <2>1 DEF SynchronizedInv, AfterInv, Within
<1> QED
  BY <1>3, <1>4, <1>5 DEF SynchronizedInv

\* Every step keeps it.
LEMMA SynchronizedStep ==
    ASSUME DishonestCount = 0, PartitionInv, IdleInv, GroundedInv, SynchronizedInv, [Next]_vars
    PROVE  SynchronizedInv'
<1>1. CASE BroadcastTime
  <2>1. pc' = "maj2maj" /\ pass' = pass /\ pass = "before"
    BY <1>1 DEF BroadcastTime, PartitionInv, FieldsInv
  <2> QED
    BY <2>1 DEF SynchronizedInv, CrossedInv, AfterInv, ReachedInv
<1>2. CASE Pop
  BY <1>2, PopKeepsSynchronized
<1>3. CASE NextQueue
  BY <1>3, NextQueueKeepsSynchronized
<1>4. CASE EndPass
  BY <1>4, EndPassKeepsSynchronized
<1>5. CASE UNCHANGED vars
  BY <1>5 DEF vars, SynchronizedInv, CrossedInv, AfterInv, ReachedInv, Late, Within, EdgeType,
              MinorityIds, EpochOf, GenesisHash
<1> QED
  BY <1>1, <1>2, <1>3, <1>4, <1>5 DEF Next, Terminating

\* If every node is honest, two thirds of them and more are in the majority.
LEMMA EveryoneHonest ==
    ASSUME HonestCount = N
    PROVE  DishonestCount = 0 /\ HonestNodes = Nodes /\ IsQuorum(Majority)
<1>1. /\ N \in Nat /\ N >= 4
      /\ DishonestCount = 0 /\ HonestNodes = Nodes
  BY CountsAssumption, NodeSets, EnoughNodes DEF N, HonestNodes, Nodes
<1> DEFINE k == (N - 1) \div 3
<1>2. k \in Nat /\ 3 * k <= N - 1
  BY <1>1, Z3
<1>3. MinorityIds = 0 .. k - 1
  BY DEF MinorityIds
<1> HIDE DEF k
<1>4. Majority = k .. N - 1
  BY <1>1, <1>2, <1>3 DEF Majority, Nodes
<1>5. Cardinality(Majority) = N - k
  <2>1. Cardinality(k .. N - 1) = IF k > N - 1 THEN 0 ELSE N - 1 - k + 1
    BY <1>1, <1>2, FS_Interval
  <2> QED
    BY <1>1, <1>2, <1>4, <2>1
<1>6. IsQuorum(Majority)
  BY <1>1, <1>2, <1>5 DEF IsQuorum
<1> QED
  BY <1>1, <1>6

\* Everything has arrived but what changes nobody.
AllHeard == \A x \in sent : x \in delivered \/ Late(x)

\* What one node has stored was proposed to every other one.
LEMMA HeardBlocks ==
    ASSUME DishonestCount = 0, HonestNodes = Nodes, PartitionInv, IdleInv, GroundedInv,
           SidesAlikeInv, AllHeard, NEW v \in HonestNodes, NEW w \in HonestNodes,
           Canonical(honest[v]), NEW b \in DOMAIN honest[v].tree.hbMapping
    PROVE  b \in DOMAIN honest[w].tree.hbMapping
<1> DEFINE e == EpochOf(b)
           p == ProposalTo(b, w)
<1>1. e \in DOMAIN honest[v].proposedBlocks /\ honest[v].proposedBlocks[e] = b
  BY DEF Canonical, Recorded
<1>2. CASE e = 0
  <2>1. b = GenesisHash
    BY <1>1, <1>2 DEF PartitionInv, NodesInv, ReplicaInv
  <2> QED
    BY <2>1, GenesisNotarized DEF NotarizedIn, IsPresent
<1>3. CASE e # 0
  <2>1. PICK x \in sent : x.block = b /\ EpochOf(x.block) = e
    BY <1>1, <1>3 DEF GroundedInv, RecordedInv
  <2>2. x \in Message
    BY DEF PartitionInv, NodesInv
  <2>3. \E y \in sent : y.type = "PROPOSAL" /\ y.block = b
    <3>1. CASE x.type = "PROPOSAL"
      BY <2>1, <3>1
    <3>2. CASE x.type = "VOTE"
      <4>1. ProposalTo(b, x.from) \in sent
        BY <2>1, <3>2 DEF SidesAlikeInv, VotedInv, IdleInv, DeliveredInv
      <4> QED
        BY <4>1 DEF ProposalTo
    <3> QED
      BY <2>2, <3>1, <3>2 DEF Message
  <2>4. PICK y \in sent : y.type = "PROPOSAL" /\ y.block = b
    BY <2>3
  <2>5. Copy(y, w) \in sent
    BY CopiesSent DEF GroundedInv
  <2>6. p \in sent
    <3>1. Copy(y, w).type = "PROPOSAL" /\ Copy(y, w).block = b /\ Copy(y, w).to = w
      BY <2>4 DEF Copy
    <3>2. Copy(y, w) = ProposalTo(b, w)
      BY <2>5, <3>1, ProposalIs
    <3> QED
      BY <2>5, <3>2
  <2>7. p.type = "PROPOSAL" /\ p.to = w /\ p.block = b
    BY DEF ProposalTo
  <2> HIDE DEF p
  <2>8. p \in delivered
    BY <2>6, <2>7 DEF AllHeard, Late
  <2>9. e \in DOMAIN honest[w].proposedBlocks
    BY <2>7, <2>8 DEF IdleInv, DeliveredInv, SpentBy, OpenedBy
  <2>10. PICK z \in sent : z.block = honest[w].proposedBlocks[e] /\ EpochOf(z.block) = e
    BY <1>3, <2>9 DEF GroundedInv, RecordedInv
  <2>11. z.block = b
    BY <2>1, <2>10 DEF GroundedInv, BroadcastsInv, OneBlockInv
  <2> QED
    BY <2>9, <2>10, <2>11 DEF GroundedInv, RecordedInv
<1> QED
  BY <1>2, <1>3

\* What one node has notarized the majority has voted for, to every other one.
LEMMA HeardNotarized ==
    ASSUME DishonestCount = 0, HonestNodes = Nodes, IsQuorum(Majority), PartitionInv, IdleInv,
           GroundedInv, SidesAlikeInv, AllHeard, NEW v \in HonestNodes, NEW w \in HonestNodes,
           NEW b, NotarizedIn(honest[v], b)
    PROVE  NotarizedIn(honest[w], b)
<1>1. CASE b = GenesisHash
  BY <1>1, GenesisNotarized
<1>2. CASE b # GenesisHash
  <2>1. PICK Q \in SUBSET HonestNodes : IsQuorum(Q) /\ \A u \in Q : VoteFor(b, u, v) \in delivered
    BY <1>2, CountedQuorum
  <2>2. PICK u \in Q : u \notin MinorityIds
    BY <2>1, QuorumsReach
  <2>3. ASSUME NEW x \in Majority PROVE VoteFor(b, x, w) \in delivered
    <3>1. x \in HonestNodes /\ x \notin MinorityIds /\ SameSide(u, x)
      BY <2>2, <2>3 DEF Majority, SameSide
    <3>2. VoteFor(b, x, w) \in sent
      BY <2>1, <2>2, <3>1, SideVotes DEF GroundedInv
    <3>3. VoteFor(b, x, w).from = x
      BY DEF VoteFor
    <3>4. ~Late(VoteFor(b, x, w))
      BY <3>1, <3>3 DEF Late, EdgeType
    <3> QED
      BY <3>2, <3>4 DEF AllHeard
  <2>4. Majority \in SUBSET Nodes
    BY DEF Majority
  <2> QED
    BY <2>3, <2>4, QuorumNotarizes DEF GroundedInv
<1> QED
  BY <1>1, <1>2

\* So what one could finalize the other could.
LEMMA HeardFinalized ==
    ASSUME DishonestCount = 0, HonestNodes = Nodes, IsQuorum(Majority), PartitionInv, IdleInv,
           GroundedInv, SidesAlikeInv, AllHeard, NEW v \in HonestNodes, NEW w \in HonestNodes,
           Canonical(honest[v]), Canonical(honest[w]),
           NEW b \in DOMAIN honest[v].tree.hbMapping,
           honest[v].tree.hbMapping[b] = "FINALIZED"
    PROVE  honest[w].tree.hbMapping[b] = "FINALIZED"
<1> DEFINE t == honest[v].tree
           s == honest[w].tree
<1>1. TreeInv(t) /\ TreeInv(s) /\ IsTree(s)
  BY DEF PartitionInv, NodesInv, ReplicaInv, TreeInv
<1>2. CASE b = GenesisHash
  BY <1>1, <1>2 DEF TreeInv, RootedAtGenesis
<1>3. CASE b # GenesisHash
  <2>1. FinalizedIsJustified(t)
    BY <1>1 DEF TreeInv
  <2>2. PICK c \in DOMAIN t.hbMapping : Justifies(t, c, b)
    BY <1>3, <2>1 DEF FinalizedIsJustified
  <2>3. c \in Hash
    BY <1>1 DEF TreeInv, IsTree
  <2>4. Len(c) \in Nat
    <3>1. \A h \in Hash : Len(h) \in Nat
      BY DEF Hash
    <3> QED
      BY <2>3, <3>1
  <2>5. Len(c) >= 2 /\ (\E i \in 1 .. Len(c) : b = Ancestor(c, i))
    BY <2>2 DEF Justifies
  <2>6. \A i \in 0 .. 2 : /\ IsPresent(t, Ancestor(c, i))
                          /\ t.hbMapping[Ancestor(c, i)] # "PRESENT"
                          /\ EpochOf(Ancestor(c, i)) + i = EpochOf(c)
    BY <2>2 DEF Justifies
  <2>7. Ancestor(c, 0) = c
    BY <2>3, <2>4, AncestorSteps
  <2>8. NotarizedIn(honest[w], c)
    <3>1. NotarizedIn(honest[v], c)
      BY <2>6, <2>7 DEF NotarizedIn
    <3> QED
      BY <3>1, HeardNotarized
  <2>9. Consecutive(c)
    <3>1. Ancestor(c, 1) \in Hash /\ Ancestor(c, 2) \in Hash
      BY <2>3, <2>4, <2>5, AncestorHash
    <3>2. /\ EpochOf(Ancestor(c, 1)) \in Nat /\ EpochOf(Ancestor(c, 2)) \in Nat
          /\ EpochOf(c) \in Nat
      BY <2>3, <3>1, EpochOfNat
    <3>3. /\ EpochOf(Ancestor(c, 1)) + 1 = EpochOf(c)
          /\ EpochOf(Ancestor(c, 2)) + 2 = EpochOf(c)
      BY <2>6
    <3> QED
      BY <2>5, <3>2, <3>3 DEF Consecutive
  <2>10. c \in DOMAIN s.hbMapping
    BY <2>8 DEF NotarizedIn, IsPresent
  <2>11. s.hbMapping[Ancestor(c, 1)] = "FINALIZED"
    BY <2>8, <2>9, <2>10 DEF Canonical
  <2>12. Ancestor(c, 1) \in DOMAIN s.hbMapping
    <3>1. RootedAtGenesis(s) /\ 1 \in 1 .. Len(c)
      BY <1>1, <2>4, <2>5 DEF TreeInv
    <3> QED
      BY <2>10, <3>1 DEF RootedAtGenesis, IsPresent
  <2>13. PICK i \in 1 .. Len(c) : b = Ancestor(c, i)
    BY <2>5
  <2>14. CASE i = 1
    BY <2>11, <2>13, <2>14
  <2>15. CASE i # 1
    <3> DEFINE a == Ancestor(c, 1)
    <3>1. /\ 1 \in 0 .. Len(c) /\ 1 + (i - 1) = i
          /\ i - 1 \in 1 .. Len(c) - 1 /\ i - 1 \in 0 .. Len(c) - 1
      BY <2>4, <2>5, <2>13, <2>15
    <3>2. Len(a) = Len(c) - 1
      BY <2>3, <3>1, AncestorHash
    <3>3. b = Ancestor(a, i - 1)
      BY <2>3, <2>13, <3>1, AncestorSteps
    <3>4. i - 1 \in 1 .. Len(a)
      BY <3>1, <3>2
    <3>5. FinalizedPrefixClosed(s)
      BY <1>1 DEF TreeInv
    <3> HIDE DEF a
    <3>6. a \in DOMAIN s.hbMapping /\ s.hbMapping[a] = "FINALIZED"
      BY <2>11, <2>12 DEF a
    <3>7. s.hbMapping[Ancestor(a, i - 1)] = "FINALIZED"
      BY <3>4, <3>5, <3>6 DEF FinalizedPrefixClosed
    <3> QED
      BY <3>3, <3>7
  <2> QED
    BY <2>14, <2>15
<1> QED
  BY <1>2, <1>3

\* The deepest blocks of the one are as deep as those of the other, so they are the same.
LEMMA HeardDeepest ==
    ASSUME DishonestCount = 0, HonestNodes = Nodes, IsQuorum(Majority), PartitionInv, IdleInv,
           GroundedInv, SidesAlikeInv, DeepInv, AllHeard,
           \A x \in HonestNodes : Canonical(honest[x]),
           NEW v \in HonestNodes, NEW w \in HonestNodes
    PROVE  /\ honest[v].tree.deepestNotarized = honest[w].tree.deepestNotarized
           /\ honest[v].tree.deepestFinalized = honest[w].tree.deepestFinalized
<1> DEFINE dn(x) == honest[x].tree.deepestNotarized
           df(x) == honest[x].tree.deepestFinalized
<1>1. ASSUME NEW x \in HonestNodes
      PROVE  /\ TreeInv(honest[x].tree)
             /\ dn(x) \in DOMAIN honest[x].tree.hbMapping
             /\ df(x) \in DOMAIN honest[x].tree.hbMapping
             /\ dn(x) \in Hash /\ df(x) \in Hash
             /\ NotarizedIn(honest[x], dn(x))
             /\ honest[x].tree.hbMapping[df(x)] = "FINALIZED"
  <2>1. TreeInv(honest[x].tree)
    BY DEF PartitionInv, NodesInv, ReplicaInv
  <2>2. /\ dn(x) \in DOMAIN honest[x].tree.hbMapping
        /\ df(x) \in DOMAIN honest[x].tree.hbMapping
        /\ dn(x) \in Hash /\ df(x) \in Hash
    BY <2>1 DEF TreeInv, IsTree
  <2>3. honest[x].tree.hbMapping[dn(x)] # "PRESENT"
    BY <2>1 DEF TreeInv, DeepestNotarizedIsDeepest
  <2>4. honest[x].tree.hbMapping[df(x)] = "FINALIZED"
    BY <2>1 DEF TreeInv, FinalizedPrefixClosed
  <2> QED
    BY <2>1, <2>2, <2>3, <2>4 DEF NotarizedIn, IsPresent
<1>2. \A h \in Hash : Len(h) \in Nat /\ EpochOf(h) \in Nat
  <2>1. \A h \in Hash : Len(h) \in Nat
    BY DEF Hash
  <2> QED
    BY <2>1, EpochOfNat
<1>3. ASSUME NEW x \in HonestNodes, NEW y \in HonestNodes
      PROVE  Len(dn(x)) <= Len(dn(y)) /\ Len(df(x)) <= Len(df(y))
  <2>1. NotarizedIn(honest[y], dn(x))
    BY <1>1, HeardNotarized
  <2>2. TreeInv(honest[y].tree) /\ RootedAtGenesis(honest[y].tree)
        /\ DeepestNotarizedIsDeepest(honest[y].tree)
    BY <1>1 DEF TreeInv
  <2>3. dn(x) \in DOMAIN honest[y].tree.hbMapping /\ honest[y].tree.hbMapping[dn(x)] # "PRESENT"
    BY <2>1 DEF NotarizedIn, IsPresent
  <2>4. honest[y].tree.depths[dn(x)] <= honest[y].tree.depths[dn(y)]
    BY <2>2, <2>3 DEF DeepestNotarizedIsDeepest
  <2>5. /\ honest[y].tree.depths[dn(x)] = Len(dn(x))
        /\ honest[y].tree.depths[dn(y)] = Len(dn(y))
    BY <1>1, <2>2, <2>3 DEF RootedAtGenesis
  <2>6. df(x) \in DOMAIN honest[y].tree.hbMapping
    BY <1>1, HeardBlocks
  <2>7. honest[y].tree.hbMapping[df(x)] = "FINALIZED"
    BY <1>1, HeardFinalized
  <2>8. Len(df(x)) <= Len(df(y))
    BY <2>6, <2>7 DEF Canonical
  <2> QED
    BY <2>4, <2>5, <2>8
<1>4. dn(v) = dn(w)
  <2>1. ASSUME NEW x \in HonestNodes, NEW y \in HonestNodes
        PROVE  EpochOf(dn(y)) <= EpochOf(dn(x))
    <3>1. NotarizedIn(honest[y], dn(x))
      BY <1>1, HeardNotarized
    <3>2. Len(dn(x)) = Len(dn(y))
      BY <1>1, <1>2, <1>3
    <3> QED
      BY <3>1, <3>2 DEF Canonical, NotarizedIn, IsPresent
  <2>2. EpochOf(dn(v)) = EpochOf(dn(w))
    BY <1>1, <1>2, <2>1
  <2>3. SomeNotarized(honest, dn(v)) /\ SomeNotarized(honest, dn(w))
    BY <1>1 DEF SomeNotarized
  <2>4. NodesInv(honest, dishonest, sent) /\ 3 * DishonestCount < N
    BY EnoughNodes, NodeSets DEF PartitionInv
  <2> QED
    BY <2>2, <2>3, <2>4, EpochsAgree
<1>5. df(v) = df(w)
  <2>1. NodesInv(honest, dishonest, sent) /\ 3 * DishonestCount < N
    BY EnoughNodes, NodeSets DEF PartitionInv
  <2>2. NotarizedDeepens(honest)
    BY SidesDeepen
  <2>3. SomeFinalized(honest, df(v)) /\ SomeFinalized(honest, df(w))
    BY <1>1 DEF SomeFinalized
  <2>4. Len(df(v)) <= Len(df(w)) /\ Len(df(w)) - Len(df(v)) = 0 /\ Len(df(w)) \in Nat
    BY <1>1, <1>2, <1>3
  <2>5. df(v) = Ancestor(df(w), Len(df(w)) - Len(df(v)))
    BY <2>1, <2>2, <2>3, <2>4, FinalizedComparable
  <2>6. df(v) = Ancestor(df(w), 0)
    BY <2>4, <2>5
  <2> QED
    BY <1>1, <2>4, <2>6, AncestorSteps
<1> QED
  BY <1>4, <1>5

\* Nodes that have heard everything have the same tree.
LEMMA HeardAlike ==
    ASSUME DishonestCount = 0, HonestNodes = Nodes, IsQuorum(Majority), PartitionInv, IdleInv,
           GroundedInv, SidesAlikeInv, DeepInv, AllHeard,
           \A x \in HonestNodes : Canonical(honest[x]),
           NEW v \in HonestNodes, NEW w \in HonestNodes
    PROVE  honest[v].tree = honest[w].tree
<1> DEFINE t == honest[v].tree
           s == honest[w].tree
<1>1. /\ IsTree(t) /\ IsTree(s) /\ RootedAtGenesis(t) /\ RootedAtGenesis(s)
      /\ ~t.assertFailed /\ ~s.assertFailed
  BY DEF PartitionInv, NodesInv, ReplicaInv, TreeInv, GroundedInv, Grounded
<1>2. DOMAIN t.hbMapping = DOMAIN s.hbMapping
  BY HeardBlocks
<1>3. ASSUME NEW b \in DOMAIN t.hbMapping PROVE t.hbMapping[b] = s.hbMapping[b]
  <2>1. b \in DOMAIN s.hbMapping
    BY <1>2
  <2>2. t.hbMapping[b] \in Status /\ s.hbMapping[b] \in Status
    BY <1>1, <2>1 DEF IsTree
  <2>3. t.hbMapping[b] # "PRESENT" <=> s.hbMapping[b] # "PRESENT"
    <3>1. NotarizedIn(honest[v], b) <=> NotarizedIn(honest[w], b)
      BY HeardNotarized
    <3> QED
      BY <2>1, <3>1 DEF NotarizedIn, IsPresent
  <2>4. t.hbMapping[b] = "FINALIZED" <=> s.hbMapping[b] = "FINALIZED"
    BY <2>1, HeardFinalized
  <2> QED
    BY <2>2, <2>3, <2>4 DEF Status
<1>4. t.deepestNotarized = s.deepestNotarized /\ t.deepestFinalized = s.deepestFinalized
  BY HeardDeepest
<1> HIDE DEF t, s
<1>5. t.hbMapping = s.hbMapping
  <2>1. /\ t.hbMapping = [h \in DOMAIN t.hbMapping |-> t.hbMapping[h]]
        /\ s.hbMapping = [h \in DOMAIN s.hbMapping |-> s.hbMapping[h]]
    BY <1>1 DEF IsTree
  <2> QED
    BY <1>2, <1>3, <2>1
<1>6. t.depths = s.depths
  <2>1. /\ t.depths = [h \in DOMAIN t.hbMapping |-> t.depths[h]]
        /\ s.depths = [h \in DOMAIN s.hbMapping |-> s.depths[h]]
    BY <1>1 DEF IsTree
  <2>2. \A h \in DOMAIN t.hbMapping : t.depths[h] = Len(h) /\ s.depths[h] = Len(h)
    BY <1>1, <1>2 DEF RootedAtGenesis
  <2> QED
    BY <1>2, <2>1, <2>2
<1>7. t.assertFailed = s.assertFailed
  <2>1. t.assertFailed \in BOOLEAN /\ s.assertFailed \in BOOLEAN
    BY <1>1 DEF IsTree
  <2> QED
    BY <1>1, <2>1
<1>8. t = s
  <2>1. /\ t = [ hbMapping |-> t.hbMapping, depths |-> t.depths,
                 deepestNotarized |-> t.deepestNotarized,
                 deepestFinalized |-> t.deepestFinalized, assertFailed |-> t.assertFailed ]
        /\ s = [ hbMapping |-> s.hbMapping, depths |-> s.depths,
                 deepestNotarized |-> s.deepestNotarized,
                 deepestFinalized |-> s.deepestFinalized, assertFailed |-> s.assertFailed ]
    BY <1>1 DEF IsTree
  <2> QED
    BY <1>4, <1>5, <1>6, <1>7, <2>1
<1> QED
  BY <1>8 DEF t, s

\* Every replica is a function of what it has notarized.
CanonicalInv == \A v \in HonestNodes : Canonical(honest[v])

\* Every step keeps it so.
LEMMA CanonicalStep ==
    ASSUME DishonestCount = 0, IsQuorum(Majority), PartitionInv, PartitionInv', IdleInv,
           GroundedInv, SidesAlikeInv, DeepInv, EpochOrderInv, CanonicalInv, [Next]_vars
    PROVE  CanonicalInv'
<1>1. \A v \in HonestNodes : Canonical(honest'[v])
  <2>1. CASE Pop
    BY <2>1, PopKeepsCanonical DEF CanonicalInv
  <2>2. CASE UNCHANGED honest
    BY <2>2 DEF CanonicalInv
  <2>3. Pop \/ UNCHANGED honest
    BY DEF Next, vars, BroadcastTime, NextQueue, EndPass, Terminating
  <2> QED
    BY <2>1, <2>2, <2>3
<1> QED
  BY <1>1 DEF CanonicalInv, HonestNodes, Canonical, Recorded, NotarizedIn, IsPresent,
              Consecutive, Ancestor, EpochOf, GenesisHash

\* If every node is honest a synchronization leaves nobody behind: once the round after one
\* that the decider names is over, all trees are the same, whatever the sides did and in
\* whatever order they heard of each other (partitioning_scheduler.cpp:57-74).
THEOREM NobodyLeftBehind == Spec => []CaughtUp
<1> DEFINE I == GroundedInv /\ SidesAlikeInv /\ DeepInv /\ EpochOrderInv /\ SynchronizedInv
                  /\ CanonicalInv
<1>1. CASE HonestCount = N
  <2>1. DishonestCount = 0 /\ HonestNodes = Nodes /\ IsQuorum(Majority)
    BY <1>1, EveryoneHonest
  <2>2. Init => I
    <3>1. Init => CanonicalInv
      BY CanonicalInit DEF Init, CanonicalInv
    <3> QED
      BY <3>1, GroundedInit, SidesAlikeInit, DeepInit, EpochOrderInit, SynchronizedInit
  <2>3. PartitionInv /\ PartitionInv' /\ IdleInv /\ I /\ [Next]_vars => I'
    BY <2>1, GroundedStep, SidesAlikeStep, DeepStep, EpochOrderStep, SynchronizedStep,
       CanonicalStep
  <2>4. PartitionInv /\ IdleInv /\ I => CaughtUp
    <3> SUFFICES ASSUME PartitionInv, IdleInv, I, pc = "broadcastTime", time - 1 \in syncRounds,
                        NEW v \in HonestNodes, NEW w \in HonestNodes
                 PROVE  honest[v].tree = honest[w].tree
      BY DEF CaughtUp
    <3>1. AllHeard
      BY DEF SynchronizedInv, ReachedInv, AllHeard
    <3>2. \A x \in HonestNodes : Canonical(honest[x])
      BY DEF CanonicalInv
    <3> QED
      BY <2>1, <3>1, <3>2, HeardAlike
  <2>5. Spec => [](PartitionInv /\ IdleInv)
    BY <2>1, IdleInvariant
  <2> HIDE DEF I
  <2> QED
    BY <2>2, <2>3, <2>4, <2>5, PTL DEF Spec
<1>2. CASE HonestCount # N
  <2>1. CaughtUp
    BY <1>2 DEF CaughtUp
  <2> QED
    BY <2>1, PTL
<1> QED
  BY <1>1, <1>2
=============================================================================
