--------------------------- MODULE StreamletProofs ---------------------------
(***************************************************************************)
(* Streamlet's invariants hold for every number of nodes of each kind,      *)
(* every service, every number of rounds and every order, loss and          *)
(* duplication of messages.                                                 *)
(***************************************************************************)
EXTENDS Streamlet, NodeProofs

\* The invariant is the one of NodeProofs, of this module's variables.
Inv == time \in 0 .. NrRounds /\ NodesInv(honest, dishonest, sent)

LEMMA IInvIsNodesInv == IInv <=> Inv
<1>1. VotesWereSent <=> CountedWereSent(honest, sent)
  BY DEF VotesWereSent, CountedWereSent
<1>2. HonestVotesForRecorded <=> VotesStand(honest, sent)
  BY DEF HonestVotesForRecorded, VotesStand, Notarized
<1>3. NotarizedByQuorum <=> QuorumBehind(honest)
  BY DEF NotarizedByQuorum, QuorumBehind, Notarized
<1>4. (\A v \in HonestNodes : ReplicaInv(honest[v]))
        => \A v \in HonestNodes : IsReplica(honest[v])
  BY DEF ReplicaInv
<1> QED
  BY <1>1, <1>2, <1>3, <1>4 DEF IInv, Inv, TypeOK, NodesInv, SendersTakePart, DishonestInv

\* It holds initially.
LEMMA IInvInit == Init => IInv
<1> SUFFICES ASSUME Init PROVE IInv
  OBVIOUS
<1>1. time \in 0 .. NrRounds
  BY NrRoundsAssumption DEF Init
<1>2. NodesInv(honest, dishonest, sent)
  BY FreshNodes DEF Init
<1> QED
  BY <1>1, <1>2, IInvIsNodesInv DEF Inv

\* Announcing a round sends proposals and changes nothing else.
LEMMA StepBroadcastTime ==
    ASSUME IInv, BroadcastTime
    PROVE  /\ IInv'
           /\ \A w \in sent' \ sent : w.type = "PROPOSAL"
<1> DEFINE H(payload) == { HonestAtTime(v, honest[v], time, payload[0]) : v \in HonestNodes }
           D(payload) == { DishonestAtTime(v, dishonest[v], time, payload) : v \in DishonestNodes }
<1>1. PICK payload \in Draws :
          sent' = sent \cup UNION { Messages(out) : out \in H(payload) \cup D(payload) }
  BY DEF BroadcastTime
<1>2. payload \in [0 .. 1 -> Payload] /\ payload[0] \in Payload
  BY DrawsAssumption
<1>3. NodesInv(honest, dishonest, sent) /\ time \in 0 .. NrRounds /\ time \in Nat
  BY IInvIsNodesInv, NrRoundsAssumption DEF Inv
<1>4. ASSUME NEW v \in HonestNodes,
             NEW w \in Messages(HonestAtTime(v, honest[v], time, payload[0]))
      PROVE  w \in Message /\ w.from = v /\ w.type = "PROPOSAL"
  <2>1. ReplicaInv(honest[v]) /\ v \in Nodes
    BY <1>3, NodeSets DEF NodesInv
  <2>2. HonestAtTime(v, honest[v], time, payload[0]) \in ProposalsOf(v, time)
    BY <1>2, <1>3, <2>1, HonestAtTimeSends
  <2> QED
    BY <2>1, <2>2, ProposalMessages
<1>5. ASSUME NEW v \in DishonestNodes,
             NEW w \in Messages(DishonestAtTime(v, dishonest[v], time, payload))
      PROVE  w \in Message /\ w.from = v /\ w.type = "PROPOSAL"
  <2>1. DishonestInv(dishonest[v]) /\ v \in Nodes
    BY <1>3, NodeSets DEF NodesInv
  <2>2. DishonestAtTime(v, dishonest[v], time, payload) \in ProposalsOf(v, time)
    BY <1>2, <1>3, <2>1, DishonestAtTimeSends
  <2> QED
    BY <2>1, <2>2, ProposalMessages
<1> DEFINE P == UNION { Messages(out) : out \in H(payload) \cup D(payload) }
<1>6. ASSUME NEW w \in P
      PROVE  /\ w \in Message /\ w.type = "PROPOSAL"
             /\ w.from \in HonestNodes \cup DishonestNodes
  <2>1. PICK out \in H(payload) \cup D(payload) : w \in Messages(out)
    <3> HIDE DEF H, D
    <3> QED
      OBVIOUS
  <2>2. CASE out \in H(payload)
    BY <2>1, <2>2, <1>4
  <2>3. CASE out \in D(payload)
    BY <2>1, <2>3, <1>5
  <2> QED
    BY <2>1, <2>2, <2>3
<1>7. sent' = sent \cup P
  BY <1>1
<1> HIDE DEF P
<1>8. NodesInv(honest, dishonest, sent \cup P)
  BY <1>3, <1>6, NodesPropose
<1>9. UNCHANGED <<honest, dishonest>> /\ time' \in 0 .. NrRounds
  BY <1>3, NrRoundsAssumption DEF BroadcastTime
<1>10. Inv'
  BY <1>7, <1>8, <1>9 DEF Inv
<1>11. IInv'
  BY <1>10, IInvIsNodesInv, PTL
<1> QED
  BY <1>6, <1>7, <1>11

\* A delivery to an honest node is a step of its replica.
LEMMA StepHonestReceives ==
    ASSUME IInv, NEW m \in sent, HonestReceives(m)
    PROVE  /\ IInv'
           /\ \A w \in sent' \ sent : VoteStep(m.to, honest[m.to], honest'[m.to], w)
<1> DEFINE a == HonestOnMessageReceive(m.to, honest[m.to], m)
           h2 == [honest EXCEPT ![m.to] = a.replica]
<1>1. /\ m.to \in HonestNodes /\ honest' = h2 /\ sent' = sent \cup Messages(a.out)
      /\ UNCHANGED <<time, dishonest>>
  BY DEF HonestReceives
<1>2. NodesInv(honest, dishonest, sent) /\ time \in 0 .. NrRounds
  BY IInvIsNodesInv DEF Inv
<1>3. /\ NodesInv(h2, dishonest, sent \cup Messages(a.out))
      /\ \A w \in Messages(a.out) : VoteStep(m.to, honest[m.to], a.replica, w)
  BY <1>1, <1>2, NodesHonestStep
<1>4. honest'[m.to] = a.replica
  BY <1>1, <1>2 DEF NodesInv
<1> HIDE DEF a, h2
<1>5. Inv'
  BY <1>1, <1>2, <1>3 DEF Inv
<1>6. IInv'
  BY <1>5, IInvIsNodesInv, PTL
<1> QED
  BY <1>1, <1>3, <1>4, <1>6

\* A delivery to a dishonest node leaves the honest ones alone, and what it
\* sends, whatever it is, is sent in its own name.
LEMMA StepDishonestReceives ==
    ASSUME IInv, NEW m \in sent, DishonestReceives(m)
    PROVE  IInv' /\ \A w \in sent' \ sent : w.from \notin HonestNodes
<1> DEFINE a == DishonestOnMessageReceive(m.to, dishonest[m.to], m)
           d2 == [dishonest EXCEPT ![m.to] = a.node]
<1>1. /\ m.to \in DishonestNodes /\ dishonest' = d2 /\ sent' = sent \cup Messages(a.out)
      /\ UNCHANGED <<time, honest>>
  BY DEF DishonestReceives
<1>2. NodesInv(honest, dishonest, sent) /\ time \in 0 .. NrRounds
  BY IInvIsNodesInv DEF Inv
<1>3. /\ NodesInv(honest, d2, sent \cup Messages(a.out))
      /\ \A w \in Messages(a.out) : w.from \notin HonestNodes
  BY <1>1, <1>2, NodesDishonestStep
<1> HIDE DEF a, d2
<1>4. Inv'
  BY <1>1, <1>2, <1>3 DEF Inv
<1>5. IInv'
  BY <1>4, IInvIsNodesInv, PTL
<1> QED
  BY <1>1, <1>3, <1>5

-----------------------------------------------------------------------------
\* IInv is inductive.
THEOREM StreamletInvariant == Spec => []IInv
<1>1. IInv /\ [Next]_vars => IInv'
  <2> SUFFICES ASSUME IInv, [Next]_vars PROVE IInv'
    OBVIOUS
  <2>1. CASE BroadcastTime
    BY <2>1, StepBroadcastTime
  <2>2. ASSUME NEW m \in sent, HonestReceives(m) PROVE IInv'
    BY <2>2, StepHonestReceives
  <2>3. ASSUME NEW m \in sent, DishonestReceives(m) PROVE IInv'
    BY <2>3, StepDishonestReceives
  <2>4. CASE UNCHANGED vars
    BY <2>4 DEF vars, IInv, TypeOK, HonestVotesForRecorded, VotesWereSent,
                NotarizedByQuorum, SendersTakePart, Notarized
  <2> QED
    BY <2>1, <2>2, <2>3, <2>4 DEF Next
<1> QED
  BY <1>1, IInvInit, PTL DEF Spec

\* The nodes' states and the messages keep the types of the code's fields.
THEOREM TypeCorrect == Spec => []TypeOK
<1>1. IInv => TypeOK
  BY DEF IInv
<1> QED
  BY <1>1, StreamletInvariant, PTL

\* An honest node stands by its votes, whatever it is sent.
THEOREM HonestVotesStand == Spec => []HonestVotesForRecorded
<1>1. IInv => HonestVotesForRecorded
  BY DEF IInv
<1> QED
  BY <1>1, StreamletInvariant, PTL

\* Two quorums of one epoch share a voter that is not dishonest, and that one
\* voted once: honest nodes cannot notarize different blocks of an epoch.
THEOREM NodesAgreeOnEpochs == Spec => []EpochAgreement
<1>1. IInv => EpochAgreement
  <2> SUFFICES ASSUME IInv, FewDishonest,
                      NEW v \in HonestNodes, NEW w \in HonestNodes, NEW b, NEW c,
                      Notarized(v, b), Notarized(w, c), EpochOf(b) = EpochOf(c)
               PROVE  b = c
    BY DEF EpochAgreement
  <2>1. NodesInv(honest, dishonest, sent)
    BY IInvIsNodesInv DEF Inv
  <2> QED
    BY <2>1, EpochsAgree DEF FewDishonest, Notarized, SomeNotarized
<1> QED
  BY <1>1, StreamletInvariant, PTL

\* A quorum has a voter that is not dishonest, and that one had notarized the
\* parent of what it voted for.
THEOREM NotarizedChainsGrow == Spec => []NotarizedExtendsNotarized
<1>1. IInv => NotarizedExtendsNotarized
  <2> SUFFICES ASSUME IInv, FewDishonest, NEW v \in HonestNodes, NEW b,
                      Notarized(v, b), b # GenesisHash
               PROVE  \E w \in HonestNodes : Notarized(w, ParentHash(b))
    BY DEF NotarizedExtendsNotarized
  <2>1. NodesInv(honest, dishonest, sent)
    BY IInvIsNodesInv DEF Inv
  <2> QED
    BY <2>1, ParentsNotarized DEF FewDishonest, Notarized, SomeNotarized
<1> QED
  BY <1>1, StreamletInvariant, PTL

\* A new vote is an honest node's answer, and at least as deep as its earlier ones.
THEOREM VotesGoDown == Spec => VotesNeverGoUp
<1> DEFINE Down == \A v \in HonestNodes :
                      \A b \in VotesBy(v, sent' \ sent), c \in VotesBy(v, sent) :
                          Len(b) >= Len(c)
<1>1. IInv /\ [Next]_vars => [Down]_vars
  <2> SUFFICES ASSUME IInv, Next, NEW v \in HonestNodes,
                      NEW b \in VotesBy(v, sent' \ sent), NEW c \in VotesBy(v, sent)
               PROVE  Len(b) >= Len(c)
    OBVIOUS
  <2>1. PICK w \in sent' \ sent : w.type = "VOTE" /\ w.from = v /\ b = w.block
    BY DEF VotesBy
  <2>2. PICK u \in sent : u.type = "VOTE" /\ u.from = v /\ c = u.block
    BY DEF VotesBy
  <2>3. PICK m \in sent : HonestReceives(m)
    BY <2>1, StepBroadcastTime, StepDishonestReceives DEF Next
  <2>4. VoteStep(v, honest[v], honest'[v], w)
    BY <2>1, <2>3, StepHonestReceives DEF VoteStep
  <2>5. NodesInv(honest, dishonest, sent)
    BY IInvIsNodesInv DEF Inv
  <2>6. Len(c) <= Len(b)
    BY <2>1, <2>2, <2>4, <2>5, VoteDeepens
  <2> QED
    BY <2>6
<1> QED
  BY <1>1, StreamletInvariant, PTL DEF Spec, VotesNeverGoUp
=============================================================================
