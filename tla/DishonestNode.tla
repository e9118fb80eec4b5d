---------------------------- MODULE DishonestNode ----------------------------
(***************************************************************************)
(* class DishonestNode: a node with two faces, one replica for each half of *)
(* the others.  As a leader it proposes one block to each half; a proposal  *)
(* of another dishonest node is taken up by one face only, face 0 and face  *)
(* 1 in turn as firstHalf toggles.                                          *)
(***************************************************************************)
EXTENDS BaseNode

NewDishonest == [ faces |-> [k \in 0 .. 1 |-> NewReplica], firstHalf |-> TRUE ]

\* Half of the nodes that are not dishonest, dummies among them.
HonestNodesFractions(k) ==
    LET half == (HonestCount + DummyCount) \div 2
    IN  IF k = 0 THEN 0 .. half - 1 ELSE half .. HonestCount + DummyCount - 1

PreparePropose(v, d, epoch, k, payload) ==
    LET block == BlockHash(d.faces[k].tree.deepestNotarized, epoch, payload)
    IN  << Envelope(v, HonestNodesFractions(k), "PROPOSAL", block),
           Envelope(v, DishonestNodes, "PROPOSAL", block) >>

DishonestAtTime(v, d, round, payload) ==
    IF IsEpochStart(round) /\ GetLeader(GetEpoch(round)) = v
    THEN PreparePropose(v, d, GetEpoch(round), 0, payload[0])
            \o PreparePropose(v, d, GetEpoch(round), 1, payload[1])
    ELSE << >>

\* Mutant: firstHalf is never looked at.
TurnFirst(d) == 0

\* The face whose turn it is to take up a dishonest leader's proposal.
Turn(d) == IF d.firstHalf THEN 0 ELSE 1

DishonestHandlePropose(v, d, m, mischief, k) ==
    LET r == d.faces[k]
        recorded == RecordProposal(r, m.block)
    IN  IF ~AcceptsProposal(r, m) \/ (mischief /\ k # Turn(d))
        THEN [replica |-> r, out |-> << >>]
        ELSE [ replica |-> recorded,
               out |-> IF ~IsDeepestNotarized(recorded.tree, ParentHash(m.block))
                       THEN << >>
                       ELSE IF mischief
                       THEN << Envelope(v, HonestNodesFractions(k), "VOTE", m.block),
                               Envelope(v, DishonestNodes, "VOTE", m.block) >>
                       ELSE << Envelope(v, Nodes, "VOTE", m.block) >> ]

\* Both faces handle every message; the answer of face 0 goes first.
DishonestOnMessageReceive(v, d, m) ==
    LET mischief == m.type = "PROPOSAL" /\ m.from \in DishonestNodes
        answer == [k \in 0 .. 1 |->
                      IF m.type = "PROPOSAL"
                      THEN DishonestHandlePropose(v, d, m, mischief, k)
                      ELSE [replica |-> HandleVote(d.faces[k], m), out |-> << >>]]
    IN  IF m.to # v THEN [node |-> d, out |-> << >>]
        ELSE [ node |-> [ faces |-> [k \in 0 .. 1 |-> answer[k].replica],
                          firstHalf |-> IF mischief THEN ~d.firstHalf
                                        ELSE d.firstHalf ],
               out  |-> IF answer[0].out # << >> THEN answer[0].out
                        ELSE answer[1].out ]

\* Shape of a dishonest node.
IsDishonest(d) ==
    /\ d = [faces |-> d.faces, firstHalf |-> d.firstHalf]
    /\ d.faces = [k \in 0 .. 1 |-> d.faces[k]]
    /\ IsReplica(d.faces[0]) /\ IsReplica(d.faces[1])
    /\ d.firstHalf \in BOOLEAN
=============================================================================
