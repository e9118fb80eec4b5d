----------------------------- MODULE HonestNode -----------------------------
(***************************************************************************)
(* class HonestNode: what node v with replica r answers when it is told the *)
(* time and when it receives a message.                                     *)
(***************************************************************************)
EXTENDS BaseNode

\* Mutant: the loop of broadcast starts at 1.
HonestAtTimeFromOne(v, r, round, payload) ==
    IF IsEpochStart(round) /\ GetLeader(GetEpoch(round)) = v
    THEN << Envelope(v, Nodes \ {0}, "PROPOSAL",
                BlockHash(r.tree.deepestNotarized, GetEpoch(round), payload)) >>
    ELSE << >>

\* The leader proposes at the first round of its epoch.
HonestAtTime(v, r, round, payload) ==
    IF IsEpochStart(round) /\ GetLeader(GetEpoch(round)) = v
    THEN << Envelope(v, Nodes, "PROPOSAL",
                BlockHash(r.tree.deepestNotarized, GetEpoch(round), payload)) >>
    ELSE << >>

HonestHandlePropose(v, r, m) ==
    LET recorded == RecordProposal(r, m.block)
    IN  IF ~AcceptsProposal(r, m) THEN [replica |-> r, out |-> << >>]
        ELSE [ replica |-> recorded,
               out     |-> IF IsDeepestNotarized(recorded.tree, ParentHash(m.block))
                           THEN << Envelope(v, Nodes, "VOTE", m.block) >>
                           ELSE << >> ]

HonestOnMessageReceive(v, r, m) ==
    IF m.to # v THEN [replica |-> r, out |-> << >>]
    ELSE IF m.type = "PROPOSAL" THEN HonestHandlePropose(v, r, m)
    ELSE [replica |-> HandleVote(r, m), out |-> << >>]
=============================================================================
