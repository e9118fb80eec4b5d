------------------------------ MODULE BaseNode ------------------------------
(***************************************************************************)
(* What the nodes of a scenario share: who they are (Runner::play), the     *)
(* epochs and leaders their service tells them (AbstractService), messages, *)
(* and the bookkeeping HonestNode does once and DishonestNode twice: a      *)
(* replica, i.e. a tree, the first proposal seen in each epoch and the      *)
(* votes counted for it.                                                    *)
(***************************************************************************)
EXTENDS BlockTree

CONSTANTS
    HonestCount, DummyCount, DishonestCount,   \* ScenarioConfig's counts
    EpochLength,                               \* rounds in an epoch
    GetLeader(_),                              \* AbstractService::getLeader
    Draws                                      \* what getRandomPayload may return
                                               \* to two calls in a row

ASSUME CountsAssumption ==
    /\ HonestCount \in Nat /\ DummyCount \in Nat /\ DishonestCount \in Nat
    /\ EpochLength \in Nat \ {0}

ASSUME DrawsAssumption == Draws \subseteq [0 .. 1 -> Payload]

N == HonestCount + DummyCount + DishonestCount

\* Runner::play numbers the honest nodes first, then the dummies.
Nodes          == 0 .. N - 1
HonestNodes    == 0 .. HonestCount - 1
DishonestNodes == HonestCount + DummyCount .. N - 1
DummyNodes     == HonestCount .. HonestCount + DummyCount - 1

-----------------------------------------------------------------------------
(* AbstractService. *)

GetEpoch(round) == (round \div EpochLength) + 1

IsEpochStart(round) == round % EpochLength = 0

-----------------------------------------------------------------------------
(* Messages.  A handler returns a sequence of envelopes, each standing for  *)
(* one call of broadcast: the same content for every receiver in a set.     *)

Message == [ from : Nodes, to : Nodes, type : {"PROPOSAL", "VOTE"}, block : Hash ]

Envelope(from, to, type, block) ==
    [ from |-> from, to |-> to, type |-> type, block |-> block ]

\* The messages a sequence of envelopes stands for.
Messages(out) ==
    UNION { { [out[i] EXCEPT !.to = v] : v \in out[i].to } : i \in DOMAIN out }

-----------------------------------------------------------------------------
(* A replica. *)

NewReplica ==
    [ tree           |-> NewTree,
      proposedBlocks |-> [e \in {0} |-> GenesisHash],
      votes          |-> {} ]        \* pairs <<epoch, voter>>

\* The first proposal of an epoch is recorded even if its parent is absent,
\* and then its block is never added.
RecordProposal(r, block) ==
    [r EXCEPT !.proposedBlocks = TryEmplace(@, EpochOf(block), block),
              !.tree = IF IsPresent(@, ParentHash(block))
                       THEN AddBlock(@, block) ELSE @]

\* A proposal is looked at if the leader of its epoch sent it and none was
\* recorded for that epoch.
AcceptsProposal(r, m) ==
    /\ m.from = GetLeader(EpochOf(m.block))
    /\ EpochOf(m.block) \notin DOMAIN r.proposedBlocks

\* Mutant: a vote counts for a block already notarized, too.
CountsVoteAgain(r, m) ==
    /\ EpochOf(m.block) \in DOMAIN r.proposedBlocks
    /\ r.proposedBlocks[EpochOf(m.block)] = m.block
    /\ IsPresent(r.tree, m.block)

\* A vote counts only for the recorded, stored, not yet notarized block.
CountsVote(r, m) ==
    /\ EpochOf(m.block) \in DOMAIN r.proposedBlocks
    /\ r.proposedBlocks[EpochOf(m.block)] = m.block
    /\ IsPresent(r.tree, m.block)
    /\ r.tree.hbMapping[m.block] = "PRESENT"

Voters(r, epoch) == { v \in Nodes : <<epoch, v>> \in r.votes }

\* Mutant: half of the nodes suffice.
IsQuorumHalf(S) == 2 * Cardinality(S) >= N

IsQuorum(S) == 3 * Cardinality(S) > 2 * N

\* Mutants: the quorum is looked for before the vote is inserted, or among
\* the votes of all epochs.
HandleVoteCheckFirst(r, m) ==
    LET counted == [r EXCEPT !.votes = @ \cup {<<EpochOf(m.block), m.from>>}]
    IN  IF ~CountsVote(r, m) THEN r
        ELSE IF IsQuorum(Voters(r, EpochOf(m.block)))
        THEN [counted EXCEPT !.tree = Notarize(@, m.block)]
        ELSE counted

HandleVotePooled(r, m) ==
    LET counted == [r EXCEPT !.votes = @ \cup {<<EpochOf(m.block), m.from>>}]
    IN  IF ~CountsVote(r, m) THEN r
        ELSE IF IsQuorum({ vote[2] : vote \in counted.votes })
        THEN [counted EXCEPT !.tree = Notarize(@, m.block)]
        ELSE counted

HandleVote(r, m) ==
    LET counted == [r EXCEPT !.votes = @ \cup {<<EpochOf(m.block), m.from>>}]
    IN  IF ~CountsVote(r, m) THEN r
        ELSE IF IsQuorum(Voters(counted, EpochOf(m.block)))
        THEN [counted EXCEPT !.tree = Notarize(@, m.block)]
        ELSE counted

\* Shape of a replica.
IsReplica(r) ==
    /\ r = [tree |-> r.tree, proposedBlocks |-> r.proposedBlocks, votes |-> r.votes]
    /\ IsTree(r.tree)
    /\ r.proposedBlocks = [e \in DOMAIN r.proposedBlocks |-> r.proposedBlocks[e]]
    /\ \A e \in DOMAIN r.proposedBlocks : e \in Nat /\ r.proposedBlocks[e] \in Hash
    /\ r.votes \subseteq Nat \X Nodes

\* Block b is stored in r and at least notarized there.
NotarizedIn(r, b) == IsPresent(r.tree, b) /\ r.tree.hbMapping[b] # "PRESENT"

\* What holds of a replica whatever was delivered to it.
ReplicaInv(r) ==
    /\ IsReplica(r)
    /\ TreeInv(r.tree)
    /\ 0 \in DOMAIN r.proposedBlocks
    /\ r.proposedBlocks[0] = GenesisHash
=============================================================================
