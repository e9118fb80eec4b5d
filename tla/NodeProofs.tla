----------------------------- MODULE NodeProofs -----------------------------
(***************************************************************************)
(* Lemmas about what the nodes are made of: hashes and messages, quorums,   *)
(* the two things a replica does, recording a proposal and counting a vote; *)
(* and about what the nodes together can notarize and finalize.             *)
(***************************************************************************)
EXTENDS Broadcast, BlockTreeProofs, FiniteSetTheorems, WellFoundedInduction

\* Every set of natural numbers has a least one: the proofs by induction below
\* take a least counterexample.
LEMMA LeastNat ==
    ASSUME NEW S \in SUBSET Nat, S # {}
    PROVE  \E x \in S : \A y \in S : x <= y
<1>1. OpToRel(<, Nat) = {ss \in Nat \X Nat : ss[1] < ss[2]}
  BY Zenon DEF OpToRel
<1>2. PICK x \in S : \A y \in S : ~(<<y, x>> \in OpToRel(<, Nat))
  BY NatLessThanWellFounded, WFMin, Zenon
<1>3. ASSUME NEW y \in S PROVE x <= y
  <2>1. ~(<<y, x>> \in {ss \in Nat \X Nat : ss[1] < ss[2]})
    BY <1>1, <1>2, Zenon
  <2>2. <<y, x>> \in Nat \X Nat /\ <<y, x>>[1] = y /\ <<y, x>>[2] = x
    OBVIOUS
  <2>3. ~(y < x)
    <3> DEFINE p == <<y, x>>
    <3>1. p \in Nat \X Nat /\ p \notin {ss \in Nat \X Nat : ss[1] < ss[2]} /\ p[1] = y /\ p[2] = x
      BY <2>1, <2>2
    <3> HIDE DEF p
    <3>2. ~(p[1] < p[2])
      BY <3>1
    <3> QED
      BY <3>1, <3>2
  <2> QED
    BY <2>3
<1> QED
  BY <1>3

\* Every hash but the genesis one is the hash of a block on its parent.
LEMMA HashOfParts ==
    ASSUME NEW h \in Hash, h # GenesisHash
    PROVE  /\ ParentHash(h) \in Hash
           /\ ParentHash(h) = Ancestor(h, 1)
           /\ 1 \in 1 .. Len(h)
           /\ \E payload \in Payload : h = BlockHash(ParentHash(h), EpochOf(h), payload)
<1>1. Len(h) \in Nat /\ Len(h) # 0
  BY EmptySeq DEF Hash, GenesisHash
<1>2. ParentHash(h) = Ancestor(h, 1)
  BY DEF ParentHash, Ancestor, Front
<1>3. /\ ParentHash(h) \in Hash /\ Len(ParentHash(h)) = Len(h) - 1
      /\ \A j \in 1 .. Len(h) - 1 : ParentHash(h)[j] = h[j]
  BY <1>1, <1>2, AncestorHash
<1>4. h[Len(h)] \in Nat \X Payload
  BY <1>1, ElementOfSeq DEF Hash
<1>5. PICK payload \in Payload : h[Len(h)] = <<EpochOf(h), payload>>
  BY <1>4 DEF EpochOf
<1> DEFINE g == BlockHash(ParentHash(h), EpochOf(h), payload)
<1>6. /\ g \in Hash /\ Len(g) = Len(h)
      /\ \A j \in 1 .. Len(h) - 1 : g[j] = h[j]
      /\ g[Len(h)] = h[Len(h)]
  BY <1>1, <1>3, <1>4, <1>5, AppendProperties DEF Hash, BlockHash
<1> HIDE DEF g
<1>7. g = h
  <2>1. \A j \in 1 .. Len(g) : g[j] = h[j]
    BY <1>1, <1>6
  <2> QED
    BY <1>6, <2>1, SeqEqual DEF Hash
<1> QED
  BY <1>1, <1>2, <1>3, <1>7 DEF g

-----------------------------------------------------------------------------
\* A message of a sequence of envelopes has the contents of one of them.
LEMMA MessageOfEnvelope ==
    ASSUME NEW out, NEW m \in Messages(out)
    PROVE  \E i \in DOMAIN out : \E v \in out[i].to : m = [out[i] EXCEPT !.to = v]
BY DEF Messages

-----------------------------------------------------------------------------
\* The nodes are finitely many, each of one kind.
LEMMA NodeSets ==
    /\ N \in Nat
    /\ IsFiniteSet(Nodes) /\ Cardinality(Nodes) = N
    /\ IsFiniteSet(DishonestNodes) /\ Cardinality(DishonestNodes) = DishonestCount
    /\ HonestNodes \subseteq Nodes /\ DishonestNodes \subseteq Nodes
    /\ HonestNodes \cap DishonestNodes = {}
    /\ \A k \in 0 .. 1 : HonestNodesFractions(k) \subseteq Nodes
<1>1. N \in Nat /\ HonestCount \in Nat /\ DummyCount \in Nat /\ DishonestCount \in Nat
  BY CountsAssumption DEF N
<1>2. IsFiniteSet(Nodes) /\ Cardinality(Nodes) = N
  BY <1>1, FS_Interval, 0 \in Int, N - 1 \in Int DEF Nodes
<1>3. IsFiniteSet(DishonestNodes) /\ Cardinality(DishonestNodes) = DishonestCount
  <2>1. HonestCount + DummyCount \in Int /\ N - 1 \in Int
    BY <1>1
  <2>2. /\ IsFiniteSet(DishonestNodes)
        /\ Cardinality(DishonestNodes) =
             IF HonestCount + DummyCount > N - 1 THEN 0
             ELSE N - 1 - (HonestCount + DummyCount) + 1
    BY <2>1, FS_Interval DEF DishonestNodes
  <2> QED
    BY <1>1, <2>2 DEF N
<1>4. /\ HonestNodes \subseteq Nodes /\ DishonestNodes \subseteq Nodes
      /\ HonestNodes \cap DishonestNodes = {}
  BY <1>1 DEF N, Nodes, HonestNodes, DishonestNodes
<1>5. \A k \in 0 .. 1 : HonestNodesFractions(k) \subseteq Nodes
  BY <1>1 DEF N, Nodes, HonestNodesFractions
<1> QED
  BY <1>1, <1>2, <1>3, <1>4, <1>5

\* A quorum has a member that is not dishonest, if these are fewer than a third.
LEMMA QuorumNotDishonest ==
    ASSUME NEW A \in SUBSET Nodes, IsQuorum(A), 3 * DishonestCount < N
    PROVE  \E x \in A : x \notin DishonestNodes
<1> SUFFICES ASSUME A \subseteq DishonestNodes PROVE FALSE
  OBVIOUS
<1>1. IsFiniteSet(A) /\ Cardinality(A) \in Nat
  BY NodeSets, FS_Subset, FS_CardinalityType
<1>2. Cardinality(A) <= DishonestCount
  BY NodeSets, FS_Subset
<1> QED
  BY <1>1, <1>2, NodeSets, CountsAssumption DEF IsQuorum

\* More voters are still a quorum.
LEMMA QuorumGrows ==
    ASSUME NEW A \in SUBSET Nodes, NEW B \in SUBSET Nodes, A \subseteq B, IsQuorum(A)
    PROVE  IsQuorum(B)
<1>1. IsFiniteSet(A) /\ IsFiniteSet(B)
  BY NodeSets, FS_Subset
<1>2. /\ Cardinality(A) \in Nat /\ Cardinality(B) \in Nat
      /\ Cardinality(A) <= Cardinality(B)
  BY <1>1, FS_Subset, FS_CardinalityType
<1>3. 3 * Cardinality(A) > 2 * N
  BY DEF IsQuorum
<1> QED
  BY <1>2, <1>3, NodeSets DEF IsQuorum

\* So has the intersection of two quorums.
LEMMA QuorumsMeet ==
    ASSUME NEW A \in SUBSET Nodes, NEW B \in SUBSET Nodes,
           IsQuorum(A), IsQuorum(B), 3 * DishonestCount < N
    PROVE  \E x \in A \cap B : x \notin DishonestNodes
<1> SUFFICES ASSUME A \cap B \subseteq DishonestNodes PROVE FALSE
  OBVIOUS
<1>1. /\ IsFiniteSet(A) /\ IsFiniteSet(B) /\ IsFiniteSet(A \cap B) /\ IsFiniteSet(A \cup B)
      /\ Cardinality(A) \in Nat /\ Cardinality(B) \in Nat
      /\ Cardinality(A \cap B) \in Nat /\ Cardinality(A \cup B) \in Nat
  <2>1. IsFiniteSet(A) /\ IsFiniteSet(B)
    BY NodeSets, FS_Subset
  <2>2. IsFiniteSet(A \cap B) /\ IsFiniteSet(A \cup B)
    BY <2>1, FS_Union, FS_Intersection
  <2> QED
    BY <2>1, <2>2, FS_CardinalityType
<1>2. Cardinality(A \cup B) = Cardinality(A) + Cardinality(B) - Cardinality(A \cap B)
  BY <1>1, FS_Union
<1>3. Cardinality(A \cup B) <= N
  <2>1. A \cup B \in SUBSET Nodes
    OBVIOUS
  <2> QED
    BY <2>1, NodeSets, FS_Subset
<1>4. Cardinality(A \cap B) <= DishonestCount
  BY NodeSets, FS_Subset
<1>5. 3 * Cardinality(A) > 2 * N /\ 3 * Cardinality(B) > 2 * N
  BY DEF IsQuorum
<1> QED
  BY <1>1, <1>2, <1>3, <1>4, <1>5, NodeSets, CountsAssumption

-----------------------------------------------------------------------------
\* What node v may hand to its scheduler at once: envelopes of one type for
\* blocks of a set.
EnvelopesOf(v, type, blocks) ==
    [ from : {v}, to : ReceiverSets, type : {type}, block : blocks ]

\* What Envelope builds is such an envelope.
LEMMA EnvelopeOf ==
    ASSUME NEW v, NEW to \in ReceiverSets, NEW type, NEW blocks, NEW block \in blocks
    PROVE  Envelope(v, to, type, block) \in EnvelopesOf(v, type, blocks)
BY DEF Envelope, EnvelopesOf

\* The sets a node broadcasts to are sets of nodes.
LEMMA ReceiversAreNodes == \A R \in ReceiverSets : R \in SUBSET Nodes
BY NodeSets DEF ReceiverSets

\* Every message of a node's envelopes carries that node as its sender, and
\* their type and block.
LEMMA SentBy ==
    ASSUME NEW v \in Nodes, NEW type \in {"PROPOSAL", "VOTE"}, NEW blocks \in SUBSET Hash,
           NEW out \in Seq(EnvelopesOf(v, type, blocks)), NEW w \in Messages(out)
    PROVE  w \in Message /\ w.from = v /\ w.type = type /\ w.block \in blocks
<1>1. PICK i \in DOMAIN out : \E to \in out[i].to : w = [out[i] EXCEPT !.to = to]
  BY MessageOfEnvelope
<1>2. PICK to \in out[i].to : w = [out[i] EXCEPT !.to = to]
  BY <1>1
<1>3. out[i] \in EnvelopesOf(v, type, blocks)
  BY <1>1, ElementOfSeq, LenProperties
<1>4. /\ out[i] = [ from |-> out[i].from, to |-> out[i].to,
                    type |-> out[i].type, block |-> out[i].block ]
      /\ out[i].from = v /\ out[i].to \in SUBSET Nodes
      /\ out[i].type = type /\ out[i].block \in blocks
  BY <1>3, ReceiversAreNodes DEF EnvelopesOf
<1>5. w = [from |-> v, to |-> to, type |-> type, block |-> out[i].block]
  BY <1>2, <1>4
<1>6. to \in Nodes
  BY <1>2, <1>4
<1> QED
  BY <1>4, <1>5, <1>6 DEF Message

-----------------------------------------------------------------------------
\* Recording a proposal, field by field.
LEMMA RecordProposalFields ==
    ASSUME NEW r, IsReplica(r), NEW block
    PROVE  RecordProposal(r, block) =
             [ tree           |-> (IF IsPresent(r.tree, ParentHash(block))
                                   THEN AddBlock(r.tree, block) ELSE r.tree),
               proposedBlocks |-> TryEmplace(r.proposedBlocks, EpochOf(block), block),
               votes          |-> r.votes ]
<1> DEFINE x == TryEmplace(r.proposedBlocks, EpochOf(block), block)
           y == IF IsPresent(r.tree, ParentHash(block)) THEN AddBlock(r.tree, block) ELSE r.tree
           r1 == [r EXCEPT !.proposedBlocks = x]
<1>1. r1 = [tree |-> r.tree, proposedBlocks |-> x, votes |-> r.votes]
  BY DEF IsReplica
<1>2. RecordProposal(r, block) = [r1 EXCEPT !.tree = y]
  BY DEF RecordProposal
<1> HIDE DEF r1, x, y
<1>3. [r1 EXCEPT !.tree = y] = [tree |-> y, proposedBlocks |-> x, votes |-> r.votes]
  BY <1>1
<1> QED
  BY <1>2, <1>3 DEF x, y

\* A fresh replica satisfies its invariant.
LEMMA NewReplicaInv == ReplicaInv(NewReplica)
<1>1. IsTree(NewTree) /\ TreeInv(NewTree)
  BY NewTreeInv DEF TreeInv
<1>2. GenesisHash \in Hash
  BY EmptySeq DEF GenesisHash, Hash
<1> QED
  BY <1>1, <1>2 DEF NewReplica, ReplicaInv, IsReplica

\* Recording the first proposal of an epoch keeps the replica's invariant, its
\* votes, and the statuses of all blocks; what it adds is only present.
LEMMA RecordProposalInv ==
    ASSUME NEW r, ReplicaInv(r), NEW block \in Hash,
           EpochOf(block) \notin DOMAIN r.proposedBlocks
    PROVE  LET s == RecordProposal(r, block)
           IN  /\ ReplicaInv(s)
               /\ block # GenesisHash
               /\ s.votes = r.votes
               /\ DOMAIN s.proposedBlocks = DOMAIN r.proposedBlocks \cup {EpochOf(block)}
               /\ s.proposedBlocks[EpochOf(block)] = block
               /\ \A e \in DOMAIN r.proposedBlocks : s.proposedBlocks[e] = r.proposedBlocks[e]
               /\ DOMAIN r.tree.hbMapping \subseteq DOMAIN s.tree.hbMapping
               /\ \A b \in DOMAIN s.tree.hbMapping :
                     IF b \in DOMAIN r.tree.hbMapping
                     THEN s.tree.hbMapping[b] = r.tree.hbMapping[b]
                     ELSE s.tree.hbMapping[b] = "PRESENT"
               /\ s.tree.deepestNotarized = r.tree.deepestNotarized
               /\ s.tree.deepestFinalized = r.tree.deepestFinalized
<1> DEFINE s == RecordProposal(r, block)
           e == EpochOf(block)
           t == IF IsPresent(r.tree, ParentHash(block))
                THEN AddBlock(r.tree, block) ELSE r.tree
           p == TryEmplace(r.proposedBlocks, e, block)
<1>1. s = [tree |-> t, proposedBlocks |-> p, votes |-> r.votes]
  BY RecordProposalFields DEF ReplicaInv
<1>2. block # GenesisHash /\ e \in Nat
  BY EpochOfNat DEF ReplicaInv, EpochOf
<1>3. /\ DOMAIN p = DOMAIN r.proposedBlocks \cup {e}
      /\ p[e] = block
      /\ \A x \in DOMAIN r.proposedBlocks : p[x] = r.proposedBlocks[x]
      /\ p = [x \in DOMAIN p |-> p[x]]
  BY DEF TryEmplace
<1>4. /\ TreeInv(t)
      /\ DOMAIN r.tree.hbMapping \subseteq DOMAIN t.hbMapping
      /\ \A b \in DOMAIN t.hbMapping :
            IF b \in DOMAIN r.tree.hbMapping
            THEN t.hbMapping[b] = r.tree.hbMapping[b]
            ELSE t.hbMapping[b] = "PRESENT"
      /\ t.deepestNotarized = r.tree.deepestNotarized
      /\ t.deepestFinalized = r.tree.deepestFinalized
  <2>1. CASE IsPresent(r.tree, ParentHash(block))
    <3>1. PICK payload \in Payload : block = BlockHash(ParentHash(block), e, payload)
      BY <1>2, HashOfParts
    <3>2. TreeInv(r.tree) /\ ParentHash(block) \in DOMAIN r.tree.hbMapping
      BY <2>1 DEF IsPresent, ReplicaInv
    <3> DEFINE u == AddBlock(r.tree, block)
    <3>3. /\ TreeInv(u)
          /\ DOMAIN u.hbMapping = DOMAIN r.tree.hbMapping \cup {block}
          /\ \A b \in DOMAIN r.tree.hbMapping : u.hbMapping[b] = r.tree.hbMapping[b]
          /\ block \notin DOMAIN r.tree.hbMapping => u.hbMapping[block] = "PRESENT"
          /\ u.deepestNotarized = r.tree.deepestNotarized
          /\ u.deepestFinalized = r.tree.deepestFinalized
      BY <1>2, <3>1, <3>2, AddBlockInv
    <3>4. t = u
      BY <2>1
    <3> HIDE DEF u, t
    <3> QED
      BY <3>3, <3>4
  <2>2. CASE ~IsPresent(r.tree, ParentHash(block))
    BY <2>2 DEF ReplicaInv
  <2> QED
    BY <2>1, <2>2
<1> HIDE DEF s, t, p, e
<1>5. IsReplica(s)
  <2>1. s.proposedBlocks = [x \in DOMAIN s.proposedBlocks |-> s.proposedBlocks[x]]
    BY <1>1, <1>3
  <2>2. \A x \in DOMAIN s.proposedBlocks : x \in Nat /\ s.proposedBlocks[x] \in Hash
    BY <1>1, <1>2, <1>3 DEF ReplicaInv, IsReplica
  <2>3. IsTree(s.tree) /\ s.votes \subseteq Nat \X Nodes
    BY <1>1, <1>4 DEF ReplicaInv, IsReplica, TreeInv
  <2>4. s = [tree |-> s.tree, proposedBlocks |-> s.proposedBlocks, votes |-> s.votes]
    BY <1>1
  <2> QED
    BY <2>1, <2>2, <2>3, <2>4 DEF IsReplica
<1>6. ReplicaInv(s)
  BY <1>1, <1>3, <1>4, <1>5 DEF ReplicaInv
<1> QED
  BY <1>1, <1>2, <1>3, <1>4, <1>6 DEF s, e

\* Counting a vote, field by field.
LEMMA HandleVoteFields ==
    ASSUME NEW r, IsReplica(r), NEW m, CountsVote(r, m)
    PROVE  LET counted == r.votes \cup {<<EpochOf(m.block), m.from>>}
           IN  HandleVote(r, m) =
                 [ tree           |-> (IF IsQuorum({ v \in Nodes : <<EpochOf(m.block), v>> \in counted })
                                       THEN Notarize(r.tree, m.block) ELSE r.tree),
                   proposedBlocks |-> r.proposedBlocks,
                   votes          |-> counted ]
<1> DEFINE x == r.votes \cup {<<EpochOf(m.block), m.from>>}
           y == Notarize(r.tree, m.block)
           counted == [r EXCEPT !.votes = x]
           Q == IsQuorum({ v \in Nodes : <<EpochOf(m.block), v>> \in x })
<1>1. counted = [tree |-> r.tree, proposedBlocks |-> r.proposedBlocks, votes |-> x]
  <2> HIDE DEF x
  <2> QED
    BY DEF IsReplica
<1>2. Voters(counted, EpochOf(m.block)) = { v \in Nodes : <<EpochOf(m.block), v>> \in x }
  BY <1>1 DEF Voters
<1>3. HandleVote(r, m) = IF Q THEN [counted EXCEPT !.tree = y] ELSE counted
  BY <1>2, Zenon DEF HandleVote
<1> HIDE DEF x, y, counted, Q
<1>4. [counted EXCEPT !.tree = y]
        = [tree |-> y, proposedBlocks |-> r.proposedBlocks, votes |-> x]
  BY <1>1
<1>5. HandleVote(r, m) =
        [tree |-> (IF Q THEN y ELSE r.tree), proposedBlocks |-> r.proposedBlocks, votes |-> x]
  BY <1>1, <1>3, <1>4
<1> QED
  BY <1>5 DEF x, y, Q

\* In the step from r to s block b was notarized, and that finalized its parent.
Justified(r, b, s) ==
    /\ b \in DOMAIN r.tree.hbMapping /\ r.tree.hbMapping[b] = "PRESENT"
    /\ NotarizedIn(s, b)
    /\ 1 \in 1 .. Len(b) /\ s.tree.deepestFinalized = Ancestor(b, 1)

\* A vote changes a replica only if it counts; a block is notarized only by a
\* quorum of votes, and no block loses its status.
LEMMA HandleVoteInv ==
    ASSUME NEW r, ReplicaInv(r), NEW m \in Message
    PROVE  LET s == HandleVote(r, m)
           IN  /\ ReplicaInv(s)
               /\ s.proposedBlocks = r.proposedBlocks
               /\ r.votes \subseteq s.votes
               /\ \/ s.votes = r.votes
                  \/ CountsVote(r, m) /\ s.votes = r.votes \cup {<<EpochOf(m.block), m.from>>}
               /\ DOMAIN s.tree.hbMapping = DOMAIN r.tree.hbMapping
               /\ \A b \in DOMAIN r.tree.hbMapping :
                     /\ r.tree.hbMapping[b] # "PRESENT" => s.tree.hbMapping[b] # "PRESENT"
                     /\ r.tree.hbMapping[b] = "FINALIZED" => s.tree.hbMapping[b] = "FINALIZED"
                     /\ r.tree.hbMapping[b] = "PRESENT" /\ s.tree.hbMapping[b] # "PRESENT"
                          => /\ CountsVote(r, m) /\ b = m.block
                             /\ IsQuorum(Voters(s, EpochOf(b)))
               /\ \/ s.tree.deepestFinalized = r.tree.deepestFinalized
                  \/ Justified(r, m.block, s)
<1> DEFINE s == HandleVote(r, m)
           e == EpochOf(m.block)
           x == r.votes \cup {<<e, m.from>>}
           Q == IsQuorum({ v \in Nodes : <<e, v>> \in x })
           t == IF Q THEN Notarize(r.tree, m.block) ELSE r.tree
<1>1. CASE ~CountsVote(r, m)
  <2>1. s = r
    BY <1>1 DEF HandleVote
  <2> HIDE DEF s
  <2> QED
    BY <2>1 DEF s
<1>2. CASE CountsVote(r, m)
  <2>1. s = [tree |-> t, proposedBlocks |-> r.proposedBlocks, votes |-> x]
    BY <1>2, HandleVoteFields DEF ReplicaInv
  <2>2. /\ TreeInv(r.tree) /\ m.block \in DOMAIN r.tree.hbMapping
        /\ r.tree.hbMapping[m.block] = "PRESENT"
    BY <1>2 DEF ReplicaInv, CountsVote, IsPresent
  <2>3. m.block \in Hash /\ m.from \in Nodes
    BY DEF Message
  <2>4. e \in Nat
    BY <2>3, EpochOfNat
  <2> DEFINE u == Notarize(r.tree, m.block)
  <2>5. /\ TreeInv(u)
        /\ DOMAIN u.hbMapping = DOMAIN r.tree.hbMapping
        /\ u.hbMapping[m.block] = "NOTARIZED"
        /\ \A b \in DOMAIN r.tree.hbMapping \ {m.block} :
              \/ u.hbMapping[b] = r.tree.hbMapping[b]
              \/ r.tree.hbMapping[b] = "NOTARIZED" /\ u.hbMapping[b] = "FINALIZED"
        /\ \/ u.deepestFinalized = r.tree.deepestFinalized
           \/ 1 \in 1 .. Len(m.block) /\ u.deepestFinalized = Ancestor(m.block, 1)
    BY <2>2, NotarizeInv
  <2>6. t = IF Q THEN u ELSE r.tree
    OBVIOUS
  <2> HIDE DEF u, t
  <2>7. /\ TreeInv(t)
        /\ DOMAIN t.hbMapping = DOMAIN r.tree.hbMapping
        /\ \A b \in DOMAIN r.tree.hbMapping :
              /\ r.tree.hbMapping[b] # "PRESENT" => t.hbMapping[b] # "PRESENT"
              /\ r.tree.hbMapping[b] = "FINALIZED" => t.hbMapping[b] = "FINALIZED"
              /\ r.tree.hbMapping[b] = "PRESENT" /\ t.hbMapping[b] # "PRESENT"
                   => b = m.block /\ Q
        /\ \/ t.deepestFinalized = r.tree.deepestFinalized
           \/ /\ t.hbMapping[m.block] = "NOTARIZED"
              /\ 1 \in 1 .. Len(m.block) /\ t.deepestFinalized = Ancestor(m.block, 1)
    <3> HIDE DEF Q
    <3>1. CASE Q
      BY <2>2, <2>5, <2>6, <3>1
    <3>2. CASE ~Q
      BY <2>2, <2>6, <3>2
    <3> QED
      BY <3>1, <3>2
  <2> HIDE DEF s
  <2>8. Q => IsQuorum(Voters(s, e))
    BY <2>1 DEF Voters
  <2> HIDE DEF Q
  <2>9. IsReplica(s)
    <3> HIDE DEF e
    <3>1. IsTree(s.tree)
      BY <2>1, <2>7 DEF TreeInv
    <3>2. s.votes \subseteq Nat \X Nodes
      BY <2>1, <2>3, <2>4 DEF ReplicaInv, IsReplica
    <3>3. s = [tree |-> s.tree, proposedBlocks |-> s.proposedBlocks, votes |-> s.votes]
      BY <2>1
    <3>4. s.proposedBlocks = r.proposedBlocks
      BY <2>1
    <3> QED
      BY <3>1, <3>2, <3>3, <3>4 DEF ReplicaInv, IsReplica
  <2>10. ReplicaInv(s)
    BY <2>1, <2>7, <2>9 DEF ReplicaInv
  <2>11. \/ s.tree.deepestFinalized = r.tree.deepestFinalized
         \/ Justified(r, m.block, s)
    BY <2>1, <2>2, <2>7 DEF Justified, NotarizedIn, IsPresent
  <2>12. /\ s.proposedBlocks = r.proposedBlocks
         /\ s.votes = r.votes \cup {<<e, m.from>>}
         /\ s.tree = t
    BY <2>1
  <2> QED
    BY <1>2, <2>1, <2>7, <2>8, <2>10, <2>11, <2>12 DEF s
<1> QED
  BY <1>1, <1>2

-----------------------------------------------------------------------------
\* What delivering m to the owner v of replica r may do to it: recorded
\* proposals, votes, notarizations and finalizations stay; a newly recorded
\* proposal or vote is the message itself; a newly notarized block is the
\* recorded one and has a quorum; another block is deepestFinalized only
\* because a block on it was notarized.
ReplicaStep(v, r, m, s) ==
    /\ ReplicaInv(s)
    /\ \A e \in DOMAIN r.proposedBlocks :
          e \in DOMAIN s.proposedBlocks /\ s.proposedBlocks[e] = r.proposedBlocks[e]
    /\ \A e \in DOMAIN s.proposedBlocks \ DOMAIN r.proposedBlocks :
          m.type = "PROPOSAL" /\ m.to = v /\ e = EpochOf(m.block) /\ m.from = GetLeader(e)
    /\ r.votes \subseteq s.votes
    /\ \A vote \in s.votes \ r.votes :
          /\ m.type = "VOTE" /\ m.to = v /\ vote = <<EpochOf(m.block), m.from>>
          /\ EpochOf(m.block) \in DOMAIN s.proposedBlocks
          /\ s.proposedBlocks[EpochOf(m.block)] = m.block
    /\ \A b \in DOMAIN r.tree.hbMapping : NotarizedIn(r, b) => NotarizedIn(s, b)
    /\ \A b \in DOMAIN s.tree.hbMapping :
          NotarizedIn(s, b) =>
             \/ NotarizedIn(r, b)
             \/ /\ EpochOf(b) \in DOMAIN s.proposedBlocks
                /\ s.proposedBlocks[EpochOf(b)] = b
                /\ IsQuorum(Voters(s, EpochOf(b)))
    /\ \A b \in DOMAIN r.tree.hbMapping :
          r.tree.hbMapping[b] = "FINALIZED"
             => b \in DOMAIN s.tree.hbMapping /\ s.tree.hbMapping[b] = "FINALIZED"
    /\ \/ s.tree.deepestFinalized = r.tree.deepestFinalized
       \/ m.type = "VOTE" /\ Justified(r, m.block, s)

\* Doing nothing is such a step.
LEMMA NoReplicaStep ==
    ASSUME NEW v, NEW r, ReplicaInv(r), NEW m
    PROVE  ReplicaStep(v, r, m, r)
BY DEF ReplicaStep

\* A first proposal changes no vote and notarizes nothing (HonestNode::handlePropose).
LEMMA RecordProposalStep ==
    ASSUME NEW v, NEW r, ReplicaInv(r), NEW m \in Message,
           m.type = "PROPOSAL", m.to = v, AcceptsProposal(r, m)
    PROVE  ReplicaStep(v, r, m, RecordProposal(r, m.block))
<1> DEFINE s == RecordProposal(r, m.block)
<1>1. m.block \in Hash /\ EpochOf(m.block) \notin DOMAIN r.proposedBlocks
      /\ m.from = GetLeader(EpochOf(m.block))
  BY DEF Message, AcceptsProposal
<1>2. /\ ReplicaInv(s)
      /\ s.votes = r.votes
      /\ DOMAIN s.proposedBlocks = DOMAIN r.proposedBlocks \cup {EpochOf(m.block)}
      /\ \A e \in DOMAIN r.proposedBlocks : s.proposedBlocks[e] = r.proposedBlocks[e]
      /\ DOMAIN r.tree.hbMapping \subseteq DOMAIN s.tree.hbMapping
      /\ \A b \in DOMAIN s.tree.hbMapping :
            IF b \in DOMAIN r.tree.hbMapping
            THEN s.tree.hbMapping[b] = r.tree.hbMapping[b]
            ELSE s.tree.hbMapping[b] = "PRESENT"
      /\ s.tree.deepestFinalized = r.tree.deepestFinalized
  BY <1>1, RecordProposalInv
<1> HIDE DEF s
<1>3. \A b \in DOMAIN r.tree.hbMapping : NotarizedIn(r, b) => NotarizedIn(s, b)
  BY <1>2 DEF NotarizedIn, IsPresent
<1>4. \A b \in DOMAIN s.tree.hbMapping : NotarizedIn(s, b) => NotarizedIn(r, b)
  BY <1>2 DEF NotarizedIn, IsPresent
<1>5. ReplicaStep(v, r, m, s)
  BY <1>1, <1>2, <1>3, <1>4 DEF ReplicaStep
<1> QED
  BY <1>5 DEF s

\* Counting a vote notarizes at most the recorded block of its epoch, on a quorum.
LEMMA HandleVoteStep ==
    ASSUME NEW v, NEW r, ReplicaInv(r), NEW m \in Message, m.type = "VOTE", m.to = v
    PROVE  ReplicaStep(v, r, m, HandleVote(r, m))
<1> DEFINE s == HandleVote(r, m)
<1>1. /\ ReplicaInv(s)
      /\ s.proposedBlocks = r.proposedBlocks
      /\ r.votes \subseteq s.votes
      /\ \/ s.votes = r.votes
         \/ CountsVote(r, m) /\ s.votes = r.votes \cup {<<EpochOf(m.block), m.from>>}
      /\ DOMAIN s.tree.hbMapping = DOMAIN r.tree.hbMapping
      /\ \A b \in DOMAIN r.tree.hbMapping :
            /\ r.tree.hbMapping[b] # "PRESENT" => s.tree.hbMapping[b] # "PRESENT"
            /\ r.tree.hbMapping[b] = "FINALIZED" => s.tree.hbMapping[b] = "FINALIZED"
            /\ r.tree.hbMapping[b] = "PRESENT" /\ s.tree.hbMapping[b] # "PRESENT"
                 => /\ CountsVote(r, m) /\ b = m.block
                    /\ IsQuorum(Voters(s, EpochOf(b)))
      /\ \/ s.tree.deepestFinalized = r.tree.deepestFinalized
         \/ Justified(r, m.block, s)
  BY HandleVoteInv
<1> HIDE DEF s
<1>2. CountsVote(r, m) => /\ EpochOf(m.block) \in DOMAIN s.proposedBlocks
                          /\ s.proposedBlocks[EpochOf(m.block)] = m.block
  BY <1>1 DEF CountsVote
<1>3. \A vote \in s.votes \ r.votes :
         vote = <<EpochOf(m.block), m.from>> /\ CountsVote(r, m)
  BY <1>1
<1>4. \A b \in DOMAIN r.tree.hbMapping : NotarizedIn(r, b) => NotarizedIn(s, b)
  BY <1>1 DEF NotarizedIn, IsPresent
<1>5. \A b \in DOMAIN s.tree.hbMapping :
         NotarizedIn(s, b) =>
            \/ NotarizedIn(r, b)
            \/ CountsVote(r, m) /\ b = m.block /\ IsQuorum(Voters(s, EpochOf(b)))
  BY <1>1 DEF NotarizedIn, IsPresent
<1>6. ReplicaStep(v, r, m, s)
  BY <1>1, <1>2, <1>3, <1>4, <1>5 DEF ReplicaStep
<1> QED
  BY <1>6 DEF s

-----------------------------------------------------------------------------
\* A node answers a proposal with votes for its block and a vote with nothing.
AnswersTo(v, m) ==
    IF m.type = "PROPOSAL" THEN Seq(EnvelopesOf(v, "VOTE", {m.block})) ELSE { << >> }

\* Such an answer consists of vote envelopes, also if it is empty.
LEMMA AnswerEnvelopes ==
    ASSUME NEW v, NEW m, NEW out \in AnswersTo(v, m)
    PROVE  out \in Seq(EnvelopesOf(v, "VOTE", {m.block}))
BY EmptySeq DEF AnswersTo

\* The messages of an answer are votes in the name of the node.
LEMMA AnswerVotes ==
    ASSUME NEW v \in Nodes, NEW m \in Message, NEW out \in AnswersTo(v, m),
           NEW w \in Messages(out)
    PROVE  w \in Message /\ w.from = v /\ w.type = "VOTE" /\ w.block = m.block
<1>1. {m.block} \in SUBSET Hash
  BY DEF Message
<1>2. out \in Seq(EnvelopesOf(v, "VOTE", {m.block}))
  BY AnswerEnvelopes
<1> QED
  BY <1>1, <1>2, SentBy

\* A vote w that node v, whose replica goes from r to s, may send.
VoteStep(v, r, s, w) ==
    /\ w \in Message /\ w.from = v /\ w.type = "VOTE"
    /\ w.block # GenesisHash
    /\ EpochOf(w.block) \in DOMAIN s.proposedBlocks
    /\ s.proposedBlocks[EpochOf(w.block)] = w.block
    /\ NotarizedIn(s, ParentHash(w.block))
    /\ Len(w.block) = Len(r.tree.deepestNotarized) + 1

\* What an honest node does with a message: one of the steps above, and the
\* only messages it sends are votes for the block it has just recorded.
LEMMA HonestAnswer ==
    ASSUME NEW v \in Nodes, NEW r, ReplicaInv(r), NEW m \in Message
    PROVE  LET answer == HonestOnMessageReceive(v, r, m)
           IN  /\ ReplicaStep(v, r, m, answer.replica)
               /\ answer.out \in AnswersTo(v, m)
               /\ \A w \in Messages(answer.out) : VoteStep(v, r, answer.replica, w)
<1> DEFINE answer == HonestOnMessageReceive(v, r, m)
<1>0. Messages(<< >>) = {} /\ << >> \in AnswersTo(v, m)
  BY EmptySeq DEF Messages, AnswersTo
<1>1. CASE m.to # v
  BY <1>0, <1>1, NoReplicaStep DEF HonestOnMessageReceive
<1>2. CASE m.to = v /\ m.type # "PROPOSAL"
  <2>1. m.type = "VOTE"
    BY <1>2 DEF Message
  <2>2. answer = [replica |-> HandleVote(r, m), out |-> << >>]
    BY <1>2 DEF HonestOnMessageReceive
  <2>3. ReplicaStep(v, r, m, HandleVote(r, m))
    BY <1>2, <2>1, HandleVoteStep
  <2> HIDE DEF answer
  <2> QED
    BY <1>0, <2>2, <2>3 DEF answer
<1>3. CASE m.to = v /\ m.type = "PROPOSAL" /\ ~AcceptsProposal(r, m)
  BY <1>0, <1>3, NoReplicaStep DEF HonestOnMessageReceive, HonestHandlePropose
<1>4. CASE m.to = v /\ m.type = "PROPOSAL" /\ AcceptsProposal(r, m)
  <2> DEFINE s == RecordProposal(r, m.block)
             votes == << Envelope(v, Nodes, "VOTE", m.block) >>
             D == IsDeepestNotarized(s.tree, ParentHash(m.block))
  <2>1. answer = [replica |-> s, out |-> IF D THEN votes ELSE << >>]
    BY <1>4 DEF HonestOnMessageReceive, HonestHandlePropose
  <2>2. EpochOf(m.block) \notin DOMAIN r.proposedBlocks /\ m.block \in Hash
    BY <1>4 DEF AcceptsProposal, Message
  <2>3. ReplicaStep(v, r, m, s)
    BY <1>4, RecordProposalStep
  <2>4. /\ ReplicaInv(s)
        /\ m.block # GenesisHash
        /\ EpochOf(m.block) \in DOMAIN s.proposedBlocks
        /\ s.proposedBlocks[EpochOf(m.block)] = m.block
        /\ s.tree.deepestNotarized = r.tree.deepestNotarized
    BY <2>2, RecordProposalInv
  <2>5. votes \in AnswersTo(v, m)
    <3>1. Envelope(v, Nodes, "VOTE", m.block) \in EnvelopesOf(v, "VOTE", {m.block})
      BY EnvelopeOf DEF ReceiverSets
    <3> QED
      BY <1>4, <3>1 DEF AnswersTo
  <2>6. D => /\ NotarizedIn(s, ParentHash(m.block))
             /\ Len(m.block) = Len(r.tree.deepestNotarized) + 1
    <3> SUFFICES ASSUME D PROVE /\ NotarizedIn(s, ParentHash(m.block))
                               /\ Len(m.block) = Len(r.tree.deepestNotarized) + 1
      OBVIOUS
    <3> HIDE DEF s
    <3>1. /\ ParentHash(m.block) \in DOMAIN s.tree.hbMapping
          /\ s.tree.hbMapping[ParentHash(m.block)] # "PRESENT"
          /\ s.tree.depths[ParentHash(m.block)] = s.tree.depths[s.tree.deepestNotarized]
      BY DEF IsDeepestNotarized, IsPresent
    <3>2. /\ s.tree.depths[ParentHash(m.block)] = Len(ParentHash(m.block))
          /\ s.tree.depths[s.tree.deepestNotarized] = Len(s.tree.deepestNotarized)
      BY <2>4, <3>1 DEF ReplicaInv, TreeInv, RootedAtGenesis, IsTree
    <3>3. Len(ParentHash(m.block)) = Len(m.block) - 1 /\ Len(m.block) \in Nat
      BY <2>2, <2>4, HashOfParts, AncestorHash
    <3>4. NotarizedIn(s, ParentHash(m.block))
      BY <3>1 DEF NotarizedIn, IsPresent
    <3>5. Len(ParentHash(m.block)) = Len(s.tree.deepestNotarized)
      BY <3>1, <3>2
    <3>6. Len(r.tree.deepestNotarized) = Len(m.block) - 1
      BY <2>4, <3>3, <3>5
    <3> QED
      BY <3>3, <3>4, <3>6
  <2> HIDE DEF answer, s, votes, D
  <2>7. answer.out \in AnswersTo(v, m)
    BY <1>0, <2>1, <2>5
  <2>8. ASSUME NEW w \in Messages(answer.out) PROVE VoteStep(v, r, s, w)
    <3>1. D
      BY <1>0, <2>1
    <3> DEFINE out == answer.out
    <3>2. out \in AnswersTo(v, m) /\ w \in Messages(out)
      BY <2>7
    <3> HIDE DEF out
    <3>3. w \in Message /\ w.from = v /\ w.type = "VOTE" /\ w.block = m.block
      BY <3>2, AnswerVotes
    <3> QED
      BY <2>4, <2>6, <3>1, <3>3 DEF VoteStep
  <2> QED
    BY <2>1, <2>3, <2>7, <2>8 DEF answer
<1> QED
  BY <1>1, <1>2, <1>3, <1>4

-----------------------------------------------------------------------------
\* Rounds belong to epochs.
LEMMA GetEpochNat == ASSUME NEW round \in Nat PROVE GetEpoch(round) \in Nat
<1>1. EpochLength \in Nat /\ EpochLength > 0
  BY CountsAssumption
<1>2. round \div EpochLength \in Nat
  BY <1>1
<1> QED
  BY <1>2 DEF GetEpoch

\* The next round belongs to the same epoch or a later one.
LEMMA GetEpochGrows ==
    ASSUME NEW round \in Nat
    PROVE  GetEpoch(round) <= GetEpoch(round + 1)
<1>1. EpochLength \in Nat /\ EpochLength > 0
  BY CountsAssumption
<1>2. round \div EpochLength <= (round + 1) \div EpochLength
  BY <1>1, Z3
<1> QED
  BY <1>1, <1>2, GetEpochNat DEF GetEpoch

\* The blocks of one epoch.
BlocksOf(epoch) == { b \in Hash : EpochOf(b) = epoch }

\* A leader proposes one block on top of a deepest notarized one.
LEMMA ProposalHash ==
    ASSUME NEW r, ReplicaInv(r), NEW round \in Nat, NEW payload \in Payload
    PROVE  BlockHash(r.tree.deepestNotarized, GetEpoch(round), payload)
             \in BlocksOf(GetEpoch(round))
<1>1. r.tree.deepestNotarized \in Hash
  BY DEF ReplicaInv, TreeInv, IsTree
<1> QED
  BY <1>1, GetEpochNat, BlockHashAncestors DEF BlocksOf

\* What a node may hand over when it is told the time: proposals of the epoch
\* of the round, if it is the epoch's leader and this its first round.
ProposalsOf(v, round) ==
    Seq(EnvelopesOf(v, "PROPOSAL", BlocksOf(GetEpoch(round))))

\* What is filed of it are proposals in the leader's name.
LEMMA ProposalMessages ==
    ASSUME NEW v \in Nodes, NEW round, NEW out \in ProposalsOf(v, round),
           NEW w \in Messages(out)
    PROVE  /\ w \in Message /\ w.from = v /\ w.type = "PROPOSAL"
           /\ EpochOf(w.block) = GetEpoch(round)
<1>1. BlocksOf(GetEpoch(round)) \in SUBSET Hash
  BY DEF BlocksOf
<1>2. w \in Message /\ w.from = v /\ w.type = "PROPOSAL" /\ w.block \in BlocksOf(GetEpoch(round))
  BY <1>1, SentBy DEF ProposalsOf
<1> QED
  BY <1>2 DEF BlocksOf

\* An honest leader sends proposals under its own name (HonestNode::atTime).
LEMMA HonestAtTimeSends ==
    ASSUME NEW v \in Nodes, NEW r, ReplicaInv(r), NEW round \in Nat, NEW payload \in Payload
    PROVE  LET out == HonestAtTime(v, r, round, payload)
           IN  /\ out \in ProposalsOf(v, round)
               /\ out # << >> => IsEpochStart(round) /\ GetLeader(GetEpoch(round)) = v
<1> DEFINE out == HonestAtTime(v, r, round, payload)
           block == BlockHash(r.tree.deepestNotarized, GetEpoch(round), payload)
<1>1. block \in BlocksOf(GetEpoch(round))
  BY ProposalHash
<1> HIDE DEF block
<1> DEFINE e == Envelope(v, Nodes, "PROPOSAL", block)
<1>2. e \in EnvelopesOf(v, "PROPOSAL", BlocksOf(GetEpoch(round)))
  BY <1>1, EnvelopeOf DEF ReceiverSets
<1>3. \/ out = << e >> /\ IsEpochStart(round) /\ GetLeader(GetEpoch(round)) = v
      \/ out = << >>
  BY DEF HonestAtTime, block
<1> HIDE DEF out, e
<1>4. out \in ProposalsOf(v, round)
  <2>1. << e >> \in ProposalsOf(v, round) /\ << >> \in ProposalsOf(v, round)
    BY <1>2 DEF ProposalsOf
  <2> QED
    BY <1>3, <2>1, Zenon
<1> QED
  BY <1>3, <1>4 DEF out

\* A dishonest node whose two replicas are in order.
DishonestInv(d) == IsDishonest(d) /\ \A k \in 0 .. 1 : ReplicaInv(d.faces[k])

\* So does a dishonest one (DishonestNode::atTime).
LEMMA DishonestAtTimeSends ==
    ASSUME NEW v \in Nodes, NEW d, DishonestInv(d), NEW round \in Nat,
           NEW payload \in [0 .. 1 -> Payload]
    PROVE  LET out == DishonestAtTime(v, d, round, payload)
           IN  /\ out \in ProposalsOf(v, round)
               /\ out # << >> => IsEpochStart(round) /\ GetLeader(GetEpoch(round)) = v
<1> DEFINE part(k) == PreparePropose(v, d, GetEpoch(round), k, payload[k])
           out == DishonestAtTime(v, d, round, payload)
<1>1. ASSUME NEW k \in 0 .. 1 PROVE part(k) \in ProposalsOf(v, round)
  <2> DEFINE block == BlockHash(d.faces[k].tree.deepestNotarized, GetEpoch(round), payload[k])
             E == EnvelopesOf(v, "PROPOSAL", BlocksOf(GetEpoch(round)))
  <2>1. block \in BlocksOf(GetEpoch(round))
    BY ProposalHash DEF DishonestInv
  <2>2. part(k) = << Envelope(v, HonestNodesFractions(k), "PROPOSAL", block),
                     Envelope(v, DishonestNodes, "PROPOSAL", block) >>
    BY DEF PreparePropose
  <2> HIDE DEF block, part
  <2>3. /\ Envelope(v, HonestNodesFractions(k), "PROPOSAL", block) \in E
        /\ Envelope(v, DishonestNodes, "PROPOSAL", block) \in E
    BY <2>1, EnvelopeOf DEF ReceiverSets
  <2> HIDE DEF E
  <2>4. part(k) \in Seq(E)
    BY <2>2, <2>3
  <2> QED
    BY <2>4 DEF E, ProposalsOf
<1>2. \/ out = part(0) \o part(1) /\ IsEpochStart(round) /\ GetLeader(GetEpoch(round)) = v
      \/ out = << >>
  BY DEF DishonestAtTime
<1> HIDE DEF part, out
<1>3. out \in ProposalsOf(v, round)
  <2>1. part(0) \in ProposalsOf(v, round) /\ part(1) \in ProposalsOf(v, round)
    BY <1>1
  <2>2. part(0) \o part(1) \in ProposalsOf(v, round) /\ << >> \in ProposalsOf(v, round)
    BY <2>1, ConcatProperties, EmptySeq DEF ProposalsOf
  <2> QED
    BY <1>2, <2>2, Zenon
<1> QED
  BY <1>2, <1>3 DEF out

\* Each face keeps its replica in order whichever proposal it is given.
LEMMA FaceProposal ==
    ASSUME NEW v \in Nodes, NEW d, DishonestInv(d), NEW m \in Message, m.type = "PROPOSAL",
           NEW mischief \in BOOLEAN, NEW k \in 0 .. 1
    PROVE  LET a == DishonestHandlePropose(v, d, m, mischief, k)
           IN  ReplicaInv(a.replica) /\ a.out \in AnswersTo(v, m)
<1> DEFINE a == DishonestHandlePropose(v, d, m, mischief, k)
           r == d.faces[k]
           s == RecordProposal(r, m.block)
           E == EnvelopesOf(v, "VOTE", {m.block})
<1>1. m.block \in Hash /\ ReplicaInv(r)
  BY DEF Message, DishonestInv
<1>2. AnswersTo(v, m) = Seq(E)
  BY DEF AnswersTo
<1>3. CASE ~AcceptsProposal(r, m) \/ (mischief /\ k # Turn(d))
  <2>1. a = [replica |-> r, out |-> << >>]
    BY <1>3 DEF DishonestHandlePropose
  <2> HIDE DEF a
  <2> QED
    BY <1>1, <1>2, <2>1, EmptySeq DEF a
<1>4. CASE AcceptsProposal(r, m) /\ ~(mischief /\ k # Turn(d))
  <2> DEFINE both == << Envelope(v, HonestNodesFractions(k), "VOTE", m.block),
                        Envelope(v, DishonestNodes, "VOTE", m.block) >>
             all == << Envelope(v, Nodes, "VOTE", m.block) >>
  <2>1. /\ a.replica = s
        /\ a.out = << >> \/ a.out = both \/ a.out = all
    BY <1>4 DEF DishonestHandlePropose
  <2>2. ReplicaInv(s)
    BY <1>1, <1>4, RecordProposalInv DEF AcceptsProposal
  <2>3. /\ Envelope(v, HonestNodesFractions(k), "VOTE", m.block) \in E
        /\ Envelope(v, DishonestNodes, "VOTE", m.block) \in E
        /\ Envelope(v, Nodes, "VOTE", m.block) \in E
    BY EnvelopeOf DEF ReceiverSets
  <2>4. both \in Seq(E) /\ all \in Seq(E)
    BY <2>3
  <2> HIDE DEF a, s, both, all, E
  <2>5. << >> \in Seq(E)
    BY EmptySeq
  <2>6. ReplicaInv(a.replica) /\ a.out \in Seq(E)
    BY <2>1, <2>2, <2>4, <2>5, Zenon
  <2> QED
    BY <1>2, <2>6 DEF a
<1> QED
  BY <1>3, <1>4

\* A dishonest node, too, stays in order and answers proposals with votes.
LEMMA DishonestAnswer ==
    ASSUME NEW v \in Nodes, NEW d, DishonestInv(d), NEW m \in Message
    PROVE  LET answer == DishonestOnMessageReceive(v, d, m)
           IN  DishonestInv(answer.node) /\ answer.out \in AnswersTo(v, m)
<1> DEFINE a == DishonestOnMessageReceive(v, d, m)
           mischief == m.type = "PROPOSAL" /\ m.from \in DishonestNodes
           f == [k \in 0 .. 1 |->
                    IF m.type = "PROPOSAL"
                    THEN DishonestHandlePropose(v, d, m, mischief, k)
                    ELSE [replica |-> HandleVote(d.faces[k], m), out |-> << >>]]
           first == IF mischief THEN ~d.firstHalf ELSE d.firstHalf
<1>0. << >> \in AnswersTo(v, m)
  BY EmptySeq DEF AnswersTo
<1>1. CASE m.to # v
  <2>1. a = [node |-> d, out |-> << >>]
    BY <1>1 DEF DishonestOnMessageReceive
  <2> HIDE DEF a
  <2> QED
    BY <1>0, <2>1 DEF a
<1>2. CASE m.to = v
  <2>1. /\ a.node = [ faces |-> [k \in 0 .. 1 |-> f[k].replica], firstHalf |-> first ]
        /\ a.out = f[0].out \/ a.out = f[1].out
    BY <1>2 DEF DishonestOnMessageReceive
  <2>2. ASSUME NEW k \in 0 .. 1
        PROVE  ReplicaInv(f[k].replica) /\ f[k].out \in AnswersTo(v, m)
    <3>1. CASE m.type = "PROPOSAL"
      <4>1. f[k] = DishonestHandlePropose(v, d, m, mischief, k) /\ mischief \in BOOLEAN
        BY <3>1
      <4> HIDE DEF f, mischief
      <4> QED
        BY <3>1, <4>1, FaceProposal
    <3>2. CASE m.type # "PROPOSAL"
      <4>1. f[k] = [replica |-> HandleVote(d.faces[k], m), out |-> << >>]
        BY <3>2
      <4>2. ReplicaInv(HandleVote(d.faces[k], m))
        BY HandleVoteInv DEF DishonestInv
      <4> HIDE DEF f
      <4> QED
        BY <1>0, <4>1, <4>2
    <3> QED
      BY <3>1, <3>2
  <2>3. first \in BOOLEAN
    BY DEF DishonestInv, IsDishonest
  <2> HIDE DEF f, first, a
  <2>4. \A k \in 0 .. 1 : a.node.faces[k] = f[k].replica
    BY <2>1
  <2>5. DishonestInv(a.node)
    <3>1. IsReplica(a.node.faces[0]) /\ IsReplica(a.node.faces[1])
      BY <2>2, <2>4 DEF ReplicaInv
    <3>2. /\ a.node = [faces |-> a.node.faces, firstHalf |-> a.node.firstHalf]
          /\ a.node.faces = [k \in 0 .. 1 |-> a.node.faces[k]]
          /\ a.node.firstHalf \in BOOLEAN
      BY <2>1, <2>3
    <3> QED
      BY <2>2, <2>4, <3>1, <3>2 DEF DishonestInv, IsDishonest
  <2>6. a.out \in AnswersTo(v, m)
    BY <2>1, <2>2
  <2> QED
    BY <2>5, <2>6 DEF a
<1> QED
  BY <1>1, <1>2

-----------------------------------------------------------------------------
(* What holds of all nodes together, whichever scheduler moves the messages *)
(* between them: h is the replica of each honest node, d the state of each  *)
(* dishonest one and s the set of messages sent so far.                     *)

\* What a vote says is kept by its sender, if that is an honest node.
VotesStand(h, s) ==
    \A m \in s :
        m.type = "VOTE" /\ m.from \in HonestNodes
           => /\ EpochOf(m.block) \in DOMAIN h[m.from].proposedBlocks
              /\ h[m.from].proposedBlocks[EpochOf(m.block)] = m.block
              /\ m.block # GenesisHash
              /\ NotarizedIn(h[m.from], ParentHash(m.block))

\* Counted votes were sent, for the block recorded.
CountedWereSent(h, s) ==
    \A v \in HonestNodes : \A vote \in h[v].votes :
        /\ vote[1] \in DOMAIN h[v].proposedBlocks
        /\ [ from |-> vote[2], to |-> v, type |-> "VOTE",
             block |-> h[v].proposedBlocks[vote[1]] ] \in s

\* A notarized block is the recorded one and has a quorum of votes.
QuorumBehind(h) ==
    \A v \in HonestNodes : \A b \in DOMAIN h[v].tree.hbMapping :
        NotarizedIn(h[v], b) /\ b # GenesisHash
           => /\ EpochOf(b) \in DOMAIN h[v].proposedBlocks
              /\ h[v].proposedBlocks[EpochOf(b)] = b
              /\ IsQuorum(Voters(h[v], EpochOf(b)))

\* The invariant of the nodes.
NodesInv(h, d, s) ==
    /\ h = [v \in HonestNodes |-> h[v]]
    /\ d = [v \in DishonestNodes |-> d[v]]
    /\ \A v \in HonestNodes : ReplicaInv(h[v])
    /\ \A v \in DishonestNodes : DishonestInv(d[v])
    /\ \A m \in s : m \in Message /\ m.from \in HonestNodes \cup DishonestNodes
    /\ VotesStand(h, s)
    /\ CountedWereSent(h, s)
    /\ QuorumBehind(h)

\* It holds of fresh nodes.
LEMMA FreshNodes ==
    NodesInv([v \in HonestNodes |-> NewReplica], [v \in DishonestNodes |-> NewDishonest], {})
<1> DEFINE h == [v \in HonestNodes |-> NewReplica]
           d == [v \in DishonestNodes |-> NewDishonest]
<1>1. ReplicaInv(NewReplica) /\ IsReplica(NewReplica)
  BY NewReplicaInv DEF ReplicaInv
<1>2. DishonestInv(NewDishonest)
  BY <1>1 DEF NewDishonest, IsDishonest, DishonestInv
<1>3. VotesStand(h, {})
  BY DEF VotesStand
<1>4. CountedWereSent(h, {})
  BY DEF CountedWereSent, NewReplica
<1>5. QuorumBehind(h)
  <2>1. \A b \in DOMAIN NewReplica.tree.hbMapping : b = GenesisHash
    BY DEF NewReplica, NewTree
  <2> QED
    BY <2>1 DEF QuorumBehind
<1> QED
  BY <1>1, <1>2, <1>3, <1>4, <1>5 DEF NodesInv

\* New proposals change nothing the invariant speaks of (IScheduler's broadcast
\* of the time).
LEMMA NodesPropose ==
    ASSUME NEW h, NEW d, NEW s, NodesInv(h, d, s), NEW P,
           \A w \in P : /\ w \in Message /\ w.type = "PROPOSAL"
                        /\ w.from \in HonestNodes \cup DishonestNodes
    PROVE  NodesInv(h, d, s \cup P)
<1>1. VotesStand(h, s \cup P)
  BY DEF NodesInv, VotesStand
<1>2. CountedWereSent(h, s \cup P)
  BY DEF NodesInv, CountedWereSent
<1> QED
  BY <1>1, <1>2 DEF NodesInv

\* A delivery to an honest node is a step of its replica (HonestAnswer); what
\* it recorded, counted, notarized and voted for stays with it.
LEMMA NodesHonestStep ==
    ASSUME NEW h, NEW d, NEW s, NodesInv(h, d, s), NEW m \in s, m.to \in HonestNodes
    PROVE  LET a  == HonestOnMessageReceive(m.to, h[m.to], m)
               h2 == [h EXCEPT ![m.to] = a.replica]
           IN  /\ NodesInv(h2, d, s \cup Messages(a.out))
               /\ ReplicaStep(m.to, h[m.to], m, a.replica)
               /\ a.out \in AnswersTo(m.to, m)
               /\ \A w \in Messages(a.out) : VoteStep(m.to, h[m.to], a.replica, w)
<1> DEFINE v == m.to
           r == h[v]
           a == HonestOnMessageReceive(v, r, m)
           q == a.replica
           h2 == [h EXCEPT ![v] = q]
           s2 == s \cup Messages(a.out)
<1>1. v \in HonestNodes /\ v \in Nodes /\ m \in Message /\ ReplicaInv(r)
  BY NodeSets DEF NodesInv
<1>2. /\ ReplicaStep(v, r, m, q)
      /\ a.out \in AnswersTo(v, m)
      /\ \A w \in Messages(a.out) : VoteStep(v, r, q, w)
  BY <1>1, HonestAnswer
<1>3. h = [x \in HonestNodes |-> h[x]]
  BY DEF NodesInv
<1> HIDE DEF a, q
<1>4. /\ h2[v] = q /\ s \subseteq s2
      /\ \A x \in HonestNodes : x # v => h2[x] = h[x]
      /\ h2 = [x \in HonestNodes |-> h2[x]]
  BY <1>1, <1>3
<1>5. \A w \in s2 \ s : VoteStep(v, r, q, w)
  BY <1>2
<1> HIDE DEF r, v, h2, s2
<1>6. /\ ReplicaInv(q)
      /\ \A x \in HonestNodes : ReplicaInv(h2[x])
      /\ \A x \in HonestNodes : \A e \in DOMAIN h[x].proposedBlocks :
            /\ e \in DOMAIN h2[x].proposedBlocks
            /\ h2[x].proposedBlocks[e] = h[x].proposedBlocks[e]
      /\ \A x \in HonestNodes : \A b \in DOMAIN h[x].tree.hbMapping :
            NotarizedIn(h[x], b) => NotarizedIn(h2[x], b)
  BY <1>2, <1>4 DEF NodesInv, ReplicaStep, r
<1>7. \A w \in s2 : w \in Message /\ w.from \in HonestNodes \cup DishonestNodes
  BY <1>1, <1>5 DEF NodesInv, VoteStep
<1>8. VotesStand(h2, s2)
  <2> SUFFICES ASSUME NEW w \in s2, w.type = "VOTE", w.from \in HonestNodes
               PROVE  /\ EpochOf(w.block) \in DOMAIN h2[w.from].proposedBlocks
                      /\ h2[w.from].proposedBlocks[EpochOf(w.block)] = w.block
                      /\ w.block # GenesisHash
                      /\ NotarizedIn(h2[w.from], ParentHash(w.block))
    BY DEF VotesStand
  <2>1. CASE w \in s
    <3>1. /\ EpochOf(w.block) \in DOMAIN h[w.from].proposedBlocks
          /\ h[w.from].proposedBlocks[EpochOf(w.block)] = w.block
          /\ w.block # GenesisHash
          /\ NotarizedIn(h[w.from], ParentHash(w.block))
      BY <2>1 DEF NodesInv, VotesStand
    <3>2. ParentHash(w.block) \in DOMAIN h[w.from].tree.hbMapping
      BY <3>1 DEF NotarizedIn, IsPresent
    <3> QED
      BY <1>6, <3>1, <3>2
  <2>2. CASE w \notin s
    BY <1>4, <1>5, <2>2 DEF VoteStep
  <2> QED
    BY <2>1, <2>2
<1>9. CountedWereSent(h2, s2)
  <2> SUFFICES ASSUME NEW x \in HonestNodes, NEW vote \in h2[x].votes
               PROVE  /\ vote[1] \in DOMAIN h2[x].proposedBlocks
                      /\ [ from |-> vote[2], to |-> x, type |-> "VOTE",
                           block |-> h2[x].proposedBlocks[vote[1]] ] \in s2
    BY DEF CountedWereSent
  <2>1. CASE vote \in h[x].votes
    BY <1>4, <1>6, <2>1 DEF NodesInv, CountedWereSent
  <2>2. CASE vote \notin h[x].votes
    <3>1. x = v /\ vote \in q.votes \ r.votes
      BY <1>4, <2>2 DEF r
    <3>2. /\ m.type = "VOTE" /\ m.to = v /\ vote = <<EpochOf(m.block), m.from>>
          /\ EpochOf(m.block) \in DOMAIN q.proposedBlocks
          /\ q.proposedBlocks[EpochOf(m.block)] = m.block
      BY <1>2, <3>1 DEF ReplicaStep
    <3>3. m = [from |-> m.from, to |-> v, type |-> "VOTE", block |-> m.block]
      BY <1>1, <3>2 DEF Message
    <3>4. vote[1] = EpochOf(m.block) /\ vote[2] = m.from
      BY <3>2
    <3>5. h2[x].proposedBlocks = q.proposedBlocks
      BY <1>4, <3>1
    <3> QED
      BY <1>4, <3>1, <3>2, <3>3, <3>4, <3>5
  <2> QED
    BY <2>1, <2>2
<1>10. QuorumBehind(h2)
  <2> SUFFICES ASSUME NEW x \in HonestNodes, NEW b \in DOMAIN h2[x].tree.hbMapping,
                      NotarizedIn(h2[x], b), b # GenesisHash
               PROVE  /\ EpochOf(b) \in DOMAIN h2[x].proposedBlocks
                      /\ h2[x].proposedBlocks[EpochOf(b)] = b
                      /\ IsQuorum(Voters(h2[x], EpochOf(b)))
    BY DEF QuorumBehind
  <2>1. CASE NotarizedIn(h[x], b)
    <3>1. /\ EpochOf(b) \in DOMAIN h[x].proposedBlocks
          /\ h[x].proposedBlocks[EpochOf(b)] = b
          /\ IsQuorum(Voters(h[x], EpochOf(b)))
      BY <2>1 DEF NodesInv, QuorumBehind, NotarizedIn, IsPresent
    <3>2. h[x].votes \subseteq h2[x].votes
      BY <1>2, <1>4 DEF ReplicaStep, r
    <3>3. IsQuorum(Voters(h2[x], EpochOf(b)))
      BY <3>1, <3>2, QuorumGrows DEF Voters
    <3> QED
      BY <1>6, <3>1, <3>3
  <2>2. CASE ~NotarizedIn(h[x], b)
    <3>1. x = v
      BY <1>4, <2>2
    <3> QED
      BY <1>2, <1>4, <2>2, <3>1 DEF ReplicaStep, r
  <2> QED
    BY <2>1, <2>2
<1>11. NodesInv(h2, d, s2)
  BY <1>4, <1>6, <1>7, <1>8, <1>9, <1>10 DEF NodesInv
<1> QED
  BY <1>2, <1>11 DEF v, r, a, q, h2, s2

\* A delivery to a dishonest node leaves the honest ones alone, and what it
\* sends, whatever it is, is sent in its own name (DishonestAnswer).
LEMMA NodesDishonestStep ==
    ASSUME NEW h, NEW d, NEW s, NodesInv(h, d, s), NEW m \in s, m.to \in DishonestNodes
    PROVE  LET a  == DishonestOnMessageReceive(m.to, d[m.to], m)
               d2 == [d EXCEPT ![m.to] = a.node]
           IN  /\ NodesInv(h, d2, s \cup Messages(a.out))
               /\ a.out \in AnswersTo(m.to, m)
               /\ \A w \in Messages(a.out) : w.from \notin HonestNodes
<1> DEFINE v == m.to
           a == DishonestOnMessageReceive(v, d[v], m)
           q == a.node
           out == a.out
           d2 == [d EXCEPT ![v] = q]
           s2 == s \cup Messages(out)
<1>1. /\ v \in DishonestNodes /\ v \in Nodes /\ v \notin HonestNodes
      /\ m \in Message /\ DishonestInv(d[v])
  BY NodeSets DEF NodesInv
<1>2. DishonestInv(q) /\ out \in AnswersTo(v, m)
  BY <1>1, DishonestAnswer
<1>3. d = [x \in DishonestNodes |-> d[x]]
  BY DEF NodesInv
<1> HIDE DEF q, out
<1>4. /\ \A x \in DishonestNodes : DishonestInv(d2[x])
      /\ d2 = [x \in DishonestNodes |-> d2[x]]
  BY <1>1, <1>2, <1>3 DEF NodesInv
<1> HIDE DEF d2, v
<1>5. \A w \in Messages(out) : w \in Message /\ w.from = v
  BY <1>1, <1>2, AnswerVotes
<1>6. \A w \in s2 : w \in Message /\ w.from \in HonestNodes \cup DishonestNodes
  BY <1>1, <1>5 DEF NodesInv
<1>7. VotesStand(h, s2)
  BY <1>1, <1>5 DEF NodesInv, VotesStand
<1>8. CountedWereSent(h, s2)
  BY DEF NodesInv, CountedWereSent
<1>9. NodesInv(h, d2, s2)
  BY <1>4, <1>6, <1>7, <1>8 DEF NodesInv
<1> QED
  BY <1>1, <1>2, <1>5, <1>9 DEF v, a, q, out, d2, s2

-----------------------------------------------------------------------------
\* Replica r recorded block b in its epoch.
Recorded(r, b) == EpochOf(b) \in DOMAIN r.proposedBlocks /\ r.proposedBlocks[EpochOf(b)] = b

\* Some honest node has notarized block b.
SomeNotarized(h, b) == \E v \in HonestNodes : NotarizedIn(h[v], b)

\* Of two notarized blocks the one of the later epoch is no less deep.
NotarizedDeepens(h) ==
    \A b, c : SomeNotarized(h, b) /\ SomeNotarized(h, c) /\ EpochOf(b) < EpochOf(c)
                => Len(b) <= Len(c)

\* No honest node ever voted in a later epoch for a block less deep.
VotesDeepen(s) ==
    \A m, w \in { x \in s : x.type = "VOTE" /\ x.from \in HonestNodes } :
        m.from = w.from /\ EpochOf(m.block) < EpochOf(w.block)
            => Len(m.block) <= Len(w.block)

\* A new vote is for a block just below a deepest notarized one, and nothing
\* the node voted for before lies below that: its parent is notarized, too.
LEMMA VoteDeepens ==
    ASSUME NEW h, NEW d, NEW s, NodesInv(h, d, s), NEW v \in HonestNodes, NEW q,
           NEW w, VoteStep(v, h[v], q, w),
           NEW u \in s, u.type = "VOTE", u.from = v
    PROVE  Len(u.block) <= Len(w.block)
<1> DEFINE t == h[v].tree
           c == u.block
<1>1. TreeInv(t)
  BY DEF NodesInv, ReplicaInv
<1>2. /\ c \in Hash /\ c # GenesisHash
      /\ ParentHash(c) \in DOMAIN t.hbMapping
      /\ t.hbMapping[ParentHash(c)] # "PRESENT"
  BY DEF NodesInv, VotesStand, NotarizedIn, IsPresent, Message
<1> HIDE DEF t
<1>3. /\ t.depths[ParentHash(c)] <= t.depths[t.deepestNotarized]
      /\ t.deepestNotarized \in DOMAIN t.hbMapping
  BY <1>1, <1>2 DEF TreeInv, DeepestNotarizedIsDeepest, IsTree
<1>4. /\ t.depths[ParentHash(c)] = Len(ParentHash(c))
      /\ t.depths[t.deepestNotarized] = Len(t.deepestNotarized)
      /\ t.depths[t.deepestNotarized] \in Nat
  BY <1>1, <1>2, <1>3 DEF TreeInv, RootedAtGenesis, IsTree
<1>5. Len(ParentHash(c)) = Len(c) - 1 /\ Len(c) \in Nat
  BY <1>2, HashOfParts, AncestorHash
<1>6. Len(w.block) = Len(t.deepestNotarized) + 1
  BY DEF VoteStep, t
<1> QED
  BY <1>3, <1>4, <1>5, <1>6

\* So votes go on deepening if they are for blocks of the latest epoch.
LEMMA VotesGoOnDeepening ==
    ASSUME NEW h, NEW d, NEW s, NodesInv(h, d, s), VotesDeepen(s),
           NEW v \in HonestNodes, NEW q, NEW e \in Nat,
           NEW W, \A w \in W : w.from \in HonestNodes =>
                                  VoteStep(v, h[v], q, w) /\ EpochOf(w.block) = e,
           \A u \in s : EpochOf(u.block) \in Nat /\ EpochOf(u.block) <= e
    PROVE  VotesDeepen(s \cup W)
<1> SUFFICES ASSUME NEW u \in s \cup W, NEW w \in s \cup W,
                    u.type = "VOTE", w.type = "VOTE", u.from = w.from, u.from \in HonestNodes,
                    EpochOf(u.block) < EpochOf(w.block)
             PROVE  Len(u.block) <= Len(w.block)
  BY DEF VotesDeepen
<1>1. CASE u \in s /\ w \in s
  BY <1>1 DEF VotesDeepen
<1>2. CASE u \in s /\ w \in W
  <2>1. VoteStep(v, h[v], q, w) /\ w.from = v
    BY <1>2 DEF VoteStep
  <2> QED
    BY <1>2, <2>1, VoteDeepens
<1>3. CASE u \in W
  <2>1. EpochOf(u.block) = e /\ EpochOf(w.block) <= e /\ EpochOf(w.block) \in Nat
    BY <1>3
  <2> QED
    BY <2>1
<1> QED
  BY <1>1, <1>2, <1>3

\* A vote counted at an honest node, if it comes from an honest one, was sent for
\* the block that one recorded in the epoch, on top of a block it notarized.
LEMMA CountedVote ==
    ASSUME NEW h, NEW d, NEW s, NodesInv(h, d, s),
           NEW v \in HonestNodes, NEW b, NotarizedIn(h[v], b), b # GenesisHash,
           NEW x \in Voters(h[v], EpochOf(b)), x \notin DishonestNodes
    PROVE  /\ x \in HonestNodes
           /\ [from |-> x, to |-> v, type |-> "VOTE", block |-> b] \in s
           /\ Recorded(h[x], b)
           /\ NotarizedIn(h[x], ParentHash(b))
<1> DEFINE w == [from |-> x, to |-> v, type |-> "VOTE", block |-> b]
<1>0. b \in DOMAIN h[v].tree.hbMapping
  BY DEF NotarizedIn, IsPresent
<1>1. w \in s
  <2>1. <<EpochOf(b), x>> \in h[v].votes
    BY DEF Voters
  <2>2. h[v].proposedBlocks[EpochOf(b)] = b
    BY <1>0 DEF NodesInv, QuorumBehind
  <2> QED
    BY <2>1, <2>2 DEF NodesInv, CountedWereSent
<1>2. x \in HonestNodes
  BY <1>1 DEF NodesInv
<1> QED
  BY <1>1, <1>2 DEF NodesInv, VotesStand, Recorded

\* What is notarized somewhere is a block, and has a quorum of voters there.
LEMMA NotarizedTyped ==
    ASSUME NEW h, NEW d, NEW s, NodesInv(h, d, s),
           NEW v \in HonestNodes, NEW b, NotarizedIn(h[v], b)
    PROVE  /\ b \in DOMAIN h[v].tree.hbMapping /\ b \in Hash
           /\ Len(b) \in Nat /\ EpochOf(b) \in Nat
           /\ b # GenesisHash => /\ IsQuorum(Voters(h[v], EpochOf(b)))
                                 /\ EpochOf(b) \in DOMAIN h[v].proposedBlocks
                                 /\ h[v].proposedBlocks[EpochOf(b)] = b
                                 /\ EpochOf(b) # 0
           /\ Voters(h[v], EpochOf(b)) \in SUBSET Nodes
<1>1. b \in DOMAIN h[v].tree.hbMapping
  BY DEF NotarizedIn, IsPresent
<1>2. b \in Hash
  BY <1>1 DEF NodesInv, ReplicaInv, IsReplica, IsTree
<1>3. Len(b) \in Nat /\ EpochOf(b) \in Nat
  BY <1>2, EpochOfNat DEF Hash
<1>4. b # GenesisHash => /\ IsQuorum(Voters(h[v], EpochOf(b)))
                         /\ EpochOf(b) \in DOMAIN h[v].proposedBlocks
                         /\ h[v].proposedBlocks[EpochOf(b)] = b
  BY <1>1 DEF NodesInv, QuorumBehind
<1>5. b # GenesisHash => EpochOf(b) # 0
  BY <1>4 DEF NodesInv, ReplicaInv
<1> QED
  BY <1>1, <1>2, <1>3, <1>4, <1>5 DEF Voters

\* Nothing but the genesis block is notarized without a vote for it.
LEMMA NotarizedWasVoted ==
    ASSUME NEW h, NEW d, NEW s, NodesInv(h, d, s), 3 * DishonestCount < N,
           NEW b, SomeNotarized(h, b), b # GenesisHash
    PROVE  \E w \in s : w.type = "VOTE" /\ w.block = b
<1>1. PICK v \in HonestNodes : NotarizedIn(h[v], b)
  BY DEF SomeNotarized
<1>2. IsQuorum(Voters(h[v], EpochOf(b))) /\ Voters(h[v], EpochOf(b)) \in SUBSET Nodes
  BY <1>1, NotarizedTyped
<1>3. PICK x \in Voters(h[v], EpochOf(b)) : x \notin DishonestNodes
  BY <1>2, QuorumNotDishonest
<1> DEFINE w == [from |-> x, to |-> v, type |-> "VOTE", block |-> b]
<1>4. w \in s
  BY <1>1, <1>3, CountedVote
<1>5. w.type = "VOTE" /\ w.block = b
  OBVIOUS
<1> QED
  BY <1>4, <1>5

\* Two quorums of one epoch share a voter that is not dishonest, and that one
\* voted once: honest nodes cannot notarize different blocks of an epoch.
LEMMA EpochsAgree ==
    ASSUME NEW h, NEW d, NEW s, NodesInv(h, d, s), 3 * DishonestCount < N,
           NEW b, NEW c, SomeNotarized(h, b), SomeNotarized(h, c), EpochOf(b) = EpochOf(c)
    PROVE  b = c
<1>1. PICK v \in HonestNodes : NotarizedIn(h[v], b)
  BY DEF SomeNotarized
<1>2. PICK w \in HonestNodes : NotarizedIn(h[w], c)
  BY DEF SomeNotarized
<1>3. CASE b # GenesisHash /\ c # GenesisHash
  <2>1. /\ IsQuorum(Voters(h[v], EpochOf(b))) /\ Voters(h[v], EpochOf(b)) \in SUBSET Nodes
        /\ IsQuorum(Voters(h[w], EpochOf(c))) /\ Voters(h[w], EpochOf(c)) \in SUBSET Nodes
    BY <1>1, <1>2, <1>3, NotarizedTyped
  <2>2. PICK x \in Voters(h[v], EpochOf(b)) \cap Voters(h[w], EpochOf(c)) :
           x \notin DishonestNodes
    BY <2>1, QuorumsMeet
  <2>3. /\ x \in Voters(h[v], EpochOf(b)) /\ x \in Voters(h[w], EpochOf(c))
        /\ x \notin DishonestNodes
    BY <2>2
  <2>4. Recorded(h[x], b)
    BY <1>1, <1>3, <2>3, CountedVote
  <2>5. Recorded(h[x], c)
    BY <1>2, <1>3, <2>3, CountedVote
  <2> QED
    BY <2>4, <2>5 DEF Recorded
<1>4. CASE b = GenesisHash \/ c = GenesisHash
  <2>1. EpochOf(b) = 0 /\ EpochOf(c) = 0
    BY <1>4 DEF EpochOf
  <2> QED
    BY <1>1, <1>2, <2>1, NotarizedTyped
<1> QED
  BY <1>3, <1>4

\* A quorum has a voter that is not dishonest, and that one had notarized the
\* parent of what it voted for.
LEMMA ParentsNotarized ==
    ASSUME NEW h, NEW d, NEW s, NodesInv(h, d, s), 3 * DishonestCount < N,
           NEW b, SomeNotarized(h, b), b # GenesisHash
    PROVE  SomeNotarized(h, ParentHash(b))
<1>1. PICK v \in HonestNodes : NotarizedIn(h[v], b)
  BY DEF SomeNotarized
<1>2. IsQuorum(Voters(h[v], EpochOf(b))) /\ Voters(h[v], EpochOf(b)) \in SUBSET Nodes
  BY <1>1, NotarizedTyped
<1>3. PICK x \in Voters(h[v], EpochOf(b)) : x \notin DishonestNodes
  BY <1>2, QuorumNotDishonest
<1> QED
  BY <1>1, <1>3, CountedVote DEF SomeNotarized

\* So all ancestors of a notarized block are notarized somewhere: a nearest one
\* that is not would be the parent of one that is.
LEMMA AncestorsNotarized ==
    ASSUME NEW h, NEW d, NEW s, NodesInv(h, d, s), 3 * DishonestCount < N,
           NEW b, SomeNotarized(h, b), NEW i \in 0 .. Len(b)
    PROVE  SomeNotarized(h, Ancestor(b, i))
<1> DEFINE Bad == { k \in 0 .. Len(b) : ~SomeNotarized(h, Ancestor(b, k)) }
<1>1. b \in Hash /\ Len(b) \in Nat
  BY NotarizedTyped DEF SomeNotarized
<1>2. Bad = {}
  <2> SUFFICES ASSUME Bad # {} PROVE FALSE
    OBVIOUS
  <2>1. Bad \in SUBSET Nat
    BY <1>1
  <2>2. PICK k \in Bad : \A l \in Bad : k <= l
    BY <2>1, LeastNat
  <2>3. k \in 0 .. Len(b) /\ ~SomeNotarized(h, Ancestor(b, k))
    BY <2>2
  <2>4. Ancestor(b, 0) = b
    BY <1>1, AncestorSteps
  <2>5. k # 0
    BY <2>3, <2>4
  <2> DEFINE a == Ancestor(b, k - 1)
  <2>6. k - 1 \in 0 .. Len(b) /\ k - 1 \notin Bad /\ 1 \in 0 .. Len(b) - (k - 1)
    BY <1>1, <2>2, <2>3, <2>5
  <2>7. SomeNotarized(h, a) /\ a \in Hash /\ Len(a) = Len(b) - (k - 1)
    BY <1>1, <2>6, AncestorHash
  <2>8. Ancestor(a, 1) = Ancestor(b, k - 1 + 1)
    BY <1>1, <2>6, AncestorSteps
  <2>9. k - 1 + 1 = k
    BY <2>3
  <2>10. a # GenesisHash
    BY <2>6, <2>7, EmptySeq DEF GenesisHash
  <2> HIDE DEF a
  <2>11. ParentHash(a) = Ancestor(b, k)
    BY <2>7, <2>8, <2>9, <2>10, HashOfParts
  <2> QED
    BY <2>3, <2>7, <2>10, <2>11, ParentsNotarized
<1> QED
  BY <1>2

\* A block notarized of a later epoch is at least as deep: some honest node
\* voted for both.
LEMMA NotarizedDeepen ==
    ASSUME NEW h, NEW d, NEW s, NodesInv(h, d, s), VotesDeepen(s), 3 * DishonestCount < N
    PROVE  NotarizedDeepens(h)
<1> SUFFICES ASSUME NEW b, NEW c, SomeNotarized(h, b), SomeNotarized(h, c),
                    EpochOf(b) < EpochOf(c)
             PROVE  Len(b) <= Len(c)
  BY DEF NotarizedDeepens
<1>1. PICK v \in HonestNodes : NotarizedIn(h[v], b)
  BY DEF SomeNotarized
<1>2. PICK w \in HonestNodes : NotarizedIn(h[w], c)
  BY DEF SomeNotarized
<1>3. /\ Len(b) \in Nat /\ Len(c) \in Nat /\ EpochOf(b) \in Nat /\ EpochOf(c) \in Nat
  BY <1>1, <1>2, NotarizedTyped
<1>4. CASE b = GenesisHash
  BY <1>3, <1>4, EmptySeq DEF GenesisHash
<1>5. CASE b # GenesisHash
  <2>1. c # GenesisHash
    BY <1>3 DEF EpochOf
  <2>2. /\ IsQuorum(Voters(h[v], EpochOf(b))) /\ Voters(h[v], EpochOf(b)) \in SUBSET Nodes
        /\ IsQuorum(Voters(h[w], EpochOf(c))) /\ Voters(h[w], EpochOf(c)) \in SUBSET Nodes
    BY <1>1, <1>2, <1>5, <2>1, NotarizedTyped
  <2>3. PICK x \in Voters(h[v], EpochOf(b)) \cap Voters(h[w], EpochOf(c)) :
           x \notin DishonestNodes
    BY <2>2, QuorumsMeet
  <2>4. x \in HonestNodes /\ [from |-> x, to |-> v, type |-> "VOTE", block |-> b] \in s
    BY <1>1, <1>5, <2>3, CountedVote
  <2>5. [from |-> x, to |-> w, type |-> "VOTE", block |-> c] \in s
    BY <1>2, <2>1, <2>3, CountedVote
  <2> QED
    BY <2>4, <2>5 DEF VotesDeepen
<1> QED
  BY <1>4, <1>5

\* The middle one of three notarized blocks of consecutive epochs is the only
\* notarized block of its depth.
LEMMA MiddleUnique ==
    ASSUME NEW h, NEW d, NEW s, NodesInv(h, d, s), NotarizedDeepens(h), 3 * DishonestCount < N,
           NEW c \in Hash, Len(c) >= 2,
           \A i \in 0 .. 2 : /\ SomeNotarized(h, Ancestor(c, i))
                             /\ EpochOf(Ancestor(c, i)) + i = EpochOf(c),
           NEW b, SomeNotarized(h, b), Len(b) = Len(c) - 1
    PROVE  b = Ancestor(c, 1)
<1>1. b \in Hash /\ Len(b) \in Nat /\ EpochOf(b) \in Nat
  BY NotarizedTyped DEF SomeNotarized
<1>2. /\ Len(c) \in Nat
      /\ Ancestor(c, 0) = c
      /\ Len(Ancestor(c, 1)) = Len(c) - 1 /\ Len(Ancestor(c, 2)) = Len(c) - 2
  <2>1. Len(c) \in Nat
    BY DEF Hash
  <2>2. 0 \in 0 .. Len(c) /\ 1 \in 0 .. Len(c) /\ 2 \in 0 .. Len(c) /\ 0 \in 0 .. Len(c) - 0
    BY <2>1
  <2> QED
    BY <2>1, <2>2, AncestorHash, AncestorSteps
<1>3. /\ SomeNotarized(h, c) /\ SomeNotarized(h, Ancestor(c, 1)) /\ SomeNotarized(h, Ancestor(c, 2))
      /\ EpochOf(Ancestor(c, 1)) + 1 = EpochOf(c)
      /\ EpochOf(Ancestor(c, 2)) + 2 = EpochOf(c)
  BY <1>2
<1>4. EpochOf(c) \in Nat /\ EpochOf(Ancestor(c, 1)) \in Nat /\ EpochOf(Ancestor(c, 2)) \in Nat
  BY <1>3, NotarizedTyped DEF SomeNotarized
<1>5. CASE EpochOf(b) > EpochOf(c)
  BY <1>1, <1>2, <1>3, <1>4, <1>5 DEF NotarizedDeepens
<1>6. CASE EpochOf(b) < EpochOf(Ancestor(c, 2))
  BY <1>1, <1>2, <1>3, <1>4, <1>6 DEF NotarizedDeepens
<1>7. CASE EpochOf(b) = EpochOf(c)
  BY <1>1, <1>2, <1>3, <1>7, EpochsAgree
<1>8. CASE EpochOf(b) = EpochOf(Ancestor(c, 2))
  BY <1>1, <1>2, <1>3, <1>8, EpochsAgree
<1>9. CASE EpochOf(b) = EpochOf(Ancestor(c, 1))
  BY <1>3, <1>9, EpochsAgree
<1> QED
  BY <1>1, <1>3, <1>4, <1>5, <1>6, <1>7, <1>8, <1>9

\* Block b is finalized at some honest node.
SomeFinalized(h, b) ==
    \E v \in HonestNodes :
        b \in DOMAIN h[v].tree.hbMapping /\ h[v].tree.hbMapping[b] = "FINALIZED"

\* Three notarized blocks of consecutive epochs, of which c is the last.
EndsThree(h, c) ==
    /\ c \in Hash /\ Len(c) >= 2
    /\ \A i \in 0 .. 2 : /\ SomeNotarized(h, Ancestor(c, i))
                         /\ EpochOf(Ancestor(c, i)) + i = EpochOf(c)

\* A finalized block lies below the last of three such blocks.
LEMMA FinalizedBelow ==
    ASSUME NEW h, NEW d, NEW s, NodesInv(h, d, s), NEW v \in HonestNodes,
           NEW b \in DOMAIN h[v].tree.hbMapping, h[v].tree.hbMapping[b] = "FINALIZED",
           b # GenesisHash
    PROVE  \E c : /\ EndsThree(h, c) /\ NotarizedIn(h[v], c)
                  /\ \E i \in 1 .. Len(c) : b = Ancestor(c, i)
<1> DEFINE t == h[v].tree
<1>1. IsTree(t) /\ FinalizedIsJustified(t)
  BY DEF NodesInv, ReplicaInv, TreeInv
<1>2. PICK c \in DOMAIN t.hbMapping : Justifies(t, c, b)
  BY <1>1 DEF FinalizedIsJustified
<1>3. /\ Len(c) >= 2
      /\ \A i \in 0 .. 2 : /\ Ancestor(c, i) \in DOMAIN t.hbMapping
                           /\ t.hbMapping[Ancestor(c, i)] # "PRESENT"
                           /\ EpochOf(Ancestor(c, i)) + i = EpochOf(c)
      /\ \E i \in 1 .. Len(c) : b = Ancestor(c, i)
  BY <1>2 DEF Justifies, IsPresent
<1>4. c \in Hash /\ Ancestor(c, 0) = c
  <2>1. c \in Hash
    BY <1>1 DEF IsTree
  <2>2. 0 \in 0 .. Len(c) /\ 0 \in 0 .. Len(c) - 0
    BY <2>1 DEF Hash
  <2> QED
    BY <2>1, <2>2, AncestorSteps
<1>5. \A i \in 0 .. 2 : NotarizedIn(h[v], Ancestor(c, i))
  BY <1>3 DEF NotarizedIn, IsPresent
<1>6. NotarizedIn(h[v], c)
  BY <1>4, <1>5
<1> HIDE DEF t
<1>7. EndsThree(h, c)
  BY <1>3, <1>4, <1>5 DEF EndsThree, SomeNotarized
<1> QED
  BY <1>3, <1>6, <1>7

\* What lies below one such block lies below every deeper one: its ancestors
\* are notarized, and the middle one is unique.
LEMMA BelowDeeper ==
    ASSUME NEW h, NEW d, NEW s, NodesInv(h, d, s), NotarizedDeepens(h), 3 * DishonestCount < N,
           NEW b, EndsThree(h, b), NEW c, EndsThree(h, c), Len(b) <= Len(c),
           NEW i \in 1 .. Len(b)
    PROVE  Ancestor(b, i) = Ancestor(c, Len(c) - Len(b) + i)
<1>1. /\ b \in Hash /\ c \in Hash /\ Len(b) \in Nat /\ Len(c) \in Nat
      /\ Len(b) >= 2 /\ Len(c) >= 2
  BY DEF EndsThree, Hash
<1> DEFINE k == Len(c) - Len(b) + 1
           x == Ancestor(c, k)
<1>2. k \in 0 .. Len(c) /\ 1 \in 0 .. Len(b) /\ i - 1 \in 0 .. Len(b) - 1
      /\ i - 1 \in 0 .. Len(c) - k
  BY <1>1
<1>3. Ancestor(c, 0) = c
  <2>1. 0 \in 0 .. Len(c) /\ 0 \in 0 .. Len(c) - 0
    BY <1>1
  <2> QED
    BY <1>1, <2>1, AncestorSteps
<1>4. SomeNotarized(h, c)
  BY <1>3 DEF EndsThree
<1>5. SomeNotarized(h, x) /\ Len(x) = Len(b) - 1
  <2>1. SomeNotarized(h, x)
    BY <1>2, <1>4, AncestorsNotarized
  <2>2. Len(x) = Len(c) - k
    BY <1>1, <1>2, AncestorHash
  <2> QED
    BY <1>1, <2>1, <2>2
<1>6. x = Ancestor(b, 1)
  <2> HIDE DEF x
  <2> QED
    BY <1>1, <1>5, MiddleUnique DEF EndsThree
<1>7. Ancestor(Ancestor(b, 1), i - 1) = Ancestor(b, 1 + (i - 1))
  BY <1>1, <1>2, AncestorSteps
<1>8. Ancestor(x, i - 1) = Ancestor(c, k + (i - 1))
  BY <1>1, <1>2, AncestorSteps
<1>9. 1 + (i - 1) = i /\ k + (i - 1) = Len(c) - Len(b) + i
  BY <1>1
<1> QED
  BY <1>6, <1>7, <1>8, <1>9

\* Of two finalized blocks, the less deep one is an ancestor of the other.
LEMMA FinalizedComparable ==
    ASSUME NEW h, NEW d, NEW s, NodesInv(h, d, s), NotarizedDeepens(h), 3 * DishonestCount < N,
           NEW b, NEW c, SomeFinalized(h, b), SomeFinalized(h, c), Len(b) <= Len(c)
    PROVE  b = Ancestor(c, Len(c) - Len(b))
<1>1. b \in Hash /\ c \in Hash /\ Len(b) \in Nat /\ Len(c) \in Nat
  <2>1. b \in Hash /\ c \in Hash
    BY DEF SomeFinalized, NodesInv, ReplicaInv, IsReplica, IsTree
  <2> QED
    BY <2>1 DEF Hash
<1>2. CASE b = GenesisHash
  <2>1. Len(b) = 0 /\ 0 \in 0 .. Len(c)
    BY <1>1, <1>2, EmptySeq DEF GenesisHash
  <2>2. Ancestor(c, Len(c)) = GenesisHash
    <3>1. 0 \in 0 .. Len(c) - 0
      BY <1>1
    <3> QED
      BY <1>1, <2>1, <3>1, AncestorSteps
  <2>3. Len(c) - Len(b) = Len(c)
    BY <1>1, <2>1
  <2> QED
    BY <1>2, <2>2, <2>3
<1>3. CASE b # GenesisHash
  <2>1. Len(b) > 0
    BY <1>1, <1>3, EmptySeq DEF Hash, GenesisHash
  <2>2. c # GenesisHash
    BY <1>1, <2>1, EmptySeq DEF GenesisHash
  <2>a. PICK B : EndsThree(h, B) /\ \E i \in 1 .. Len(B) : b = Ancestor(B, i)
    BY <1>3, FinalizedBelow DEF SomeFinalized
  <2>b. PICK C : EndsThree(h, C) /\ \E j \in 1 .. Len(C) : c = Ancestor(C, j)
    BY <2>2, FinalizedBelow DEF SomeFinalized
  <2>3. PICK i \in 1 .. Len(B) : EndsThree(h, B) /\ b = Ancestor(B, i)
    BY <2>a
  <2>4. PICK j \in 1 .. Len(C) : EndsThree(h, C) /\ c = Ancestor(C, j)
    BY <2>b
  <2>5. B \in Hash /\ C \in Hash /\ Len(B) \in Nat /\ Len(C) \in Nat
    BY <2>3, <2>4 DEF EndsThree, Hash
  <2>6. Len(b) = Len(B) - i /\ Len(c) = Len(C) - j
    <3>1. i \in 0 .. Len(B) /\ j \in 0 .. Len(C)
      BY <2>5
    <3> QED
      BY <2>3, <2>4, <2>5, <3>1, AncestorHash
  <2>7. ASSUME NEW D \in Hash, NEW k \in 0 .. Len(D), NEW l \in 0 .. Len(D),
               b = Ancestor(D, k), c = Ancestor(D, l)
        PROVE  b = Ancestor(c, Len(c) - Len(b))
    <3>1. Len(D) \in Nat /\ Len(b) = Len(D) - k /\ Len(c) = Len(D) - l
      BY <2>7, AncestorHash
    <3>2. k - l \in 0 .. Len(D) - l
      BY <1>1, <3>1
    <3>3. Ancestor(Ancestor(D, l), k - l) = Ancestor(D, l + (k - l))
      BY <3>2, AncestorSteps
    <3>4. l + (k - l) = k /\ Len(c) - Len(b) = k - l
      BY <3>1
    <3> QED
      BY <2>7, <3>3, <3>4
  <2>8. CASE Len(B) <= Len(C)
    <3>1. b = Ancestor(C, Len(C) - Len(B) + i)
      BY <2>3, <2>4, <2>8, BelowDeeper
    <3>2. Len(C) - Len(B) + i \in 0 .. Len(C) /\ j \in 0 .. Len(C)
      BY <2>5, <2>8
    <3> QED
      BY <2>4, <2>5, <2>7, <3>1, <3>2
  <2>9. CASE Len(C) <= Len(B)
    <3>1. c = Ancestor(B, Len(B) - Len(C) + j)
      BY <2>3, <2>4, <2>9, BelowDeeper
    <3>2. Len(B) - Len(C) + j \in 0 .. Len(B) /\ i \in 0 .. Len(B)
      BY <2>5, <2>9
    <3> QED
      BY <2>3, <2>5, <2>7, <3>1, <3>2
  <2> QED
    BY <2>5, <2>8, <2>9
<1> QED
  BY <1>2, <1>3

\* Among the chains of the honest nodes, or the empty one, there is a longest.
LEMMA LongestExists ==
    ASSUME NEW F, \A v \in HonestNodes : F[v] \in Hash
    PROVE  \E c \in { F[v] : v \in HonestNodes } \cup { GenesisHash } :
              \A v \in HonestNodes : Len(F[v]) <= Len(c)
<1> DEFINE Upto(n) == \E c \in { F[v] : v \in HonestNodes } \cup { GenesisHash } :
                         \A v \in 0 .. n - 1 : Len(F[v]) <= Len(c)
           Bad == { n \in 0 .. HonestCount : ~Upto(n) }
<1>1. /\ HonestCount \in Nat
      /\ \A c \in { F[v] : v \in HonestNodes } \cup { GenesisHash } : Len(c) \in Nat
  BY CountsAssumption, EmptySeq DEF GenesisHash, Hash
<1>2. Upto(0)
  BY DEF Upto
<1>3. ASSUME NEW n \in 0 .. HonestCount - 1, Upto(n) PROVE Upto(n + 1)
  <2>1. PICK c \in { F[v] : v \in HonestNodes } \cup { GenesisHash } :
               \A v \in 0 .. n - 1 : Len(F[v]) <= Len(c)
    BY <1>3
  <2>2. n \in HonestNodes /\ n + 1 - 1 = n /\ \A v \in 0 .. n : v = n \/ v \in 0 .. n - 1
    BY <1>1 DEF HonestNodes
  <2>3. \A v \in 0 .. n : v \in HonestNodes
    BY <1>1 DEF HonestNodes
  <2>4. Len(F[n]) \in Nat /\ Len(c) \in Nat /\ \A v \in 0 .. n : Len(F[v]) \in Nat
    BY <1>1, <2>1, <2>2, <2>3
  <2>5. CASE Len(F[n]) <= Len(c)
    <3>1. \A v \in 0 .. n + 1 - 1 : Len(F[v]) <= Len(c)
      BY <2>1, <2>2, <2>5
    <3> QED
      BY <2>1, <3>1
  <2>6. CASE Len(c) <= Len(F[n])
    <3>1. \A v \in 0 .. n + 1 - 1 : Len(F[v]) <= Len(F[n])
      BY <2>1, <2>2, <2>4, <2>6
    <3> QED
      BY <2>2, <3>1
  <2> QED
    BY <2>4, <2>5, <2>6
<1> HIDE DEF Upto
<1>4. Bad = {}
  <2> SUFFICES ASSUME Bad # {} PROVE FALSE
    OBVIOUS
  <2>1. Bad \in SUBSET Nat
    BY <1>1
  <2>2. PICK n \in Bad : \A k \in Bad : n <= k
    BY <2>1, LeastNat
  <2>3. n \in 0 .. HonestCount /\ ~Upto(n) /\ n # 0
    BY <1>2, <2>2
  <2>4. n - 1 \in 0 .. HonestCount - 1 /\ n - 1 \notin Bad /\ n - 1 \in 0 .. HonestCount
        /\ n - 1 + 1 = n
    BY <1>1, <2>2, <2>3
  <2>5. Upto(n - 1)
    BY <2>4
  <2> QED
    BY <1>3, <2>3, <2>4, <2>5
<1>5. Upto(HonestCount)
  BY <1>1, <1>4
<1> QED
  BY <1>5 DEF Upto, HonestNodes

\* The chain a node has finalized is one, and so is the genesis block.
LEMMA ChainsFinalized ==
    ASSUME NEW h, NEW d, NEW s, NodesInv(h, d, s), NEW v \in HonestNodes
    PROVE  /\ SomeFinalized(h, h[v].tree.deepestFinalized)
           /\ h[v].tree.deepestFinalized \in Hash
           /\ SomeFinalized(h, GenesisHash)
<1>1. TreeInv(h[v].tree)
  BY DEF NodesInv, ReplicaInv
<1> QED
  BY <1>1 DEF TreeInv, IsTree, FinalizedPrefixClosed, RootedAtGenesis, IsPresent, SomeFinalized

\* When a node that has notarized nothing deeper than b finalizes b's parent, it had
\* not finalized anything deeper (Tree::tryFinalizeUntil, which does not ask).
LEMMA FinalizedDeepens ==
    ASSUME NEW h, NEW d, NEW s, NodesInv(h, d, s),
           NEW v \in HonestNodes, NEW b \in Hash, 1 \in 1 .. Len(b),
           NEW g, g = Ancestor(b, 1),
           \A c : NotarizedIn(h[v], c) => Len(c) <= Len(b)
    PROVE  Len(h[v].tree.deepestFinalized) <= Len(g)
<1> DEFINE f == h[v].tree.deepestFinalized
<1>1. Len(b) \in Nat /\ Len(g) = Len(b) - 1
  BY AncestorHash DEF Hash
<1>2. f \in DOMAIN h[v].tree.hbMapping /\ h[v].tree.hbMapping[f] = "FINALIZED"
  BY DEF NodesInv, ReplicaInv, TreeInv, IsTree, FinalizedPrefixClosed
<1> HIDE DEF f
<1>3. CASE f = GenesisHash
  BY <1>1, <1>3, EmptySeq DEF GenesisHash, f
<1>4. CASE f # GenesisHash
  <2>1. PICK c : /\ EndsThree(h, c) /\ NotarizedIn(h[v], c)
                 /\ \E i \in 1 .. Len(c) : f = Ancestor(c, i)
    BY <1>2, <1>4, FinalizedBelow
  <2>2. PICK i \in 1 .. Len(c) : f = Ancestor(c, i)
    BY <2>1
  <2>3. c \in Hash /\ Len(c) \in Nat
    BY <2>1, NotarizedTyped
  <2>4. Len(f) = Len(c) - i
    BY <2>2, <2>3, AncestorHash
  <2>5. Len(c) <= Len(b)
    BY <2>1
  <2> QED
    BY <1>1, <2>2, <2>3, <2>4, <2>5 DEF f
<1> QED
  BY <1>3, <1>4
-----------------------------------------------------------------------------
(* A replica in which every stored block stands on a notarized one fails no  *)
(* assert of Block.                                                         *)

\* Every stored block stands on a notarized one, and no assert has failed.
Grounded(r) ==
    /\ ~r.tree.assertFailed
    /\ \A b \in DOMAIN r.tree.hbMapping \ {GenesisHash} : NotarizedIn(r, ParentHash(b))

\* Recording a proposal on top of a notarized block (HonestNode::handlePropose).
LEMMA GroundedProposal ==
    ASSUME NEW r, ReplicaInv(r), Grounded(r), NEW m \in Message, AcceptsProposal(r, m),
           NotarizedIn(r, ParentHash(m.block))
    PROVE  Grounded(RecordProposal(r, m.block))
<1> DEFINE b == m.block
           s == RecordProposal(r, b)
<1>1. b \in Hash /\ EpochOf(b) \notin DOMAIN r.proposedBlocks /\ IsTree(r.tree)
  BY DEF Message, AcceptsProposal, ReplicaInv, IsReplica
<1>2. IsPresent(r.tree, ParentHash(b))
  BY DEF NotarizedIn
<1>3. s.tree = AddBlock(r.tree, b)
  BY <1>2, RecordProposalFields DEF ReplicaInv
<1>4. /\ s.tree.hbMapping = TryEmplace(r.tree.hbMapping, b, "PRESENT")
      /\ s.tree.assertFailed = r.tree.assertFailed
  <2> HIDE DEF s, b
  <2> QED
    BY <1>1, <1>3, AddBlockFields
<1>5. \A c \in DOMAIN r.tree.hbMapping :
          c \in DOMAIN s.tree.hbMapping /\ s.tree.hbMapping[c] = r.tree.hbMapping[c]
  <2> HIDE DEF s, b
  <2> QED
    BY <1>4 DEF TryEmplace
<1>6. DOMAIN s.tree.hbMapping = DOMAIN r.tree.hbMapping \cup {b}
  <2> HIDE DEF s, b
  <2> QED
    BY <1>4 DEF TryEmplace
<1>7. \A c : NotarizedIn(r, c) => NotarizedIn(s, c)
  <2> HIDE DEF s, b
  <2> QED
    BY <1>5 DEF NotarizedIn, IsPresent
<1> HIDE DEF s
<1> QED
  BY <1>4, <1>6, <1>7 DEF Grounded, s

\* Counting a vote (Tree::notarize, tryFinalizeUntil): all the block stands on
\* is notarized.
LEMMA GroundedVote ==
    ASSUME NEW r, ReplicaInv(r), Grounded(r), NEW m \in Message
    PROVE  Grounded(HandleVote(r, m))
<1> DEFINE s == HandleVote(r, m)
           t == r.tree
           b == m.block
           u == Notarize(t, b)
<1>1. /\ DOMAIN s.tree.hbMapping = DOMAIN t.hbMapping
      /\ \A c \in DOMAIN t.hbMapping :
            t.hbMapping[c] # "PRESENT" => s.tree.hbMapping[c] # "PRESENT"
  BY HandleVoteInv
<1>2. ~s.tree.assertFailed
  <2>1. CASE ~CountsVote(r, m)
    <3>1. s = r
      BY <2>1 DEF HandleVote
    <3> QED
      BY <3>1 DEF Grounded
  <2>2. CASE CountsVote(r, m)
    <3>1. TreeInv(t) /\ b \in DOMAIN t.hbMapping /\ t.hbMapping[b] = "PRESENT"
      BY <2>2 DEF CountsVote, IsPresent, ReplicaInv
    <3>2. ~t.assertFailed
      BY DEF Grounded
    <3>3. s.tree = u \/ s.tree = t
      <4>1. IsReplica(r)
        BY DEF ReplicaInv
      <4> DEFINE x == r.votes \cup {<<EpochOf(m.block), m.from>>}
                 Q == IsQuorum({ v \in Nodes : <<EpochOf(m.block), v>> \in x })
      <4>2. s = [tree |-> (IF Q THEN u ELSE t), proposedBlocks |-> r.proposedBlocks,
                 votes |-> x]
        BY <2>2, <4>1, HandleVoteFields
      <4> HIDE DEF s, x, Q, u
      <4> QED
        BY <4>2
    <3>4. \/ u.assertFailed = t.assertFailed
          \/ \E i \in 1 .. Len(b) : t.hbMapping[Ancestor(b, i)] = "PRESENT"
      BY <3>1, NotarizeInv
    <3>5. \A i \in 1 .. Len(b) : t.hbMapping[Ancestor(b, i)] # "PRESENT"
      <4> SUFFICES ASSUME NEW i \in 1 .. Len(b) PROVE t.hbMapping[Ancestor(b, i)] # "PRESENT"
        OBVIOUS
      <4> DEFINE c == Ancestor(b, i - 1)
      <4>1. b \in Hash /\ Len(b) \in Nat /\ IsTree(t) /\ RootedAtGenesis(t)
        <5>1. IsTree(t) /\ RootedAtGenesis(t)
          BY <3>1 DEF TreeInv
        <5>2. b \in Hash
          BY <3>1, <5>1 DEF IsTree
        <5> HIDE DEF b, t
        <5> QED
          BY <5>1, <5>2, AncestorHash
      <4>2. i - 1 \in 0 .. Len(b) /\ 1 \in 0 .. Len(b) - (i - 1) /\ (i - 1) + 1 = i
        BY <4>1
      <4>3. c \in DOMAIN t.hbMapping /\ c \in Hash /\ Len(c) = Len(b) - (i - 1)
        BY <3>1, <4>1, <4>2, StoredAncestors
      <4>4. Ancestor(c, 1) = Ancestor(b, i)
        BY <4>1, <4>2, AncestorSteps
      <4>5. c # GenesisHash
        BY <4>1, <4>2, <4>3, EmptySeq DEF GenesisHash
      <4> HIDE DEF c
      <4>6. ParentHash(c) = Ancestor(c, 1)
        BY <4>3, <4>5, HashOfParts
      <4> QED
        BY <4>3, <4>4, <4>5, <4>6 DEF Grounded, NotarizedIn
    <3> QED
      BY <3>2, <3>3, <3>4, <3>5
  <2> QED
    BY <2>1, <2>2
<1> HIDE DEF s
<1> QED
  BY <1>1, <1>2 DEF Grounded, NotarizedIn, IsPresent, s

\* What makes a replica a function of the blocks it has notarized: it knows what it was
\* proposed and nothing else, the first of the deepest notarized blocks is its deepest,
\* and whatever could be finalized has been.
Canonical(r) ==
    LET t == r.tree
    IN  /\ \A b \in DOMAIN t.hbMapping : Recorded(r, b)
        /\ \A c \in DOMAIN t.hbMapping :
              NotarizedIn(r, c) /\ Len(c) = Len(t.deepestNotarized)
                  => EpochOf(t.deepestNotarized) <= EpochOf(c)
        /\ \A c \in DOMAIN t.hbMapping :
              NotarizedIn(r, c) /\ Consecutive(c) => t.hbMapping[Ancestor(c, 1)] = "FINALIZED"
        /\ \A b \in DOMAIN t.hbMapping :
              t.hbMapping[b] = "FINALIZED" => Len(b) <= Len(t.deepestFinalized)

\* A new replica is.
LEMMA CanonicalInit == Canonical(NewReplica)
<1>1. /\ NewReplica.tree.hbMapping = [h \in {GenesisHash} |-> "FINALIZED"]
      /\ NewReplica.tree.deepestNotarized = GenesisHash
      /\ NewReplica.tree.deepestFinalized = GenesisHash
      /\ NewReplica.proposedBlocks = [e \in {0} |-> GenesisHash]
  BY DEF NewReplica, NewTree
<1>2. EpochOf(GenesisHash) = 0 /\ Len(GenesisHash) = 0
  BY EmptySeq DEF EpochOf, GenesisHash
<1> HIDE DEF GenesisHash
<1> QED
  BY <1>1, <1>2 DEF Canonical, Recorded, Consecutive

\* Recording a proposal on top of a notarized block.
LEMMA CanonicalProposal ==
    ASSUME NEW r, ReplicaInv(r), Canonical(r), NEW m \in Message, AcceptsProposal(r, m),
           NotarizedIn(r, ParentHash(m.block))
    PROVE  Canonical(RecordProposal(r, m.block))
<1> DEFINE b == m.block
           s == RecordProposal(r, b)
<1>1. b \in Hash /\ EpochOf(b) \notin DOMAIN r.proposedBlocks /\ IsTree(r.tree)
  BY DEF Message, AcceptsProposal, ReplicaInv, IsReplica
<1>2. s.tree = AddBlock(r.tree, b)
  BY RecordProposalFields DEF ReplicaInv, NotarizedIn
<1> HIDE DEF b
<1>3. /\ \A e \in DOMAIN r.proposedBlocks : s.proposedBlocks[e] = r.proposedBlocks[e]
      /\ DOMAIN s.proposedBlocks = DOMAIN r.proposedBlocks \cup {EpochOf(b)}
      /\ s.proposedBlocks[EpochOf(b)] = b
      /\ s.tree.deepestNotarized = r.tree.deepestNotarized
      /\ s.tree.deepestFinalized = r.tree.deepestFinalized
      /\ \A c \in DOMAIN s.tree.hbMapping :
            IF c \in DOMAIN r.tree.hbMapping
            THEN s.tree.hbMapping[c] = r.tree.hbMapping[c]
            ELSE s.tree.hbMapping[c] = "PRESENT"
  BY <1>1, RecordProposalInv
<1>4. DOMAIN s.tree.hbMapping = DOMAIN r.tree.hbMapping \cup {b}
  <2> HIDE DEF s
  <2>1. s.tree.hbMapping = TryEmplace(r.tree.hbMapping, b, "PRESENT")
    BY <1>1, <1>2, AddBlockFields
  <2> QED
    BY <2>1 DEF TryEmplace
<1> HIDE DEF s
<1>5. \A c : NotarizedIn(s, c) => NotarizedIn(r, c)
  BY <1>3, <1>4 DEF NotarizedIn, IsPresent
<1>6. \A c \in DOMAIN s.tree.hbMapping : Recorded(s, c)
  BY <1>3, <1>4 DEF Canonical, Recorded
<1>7. \A c \in DOMAIN s.tree.hbMapping :
         NotarizedIn(s, c) /\ Len(c) = Len(s.tree.deepestNotarized)
            => EpochOf(s.tree.deepestNotarized) <= EpochOf(c)
  BY <1>3, <1>5 DEF Canonical, NotarizedIn, IsPresent
<1>8. ASSUME NEW c, NotarizedIn(s, c), Consecutive(c)
      PROVE  s.tree.hbMapping[Ancestor(c, 1)] = "FINALIZED"
  <2>1. c \in DOMAIN r.tree.hbMapping /\ NotarizedIn(r, c)
    BY <1>5, <1>8 DEF NotarizedIn, IsPresent
  <2>2. r.tree.hbMapping[Ancestor(c, 1)] = "FINALIZED"
    BY <1>8, <2>1 DEF Canonical
  <2>3. Ancestor(c, 1) \in DOMAIN r.tree.hbMapping
    <3>1. RootedAtGenesis(r.tree)
      BY DEF ReplicaInv, TreeInv
    <3>2. Len(c) \in Nat /\ Len(c) >= 2
      BY <1>1, <1>8, <2>1 DEF Consecutive, IsTree, Hash
    <3> QED
      BY <1>1, <2>1, <3>1, <3>2, StoredAncestors
  <2> QED
    BY <1>3, <1>4, <2>2, <2>3
<1>9. \A c \in DOMAIN s.tree.hbMapping :
         s.tree.hbMapping[c] = "FINALIZED" => Len(c) <= Len(s.tree.deepestFinalized)
  BY <1>3, <1>4 DEF Canonical
<1> QED
  BY <1>6, <1>7, <1>8, <1>9 DEF Canonical, s, b

\* Block b is no less deep than what r has notarized, and of no earlier epoch than what is
\* as deep as it.
InTurnIn(r, b) ==
    /\ \A c : NotarizedIn(r, c) => /\ Len(c) <= Len(b)
                                   /\ Len(c) = Len(b) => EpochOf(c) <= EpochOf(b)
    /\ Len(b) >= 1 => Len(r.tree.deepestFinalized) <= Len(Ancestor(b, 1))

\* Counting a vote, if blocks are notarized in the order of their depths and epochs.
LEMMA CanonicalVote ==
    ASSUME NEW r, ReplicaInv(r), Grounded(r), Canonical(r), NEW m \in Message,
           \/ ~CountsVote(r, m)
           \/ ~NotarizedIn(HandleVote(r, m), m.block)
           \/ InTurnIn(r, m.block)
    PROVE  Canonical(HandleVote(r, m))
<1> DEFINE s == HandleVote(r, m)
           t == r.tree
           b == m.block
           u == Notarize(t, b)
<1>1. CASE ~CountsVote(r, m)
  <2>1. s = r
    BY <1>1 DEF HandleVote
  <2> QED
    BY <2>1
<1>2. CASE CountsVote(r, m)
  <2>1. /\ TreeInv(t) /\ b \in DOMAIN t.hbMapping /\ t.hbMapping[b] = "PRESENT"
        /\ b \in Hash /\ Len(b) \in Nat
    BY <1>2 DEF CountsVote, IsPresent, ReplicaInv, Message, Hash
  <2>2. s.proposedBlocks = r.proposedBlocks /\ (s.tree = u \/ s.tree = t)
    <3>1. IsReplica(r)
      BY DEF ReplicaInv
    <3> DEFINE x == r.votes \cup {<<EpochOf(m.block), m.from>>}
               Q == IsQuorum({ v \in Nodes : <<EpochOf(m.block), v>> \in x })
    <3>2. s = [tree |-> (IF Q THEN u ELSE t), proposedBlocks |-> r.proposedBlocks, votes |-> x]
      BY <1>2, <3>1, HandleVoteFields
    <3> HIDE DEF s, x, Q, u
    <3> QED
      BY <3>2
  <2>3. ~s.tree.assertFailed
    BY GroundedVote DEF Grounded
  <2> HIDE DEF s
  <2>4. CASE s.tree = t
    <3>1. s.tree = r.tree /\ s.proposedBlocks = r.proposedBlocks
      BY <2>2, <2>4
    <3>2. /\ \A c : NotarizedIn(s, c) <=> NotarizedIn(r, c)
          /\ \A c : Recorded(s, c) <=> Recorded(r, c)
      BY <3>1 DEF NotarizedIn, IsPresent, Recorded
    <3> QED
      BY <3>1, <3>2 DEF Canonical, s
  <2>5. CASE s.tree = u
    <3>1. /\ DOMAIN u.hbMapping = DOMAIN t.hbMapping
          /\ u.hbMapping[b] = "NOTARIZED"
          /\ \A c \in DOMAIN t.hbMapping \ {b} :
                \/ u.hbMapping[c] = t.hbMapping[c]
                \/ t.hbMapping[c] = "NOTARIZED" /\ u.hbMapping[c] = "FINALIZED"
          /\ \/ u.deepestFinalized = t.deepestFinalized
             \/ 1 \in 1 .. Len(b) /\ u.deepestFinalized = Ancestor(b, 1)
      BY <2>1, NotarizeInv
    <3>2. /\ u.deepestNotarized = IF Len(b) > Len(t.deepestNotarized)
                                  THEN b ELSE t.deepestNotarized
          /\ Consecutive(b) => u.hbMapping[Ancestor(b, 1)] = "FINALIZED"
          /\ \A c \in DOMAIN t.hbMapping :
                u.hbMapping[c] = "FINALIZED"
                   => \/ t.hbMapping[c] = "FINALIZED"
                      \/ /\ Len(c) <= Len(Ancestor(b, 1))
                         /\ u.deepestFinalized = Ancestor(b, 1)
      BY <2>1, <2>3, <2>5, NotarizeOutcome
    <3> HIDE DEF u, b, t
    <3>3. InTurnIn(r, b)
      BY <1>2, <2>1, <2>5, <3>1 DEF NotarizedIn, IsPresent, s, b
    <3>4. \A c : NotarizedIn(s, c) => c = b \/ NotarizedIn(r, c)
      BY <2>5, <3>1 DEF NotarizedIn, IsPresent, t
    <3>5. /\ IsTree(t) /\ RootedAtGenesis(t) /\ DeepestNotarizedIsDeepest(t)
          /\ \A c \in DOMAIN t.hbMapping : c \in Hash /\ Len(c) \in Nat
          /\ t.deepestNotarized \in DOMAIN t.hbMapping
          /\ t.deepestFinalized \in DOMAIN t.hbMapping
          /\ NotarizedIn(r, t.deepestNotarized)
      <4>1. IsTree(t) /\ RootedAtGenesis(t) /\ DeepestNotarizedIsDeepest(t)
        BY <2>1 DEF TreeInv
      <4>2. /\ \A c \in DOMAIN t.hbMapping : c \in Hash
            /\ t.deepestNotarized \in DOMAIN t.hbMapping
            /\ t.deepestFinalized \in DOMAIN t.hbMapping
        BY <4>1 DEF IsTree
      <4>3. \A c \in Hash : Len(c) \in Nat
        BY DEF Hash
      <4>4. NotarizedIn(r, t.deepestNotarized)
        BY <4>1, <4>2 DEF DeepestNotarizedIsDeepest, NotarizedIn, IsPresent, t
      <4> QED
        BY <4>1, <4>2, <4>3, <4>4
    <3>6. \A c : NotarizedIn(r, c) => c \in DOMAIN t.hbMapping /\ Len(c) <= Len(t.deepestNotarized)
      BY <3>5 DEF NotarizedIn, IsPresent, RootedAtGenesis, DeepestNotarizedIsDeepest, t
    <3>7. \A c \in DOMAIN u.hbMapping : Recorded(s, c)
      BY <2>2, <3>1 DEF Canonical, Recorded, t
    <3>8. ASSUME NEW c, NotarizedIn(s, c), Len(c) = Len(u.deepestNotarized)
          PROVE  EpochOf(u.deepestNotarized) <= EpochOf(c)
      <4>1. EpochOf(b) \in Nat
        BY <2>1, EpochOfNat DEF b
      <4>2. CASE Len(b) > Len(t.deepestNotarized)
        <5>1. u.deepestNotarized = b
          BY <3>2, <4>2
        <5>2. c = b
          <6>1. NotarizedIn(r, c) => Len(c) <= Len(t.deepestNotarized) /\ Len(c) \in Nat
            BY <3>5, <3>6
          <6>2. Len(t.deepestNotarized) \in Nat
            BY <3>5
          <6> QED
            BY <2>1, <3>4, <3>8, <4>2, <5>1, <6>1, <6>2
        <5> QED
          BY <4>1, <5>1, <5>2
      <4>3. CASE ~(Len(b) > Len(t.deepestNotarized))
        <5>1. u.deepestNotarized = t.deepestNotarized
          BY <3>2, <4>3
        <5>2. CASE c = b
          BY <3>3, <3>5, <3>8, <5>1, <5>2 DEF InTurnIn
        <5>3. CASE NotarizedIn(r, c)
          BY <3>6, <3>8, <5>1, <5>3 DEF Canonical, t
        <5> QED
          BY <3>4, <3>8, <5>2, <5>3
      <4> QED
        BY <4>2, <4>3
    <3>9. ASSUME NEW c, NotarizedIn(s, c), Consecutive(c)
          PROVE  u.hbMapping[Ancestor(c, 1)] = "FINALIZED"
      <4>1. CASE c = b
        BY <3>2, <3>9, <4>1
      <4>2. CASE NotarizedIn(r, c)
        <5>1. t.hbMapping[Ancestor(c, 1)] = "FINALIZED"
          BY <3>6, <3>9, <4>2 DEF Canonical, t
        <5>2. Ancestor(c, 1) \in DOMAIN t.hbMapping
          <6>1. Len(c) \in Nat /\ Len(c) >= 2 /\ c \in DOMAIN t.hbMapping
            BY <3>5, <3>6, <3>9, <4>2 DEF Consecutive
          <6>2. 1 \in 0 .. Len(c)
            BY <6>1
          <6> QED
            BY <3>5, <6>1, <6>2, StoredAncestors
        <5>3. Ancestor(c, 1) # b
          BY <2>1, <5>1 DEF b, t
        <5> QED
          BY <3>1, <5>1, <5>2, <5>3
      <4> QED
        BY <3>4, <3>9, <4>1, <4>2
    <3>10. ASSUME NEW c \in DOMAIN u.hbMapping, u.hbMapping[c] = "FINALIZED"
           PROVE  Len(c) <= Len(u.deepestFinalized)
      <4>1. CASE t.hbMapping[c] = "FINALIZED"
        <5>1. Len(c) <= Len(t.deepestFinalized) /\ c \in DOMAIN t.hbMapping
          BY <3>1, <3>10, <4>1 DEF Canonical, t
        <5>2. CASE u.deepestFinalized = t.deepestFinalized
          BY <5>1, <5>2
        <5>3. CASE 1 \in 1 .. Len(b) /\ u.deepestFinalized = Ancestor(b, 1)
          <6>1. Len(Ancestor(b, 1)) \in Nat /\ Len(b) \in Nat /\ Len(b) >= 1
            <7>1. Len(b) \in Nat /\ b \in Hash
              BY <2>1 DEF b
            <7>2. 1 \in 0 .. Len(b) /\ Len(b) >= 1
              BY <5>3, <7>1
            <7>3. Ancestor(b, 1) \in Hash
              BY <7>1, <7>2, AncestorHash
            <7> QED
              BY <7>1, <7>2, <7>3 DEF Hash
          <6>2. Len(t.deepestFinalized) <= Len(Ancestor(b, 1))
            BY <3>3, <6>1 DEF InTurnIn, t
          <6>3. Len(c) \in Nat /\ Len(t.deepestFinalized) \in Nat
            BY <3>5, <5>1
          <6> QED
            BY <5>1, <5>3, <6>1, <6>2, <6>3
        <5> QED
          BY <3>1, <5>2, <5>3
      <4>2. CASE Len(c) <= Len(Ancestor(b, 1)) /\ u.deepestFinalized = Ancestor(b, 1)
        BY <4>2
      <4> QED
        BY <3>1, <3>2, <3>10, <4>1, <4>2
    <3> QED
      BY <2>5, <3>7, <3>8, <3>9, <3>10 DEF Canonical, s
  <2> QED
    BY <2>2, <2>4, <2>5 DEF s
<1> QED
  BY <1>1, <1>2
=============================================================================
