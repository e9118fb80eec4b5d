------------------------------ MODULE Streamlet ------------------------------
(***************************************************************************)
(* The nodes of a scenario under any scheduler at all: the nodes are told   *)
(* the rounds one after the other, and a message once sent may be delivered *)
(* at any time, in any order, any number of times or never.  Both           *)
(* schedulers of the repository restrict these deliveries; what holds here  *)
(* holds under each of them.                                                *)
(***************************************************************************)
EXTENDS HonestNode, DishonestNode

CONSTANT NrRounds       \* IScheduler::start(nrRounds)

ASSUME NrRoundsAssumption == NrRounds \in Nat

VARIABLES
    time,               \* timeSinceStart, counted in rounds announced
    honest,             \* the replica of each honest node
    dishonest,          \* the state of each dishonest node
    sent                \* every message sent so far

vars == <<time, honest, dishonest, sent>>

\* A failed assert ends the process, and with it every node.
Aborted ==
    \/ \E v \in HonestNodes : honest[v].tree.assertFailed
    \/ \E v \in DishonestNodes, k \in 0 .. 1 : dishonest[v].faces[k].tree.assertFailed

Init ==
    /\ time = 0
    /\ honest = [v \in HonestNodes |-> NewReplica]
    /\ dishonest = [v \in DishonestNodes |-> NewDishonest]
    /\ sent = {}

\* The scheduler tells every node the time.  An honest leader draws one
\* payload, a dishonest one a second for its second block.
BroadcastTime ==
    /\ ~Aborted
    /\ time < NrRounds
    /\ time' = time + 1
    /\ \E payload \in Draws :
          LET proposals == { HonestAtTime(v, honest[v], time, payload[0]) :
                               v \in HonestNodes }
                           \cup { DishonestAtTime(v, dishonest[v], time, payload) :
                                    v \in DishonestNodes }
          IN  sent' = sent \cup UNION { Messages(out) : out \in proposals }
    /\ UNCHANGED <<honest, dishonest>>

HonestReceives(m) ==
    /\ ~Aborted
    /\ m.to \in HonestNodes
    /\ LET answer == HonestOnMessageReceive(m.to, honest[m.to], m)
       IN  /\ honest' = [honest EXCEPT ![m.to] = answer.replica]
           /\ sent' = sent \cup Messages(answer.out)
    /\ UNCHANGED <<time, dishonest>>

DishonestReceives(m) ==
    /\ ~Aborted
    /\ m.to \in DishonestNodes
    /\ LET answer == DishonestOnMessageReceive(m.to, dishonest[m.to], m)
       IN  /\ dishonest' = [dishonest EXCEPT ![m.to] = answer.node]
           /\ sent' = sent \cup Messages(answer.out)
    /\ UNCHANGED <<time, honest>>

Next ==
    \/ BroadcastTime
    \/ \E m \in sent : HonestReceives(m) \/ DishonestReceives(m)

Spec == Init /\ [][Next]_vars
-----------------------------------------------------------------------------
\* The nodes' states and the messages have the types of the code's fields.
TypeOK ==
    /\ time \in 0 .. NrRounds
    /\ honest = [v \in HonestNodes |-> honest[v]]
    /\ \A v \in HonestNodes : IsReplica(honest[v])
    /\ dishonest = [v \in DishonestNodes |-> dishonest[v]]
    /\ \A v \in DishonestNodes : IsDishonest(dishonest[v])
    /\ \A m \in sent : m \in Message

Notarized(v, b) == NotarizedIn(honest[v], b)

\* The fault bound of Streamlet: fewer than a third of the nodes dishonest.
FewDishonest == 3 * DishonestCount < N

\* What a vote says is kept by its sender, an honest node, as long as it
\* lives: it votes for the one block it recorded in that epoch
\* (honest_node.cpp:63-73), and for a block it stores on top of one it has
\* notarized (honest_node.cpp:69-72).  No second proposal and no order of
\* deliveries can take that back.
HonestVotesForRecorded ==
    \A m \in sent :
        m.type = "VOTE" /\ m.from \in HonestNodes
           => /\ EpochOf(m.block) \in DOMAIN honest[m.from].proposedBlocks
              /\ honest[m.from].proposedBlocks[EpochOf(m.block)] = m.block
              /\ m.block # GenesisHash
              /\ Notarized(m.from, ParentHash(m.block))

\* A node counts only votes that were sent to it, for the block it recorded
\* in that epoch (honest_node.cpp:82-87).
VotesWereSent ==
    \A v \in HonestNodes : \A vote \in honest[v].votes :
        /\ vote[1] \in DOMAIN honest[v].proposedBlocks
        /\ [ from |-> vote[2], to |-> v, type |-> "VOTE",
             block |-> honest[v].proposedBlocks[vote[1]] ] \in sent

\* A notarized block is the one recorded in its epoch, and a quorum of votes
\* stands behind it (honest_node.cpp:87-92).
NotarizedByQuorum ==
    \A v \in HonestNodes : \A b \in DOMAIN honest[v].tree.hbMapping :
        Notarized(v, b) /\ b # GenesisHash
           => /\ EpochOf(b) \in DOMAIN honest[v].proposedBlocks
              /\ honest[v].proposedBlocks[EpochOf(b)] = b
              /\ IsQuorum(Voters(honest[v], EpochOf(b)))

\* Dummy nodes send nothing (dummy_node.cpp:6-16).
SendersTakePart == \A m \in sent : m.from \in HonestNodes \cup DishonestNodes

\* Below the fault bound no two honest nodes notarize different blocks of
\* one epoch, whatever a dishonest leader proposes to whom and however the
\* messages are delivered (honest_node.cpp:59-93).
EpochAgreement ==
    FewDishonest =>
        \A v, w \in HonestNodes :
            \A b \in DOMAIN honest[v].tree.hbMapping,
               c \in DOMAIN honest[w].tree.hbMapping :
                Notarized(v, b) /\ Notarized(w, c) /\ EpochOf(b) = EpochOf(c)
                   => b = c

\* Below the fault bound, when an honest node notarizes a block, some honest
\* node has notarized the block's parent: votes are given only to a block
\* that extends a notarized one (honest_node.cpp:72).
NotarizedExtendsNotarized ==
    FewDishonest =>
        \A v \in HonestNodes : \A b \in DOMAIN honest[v].tree.hbMapping :
            Notarized(v, b) /\ b # GenesisHash
               => \E w \in HonestNodes : Notarized(w, ParentHash(b))

\* The invariant the theorems are proved with.
IInv ==
    /\ TypeOK
    /\ \A v \in HonestNodes : ReplicaInv(honest[v])
    /\ \A v \in DishonestNodes, k \in 0 .. 1 : ReplicaInv(dishonest[v].faces[k])
    /\ HonestVotesForRecorded
    /\ VotesWereSent
    /\ NotarizedByQuorum
    /\ SendersTakePart

\* An honest node never votes for a block less deep than one it has voted
\* for, since it votes only on top of a deepest notarized block
\* (honest_node.cpp:72, tree.cpp:93-99).
VotesBy(v, messages) ==
    { m.block : m \in { mm \in messages : mm.type = "VOTE" /\ mm.from = v } }

VotesNeverGoUp ==
    [][ \A v \in HonestNodes :
          \A b \in VotesBy(v, sent' \ sent), c \in VotesBy(v, sent) :
              Len(b) >= Len(c) ]_vars
=============================================================================
