---------------------------- MODULE BaseScheduler ----------------------------
(***************************************************************************)
(* What the schedulers share: the nodes they own, the clock they tell them, *)
(* and the vectors in which nodes hand over the messages they send.  The    *)
(* process has one thread, so the order of a vector is the order in which   *)
(* its messages are filed.                                                  *)
(***************************************************************************)
EXTENDS Broadcast

CONSTANT NrRounds       \* start(nrRounds)

ASSUME NrRoundsAssumption == NrRounds \in Nat

VARIABLES
    time,               \* timeSinceStart
    honest, dishonest,  \* the nodes
    walk,               \* the order in which each unordered set is walked
    sent,               \* history: every message ever filed
    pc,                 \* which statement of clockTick comes next
    pass                \* a tick delivers twice, before and after it increments
                        \* timeSinceStart

\* Each scheduler implements the arbitrary one of Streamlet: a round counts as
\* announced as soon as broadcastTime has returned.
Announced == IF pc # "broadcastTime" /\ pass = "before" THEN time + 1 ELSE time

S == INSTANCE Streamlet WITH time <- Announced

\* Every node is told the time; only the leader of the epoch ever answers.
AtTime(v, payload) ==
    CASE v \in HonestNodes    -> HonestAtTime(v, honest[v], time, payload[0])
      [] v \in DishonestNodes -> DishonestAtTime(v, dishonest[v], time, payload)
      [] OTHER                -> << >>

\* sendRec: the receiver handles the message.  The nodes afterwards, and what it
\* answers; a dummy does and says nothing.
SendRec(m) ==
    LET h == HonestOnMessageReceive(m.to, honest[m.to], m)
        d == DishonestOnMessageReceive(m.to, dishonest[m.to], m)
    IN  CASE m.to \in HonestNodes ->
               [honest |-> [honest EXCEPT ![m.to] = h.replica], dishonest |-> dishonest,
                out |-> h.out]
          [] m.to \in DishonestNodes ->
               [honest |-> honest, dishonest |-> [dishonest EXCEPT ![m.to] = d.node],
                out |-> d.out]
          [] OTHER -> [honest |-> honest, dishonest |-> dishonest, out |-> << >>]

\* The chains the nodes have finalized, for the refinement of Ledger.  Hashes
\* commit to the blocks below them, so a chain is the hash of its last block.
Finalized == [v \in HonestNodes |-> honest[v].tree.deepestFinalized]

LongestFinalized ==
    CHOOSE c \in { Finalized[v] : v \in HonestNodes } \cup { GenesisHash } :
        \A v \in HonestNodes : Len(Finalized[v]) <= Len(c)

\* Below the fault bound the nodes keep one ledger.
L == INSTANCE Ledger WITH Holders <- HonestNodes, Entry <- Nat \X Payload,
                          ledger <- LongestFinalized, view <- Finalized
=============================================================================
