------------------------ MODULE PartitioningScheduler ------------------------
(***************************************************************************)
(* The nodes of a scenario under class PartitioningScheduler.  The first    *)
(* third of the nodes is cut off from the rest: messages between the two    *)
(* sides wait in queues that are emptied only in rounds the decider names.  *)
(* One clockTick tells every node the time, empties the queues (pass        *)
(* "before"), increments timeSinceStart and empties them again ("after").   *)
(* The queues are emptied to the last message, those pushed meanwhile       *)
(* included, but a message filed under a round that has not come is handed  *)
(* to its receiver and then filed once more, a round later.                 *)
(***************************************************************************)
EXTENDS BaseScheduler

CONSTANT Deciders       \* for each decider, the set of the rounds in which
                        \* shouldSynchronize says yes

ASSUME EnoughNodes == N >= 4        \* initialize throws otherwise

VARIABLES
    syncRounds,         \* the decider, which never changes
    queues,             \* messagesMaj2Maj ... messagesMin2Min
    deferred,           \* the vector messages
    delivered           \* history: messages handed to their receivers

vars == <<time, honest, dishonest, walk, sent, syncRounds, queues, deferred, pc, pass,
          delivered>>

EdgeTypes == {"maj2maj", "min2min", "min2maj", "maj2min"}

\* Mutant: half of the nodes are cut off.
MinorityIdsHalf == 0 .. (N \div 2) - 1

MinorityIds == 0 .. ((N - 1) \div 3) - 1

\* Mutant: the receiver's side is not looked at.
EdgeTypeBySender(m) == IF m.from \in MinorityIds THEN "min2min" ELSE "maj2maj"

EdgeType(m) ==
    IF m.from \in MinorityIds
    THEN IF m.to \in MinorityIds THEN "min2min" ELSE "min2maj"
    ELSE IF m.to \in MinorityIds THEN "maj2min" ELSE "maj2maj"

\* Mutant: messages are filed under the round that comes next.
FiledAhead(messages, round) ==
    [i \in DOMAIN messages |-> [round |-> round + 1, message |-> messages[i]]]

\* What waits in a queue: a message and the round it is filed under.
Filed(messages, round) ==
    [i \in DOMAIN messages |-> [round |-> round, message |-> messages[i]]]

\* redirectMessagesToQueue, one entry after the other.
Redirect(qs, entries) ==
    [e \in EdgeTypes |->
        qs[e] \o FlattenSeq([i \in DOMAIN entries |->
                     IF EdgeType(entries[i].message) = e THEN << entries[i] >> ELSE << >>])]

Init ==
    /\ time = 0
    /\ honest = [v \in HonestNodes |-> NewReplica]
    /\ dishonest = [v \in DishonestNodes |-> NewDishonest]
    /\ walk \in Walks
    /\ sent = {}
    /\ syncRounds \in Deciders
    /\ queues = [e \in EdgeTypes |-> << >>]
    /\ deferred = << >>
    /\ pc = "broadcastTime"
    /\ pass = "before"
    /\ delivered = {}

BroadcastTime ==
    /\ pc = "broadcastTime" /\ time < NrRounds
    /\ pc' = "maj2maj"
    /\ \E payload \in Draws :
          LET answers == { v \in Nodes : AtTime(v, payload) # << >> }
          IN  \/ /\ answers = {}
                 /\ UNCHANGED <<queues, sent>>
              \/ \E v \in answers : \E messages \in {Vector(walk, AtTime(v, payload))} :
                    /\ queues' = Redirect(queues, Filed(messages, time))
                    /\ sent' = sent \cup Messages(AtTime(v, payload))
    /\ UNCHANGED <<time, honest, dishonest, walk, syncRounds, deferred, pass, delivered>>

-----------------------------------------------------------------------------
(* One iteration of Queue::applyToAll: pc is the queue being emptied, pass  *)
(* the call of beforeAndAfter.                                              *)

Emptying == pc \in EdgeTypes /\ ~S!Aborted

Entry == Head(queues[pc])

Popped == [queues EXCEPT ![pc] = Tail(@)]

\* Mutant: a message of a round to come goes straight back into its queue.
OnPopRequeue(out) ==
    /\ delivered' = delivered \cup {Entry.message}
    /\ UNCHANGED deferred
    /\ \/ /\ Entry.round <= time
          /\ \E messages \in {Vector(walk, out)} :
                queues' = Redirect(Popped, Filed(messages, Entry.round + 1))
          /\ sent' = sent \cup Messages(out)
       \/ /\ Entry.round > time
          /\ queues' = Redirect(Popped, <<Entry>>)
          /\ UNCHANGED sent

\* What Action::onPop does with the answer of a node: it is filed for the next
\* round, or dropped and the message kept for another delivery.
OnPop(out) ==
    /\ delivered' = delivered \cup {Entry.message}
    /\ \/ /\ Entry.round <= time
          /\ \E messages \in {Vector(walk, out)} :
                queues' = Redirect(Popped, Filed(messages, Entry.round + 1))
          /\ sent' = sent \cup Messages(out)
          /\ UNCHANGED deferred
       \/ /\ Entry.round > time
          /\ queues' = Popped
          /\ deferred' = Append(deferred, [Entry EXCEPT !.round = @ + 1])
          /\ UNCHANGED sent

Pop ==
    /\ Emptying /\ queues[pc] # << >>
    /\ LET answer == SendRec(Entry.message)
       IN  /\ honest' = answer.honest
           /\ dishonest' = answer.dishonest
           /\ OnPop(answer.out)
    /\ UNCHANGED <<time, walk, syncRounds, pc, pass>>

-----------------------------------------------------------------------------
(* beforeAndAfter and clockTick. *)

\* Mutant: the decider is asked only after the increment.
SynchronizingOnce == pass = "after" /\ time \in syncRounds

Synchronizing == time \in syncRounds

LastQueue == IF Synchronizing THEN "maj2min" ELSE "min2min"

\* A queue is empty and another one follows.
NextQueue ==
    /\ Emptying /\ queues[pc] = << >> /\ pc # LastQueue
    /\ pc' = CASE pc = "maj2maj" -> "min2min"
               [] pc = "min2min" -> "min2maj"
               [] pc = "min2maj" -> "maj2min"
    /\ UNCHANGED <<time, honest, dishonest, walk, sent, syncRounds, queues, deferred, pass,
                   delivered>>

\* Mutant: the deferred messages are not cleared.
EndPassKeeping ==
    /\ Emptying /\ queues[pc] = << >> /\ pc = LastQueue
    /\ queues' = Redirect(queues, deferred)
    /\ \/ pass = "before" /\ pass' = "after" /\ time' = time + 1 /\ pc' = "maj2maj"
       \/ pass = "after" /\ pass' = "before" /\ pc' = "broadcastTime" /\ UNCHANGED time
    /\ UNCHANGED <<honest, dishonest, walk, sent, syncRounds, deferred, delivered>>

\* beforeAndAfter ends: what it deferred goes back into the queues.
EndPass ==
    /\ Emptying /\ queues[pc] = << >> /\ pc = LastQueue
    /\ queues' = Redirect(queues, deferred)
    /\ deferred' = << >>
    /\ \/ pass = "before" /\ pass' = "after" /\ time' = time + 1 /\ pc' = "maj2maj"
       \/ pass = "after" /\ pass' = "before" /\ pc' = "broadcastTime" /\ UNCHANGED time
    /\ UNCHANGED <<honest, dishonest, walk, sent, syncRounds, delivered>>

Done == pc = "broadcastTime" /\ time = NrRounds

\* start has returned.
Terminating == Done /\ UNCHANGED vars

Next ==
    \/ BroadcastTime
    \/ Pop
    \/ NextQueue \/ EndPass
    \/ Terminating

\* The scheduler's thread runs until start returns.
Spec == Init /\ [][Next]_vars /\ WF_vars(Next)
-----------------------------------------------------------------------------
\* The scheduler's and the nodes' states have the types of the code's fields,
\* and every message waits in the queue of its two sides
\* (partitioning_scheduler.cpp:37-55).
IsFiled(entry) == entry.round \in Nat /\ entry.message \in Message

TypeOK ==
    /\ time \in 0 .. NrRounds
    /\ pc \in EdgeTypes \cup {"broadcastTime"}
    /\ pass \in {"before", "after"}
    /\ \A e \in EdgeTypes : \A i \in DOMAIN queues[e] :
          IsFiled(queues[e][i]) /\ EdgeType(queues[e][i].message) = e
    /\ \A i \in DOMAIN deferred : IsFiled(deferred[i])
    /\ \A v \in HonestNodes : IsReplica(honest[v])
    /\ \A v \in DishonestNodes : IsDishonest(dishonest[v])

\* The asserts of Block::notarize and Block::finalize (block.cpp:30, 36) hold,
\* although a synchronization brings the blocks and votes of many epochs at
\* once and votes are delivered over and over.
NoAssertFails == ~S!Aborted

\* A message is held once, however often it is delivered: requeueing the votes
\* (partitioning_scheduler.cpp:115, 76-79) never multiplies them.
Held ==
    LET all == queues["maj2maj"] \o queues["min2min"] \o queues["min2maj"]
                   \o queues["maj2min"] \o deferred
    IN  [i \in DOMAIN all |-> all[i].message]

NotMultiplied == Cardinality(ToSet(Held)) = Len(Held)

\* A node knows a block or counts a vote from the other side only if the two
\* sides were synchronized since its epoch began (partitioning_scheduler.cpp:66-74).
OtherSide(v) == IF v \in MinorityIds THEN Nodes \ MinorityIds ELSE MinorityIds

StartOf(epoch) == (epoch - 1) * EpochLength

SidesSeparated ==
    \A v \in HonestNodes :
        LET heardFromAfar ==
                { e \in DOMAIN honest[v].proposedBlocks \ {0} :
                    GetLeader(e) \in OtherSide(v) }
                \cup { vote[1] : vote \in { x \in honest[v].votes :
                                              x[2] \in OtherSide(v) } }
        IN  \A e \in heardFromAfar : \E r \in syncRounds : StartOf(e) <= r /\ r <= time

\* If every node is honest a synchronization leaves nobody behind.  The
\* shouldSynchronize of one round is asked after the increment of one tick and
\* again in the next; after the second time all trees are the same
\* (partitioning_scheduler.cpp:57-74), whatever the sides did meanwhile.
CaughtUp ==
    HonestCount = N /\ pc = "broadcastTime" /\ time - 1 \in syncRounds =>
        \A v, w \in HonestNodes : honest[v].tree = honest[w].tree

\* What is delivered again (partitioning_scheduler.cpp:109, 115) changes
\* nobody and is not answered.
RedeliveryIsIdle ==
    [][ Pop /\ Entry.message \in delivered
          => UNCHANGED <<honest, dishonest, sent>> ]_vars

\* Whatever holds of Streamlet holds under this scheduler.  In particular no
\* answer is lost where onPop drops it (partitioning_scheduler.cpp:112-116).
ImplementsStreamlet == S!Spec

\* With fewer than a third of the nodes dishonest, the honest nodes of both
\* sides finalize one ledger and never take anything back, during a partition
\* and after it.
ImplementsLedger == L!Spec

\* start returns: applyToAll ends although onPop pushes into the queue that is
\* being emptied (queue.hpp:25-31).
Terminates == <>Done

\* The majority alone is a quorum (partitioning_scheduler.cpp:21): an epoch led
\* from there between two others ends up finalized at every node of the
\* majority, whatever the decider does.
Majority == HonestNodes \ MinorityIds

LedByMajority(e) == e = 0 \/ GetLeader(e) \in Majority

FinalizedIn(v, e) ==
    \E b \in DOMAIN honest[v].tree.hbMapping :
        EpochOf(b) = e /\ honest[v].tree.hbMapping[b] = "FINALIZED"

MajorityFinalizes ==
    HonestCount = N =>
        \A e \in 1 .. GetEpoch(NrRounds - 1) - 1 :
            LedByMajority(e - 1) /\ LedByMajority(e) /\ LedByMajority(e + 1) =>
                <>[](\A v \in Majority : FinalizedIn(v, e))
=============================================================================
