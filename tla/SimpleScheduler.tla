--------------------------- MODULE SimpleScheduler ---------------------------
(***************************************************************************)
(* The nodes of a scenario under class SimpleScheduler.  One clockTick      *)
(* tells every node the time, delivers the messages filed under this round, *)
(* increments timeSinceStart and delivers those filed under the new round;  *)
(* the answers to a message of round r are filed under round r + 1.         *)
(*                                                                         *)
(* The scheduler is single-threaded: the order of deliveries is the order   *)
(* of the vectors.  What the code leaves open is the payload of a proposal  *)
(* (getRandomPayload) and the order in which a dishonest node walks its     *)
(* unordered sets of receivers.                                             *)
(***************************************************************************)
EXTENDS BaseScheduler

VARIABLE roundMessages  \* round -> messages filed under it

vars == <<time, roundMessages, pc, pass, honest, dishonest, walk, sent>>

Rounds == 0 .. NrRounds + 1

\* utils::insert(roundMessages[round], ...) of what a node sends.
File(out, round, messages) ==
    /\ roundMessages' = [messages EXCEPT ![round] = @ \o Vector(walk, out)]
    /\ sent' = sent \cup Messages(out)

Init ==
    /\ time = 0
    /\ roundMessages = [r \in Rounds |-> << >>]
    /\ pc = "broadcastTime" /\ pass = "before"
    /\ honest = [v \in HonestNodes |-> NewReplica]
    /\ dishonest = [v \in DishonestNodes |-> NewDishonest]
    /\ walk \in Walks
    /\ sent = {}

BroadcastTime ==
    /\ pc = "broadcastTime" /\ time < NrRounds
    /\ pc' = "sendFromRound"
    /\ \E payload \in Draws :
          LET answers == { v \in Nodes : AtTime(v, payload) # << >> }
          IN  \/ /\ answers = {}
                 /\ UNCHANGED <<roundMessages, sent>>
              \/ \E v \in answers : File(AtTime(v, payload), time, roundMessages)
    /\ UNCHANGED <<time, pass, honest, dishonest, walk>>

\* One iteration of the loop of sendFromRound(timeSinceStart).
NextMessage == Head(roundMessages[time])

Delivering ==
    /\ pc = "sendFromRound"
    /\ roundMessages[time] # << >>
    /\ ~S!Aborted

Send ==
    /\ Delivering
    /\ LET answer == SendRec(NextMessage)
       IN  /\ honest' = answer.honest
           /\ dishonest' = answer.dishonest
           /\ File(answer.out, time + 1, [roundMessages EXCEPT ![time] = Tail(@)])
    /\ UNCHANGED <<time, pc, pass, walk>>

\* sendFromRound returns: all it found has been delivered.
Returning == pc = "sendFromRound" /\ roundMessages[time] = << >> /\ ~S!Aborted

\* Mutants: the second sendFromRound is missing, or the clock stands still.
EndSendThisReturns ==
    /\ Returning /\ pass = "before"
    /\ pc' = "broadcastTime"
    /\ time' = time + 1
    /\ UNCHANGED <<roundMessages, pass, honest, dishonest, sent, walk>>

EndSendThisNoTick ==
    /\ Returning /\ pass = "before"
    /\ pass' = "after"
    /\ UNCHANGED <<time, roundMessages, pc, honest, dishonest, sent, walk>>

\* The first sendFromRound returns and the clock advances.
EndSendThis ==
    /\ Returning /\ pass = "before"
    /\ pass' = "after"
    /\ time' = time + 1
    /\ UNCHANGED <<roundMessages, pc, honest, dishonest, sent, walk>>

\* The second sendFromRound returns, and with it clockTick.
EndSendNext ==
    /\ Returning /\ pass = "after"
    /\ pc' = "broadcastTime" /\ pass' = "before"
    /\ UNCHANGED <<time, roundMessages, honest, dishonest, sent, walk>>

Done == pc = "broadcastTime" /\ time = NrRounds

\* start has returned.
Terminating == Done /\ UNCHANGED vars

Next ==
    \/ BroadcastTime
    \/ Send
    \/ EndSendThis \/ EndSendNext
    \/ Terminating

\* The scheduler's thread runs until start returns.
Spec == Init /\ [][Next]_vars /\ WF_vars(Next)
-----------------------------------------------------------------------------
\* The asserts of Block::notarize and Block::finalize (block.cpp:30, 36) hold
\* in every tree, also in the two trees of a dishonest node: under this
\* scheduler a block is never notarized above one that is not.
NoAssertFails == ~S!Aborted

\* Proposals, and the votes they cause, are delivered within the tick that
\* sent them: between two ticks nothing is on its way (simple_scheduler.cpp:20-26).
NothingPendingBetweenTicks ==
    pc = "broadcastTime" => \A r \in Rounds : roundMessages[r] = << >>

\* Without dishonest nodes the honest ones go through the same states: they
\* agree completely whenever a tick has ended.
HonestInLockstep ==
    DishonestCount = 0 /\ pc = "broadcastTime" =>
        \A v, w \in HonestNodes : honest[v] = honest[w]

\* When a tick has ended, face k of every dishonest node has recorded, for the
\* epochs of dishonest leaders, what the honest nodes of fraction k recorded:
\* the toggling of firstHalf (dishonest_node.cpp:63, 118) has kept in step with
\* the order of the two proposals.
FacesMatchFractions ==
    pc = "broadcastTime" =>
        \A d \in DishonestNodes, k \in 0 .. 1 :
            \A v \in HonestNodesFractions(k) \cap HonestNodes :
                dishonest[d].faces[k].proposedBlocks = honest[v].proposedBlocks

\* This scheduler is one of those Streamlet speaks of.
ImplementsStreamlet == S!Spec

\* The finalized chains (tree.cpp:87-89) of the honest nodes are views of one
\* ledger that only grows: they never conflict, and deepestFinalized, which is
\* overwritten whatever it was (tree.cpp:72), is never taken back.  Nodes accept
\* a proposal of any epoch at any time (honest_node.cpp:59-65), so this is for
\* the scheduler to ensure.  For fewer than a third of the nodes dishonest.
ImplementsLedger == L!Spec

\* An epoch led by an honest node between two others (or after genesis) ends
\* up finalized at every honest node, if no node is dishonest and the honest
\* ones are a quorum.
LedByHonest(e) == e = 0 \/ GetLeader(e) \in HonestNodes

FinalizedIn(v, e) ==
    \E b \in DOMAIN honest[v].tree.hbMapping :
        EpochOf(b) = e /\ honest[v].tree.hbMapping[b] = "FINALIZED"

HonestEpochsFinalized ==
    DishonestCount = 0 /\ IsQuorum(HonestNodes) =>
        \A e \in 1 .. GetEpoch(NrRounds - 1) - 1 :
            LedByHonest(e - 1) /\ LedByHonest(e) /\ LedByHonest(e + 1) =>
                <>[](\A v \in HonestNodes : FinalizedIn(v, e))

\* README.md:47: "simple will deliver messages from last round".  A proposal is
\* sent at the first round of its epoch.
SendingRound(proposal) == (EpochOf(proposal.block) - 1) * EpochLength

DeliversFromLastRound ==
    [][ Send /\ NextMessage.type = "PROPOSAL"
          => SendingRound(NextMessage) < time ]_vars
=============================================================================
