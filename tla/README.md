# TLA+ verification of bchain-streamlet

The repository simulates the Streamlet consensus protocol: honest, dummy and
dishonest nodes exchange proposals and votes under a scheduler, each participant
keeps a tree of blocks, and three notarized blocks of consecutive epochs finalize
a prefix. The simulation is single-threaded and deterministic up to random
payloads and the order of unordered sets. What is hard is not threads but the
*order of calls*: which node notarizes what before which proposal reaches it,
and, in the logging library the program is built with, which configuration was
set before which.

This directory holds TLA+ modules translated from the C++ sources, TLC
configurations that check them on small instances, and TLAPS proofs that hold
for every number of nodes, every leader rota and every delivery of messages.

## Inventory

| Component (source) | State | Operations | Correct when |
|---|---|---|---|
| `Block`, `Tree` (`src/state`) | `hbMapping`, `depths`, `deepestNotarized`, `deepestFinalized`, a status per block | `addBlock`, `notarize` (which tries to finalize), `isDeepestNotarized`, `isPresent`, `getSomeDeepestNotarized`, `getFinalizedChain` | the stored blocks are a tree rooted at the finalized genesis block; the distinguished blocks are what their names say; finalized blocks are closed under ancestors and justified by three consecutive epochs; asserts hold |
| `HonestNode`, `BaseNode` (`src/node`) | a tree, `proposedBlocks` (first proposal of each epoch), `votes` (voters of each epoch) | `atTime`, `onMessageReceive` = `handlePropose` / `handleVote` | one vote per epoch, only above a deepest notarized block; only a quorum notarizes; honest nodes agree on each epoch; finalized chains do not conflict |
| `DishonestNode` (`src/node`) | two of everything, `firstHalf` | same | each face keeps in step with the half of the nodes it deceives |
| `DummyNode` (`src/node`) | none | answers nothing | |
| Services (`src/services`) | epoch length, repeat count | `getEpoch`, `isEpochStart`, `getLeader`, `getRandomPayload` | all nodes are told the same leader |
| `SimpleScheduler`, `BaseScheduler` (`src/schedulers`) | `timeSinceStart`, `roundMessages` | `start` = `clockTick`* = `broadcastTime`, `sendFromRound`, tick, `sendFromRound` | a tick delivers everything it caused; honest epochs are finalized |
| `PartitioningScheduler`, `Queue`, `Synchronizer` (`src/schedulers`, `src/services`) | four queues, deferred messages, the minority, the decider | `clockTick`, `beforeAndAfter`, `onPop`, `applyToAll`, `shouldSynchronize` | no message crosses the partition between synchronizations, none is lost or multiplied; the majority finalizes; a synchronization makes the sides equal; `start` returns |
| `ScenarioConfig`, `Runner` (`src/scenarios`) | the scenario, the nodes | the constructor, the getters, `play` | nodes, service and scheduler agree on ids and counts; a sensible file is played to the end |
| `StateRenderer`, `main` | the renderer's members, the output | `renderForest`, `main` | the picture shows each tree as it is and is unambiguous |
| Logging (easylogging++, `src/logging`) | per logger: configurations, their typed maps, unflushed counts; shared streams and files; flags, verbose levels, hit counters | configuring, registering, writing, flushing, rolling | a logger answers what it was configured with; records go where they are configured to go, are held back no longer than configured and are not lost |
| Tests, catch2 | | | not modelled |

The components interact by plain calls: the scheduler calls `atTime` and
`onMessageReceive` of each node and files the messages they return; nodes call
their service and their tree; a tree calls back the finalization predicate.
Nobody shares state with anybody else; the only channel between nodes is the
scheduler.

**What is hard.** Messages of one epoch overtaking those of another; votes that
arrive before their proposal (dropped for good); proposals whose parent is
missing (recorded, never added); stale proposals, which nothing refuses; a
leader that proposes two blocks; finalization that looks at epochs and not at
statuses; `deepestFinalized` overwritten without comparison; asserts that end
the whole process; votes under a partition that are delivered again and again;
unsigned counts that wrap around; logging configurations kept twice, as a list and
as maps that leave out what equals `Global`. `PROJECT.json` lists each hazard at its line with the
properties that cover it.

## Modules

| Module | Models |
|---|---|
| `BlockTree` | `Block` and `Tree` as operators on a tree record, and what holds of every tree (`TreeInv` and its parts) |
| `Tree` | one tree as a state machine: every order of `addBlock` and `notarize` its callers may produce |
| `BaseNode` | who the nodes are, epochs, messages, and the *replica*: tree + first proposals + votes, which `HonestNode` has once and `DishonestNode` twice |
| `HonestNode`, `DishonestNode` | the handlers, as operators from a node's state and a message to its new state and its answer |
| `RepeatService` | the leader rota |
| `Streamlet` | all nodes under *any* scheduler: a sent message may be delivered at any time, in any order, any number of times or never. The abstract specification |
| `Ledger` | the other abstract specification: one ledger of which every honest node holds a prefix, and which only grows |
| `Broadcast` | how a node's envelopes become the vector of messages it hands to its scheduler |
| `BaseScheduler` | what the schedulers share: the nodes, the clock, the passes of a tick, `sendRec` |
| `SimpleScheduler` | all nodes under the shipped `SimpleScheduler`, statement by statement |
| `PartitioningScheduler` | all nodes under `PartitioningScheduler`, with `Queue` and a decider |
| `StateRenderer`, `Main` | the renderer as operators; a run of `SimpleScheduler` with the drawing `main` does behind it |
| `Scenario` | from the file to the end of the process: `ScenarioConfig`, `Runner::play`, and a tick as far as it divides by what the file says |
| `LogConfigurations`, `TypedConfigurations`, `Loggers`, `VRegistry` | easylogging++: the lists of configurations and their parser; the maps built from them and the files; loggers, their registry, dispatching; verbose levels and command-line arguments. Operators |
| `Logging` | the library as a state machine, an action for each group of calls a program makes |
| `MCTree`, `MCStreamlet`, `MCSimpleScheduler`, `MCMain`, `MCPartitioningScheduler`, `MCScenario`, `MCLogging` | values for TLC |
| `BlockTreeProofs`, `TreeProofs` | lemmas on the operators, theorems on `Tree` |
| `NodeProofs`, `StreamletProofs` | lemmas on handlers, quorums and finalized chains; theorems on `Streamlet` |
| `SchedulerProofs` | theorems on `Ledger`; lemmas on what the schedulers share: vectors, a delivery, an announcement, and what each is in `Streamlet` and `Ledger` |
| `SimpleSchedulerProofs`, `PartitioningSchedulerProofs` | theorems on the two schedulers |
| `ScenarioProofs` | theorems on `Scenario` |

`SimpleScheduler` and `PartitioningScheduler` extend `BaseScheduler`, which extends
`Broadcast` and the nodes' modules; each is shown to implement both `Streamlet` and
`Ledger`.
`Main` composes `SimpleScheduler` and `StateRenderer`. `Scenario` and `Logging`
stand alone: they share no state with the nodes.

How state and actions correspond to the code:

- *Hashes.* `Block::hash` digests the parent's hash, the epoch and the payload.
  The digest is taken to be injective, so a hash is the chain of
  `<<epoch, payload>>` pairs below it, the genesis block is `<<>>`, and a block is
  identified with its hash. The mutable status lives in `hbMapping`.
- *Asserts.* The build sets no `NDEBUG`, so a failed assert of
  `block.cpp:30, 36` aborts the process: `assertFailed` records it, and no
  action is enabled afterwards (`Aborted`). Within `tryFinalizeUntil` the blocks
  finalized before the failing one are not recorded: nothing can read them.
- *Votes* are pairs `<<epoch, voter>>`, which is the map from epochs to sets of
  voters.
- *Broadcasts.* A handler returns envelopes, each a call of `broadcast` with its
  set of receivers. `Broadcast` serializes them into a vector: counting up for
  honest nodes; a dishonest node walks an `unordered_set`, in an order (`walk`)
  that is arbitrary but the same throughout a run, since all dishonest nodes
  build the same sets in the same way and never change them.
- *Random payloads* are a choice of two from `Draws`. Blocks of different epochs
  differ anyway, so TLC distinguishes only whether the two payloads of one epoch
  are equal (`MCDraws`).
- *`SimpleScheduler::clockTick`* is `pc` at `broadcastTime` and then at
  `sendFromRound`, called before and after the increment (`pass`): one action per
  delivered message (`Send`), one per return of `sendFromRound` (`EndSendThis` with
  the increment, `EndSendNext`). `sent` is a history variable for the refinement.
- *`PartitioningScheduler::clockTick`* is `pc` going through `broadcastTime` and the
  queues of `beforeAndAfter`, twice (`pass`): one action per `onPop` (`Pop`), one
  when a queue is empty and another follows (`NextQueue`), one when the pass ends
  and puts the `deferred` messages back (`EndPass`). A decider is the set of rounds
  in which `shouldSynchronize` says yes.
- *The time of `Streamlet`* counts the rounds announced: both schedulers map it to
  `Announced`, which is ahead of `timeSinceStart` from the return of `broadcastTime`
  to the increment.
- *The scenario file* is a table of entries, absent, null, a number or some text.
  yaml-cpp is known from its use: `as<T>` throws on what is no `T`, and
  `operator bool` only tells whether the key is there. `unsigned` has `Width` bits.
- *The renderer's text* is kept as what dot makes of it: clusters, with the nodes
  and edges by their ids.
- *Logging.* `el` holds the loggers, the defaults for new ones, the disk and the
  standard output. Configurations are, for each type, a list of levels and values
  in the order of their registration; nothing depends on the order between types.
  Streams are known by their files; what is written stands in `pending` until a
  flush moves it to `files`. Sizes are counted in records. Where the library walks
  an unordered map, every order is a behaviour. The library is built without
  threads (`ELPP_THREADING_ENABLED` is 0), so its locks are empty.
- *`Streamlet`'s* `BroadcastTime` tells all nodes the time in one step: between
  two calls of `atTime` nothing else happens in either scheduler, and `atTime`
  changes no node.

Mutated variants (`...AnyDepth`, `...Half`, `...Again`, ...) stand before the
definition they are a mutation of. No specification uses them; they are the
plausible bugs each property was seen to catch.

## Runs

| Run | Instance | Checks |
|---|---|---|
| `tree` | 1 payload, epochs 1..5 | the tree's invariants; statuses only advance; an assert needs a skipped parent; the finalized chain is left only sideways |
| `streamlet_honest` | 2 honest, 3 epochs of one round, any delivery | `IInv`, `HonestVotesForRecorded`, `VotesNeverGoUp` |
| `streamlet_dishonest` | 2 honest, 1 dummy, 1 dishonest leader, 1 epoch of two rounds, any delivery | types, `EpochAgreement` |
| `simple_honest` | 3 honest, 1 dummy, 14 rounds, epochs of two | `NothingPendingBetweenTicks`, `HonestInLockstep`, `HonestEpochsFinalized` |
| `simple_dishonest` | 3 honest, 1 dishonest, 12 rounds, each leads three epochs of one round; `main` draws the result | `ImplementsLedger`; `NoAssertFails`; `PictureShowsTrees`, `PictureReadable` |
| `simple_two_dishonest` | 2 honest, 2 dishonest, 6 rounds, leading in turn | `ImplementsStreamlet`; `FacesMatchFractions` |
| `simple_doc` | as `simple_honest` | a sentence of the README the code contradicts (below) |
| `partition_honest` | 7 honest, 2 of them cut off, 7 rounds, every `synchronize-every-n`, and deciders that say yes once or never | types, `NotMultiplied`, `SidesSeparated`, `CaughtUp`, `RedeliveryIsIdle`, `MajorityFinalizes`, `Terminates` |
| `partition_dishonest` | 3 honest, 1 of them cut off, 1 dishonest, 9 rounds, synchronized every 2, 3 or 5 | `ImplementsStreamlet`, `ImplementsLedger`, `NoAssertFails` |
| `scenario` | `unsigned` of 3 bits; counts and lengths around 0 and the limit, at most one bad entry | `IdsArePositions`, `KilledOnlyByZero`, `PlayedToTheEnd` |
| `scenario_doc` | the same files | the README's example does not load (below) |
| `logging` | two loggers, one to four calls of several kinds, or nine of the counting macros | `ConfiguredIsAnswered`, `WrittenWhereConfigured`, `HeldBelowThreshold`, `FilesKeptOrRolled`, `OccasionsCounted` |

**Bounds, and why they are enough.** `Epochs` (`tree`): five blocks reach a
finalized chain of two and a fork that replaces it, an assert that fails, and
finalization through a gap. `NrRounds` (the argument of `start`) is the bound of
the other models; there are no others: the queue of messages, the set of votes
and the trees are bounded by it. Two honest nodes and three epochs show stale
votes and forks of a tree; four nodes are the least that tolerate one dishonest.
In `simple_dishonest` the dishonest node leads epochs 10 to 12, after nine epochs
in which it votes; in `simple_two_dishonest` and `partition_dishonest` the lead
rotates every epoch, with honest epochs before and after the dishonest ones.
`simple_honest` passes through the silent epochs of the dummy and finalizes on
both sides of one. `streamlet_*` give each message every fate; two or three
epochs are all TLC can enumerate there, which is why the same invariants are
proved.

Seven nodes are the least with a minority of two, which can talk to each other;
their majority of five is a quorum without a node to spare. Seven rounds let each
of them lead, with anything from no synchronization to one in every round. In `partition_dishonest`
four nodes leave one cut off; nine rounds are two turns of the lead and one more
epoch, with several synchronizations. `ImplementsLedger` was
also tried with 16 rounds, leads of one to three epochs and epochs of two rounds,
and held.

`Width` 3 makes 7 the largest count, so that sums wrap around. In `logging`
the bound is `left`: how many calls of each kind a program makes (`MCBudgets`).
Two configurations and two records, or one and three, are enough for a
reconfiguration with records held back, for two loggers on one file, for a file
that rolls under another logger, and for a file that does not open;
`kMaxLogPerCounter` is 4 instead of 100000, so that the counter starts again
twice in nine passes.

`CHECK_DEADLOCK FALSE` stands in `MCTree.cfg`, where the calls end when all
epochs are used or an assert has failed, and in `MCStreamlet_honest.cfg`, where
delays can make an assert fail, after which there is no process. `MCLogging.cfg` has it too: when `main` has
returned or a `Fatal` record aborted the process, nothing follows. In the other
runs deadlock is checked: they end only in `Terminating`, when `start` has returned
or the process has ended.

**Fairness.** `SimpleScheduler`, `PartitioningScheduler`, `Scenario` and `Main` state
weak fairness of the whole next-state relation: the program is one thread that
runs until it ends, and nobody it waits for. `Streamlet` and `Ledger` have none,
so their liveness is nil by design: a scheduler may drop everything. `Logging`
has none: programs need not log.

**`HonestEpochsFinalized`** says that an epoch led by an honest node between two
such epochs ends up finalized at every honest node. It is claimed for scenarios without
dishonest nodes: with one, a node on the small side of a split misses a
block and never catches up, since a proposal without a parent is recorded and
never added (`honest_node.cpp:67-71`).

**`ImplementsLedger`** says of the finalized chains that they never conflict and
that no node ever loses part of its own, although `deepestFinalized` is overwritten
without comparison (`tree.cpp:72`). It is claimed for fewer than a third
dishonest nodes. With two honest and two dishonest, the scenario
`res/scenarios/baddies_win.yml` is named for, TLC finds conflicting chains. It is a
property of the two *schedulers*, not of `Streamlet`: nodes never compare a
proposal's epoch with the time, and with arbitrary delays a vote given late for
an old third block can complete three consecutive epochs beside another chain.
(Example: all nodes have notarized `a1`; `a2` and `a3` are proposed above it but
the votes for `a2` reach only the leader of epoch 3; `b4` is proposed above `a1` and
notarized; everybody then receives the votes for `a2` and votes both for `b5` above
`b4` and, late, for `a3`; `b6` follows.) This is why the theorems on `Streamlet` speak of
notarization and not of finalization.

**The partition.** A vote answered in the pass before the increment is filed a
round ahead of the next pass, found to be in the future whenever it is popped,
delivered all the same and filed another round ahead
(`partitioning_scheduler.cpp:107-117`): it is delivered in both passes of every
tick from then on and never leaves the queues. `RedeliveryIsIdle` shows that this
changes nobody, `NotMultiplied` that it does not grow, `Terminates` that
`applyToAll` ends nevertheless. A multiple of `synchronize-every-n` is asked for
twice, at the end of one tick and in the next; the sides are equal only after
the second (`CaughtUp`): in the first, votes answered to what crosses come too
late for their queue. That dishonest nodes do not hide what a partition delays is
`ImplementsLedger` of `partition_dishonest`.

**Logging.** `ConfiguredIsAnswered` compares what a logger answers from its maps with
the list it keeps. The list itself is not always what the caller had in mind,
which the model shows and no property contradicts, since no document of the
repository speaks of it: a level listed before `Global` loses its value on the way
into a logger (`setFromBase` sets `Global` and thereby all levels);
`setRemainingToDefault` overwrites explicit levels where `Global` is missing;
`setVModules` keeps the first level given to a module, and joins a name without a
level to the next; ids of one character are dropped by `configureFromGlobal`
(`easylogging++.cc:3058`); under `HierarchicalLogging` levels are compared by
their order in the enumeration, and with an uninitialised `m_loggingLevel` before
the first `setLoggingLevel`; a `CLOG` of several loggers writes an empty message to
the others when the first is disabled. `ConfiguredIsAnswered` leaves `ToFile` out
where a file does not open: a bad `Global` file silences levels whose own file is
good, and a stream that failed may leave `ToFile` true. `HeldBelowThreshold` is
about the default logger, which cannot be unregistered: another one's records stay
in the stream when it is removed, and its count starts again with it. It holds
where a `Fatal` record has ended the process, too: what the streams hold there is
what `abort` loses, so the default logger loses fewer records of a level than its
threshold. The verbose levels (`VRegistry`) decide which `VLOG` is written at all;
no document of the repository says which should be, and what is checked of such
records is where they go (`WrittenWhereConfigured`).
`OccasionsCounted` is for `n` up to `kMaxLogPerCounter`.

**Findings.** `README.md:47` of the repository says that the simple scheduler "will
deliver messages from last round". `SimpleScheduler::clockTick` files what
`atTime` returns under the current round and delivers it at once
(`simple_scheduler.cpp:20-26`): a proposal arrives in the round it was sent, and
the votes before the next round is announced. `simple_doc` shows such a
delivery in the first tick.

`README.md:40-52` says that a scenario is a file "with following entries" and gives
an example in which `dishonest-nodes` has no value. The entry is null, and
`as<unsigned>()` throws on it (`config.cpp:32`): `scenario_doc`.

## Proofs

Checked by TLAPS with Z3, Zenon and LS4, for every value of the constants that
satisfies the assumptions: `EpochsAssumption` (epochs are positive),
`CountsAssumption` (counts are naturals, the epoch length is positive),
`DrawsAssumption` and `NrRoundsAssumption` (types; the latter of `Streamlet` and of
`BaseScheduler`), and for the partitioning scheduler `EnoughNodes` (four nodes:
`initialize` throws otherwise). Nothing is assumed of `GetLeader`: the rota does not
matter, only that it is a function of the epoch. Some theorems have a
hypothesis of their own: fewer than a third of the nodes dishonest, or none.

**Trees** (`TreeProofs`). `TreeInv` is inductive, from lemmas on each operator of
`BlockTree` (`NewTreeInv`, `AddBlockInv`, `MarkNotarizedInv`, `TryFinalizeInv`,
`NotarizeInv`). Its parts need each other: finalization walks a path, and that
every block of the path is stored and at its depth is `RootedAtGenesis`; the loop
stops at the first finalized block, and that nothing below is left out is
`FinalizedPrefixClosed`; that the last block of the path counts as notarized is
what `MarkNotarized` just did. From it: `TypeCorrect`, `AlwaysRooted`,
`AlwaysDeepest`, `AlwaysFinalizedClosed`, `AlwaysJustified`, and the action
properties `StatusesAdvance`, `AssertNeedsSkippedParent`, `FinalizedChainStays`.

**Nodes under any delivery** (`StreamletProofs`). `IInv` adds to the trees'
invariants what ties nodes and messages together: an honest vote was given for
the recorded block above a notarized one (`HonestVotesForRecorded`), counted
votes were sent (`VotesWereSent`), notarized blocks are the recorded ones and
have a quorum (`NotarizedByQuorum`), dummies send nothing (`SendersTakePart`).
`EpochAgreement` is not inductive by itself: it follows from `IInv` because two
quorums of one epoch share more voters than there are dishonest nodes
(`QuorumsMeet`), such a voter is honest (`SendersTakePart`), and it recorded one
block in that epoch. The theorems: `StreamletInvariant`, `TypeCorrect`,
`HonestVotesStand`, `NodesAgreeOnEpochs`, `NotarizedChainsGrow` (a quorum has an
honest voter, which had notarized the parent) and `VotesGoDown` (an honest node
never votes for a block less deep than one it voted for). Dishonest nodes need
only their own two replicas' invariants and the knowledge that they send under
their own name.

**The ledger** (end of `SchedulerProofs`). That each node's chain is a prefix of the ledger is
inductive (`LedgerInvariant`); prefixes of one sequence are comparable
(`ChainsAgree`), and a step only lengthens (`ChainsGrow`). A node's view is the hash
of its `deepestFinalized`, which is a chain. The theorems `SimpleRefinesLedger` and
`PartitionRefinesLedger` carry both to the nodes under the two schedulers: the
`FinalizedForGood` of each says that any two honest nodes' finalized chains are
comparable and that no node ever loses part of its own.

**What the schedulers share** (`SchedulerProofs`, on the second half of `NodeProofs`).
The vectors are folds (`FlattenSeq`) over the envelopes, and the library's induction
theorems cannot be cited. So the lemmas show by a least counterexample (`LeastNat`)
that a recursive function like the library's exists and has the expected length and
elements (`FlatteningExists`, `FlattenSeqOfElements`, `FlattenSeqOfSome`). From
them: a vector holds the messages of its envelopes and no others (`VectorType`), and
a broadcast of an honest node is one message to each node, in order
(`HonestBroadcast`). A theorem of an instantiated module cannot be cited either, and
`S!Notarize` is not `Notarize` to the provers: the `Same...` lemmas say it is, after which
a delivery is a step of `Streamlet` (`DeliveryIsStreamlets`), an announcement too
(`BroadcastIsStreamlets`), and a delivery that keeps the nodes' invariants and lets
votes deepen is a step of `Ledger` (`LedgerStep`).

**`SimpleScheduler`** (`SimpleSchedulerProofs`).
- `SimpleInvariant`. `SimpleInv` is inductive: all that waits is of the epoch of the
  tick, and votes only in the second of its two queues (`QueuesInv`), so that answers
  to the second delivery are empty, and the queues outside the tick are. Hence
  `NothingPending`; and since nothing is sent under a round to come, every step is
  one of `Streamlet` or none (`SimpleRefinesStreamlet`).
- `SimpleRefinesLedger`, for fewer than a third dishonest. It does not follow
  from `Streamlet`, where late votes can finalize two chains (see above). What the
  scheduler adds is that a vote is given in its block's epoch (`EpochsInv`), so that an
  honest node's votes deepen from epoch to epoch (`VotesDeepen`). Quorums share an
  honest voter, so a notarized block of a later epoch is no less deep
  (`NotarizedDeepen`), and the middle one of three of consecutive epochs is the only
  notarized block of its depth (`MiddleUnique`). So finalized blocks are comparable
  (`FinalizedComparable`), and `deepestFinalized` is only overwritten by a block above it
  (`FinalizedDeepens`).
- `Lockstep`, without dishonest nodes. A queue is a sequence of whole broadcasts
  from node 0 to node N - 1, of which the first may have been delivered in part
  (`LockstepInv`): the nodes before the one whose turn it is have handled the
  message, the others are where these were before. Between two messages, and so
  between ticks, all are in one state.
- `NoAssertFailsAmongHonest`. In lockstep every stored block stands on a notarized
  one (`GroundedInv`), and the asserts of `Block` fail only on one that does not.
- `FacesMatch`, for any number of dishonest nodes. A side is a half of the other nodes
  together with the faces meant for it (`OnSide`). A leader's proposals, as the vector
  `broadcast` made of them, send each member of a side one block, and a dishonest node
  the first side's block before the second's, whatever order the walks have
  (`Sides`, `LeaderSides`). While they are delivered, those whose place in the vector
  has been reached have entered the block and the others have not, and `firstHalf` of a
  dishonest node is toggled exactly between its two (`Shown`, `ShowNext`). At the end
  of the vector all of a side have the same book and `firstHalf` is back
  (`Alike`), and votes, which are all that follows, change neither.

**`PartitioningScheduler`** (`PartitioningSchedulerProofs`), for every decider.
- `PartitionInvariant`. `PartitionInv` ties the queues to the sides and to time: a
  proposal is never filed under a round to come, only votes are, so the answers that
  `onPop` drops (`partitioning_scheduler.cpp:112-116`) are answers to votes, and
  empty. Therefore `PartitionRefinesStreamlet`; and since the queues between the sides are
  opened only in rounds the decider names, `NothingCrosses`. `TypeCorrect` is
  its typing part.
- `IdleInvariant`, without dishonest nodes. A vote comes to a node after the
  proposal it is for: that proposal is before it in its queue, or in a queue being
  emptied, or delivered (`OrderInv`, which needs `ProposalsInv` and `PlacesInv`: a
  proposal goes to all in one round, and stays within its side for one pass). Thus
  the first delivery of a vote counts it or finds it refused for good, and if it
  made a quorum the block is notarized, which is never undone: it is *settled*
  (`DeliveredInv`). Hence `RedeliveredInVain`. And no message is sent twice
  (`AnnouncedInv`: what is sent anew is of an epoch not announced before, or answers
  a proposal not handled before), so none is held twice: `HeldOnce`.

- `NoAssertFailsAmongHonest`, without dishonest nodes. Under a partition the sides
  are not in one state, so what lockstep gives under `SimpleScheduler` comes from the
  order of messages. All that a block's parent needed is ahead of the block:
  whoever gets a proposal has notarized the parent, or will have a quorum of votes
  for it delivered before (`ReadyInv`). That survives the crossing of queues because
  the leader counted those votes first, votes go to all (`VotesInv`), a queue
  delivers all or nothing of a broadcast (`FateInv`), and within a side everything
  is delivered before anything crosses (`Before`). So every stored block stands on
  a notarized one (`Grounded`), and the asserts cannot fail.
- `PartitionRefinesLedger`, without dishonest nodes. `VotesDeepen` is false here: nodes
  vote for blocks of older epochs when a synchronization brings them. Three things
  take its place. The nodes of one side take the same steps in the same order,
  one at most a message ahead of another (`LockInv`, with `RowsInv`: what waits of a
  broadcast stands together in its queue), so that they vote alike. The votes on a
  leader's own side are given before a later epoch begins (`InTimeInv`), so a side
  goes on voting no less deep than for its own leader's blocks (`SideKnowsInv`,
  `SideDeepensInv`), and its votes reach everybody in the order of their depth
  (`VoteOrderInv`). And a quorum reaches into the majority; where the majority is
  a quorum by itself, what the minority builds on is notarized everywhere
  (`KnownInv`), else a quorum reaches into both sides. Together: of two notarized
  blocks the one of the later epoch is no less deep (`SidesDeepen`), and a node
  notarizes the blocks that can finalize something in the order of their depth
  (`NotarizedInOrder`). The rest is as under `SimpleScheduler`.
- `NobodyLeftBehind`, which is `CaughtUp`; if a node is a dummy or dishonest, `CaughtUp`
  says nothing. Two things are shown. After the tick that follows a synchronized one,
  whatever was sent has been delivered, but for votes the minority answers while the
  last queue is emptied (`SynchronizedInv`: what is left in the queue that brings the
  crossing votes, then in the pass after the increment, then at the end; `Late` names
  the exception). And a tree is determined by the blocks and the votes a node has heard,
  whatever their order (`CanonicalInv`): it holds what was proposed and nothing else,
  its deepest notarized block is the one of the earliest epoch among those of its depth,
  and all that three consecutive epochs allow to finalize is finalized. The second part
  needs the votes to be counted in the order of depth (from `DeepInv`) and, at one depth,
  in the order of epochs: proposals wait in that order, and so the votes of the majority,
  a quorum by itself when all are honest (`EpochOrderInv`, `NotarizedInEpochOrder`). A
  `Late` vote comes from the minority and is not missed: a block notarized anywhere has
  the votes of all of the majority, and those have arrived (`HeardNotarized`). So the
  trees are the same (`HeardAlike`).

**`Scenario`** (`ScenarioProofs`), for every width of `unsigned` and every set of files
of the type of a parsed file (`FilesAssumption`). The vector of nodes is three
stretches one behind the other; where the sum of the counts does not wrap
around, the third loop starts where the first two ended, so position and id agree
(`IdsStandAtPositions`). What a run divides by is a length of the file or a
default, and the defaults are not 0; if no node takes part, nothing is divided
(`OnlyZeroKills`). That 2^`Width` is positive, which the provers cannot compute, is
shown by counting the subsets of 1 .. `Width`.

**Only model-checked.**
- Liveness (`HonestEpochsFinalized`, `MajorityFinalizes`, `Terminates`,
  `PlayedToTheEnd`): fairness and `ENABLED` are out of the prover's reach.
- `NoAssertFails` under both schedulers with dishonest nodes, and `ImplementsLedger`
  under `PartitioningScheduler` with them: `partition_dishonest` and `simple_dishonest`
  check them. Under a partition a dishonest node may show its faces to the sides at
  different times, and the lockstep of a side, on which the proof without dishonest
  nodes rests, is lost. `FacesMatch` follows the first proposals of the two halves
  under `SimpleScheduler`; for the asserts their trees would have to be followed too,
  through the votes of a tick, of which a half hears only a part and a dishonest
  node both parts, with both faces.
- `Main`: `renderForest` is a fold over the nodes and each tree, and what a fold
  computes for every input is an induction over data.
- `Logging`: its parser, its maps and its dispatching are folds and recursive
  operators over lists of configurations, for the same reason.

## Not modelled

Of the logging: date and time in formats and file names, and the formatting of
values (`MessageBuilder` and the stream operators); custom format specifiers and
callbacks; crash handling and stack traces; performance tracking; syslog and
asynchronous logging, which the build leaves out; write errors.
`StateRenderer::renderTree`, which nobody calls. `Runner::summary`, which formats
the scenario, and `checkAndLogError`, which logs. The tests, catch2 and CMake. Collisions
and ambiguities of `Block::hash`; the characters of a payload (an index out of range
at `abstract_service.cpp:24`; any payload is covered by a choice). Zero as a
length is excluded by assumption from the nodes' modules, and is the subject of
`Scenario`.

## Plan

Done: 1. `BlockTree`, `Tree` and their proofs. 2. `BaseNode`, `HonestNode`,
`DishonestNode`, `Streamlet` and their proofs. 3. `SimpleScheduler` and its
refinement, checked. 4. `PartitioningScheduler`. 5. `Ledger` with its proofs, the
promise of finalization, and both schedulers as implementations of it. 6.
`Scenario`, `StateRenderer`, `Main`. 7. The logging. 8. Proofs that both schedulers
implement `Streamlet`, with their invariants. 9. Theorems for the schedulers'
safety properties: what is pending, what crosses, lockstep, redelivery, the two
faces, and the ledger under `SimpleScheduler`.

10. The sides of a partition: `NoAssertFails` and `ImplementsLedger` for
`PartitioningScheduler` without dishonest nodes. 11. `IdsArePositions` and
`KilledOnlyByZero` for every width. 12. `CaughtUp` for `PartitioningScheduler`.

Next:

13. `NoAssertFails` with dishonest nodes: the trees of a side after each tick, from
    `FacesInv` and the votes each member of the side is sent.
14. `OccasionsCounted` for every `kMaxLogPerCounter`.
