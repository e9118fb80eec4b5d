------------------------------- MODULE Scenario -------------------------------
(***************************************************************************)
(* The life of one run of the program, from the scenario file to the end:   *)
(* ScenarioConfig reads the file, Runner::play builds the service, the      *)
(* nodes and the scheduler, and the scheduler ticks.  What the nodes do in  *)
(* a tick is the subject of the schedulers' modules; here a tick matters    *)
(* for the divisions it makes by what the file says.                        *)
(*                                                                         *)
(* The file is data: for each key an entry, which may be absent, null, a    *)
(* number or some text.  yaml-cpp is known from its use: as<T> throws when  *)
(* an entry is no T, and operator bool tells whether the key is there.      *)
(***************************************************************************)
EXTENDS Integers, SequencesExt

CONSTANTS
    Width,              \* bits of unsigned
    Files               \* the scenario files considered

ASSUME WidthAssumption == Width \in Nat

VARIABLES
    file,               \* what the file says, for each key
    pc,                 \* how far main has come
    nodes,              \* Runner::play's allNodes
    time                \* the scheduler's timeSinceStart

vars == <<file, pc, nodes, time>>

-----------------------------------------------------------------------------
(* ScenarioConfig. *)

Absent    == [kind |-> "absent", value |-> 0]
Null      == [kind |-> "null", value |-> 0]
Number(k) == [kind |-> "number", value |-> k]
Text(t)   == [kind |-> t, value |-> 0]

CountKeys    == {"rounds", "honest-nodes", "dummy-nodes", "dishonest-nodes"}
OptionalKeys == {"repeat-n-times", "synchronize-every-n", "epoch-len"}
TypeKeys     == {"scheduler-type", "service-type"}
Keys         == CountKeys \cup OptionalKeys \cup TypeKeys \cup {"scenario-name"}

\* as<unsigned> throws on a number that no unsigned holds, so such an entry is text.
ASSUME FilesAssumption ==
    Files \subseteq [Keys -> [kind : STRING, value : 0 .. 2^Width - 1]]

SchedulerTypes == {"simple", "partitioning"}
ServiceTypes   == {"repeating"}

\* The constructor comes to its end: nothing in it throws.
Loads(f) ==
    /\ f["scenario-name"].kind \notin {"absent", "null"}
    /\ \A key \in CountKeys : f[key].kind = "number"
    /\ f["scheduler-type"].kind \in SchedulerTypes
    /\ f["service-type"].kind \in ServiceTypes
    /\ \A key \in OptionalKeys : f[key].kind \in {"absent", "number"}

\* Mutant: an epoch has no rounds unless the file says otherwise.
DefaultOfZero(key) == IF key = "epoch-len" THEN 0 ELSE 1

DefaultOf(key) == IF key = "epoch-len" THEN 2 ELSE 1

\* The getters.
Get(key) == IF file[key] = Absent THEN DefaultOf(key) ELSE file[key].value

Unsigned(k) == k % 2^Width

HonestCount    == Get("honest-nodes")
DummyCount     == Get("dummy-nodes")
DishonestCount == Get("dishonest-nodes")

\* What the nodes and the service are told about their number.
N == Unsigned(HonestCount + DummyCount + DishonestCount)

-----------------------------------------------------------------------------
(* main and Runner::play. *)

Init ==
    /\ file \in Files
    /\ pc = "load"
    /\ nodes = << >>
    /\ time = 0

Load ==
    /\ pc = "load"
    /\ pc' = IF Loads(file) THEN "createNodes" ELSE "threw"
    /\ UNCHANGED <<file, nodes, time>>

\* One loop for each kind of node; a dummy is told nothing.
Node(kind, id) == [kind |-> kind, id |-> id]

Dummy == [kind |-> "dummy", id |-> 0]

Loop(kind, from, to) == [i \in 1 .. to - from |-> Node(kind, from + i - 1)]

\* Mutant: the dummies are forgotten in the ids of the dishonest nodes.
AllNodesNoDummies ==
    Loop("honest", 0, HonestCount)
        \o [i \in 1 .. DummyCount |-> Dummy]
        \o Loop("dishonest", HonestCount, Unsigned(HonestCount + DishonestCount))

AllNodes ==
    Loop("honest", 0, HonestCount)
        \o [i \in 1 .. DummyCount |-> Dummy]
        \o Loop("dishonest", Unsigned(HonestCount + DummyCount), N)

CreateNodes ==
    /\ pc = "createNodes"
    /\ nodes' = AllNodes
    /\ pc' = "createScheduler"
    /\ UNCHANGED <<file, time>>

Partitioning == file["scheduler-type"].kind = "partitioning"

\* PartitioningScheduler::initialize throws if there are too few nodes.
\* Mutant: four are too few.
EnoughNodesStrict == Partitioning => Len(nodes) > 4

EnoughNodes == Partitioning => Len(nodes) >= 4

CreateScheduler ==
    /\ pc = "createScheduler"
    /\ pc' = IF EnoughNodes THEN "start" ELSE "threw"
    /\ UNCHANGED <<file, nodes, time>>

\* A node that takes part asks the service for the epoch and, when one starts,
\* for its leader; the partitioning scheduler asks the synchronizer.
Participants == { i \in DOMAIN nodes : nodes[i].kind # "dummy" }

EpochStarts == Get("epoch-len") > 0 /\ time % Get("epoch-len") = 0

DividesByZero ==
    \/ /\ Participants # {}
       /\ \/ Get("epoch-len") = 0
          \/ EpochStarts /\ Get("repeat-n-times") = 0
          \/ EpochStarts /\ N = 0
    \/ Partitioning /\ Get("synchronize-every-n") = 0

ClockTick ==
    /\ pc = "start" /\ time < Get("rounds")
    /\ \/ DividesByZero /\ pc' = "killed" /\ UNCHANGED time
       \/ ~DividesByZero /\ time' = time + 1 /\ UNCHANGED pc
    /\ UNCHANGED <<file, nodes>>

\* start returns, and main renders what the nodes have.
Finish ==
    /\ pc = "start" /\ time = Get("rounds")
    /\ pc' = "finished"
    /\ UNCHANGED <<file, nodes, time>>

Terminating == pc \in {"finished", "threw", "killed"} /\ UNCHANGED vars

Next ==
    \/ Load \/ CreateNodes \/ CreateScheduler
    \/ ClockTick \/ Finish
    \/ Terminating

\* The program's thread runs until it ends one way or another.
Spec == Init /\ [][Next]_vars /\ WF_vars(Next)
-----------------------------------------------------------------------------
\* The counts fit into an unsigned; the sum of three that do not wraps around.
NoOverflow == HonestCount + DummyCount + DishonestCount < 2^Width

\* A node answers only to messages for its id (honest_node.cpp:20,
\* dishonest_node.cpp:39), the scheduler delivers them by position
\* (base_scheduler.cpp:23), and the three loops of runner.cpp:78-90 have to make
\* the two the same; there are as many nodes as all of them are told.
IdsArePositions ==
    pc \in {"createScheduler", "start", "finished"} /\ NoOverflow =>
        /\ Len(nodes) = N
        /\ \A i \in DOMAIN nodes : nodes[i].kind # "dummy" => nodes[i].id = i - 1

\* Zeros are not refused by the constructor, and a length of zero ends the
\* process.  Nothing else does, the defaults included: a run is killed only if
\* the file itself says 0 or counts that wrap around to no node at all.
SaysZero == \E key \in OptionalKeys : file[key] = Number(0)

KilledOnlyByZero == pc = "killed" => SaysZero \/ ~NoOverflow

\* A scenario that gives every required entry, no length of zero, and four nodes
\* if it is partitioning, is played to its last round.
Playable ==
    /\ \A key \in Keys \ OptionalKeys : file[key].kind \notin {"absent", "null"}
    /\ \A key \in CountKeys : file[key].kind = "number"
    /\ \A key \in OptionalKeys : file[key] = Absent \/ file[key].value > 0
    /\ file["scheduler-type"].kind \in SchedulerTypes
    /\ file["service-type"].kind \in ServiceTypes
    /\ HonestCount + DummyCount + DishonestCount >= (IF Partitioning THEN 4 ELSE 0)
    /\ NoOverflow

PlayedToTheEnd == Playable ~> (pc = "finished" /\ time = Get("rounds"))

\* README.md:40-52: "To create new scenario to run just create yaml file with
\* following entries", of which dishonest-nodes has no value.
ReadmeExample ==
    [key \in Keys |->
        CASE key \in CountKeys \ {"dishonest-nodes"} -> Number(2)
          [] key = "dishonest-nodes"               -> Null
          [] key = "scheduler-type"                -> Text("simple")
          [] key = "service-type"                  -> Text("repeating")
          [] key = "scenario-name"                 -> Text("Test Config")
          [] key \in {"repeat-n-times", "synchronize-every-n"} -> Number(1)
          [] key = "epoch-len"                     -> Absent]

ReadmeExampleRuns == file = ReadmeExample => pc # "threw"
=============================================================================
