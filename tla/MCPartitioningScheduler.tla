----------------------- MODULE MCPartitioningScheduler -----------------------
(* PartitioningScheduler with the service the Runner creates. *)
EXTENDS PartitioningScheduler, RepeatService

CONSTANTS p1, p2

\* As in MCSimpleScheduler.
MCDraws == { [k \in 0 .. 1 |-> p1], [k \in 0 .. 1 |-> IF k = 0 THEN p1 ELSE p2] }

\* class Synchronizer with the given synchronize-every-n.
Synchronizer(n) == { r \in 0 .. NrRounds : r % n = 0 }

\* Every synchronize-every-n that makes a difference, and deciders like those of
\* scheduler-test.cpp, which say yes in one round or never.
AllDeciders == { Synchronizer(n) : n \in 1 .. NrRounds + 1 } \cup { {5}, {} }

SomeDeciders == { Synchronizer(n) : n \in {2, 3, 5} }
=============================================================================
