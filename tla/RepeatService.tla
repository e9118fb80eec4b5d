---------------------------- MODULE RepeatService ----------------------------
(***************************************************************************)
(* class RepeatService: each node in turn leads RepeatLeaderTimes epochs.   *)
(***************************************************************************)
EXTENDS Integers

CONSTANTS NumOfNodes, RepeatLeaderTimes

ASSUME RepeatAssumption == NumOfNodes \in Nat \ {0} /\ RepeatLeaderTimes \in Nat \ {0}

\* The genesis epoch, 0, has no leader: nothing asks for it.
RepeatLeader(epoch) == ((epoch - 1) \div RepeatLeaderTimes) % NumOfNodes
=============================================================================
