----------------------------- MODULE MCStreamlet -----------------------------
(***************************************************************************)
(* Streamlet on small scenarios.  The nodes lead in turn, as under          *)
(* RepeatService with RepeatLeaderTimes = 1, or in turn from the last node  *)
(* down, so that a dishonest node leads the first epoch.                    *)
(***************************************************************************)
EXTENDS Streamlet

CONSTANTS p1, p2

\* Blocks of different epochs differ whatever their payloads, so only whether
\* the two payloads of one epoch are equal matters.
MCDraws == { [k \in 0 .. 1 |-> p1], [k \in 0 .. 1 |-> IF k = 0 THEN p1 ELSE p2] }

InTurn(epoch) == (epoch - 1) % N

LastFirst(epoch) == (N - epoch) % N
=============================================================================
