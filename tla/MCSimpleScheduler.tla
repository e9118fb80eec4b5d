-------------------------- MODULE MCSimpleScheduler --------------------------
(* SimpleScheduler with the service the Runner creates. *)
EXTENDS SimpleScheduler, RepeatService

CONSTANTS p1, p2

\* Blocks of different epochs differ whatever their payloads, so only whether
\* the two payloads of one epoch are equal matters.
MCDraws == { [k \in 0 .. 1 |-> p1], [k \in 0 .. 1 |-> IF k = 0 THEN p1 ELSE p2] }
=============================================================================
