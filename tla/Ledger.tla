-------------------------------- MODULE Ledger --------------------------------
(***************************************************************************)
(* What a run of the protocol promises its honest nodes, without trees,     *)
(* votes or schedulers: there is one ledger, every node holds a prefix of   *)
(* it, and nothing a node holds is ever taken back.                         *)
(***************************************************************************)
EXTENDS SequencesExt

CONSTANTS Holders,      \* the nodes that keep to the protocol
          Entry         \* what a ledger consists of

VARIABLES
    ledger,             \* the longest chain any node has finalized
    view                \* the chain each node has finalized

vars == <<ledger, view>>

Init ==
    /\ ledger = << >>
    /\ view = [v \in Holders |-> << >>]

\* Node v catches up with the others, to any point of the ledger.
Follow(v, chain) ==
    /\ IsPrefix(view[v], chain) /\ IsPrefix(chain, ledger)
    /\ view' = [view EXCEPT ![v] = chain]
    /\ UNCHANGED ledger

\* Node v is the first to finalize more: all of the ledger and beyond.
Extend(v, chain) ==
    /\ IsPrefix(ledger, chain)
    /\ ledger' = chain
    /\ view' = [view EXCEPT ![v] = chain]

Next ==
    \E v \in Holders :
        /\ view'[v] \in Seq(Entry)
        /\ Follow(v, view'[v]) \/ Extend(v, view'[v])

Spec == Init /\ [][Next]_vars
-----------------------------------------------------------------------------
\* The ledger and every node's part of it are chains of entries.
TypeOK == ledger \in Seq(Entry) /\ view \in [Holders -> Seq(Entry)]

\* No two nodes hold chains of which neither is a prefix of the other.
Agreement ==
    \A v, w \in Holders : IsPrefix(view[v], view[w]) \/ IsPrefix(view[w], view[v])

\* What a node holds it keeps.
Growth == [][\A v \in Holders : IsPrefix(view[v], view'[v])]_vars

\* The invariant the theorems are proved with.
PrefixesOfLedger == \A v \in Holders : IsPrefix(view[v], ledger)

IInv == TypeOK /\ PrefixesOfLedger
=============================================================================
