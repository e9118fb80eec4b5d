------------------------------- MODULE Broadcast -------------------------------
(***************************************************************************)
(* How the envelopes a handler answers with become the vector of messages   *)
(* that its scheduler files: an honest node counts through the receivers, a *)
(* dishonest one walks an unordered set of them.                            *)
(***************************************************************************)
EXTENDS HonestNode, DishonestNode

\* The elements of s that lie in S, in their order.
Only(s, S) == FlattenSeq([i \in DOMAIN s |-> IF s[i] \in S THEN << s[i] >> ELSE << >>])

\* The sets a dishonest node broadcasts to.  They are built in the same way in
\* every dishonest node and never change, so each is walked in one order, which
\* is up to the hash table.
ReceiverSets == {Nodes, HonestNodesFractions(0), HonestNodesFractions(1), DishonestNodes}

Walks ==
    IF DishonestNodes = {} THEN { [R \in ReceiverSets |-> SetToSeq(R)] }
    ELSE { [R \in ReceiverSets |-> CASE R = Nodes                   -> all
                                    [] R = HonestNodesFractions(0) -> half0
                                    [] R = HonestNodesFractions(1) -> half1
                                    [] OTHER                       -> others] :
             all    \in SetToSeqs(Nodes),
             half0  \in SetToSeqs(HonestNodesFractions(0)),
             half1  \in SetToSeqs(HonestNodesFractions(1)),
             others \in SetToSeqs(DishonestNodes) }

\* HonestNode::broadcast counts up, DishonestNode::broadcast walks a set.
Counting == [i \in 1 .. N |-> i - 1]

Order(walks, envelope) ==
    IF envelope.from \in HonestNodes THEN Only(Counting, envelope.to)
    ELSE walks[envelope.to]

\* The vector of messages an envelope becomes, and a sequence of envelopes.
Serialize(walks, envelope) ==
    LET order == Order(walks, envelope)
    IN  [i \in DOMAIN order |-> [envelope EXCEPT !.to = order[i]]]

Vector(walks, out) == FlattenSeq([i \in DOMAIN out |-> Serialize(walks, out[i])])
=============================================================================
