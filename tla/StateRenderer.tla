---------------------------- MODULE StateRenderer ----------------------------
(***************************************************************************)
(* Class StateRenderer, which describes trees as a graph for dot.  It works *)
(* on mutable members, so what one tree leaves behind is there when the     *)
(* next one is rendered; a renderer is a record of those members.  The text *)
(* is kept as what dot makes of it: a sequence of clusters, each with the   *)
(* nodes it declares and the edges it draws, all by their ids.              *)
(*                                                                         *)
(* main labels a block with its epoch and five characters of its hash.      *)
(* Those five may coincide for any two blocks, so a label here is only the  *)
(* epoch: two labels that differ in the code may be equal here, never the   *)
(* other way round.                                                         *)
(***************************************************************************)
EXTENDS BlockTree

NewRenderer ==
    [ description      |-> << >>,
      currentHBMapping |-> << >>,
      currentTreeId    |-> 0 ]

ContentLabeller(h) == EpochOf(h)

\* Mutant: nodes are named by their contents alone.
NodeIdNoTree(r, h) == <<ContentLabeller(h)>>

NodeId(r, h) == <<r.currentTreeId, ContentLabeller(h)>>

\* Rounded for a block that is only present, a second border for a notarized
\* one, filled for a finalized one.
Style(status) ==
    CASE status = "PRESENT"   -> "bold"
      [] status = "NOTARIZED" -> "bold, peripheries=2"
      [] OTHER                -> "bold, filled, peripheries=2"

Label(h) == IF h = GenesisHash THEN "root" ELSE ContentLabeller(h)

Stored(r) == DOMAIN r.currentHBMapping

Declared(r, h) ==
    [id |-> NodeId(r, h), style |-> Style(r.currentHBMapping[h]), label |-> Label(h)]

Edge(r, h) == [from |-> NodeId(r, h), to |-> NodeId(r, ParentHash(h))]

\* renderNodes and renderEdges.  The nodes are listed in an order nobody relies
\* on; a block declared twice would be listed twice.
Cluster(r) ==
    [ id    |-> r.currentTreeId,
      nodes |-> [h \in Stored(r) |-> Declared(r, h)],
      edges |-> { Edge(r, h) : h \in Stored(r) \ {GenesisHash} } ]

RenderWithTitle(r) == [r EXCEPT !.description = Append(@, Cluster(r))]

\* Mutant: the mapping is not cleared, and insert keeps what is there.
SetCurrentTreePropertiesUncleared(r, named) ==
    [r EXCEPT !.currentHBMapping = @ @@ named.tree.hbMapping, !.currentTreeId = named.name]

SetCurrentTreeProperties(r, named) ==
    [r EXCEPT !.currentHBMapping = named.tree.hbMapping, !.currentTreeId = named.name]

RenderForest(r, namedTrees) ==
    FoldLeft(LAMBDA done, named : RenderWithTitle(SetCurrentTreeProperties(done, named)),
             [r EXCEPT !.description = << >>],
             namedTrees)
=============================================================================
