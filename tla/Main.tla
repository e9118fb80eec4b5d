-------------------------------- MODULE Main --------------------------------
(***************************************************************************)
(* What main makes of a run: when the scheduler's start has returned, the   *)
(* trees of the honest nodes are named 1, 2, ... in the order of the nodes, *)
(* and StateRenderer describes them on the standard output.                 *)
(***************************************************************************)
EXTENDS SimpleScheduler, StateRenderer

VARIABLES
    renderer,           \* stateRenderer
    output              \* what has been written to std::cout

mainVars == <<vars, renderer, output>>

\* The nodes the dynamic_cast to HonestNode lets through, named by counting.
Shown == SelectSeq(Counting, LAMBDA v : v \in HonestNodes)

Forest == [i \in DOMAIN Shown |-> [tree |-> honest[Shown[i]].tree, name |-> i]]

MainInit == Init /\ renderer = NewRenderer /\ output = << >>

Play == Next /\ UNCHANGED <<renderer, output>>

Render ==
    /\ Done /\ output = << >>
    /\ renderer' = RenderForest(renderer, Forest)
    /\ output' = renderer'.description
    /\ UNCHANGED vars

MainNext == Play \/ Render

MainSpec == MainInit /\ [][MainNext]_mainVars /\ WF_mainVars(MainNext)
-----------------------------------------------------------------------------
\* The picture shows each honest node's own tree: its blocks and no others,
\* with the status they have there (state_renderer.cpp:53-63, 74-78).  The
\* trees share blocks whose statuses differ, and all go through one renderer.
PictureShowsTrees ==
    output # << >> =>
        /\ Len(output) = Cardinality(HonestNodes)
        /\ \A v \in HonestNodes :
              LET mapping == honest[v].tree.hbMapping
                  nodes   == output[v + 1].nodes
              IN  /\ DOMAIN nodes = DOMAIN mapping
                  /\ \A h \in DOMAIN mapping : nodes[h].style = Style(mapping[h])

\* dot sees different blocks as different nodes, and every edge joins two
\* nodes of its cluster (state_renderer.cpp:48-51, 65-72), although ids are
\* made of epochs and five characters of a hash (main.cpp:47): a node stores
\* one block of an epoch, whatever a dishonest leader proposes.
IdsApart ==
    \A i, j \in DOMAIN output :
        \A g \in DOMAIN output[i].nodes, h \in DOMAIN output[j].nodes :
            output[i].nodes[g].id = output[j].nodes[h].id => i = j /\ g = h

EdgesInside ==
    \A i \in DOMAIN output : \A e \in output[i].edges :
        {e.from, e.to} \subseteq { output[i].nodes[h].id : h \in DOMAIN output[i].nodes }

PictureReadable == IdsApart /\ EdgesInside
=============================================================================
