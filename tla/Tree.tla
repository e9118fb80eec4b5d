-------------------------------- MODULE Tree --------------------------------
(***************************************************************************)
(* One Tree under every sequence of calls its owners make: a block is added *)
(* when its parent is present and no block of its epoch was seen            *)
(* (HonestNode::handlePropose), a block is notarized once, while it is      *)
(* PRESENT (HonestNode::handleVote), and in whatever order.  Once an assert *)
(* of Block has failed the process is gone and nothing happens any more.    *)
(***************************************************************************)
EXTENDS BlockTree

CONSTANT Epochs         \* the epochs blocks are proposed in

ASSUME EpochsAssumption == Epochs \subseteq Nat \ {0}

VARIABLE tree

vars == <<tree>>

Init == tree = NewTree

\* Called by handlePropose, for a block that extends one of the tree's.
Add(parent, epoch, payload) ==
    /\ ~tree.assertFailed
    /\ \A h \in DOMAIN tree.hbMapping : EpochOf(h) # epoch
    /\ tree' = AddBlock(tree, BlockHash(parent, epoch, payload))

\* Mutant: handleVote no longer looks at the block's status.
NotarizeBlockAgain(h) ==
    /\ ~tree.assertFailed
    /\ tree' = Notarize(tree, h)

\* Called by handleVote when the quorum is reached.
NotarizeBlock(h) ==
    /\ ~tree.assertFailed
    /\ tree.hbMapping[h] = "PRESENT"
    /\ tree' = Notarize(tree, h)

Next ==
    \/ \E parent \in DOMAIN tree.hbMapping, epoch \in Epochs, payload \in Payload :
          Add(parent, epoch, payload)
    \/ \E h \in DOMAIN tree.hbMapping : NotarizeBlock(h)

Spec == Init /\ [][Next]_vars

-----------------------------------------------------------------------------
\* The tree is a tree record: maps over the same hashes, distinguished
\* hashes among them (tree.hpp:42-46).
TypeOK == IsTree(tree)

\* Every stored block hangs below the genesis block at the depth the map
\* says, so walking parents stops at the root and .at never throws
\* (tree.cpp:41-48, 76-85).
Rooted == RootedAtGenesis(tree)

\* getSomeDeepestNotarized really returns a deepest notarized block
\* (tree.cpp:52-60), whatever the order of notarizations.
DeepestNotarized == DeepestNotarizedIsDeepest(tree)

\* The loop of tryFinalizeUntil stops at the first finalized block; this is
\* sound only because everything below it is finalized too (tree.cpp:66-71).
FinalizedClosed == FinalizedPrefixClosed(tree)

\* A block is finalized only below the middle of three notarized blocks of
\* consecutive epochs, although the predicate looks at one path and never at
\* statuses (base_node.cpp:3-10, tree.cpp:62-74).
FinalizedJustified == FinalizedIsJustified(tree)

\* A status only advances, no block is forgotten, and deepestNotarized never
\* moves up (block.cpp:28-38, tree.cpp:57).
Rank(s) == CASE s = "PRESENT" -> 0 [] s = "NOTARIZED" -> 1 [] s = "FINALIZED" -> 2

Advances ==
    /\ \A h \in DOMAIN tree.hbMapping :
          /\ h \in DOMAIN tree'.hbMapping
          /\ Rank(tree'.hbMapping[h]) >= Rank(tree.hbMapping[h])
    /\ tree'.depths[tree'.deepestNotarized] >= tree.depths[tree.deepestNotarized]

StatusAdvances == [][Advances]_vars

\* The assert of Block::finalize (block.cpp:36) fails only when a block is
\* notarized above one that is still PRESENT: callers that notarize parents
\* first never run into it.
SkippedParent ==
    \E h \in DOMAIN tree.hbMapping :
        /\ tree.hbMapping[h] = "PRESENT" /\ tree'.hbMapping[h] = "NOTARIZED"
        /\ \E i \in 1 .. Len(h) : tree.hbMapping[Ancestor(h, i)] = "PRESENT"

AssertFailsOnSkippedParent == [][tree'.assertFailed => SkippedParent]_vars

\* deepestFinalized is overwritten whatever its depth (tree.cpp:72).  It is
\* replaced by a block that does not extend it only by the notarization of a
\* block that does not extend it either.
Sideways ==
    \E h \in DOMAIN tree.hbMapping :
        /\ tree.hbMapping[h] = "PRESENT" /\ tree'.hbMapping[h] # "PRESENT"
        /\ ~IsPrefix(tree.deepestFinalized, h)

FinalizedLeftOnlySideways ==
    [][IsPrefix(tree.deepestFinalized, tree'.deepestFinalized) \/ Sideways]_vars
=============================================================================
