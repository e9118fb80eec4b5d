----------------------------- MODULE BlockTree -----------------------------
(***************************************************************************)
(* The block tree every participant keeps: class Block (block.hpp/.cpp)     *)
(* and class Tree (tree.hpp/.cpp), as operators on a tree record.           *)
(*                                                                         *)
(* Block::hash digests the parent's hash, the epoch and the payload, so a   *)
(* hash commits to the whole chain below the block.  The digest is taken    *)
(* to be injective: a hash is the sequence of <<epoch, payload>> pairs from *)
(* the first block after genesis up to the block itself, and the genesis    *)
(* block's hash is the empty sequence.  A block is identified with its      *)
(* hash; the one mutable field of a block, its status, is what hbMapping    *)
(* records.                                                                 *)
(***************************************************************************)
EXTENDS Integers, SequencesExt

CONSTANT Payload        \* what getRandomPayload may return

Hash == Seq(Nat \X Payload)

GenesisHash == <<>>

BlockHash(parentHash, epoch, payload) == Append(parentHash, <<epoch, payload>>)

ParentHash(h) == Front(h)

EpochOf(h) == IF h = GenesisHash THEN 0 ELSE h[Len(h)][1]

\* The block reached from h by i steps to the parent.
Ancestor(h, i) == SubSeq(h, 1, Len(h) - i)

Status == {"PRESENT", "NOTARIZED", "FINALIZED"}

\* std::unordered_map::try_emplace: an existing key keeps its value.
TryEmplace(f, k, v) ==
    [x \in DOMAIN f \cup {k} |-> IF x \in DOMAIN f THEN f[x] ELSE v]

-----------------------------------------------------------------------------
(* A tree record.  hbMapping maps the hash of a stored block to its status, *)
(* depths to its depth; assertFailed records that an assert of Block has    *)
(* failed, after which the process no longer exists.                        *)

NewTree ==
    [ hbMapping        |-> [h \in {GenesisHash} |-> "FINALIZED"],
      depths           |-> [h \in {GenesisHash} |-> 0],
      deepestNotarized |-> GenesisHash,
      deepestFinalized |-> GenesisHash,
      assertFailed     |-> FALSE ]

IsPresent(t, h) == h \in DOMAIN t.hbMapping

\* Mutant: any notarized block will do, however deep.
IsDeepestNotarizedAnyDepth(t, h) == IsPresent(t, h) /\ t.hbMapping[h] # "PRESENT"

\* Mutant: only the depth is compared, not the status.
IsDeepestNotarizedDepthOnly(t, h) ==
    IsPresent(t, h) /\ t.depths[h] = t.depths[t.deepestNotarized]

IsDeepestNotarized(t, h) ==
    /\ IsPresent(t, h)
    /\ t.hbMapping[h] # "PRESENT"
    /\ t.depths[h] = t.depths[t.deepestNotarized]

\* Mutants: the child is as deep as its parent, or one less.
AddBlockAsDeep(t, h) ==
    [t EXCEPT !.hbMapping = TryEmplace(@, h, "PRESENT"),
              !.depths    = TryEmplace(@, h, t.depths[ParentHash(h)])]

AddBlockUpward(t, h) ==
    [t EXCEPT !.hbMapping = TryEmplace(@, h, "PRESENT"),
              !.depths    = TryEmplace(@, h, t.depths[ParentHash(h)] - 1)]

\* Callers add a block only when its parent is present.
AddBlock(t, h) ==
    [t EXCEPT !.hbMapping = TryEmplace(@, h, "PRESENT"),
              !.depths    = TryEmplace(@, h, t.depths[ParentHash(h)] + 1)]

\* The hashes on the way from the root to h, the root first: the walk to the
\* parent ends at depth 0, as many steps from h as h is deep.
PathFromRootTo(t, h) ==
    [i \in 1 .. t.depths[h] + 1 |-> Ancestor(h, t.depths[h] + 1 - i)]

FinalizedChain(t) == PathFromRootTo(t, t.deepestFinalized)

\* Mutant: the third comparison forgotten, two consecutive epochs suffice.
FinalizationPredicateTwo(path) ==
    Len(path) >= 3 /\ EpochOf(path[Len(path) - 2]) + 1 = EpochOf(path[Len(path) - 1])

\* Three blocks of consecutive epochs end the path.
FinalizationPredicate(path) ==
    LET len == Len(path)
    IN  /\ len >= 3
        /\ EpochOf(path[len - 2]) + 1 = EpochOf(path[len - 1])
        /\ EpochOf(path[len - 1]) + 1 = EpochOf(path[len])

\* Mutant: an if instead of the loop.
ToFinalizeOne(t, path) ==
    { path[i] : i \in { k \in 1 .. Len(path) - 1 :
        k = Len(path) - 1 /\ t.hbMapping[path[k]] # "FINALIZED" } }

\* The blocks the loop of tryFinalizeUntil walks over: from the block before
\* the last one of the path down to the first one already finalized.
ToFinalize(t, path) ==
    { path[i] : i \in { k \in 1 .. Len(path) - 1 :
        \A j \in k .. Len(path) - 1 : t.hbMapping[path[j]] # "FINALIZED" } }

\* Mutant: deepestFinalized assigned after the if instead of in it; the predicate
\* still decides on the loop and its assert.
TryFinalizeUntilAnyway(t, h) ==
    LET path == PathFromRootTo(t, h)
        todo == IF FinalizationPredicate(path) THEN ToFinalize(t, path) ELSE {}
    IN  IF \E b \in todo : t.hbMapping[b] # "NOTARIZED"
        THEN [t EXCEPT !.assertFailed = TRUE]
        ELSE [t EXCEPT
                !.hbMapping = [b \in DOMAIN @ |->
                                  IF b \in todo THEN "FINALIZED" ELSE @[b]],
                !.deepestFinalized = path[Len(path) - 1]]

\* Block::finalize asserts that what it finalizes is notarized.
TryFinalizeUntil(t, h) ==
    LET path == PathFromRootTo(t, h)
        todo == ToFinalize(t, path)
    IN  IF ~FinalizationPredicate(path) THEN t
        ELSE IF \E b \in todo : t.hbMapping[b] # "NOTARIZED"
        THEN [t EXCEPT !.assertFailed = TRUE]
        ELSE [t EXCEPT
                !.hbMapping = [b \in DOMAIN @ |->
                                  IF b \in todo THEN "FINALIZED" ELSE @[b]],
                !.deepestFinalized = path[Len(path) - 1]]

\* Mutant: deepestNotarized is the block notarized last.
MarkNotarizedLast(t, h) == [t EXCEPT !.hbMapping[h] = "NOTARIZED", !.deepestNotarized = h]

MarkNotarized(t, h) ==
    [t EXCEPT !.hbMapping[h] = "NOTARIZED",
              !.deepestNotarized = IF t.depths[h] > t.depths[@] THEN h ELSE @]

\* Block::notarize asserts that what it notarizes is only present.
Notarize(t, h) ==
    IF t.hbMapping[h] # "PRESENT" THEN [t EXCEPT !.assertFailed = TRUE]
    ELSE TryFinalizeUntil(MarkNotarized(t, h), h)

-----------------------------------------------------------------------------
(* What is true of every tree, in terms a reader of the class would use.    *)

\* Shape of a tree record.
IsTree(t) ==
    /\ t = [ hbMapping |-> t.hbMapping, depths |-> t.depths,
             deepestNotarized |-> t.deepestNotarized,
             deepestFinalized |-> t.deepestFinalized,
             assertFailed |-> t.assertFailed ]
    /\ t.hbMapping = [h \in DOMAIN t.hbMapping |-> t.hbMapping[h]]
    /\ t.depths = [h \in DOMAIN t.hbMapping |-> t.depths[h]]
    /\ \A h \in DOMAIN t.hbMapping :
          h \in Hash /\ t.hbMapping[h] \in Status /\ t.depths[h] \in Nat
    /\ {t.deepestNotarized, t.deepestFinalized} \subseteq DOMAIN t.hbMapping
    /\ t.assertFailed \in BOOLEAN

\* The stored blocks form a tree rooted at the finalized genesis block, and
\* depths counts the steps down from it: what getPathFromRootTo relies on to
\* stop at the root and to find every parent.
RootedAtGenesis(t) ==
    /\ IsPresent(t, GenesisHash)
    /\ t.hbMapping[GenesisHash] = "FINALIZED"
    /\ \A h \in DOMAIN t.hbMapping :
          /\ t.depths[h] = Len(h)
          /\ \A i \in 1 .. Len(h) : IsPresent(t, Ancestor(h, i))

\* deepestNotarized is notarized and no notarized block lies deeper.
DeepestNotarizedIsDeepest(t) ==
    /\ t.hbMapping[t.deepestNotarized] # "PRESENT"
    /\ \A h \in DOMAIN t.hbMapping :
          t.hbMapping[h] # "PRESENT" => t.depths[h] <= t.depths[t.deepestNotarized]

\* A finalized block has only finalized ancestors.
FinalizedPrefixClosed(t) ==
    /\ t.hbMapping[t.deepestFinalized] = "FINALIZED"
    /\ \A h \in DOMAIN t.hbMapping :
          t.hbMapping[h] = "FINALIZED" =>
             \A i \in 1 .. Len(h) : t.hbMapping[Ancestor(h, i)] = "FINALIZED"

\* h is finalized because c, notarized, ends three notarized blocks of
\* consecutive epochs and h is an ancestor of c.
Justifies(t, c, h) ==
    /\ Len(c) >= 2
    /\ \A i \in 0 .. 2 : /\ IsPresent(t, Ancestor(c, i))
                         /\ t.hbMapping[Ancestor(c, i)] # "PRESENT"
                         /\ EpochOf(Ancestor(c, i)) + i = EpochOf(c)
    /\ \E i \in 1 .. Len(c) : h = Ancestor(c, i)

\* Nothing but the genesis block is finalized without such a reason.
FinalizedIsJustified(t) ==
    \A h \in DOMAIN t.hbMapping :
        h # GenesisHash /\ t.hbMapping[h] = "FINALIZED"
           => \E c \in DOMAIN t.hbMapping : Justifies(t, c, h)

\* Everything above: what holds of a tree whatever was done with it.
TreeInv(t) ==
    /\ IsTree(t)
    /\ RootedAtGenesis(t)
    /\ DeepestNotarizedIsDeepest(t)
    /\ FinalizedPrefixClosed(t)
    /\ FinalizedIsJustified(t)
=============================================================================
