----------------------------- MODULE TreeProofs -----------------------------
(***************************************************************************)
(* The invariants and action properties of Tree hold for every set of       *)
(* epochs and of payloads, i.e. for a tree of any size and shape.           *)
(***************************************************************************)
EXTENDS Tree, BlockTreeProofs

\* A step that adds a block, by AddBlockInv.
LEMMA StepAdd ==
    ASSUME TreeInv(tree),
           NEW parent \in DOMAIN tree.hbMapping, NEW epoch \in Epochs,
           NEW payload \in Payload, Add(parent, epoch, payload)
    PROVE  /\ TreeInv(tree')
           /\ \A b \in DOMAIN tree.hbMapping :
                 /\ b \in DOMAIN tree'.hbMapping
                 /\ tree'.hbMapping[b] = tree.hbMapping[b]
                 /\ tree'.depths[b] = tree.depths[b]
           /\ tree'.deepestNotarized = tree.deepestNotarized
           /\ tree'.deepestFinalized = tree.deepestFinalized
           /\ ~tree'.assertFailed
<1>1. epoch \in Nat
  BY EpochsAssumption
<1>2. tree' = AddBlock(tree, BlockHash(parent, epoch, payload)) /\ ~tree.assertFailed
  BY DEF Add
<1> QED
  BY <1>1, <1>2, AddBlockInv

\* A step that notarizes a block, by NotarizeInv.
LEMMA StepNotarize ==
    ASSUME TreeInv(tree), NEW h \in DOMAIN tree.hbMapping, NotarizeBlock(h)
    PROVE  /\ TreeInv(tree')
           /\ tree.hbMapping[h] = "PRESENT" /\ ~tree.assertFailed
           /\ DOMAIN tree'.hbMapping = DOMAIN tree.hbMapping
           /\ tree'.hbMapping[h] = "NOTARIZED"
           /\ \A b \in DOMAIN tree.hbMapping \ {h} :
                 \/ tree'.hbMapping[b] = tree.hbMapping[b]
                 \/ tree.hbMapping[b] = "NOTARIZED" /\ tree'.hbMapping[b] = "FINALIZED"
           /\ tree'.depths = tree.depths
           /\ tree.depths[tree'.deepestNotarized] >= tree.depths[tree.deepestNotarized]
           /\ \/ tree'.deepestFinalized = tree.deepestFinalized
              \/ 1 \in 1 .. Len(h) /\ tree'.deepestFinalized = Ancestor(h, 1)
           /\ \/ ~tree'.assertFailed
              \/ \E i \in 1 .. Len(h) : tree.hbMapping[Ancestor(h, i)] = "PRESENT"
<1>1. tree' = Notarize(tree, h) /\ tree.hbMapping[h] = "PRESENT" /\ ~tree.assertFailed
  BY DEF NotarizeBlock
<1> QED
  BY <1>1, NotarizeInv

-----------------------------------------------------------------------------
\* Type correctness, the rooted shape, the deepest notarized block, the
\* closure of finalization and its justification form one inductive invariant.
THEOREM TreeInvariant == Spec => []TreeInv(tree)
<1>1. Init => TreeInv(tree)
  BY NewTreeInv DEF Init
<1>2. TreeInv(tree) /\ [Next]_vars => TreeInv(tree)'
  <2> SUFFICES ASSUME TreeInv(tree), [Next]_vars PROVE TreeInv(tree)'
    OBVIOUS
  <2>1. ASSUME NEW parent \in DOMAIN tree.hbMapping, NEW epoch \in Epochs,
               NEW payload \in Payload, Add(parent, epoch, payload)
        PROVE  TreeInv(tree)'
    BY <2>1, StepAdd
  <2>2. ASSUME NEW h \in DOMAIN tree.hbMapping, NotarizeBlock(h)
        PROVE  TreeInv(tree)'
    BY <2>2, StepNotarize
  <2>3. CASE UNCHANGED vars
    BY <2>3 DEF vars
  <2> QED
    BY <2>1, <2>2, <2>3 DEF Next
<1> QED
  BY <1>1, <1>2, PTL DEF Spec

\* Each of the invariants the runs check.
THEOREM TypeCorrect == Spec => []TypeOK
<1>1. TreeInv(tree) => TypeOK
  BY DEF TreeInv, TypeOK
<1> QED
  BY <1>1, TreeInvariant, PTL

\* Parents are always found and the walk to the root ends there.
THEOREM AlwaysRooted == Spec => []Rooted
<1>1. TreeInv(tree) => Rooted
  BY DEF TreeInv, Rooted
<1> QED
  BY <1>1, TreeInvariant, PTL

\* getSomeDeepestNotarized is right after any calls.
THEOREM AlwaysDeepest == Spec => []DeepestNotarized
<1>1. TreeInv(tree) => DeepestNotarized
  BY DEF TreeInv, DeepestNotarized
<1> QED
  BY <1>1, TreeInvariant, PTL

\* Finalized blocks have finalized ancestors.
THEOREM AlwaysFinalizedClosed == Spec => []FinalizedClosed
<1>1. TreeInv(tree) => FinalizedClosed
  BY DEF TreeInv, FinalizedClosed
<1> QED
  BY <1>1, TreeInvariant, PTL

\* Nothing is finalized without three notarized consecutive epochs above it.
THEOREM AlwaysJustified == Spec => []FinalizedJustified
<1>1. TreeInv(tree) => FinalizedJustified
  BY DEF TreeInv, FinalizedJustified
<1> QED
  BY <1>1, TreeInvariant, PTL

-----------------------------------------------------------------------------
\* No call takes a status back, forgets a block or moves deepestNotarized up.
THEOREM StatusesAdvance == Spec => StatusAdvances
<1>1. TreeInv(tree) /\ [Next]_vars => [Advances]_vars
  <2> SUFFICES ASSUME TreeInv(tree), Next PROVE Advances
    OBVIOUS
  <2>0. /\ \A b \in DOMAIN tree.hbMapping : tree.hbMapping[b] \in Status
        /\ \A b \in DOMAIN tree.hbMapping : tree.depths[b] \in Nat
        /\ tree.deepestNotarized \in DOMAIN tree.hbMapping
    BY DEF TreeInv, IsTree
  <2>1. \A s \in Status : Rank(s) \in 0 .. 2
    BY DEF Rank, Status
  <2>2. ASSUME NEW parent \in DOMAIN tree.hbMapping, NEW epoch \in Epochs,
               NEW payload \in Payload, Add(parent, epoch, payload)
        PROVE  Advances
    BY <2>0, <2>1, <2>2, StepAdd DEF Advances
  <2>3. ASSUME NEW h \in DOMAIN tree.hbMapping, NotarizeBlock(h)
        PROVE  Advances
    <3>1. Rank("PRESENT") = 0 /\ Rank("NOTARIZED") = 1 /\ Rank("FINALIZED") = 2
      BY DEF Rank
    <3>2. ASSUME NEW b \in DOMAIN tree.hbMapping
          PROVE  Rank(tree'.hbMapping[b]) >= Rank(tree.hbMapping[b])
      BY <2>0, <2>1, <2>3, <3>1, StepNotarize
    <3> QED
      BY <2>3, <3>2, StepNotarize DEF Advances
  <2> QED
    BY <2>2, <2>3 DEF Next
<1> QED
  BY <1>1, TreeInvariant, PTL DEF Spec, StatusAdvances

\* Callers that notarize a block only after all its ancestors never fail the
\* assert of Block::finalize.
THEOREM AssertNeedsSkippedParent == Spec => AssertFailsOnSkippedParent
<1>1. TreeInv(tree) /\ [Next]_vars => [tree'.assertFailed => SkippedParent]_vars
  <2> SUFFICES ASSUME TreeInv(tree), Next, tree'.assertFailed PROVE SkippedParent
    OBVIOUS
  <2>1. ASSUME NEW parent \in DOMAIN tree.hbMapping, NEW epoch \in Epochs,
               NEW payload \in Payload, Add(parent, epoch, payload)
        PROVE  FALSE
    BY <2>1, StepAdd
  <2>2. ASSUME NEW h \in DOMAIN tree.hbMapping, NotarizeBlock(h)
        PROVE  SkippedParent
    BY <2>2, StepNotarize DEF SkippedParent
  <2> QED
    BY <2>1, <2>2 DEF Next
<1> QED
  BY <1>1, TreeInvariant, PTL DEF Spec, AssertFailsOnSkippedParent

\* A prefix of a longer chain is a prefix of the chain without its last block.
LEMMA PrefixOfParent ==
    ASSUME NEW g \in Hash, NEW h \in Hash, IsPrefix(g, h), g # h, 1 \in 1 .. Len(h)
    PROVE  IsPrefix(g, Ancestor(h, 1))
<1>1. /\ Len(g) \in Nat /\ Len(h) \in Nat /\ Len(g) <= Len(h)
      /\ SubSeq(g, 1, Len(g)) = SubSeq(h, 1, Len(g))
  BY DEF IsPrefix, Hash
<1>2. SubSeq(g, 1, Len(g)) = g
  BY SubSeqFull DEF Hash
<1> DEFINE k == Len(h) - Len(g)
<1>3. k \in 0 .. Len(h) /\ g = Ancestor(h, k)
  BY <1>1, <1>2 DEF Ancestor
<1>4. k # 0
  BY <1>3, AncestorSteps
<1>5. 1 \in 0 .. Len(h) /\ k - 1 \in 0 .. Len(h) - 1 /\ Len(h) - 1 \in Nat
  BY <1>1, <1>3, <1>4
<1>6. Ancestor(h, 1) \in Hash /\ Len(Ancestor(h, 1)) = Len(h) - 1
  BY <1>5, AncestorHash
<1>7. Ancestor(Ancestor(h, 1), k - 1) = Ancestor(h, k)
  BY <1>5, AncestorSteps
<1>8. Ancestor(Ancestor(h, 1), k - 1) = SubSeq(Ancestor(h, 1), 1, Len(g))
  <2> DEFINE a == Ancestor(h, 1)
  <2>1. Len(a) - (k - 1) = Len(g)
    BY <1>1, <1>6
  <2>2. Ancestor(a, k - 1) = SubSeq(a, 1, Len(a) - (k - 1))
    BY DEF Ancestor
  <2> HIDE DEF a, k
  <2> QED
    BY <2>1, <2>2 DEF a
<1>9. Len(g) <= Len(Ancestor(h, 1))
  BY <1>1, <1>4, <1>6
<1> HIDE DEF k
<1> QED
  BY <1>2, <1>3, <1>7, <1>8, <1>9 DEF IsPrefix

\* As long as what is notarized extends deepestFinalized, the finalized chain
\* only grows, although the code compares no depths.
THEOREM FinalizedChainStays == Spec => FinalizedLeftOnlySideways
<1>1. TreeInv(tree) /\ [Next]_vars
        => [IsPrefix(tree.deepestFinalized, tree'.deepestFinalized) \/ Sideways]_vars
  <2> SUFFICES ASSUME TreeInv(tree), Next, ~Sideways
               PROVE  IsPrefix(tree.deepestFinalized, tree'.deepestFinalized)
    OBVIOUS
  <2>1. /\ tree.deepestFinalized \in Hash
        /\ tree.hbMapping[tree.deepestFinalized] = "FINALIZED"
        /\ \A h \in DOMAIN tree.hbMapping : h \in Hash
    BY DEF TreeInv, IsTree, FinalizedPrefixClosed
  <2>2. IsPrefix(tree.deepestFinalized, tree.deepestFinalized)
    BY <2>1 DEF IsPrefix, Hash
  <2>3. ASSUME NEW parent \in DOMAIN tree.hbMapping, NEW epoch \in Epochs,
               NEW payload \in Payload, Add(parent, epoch, payload)
        PROVE  IsPrefix(tree.deepestFinalized, tree'.deepestFinalized)
    BY <2>2, <2>3, StepAdd
  <2>4. ASSUME NEW h \in DOMAIN tree.hbMapping, NotarizeBlock(h)
        PROVE  IsPrefix(tree.deepestFinalized, tree'.deepestFinalized)
    <3>1. /\ tree.hbMapping[h] = "PRESENT" /\ tree'.hbMapping[h] = "NOTARIZED"
          /\ \/ tree'.deepestFinalized = tree.deepestFinalized
             \/ 1 \in 1 .. Len(h) /\ tree'.deepestFinalized = Ancestor(h, 1)
      BY <2>4, StepNotarize
    <3>2. IsPrefix(tree.deepestFinalized, h)
      BY <3>1 DEF Sideways
    <3>3. tree.deepestFinalized # h
      BY <2>1, <3>1
    <3> QED
      BY <2>1, <2>2, <3>1, <3>2, <3>3, PrefixOfParent
  <2> QED
    BY <2>3, <2>4 DEF Next
<1> QED
  BY <1>1, TreeInvariant, PTL DEF Spec, FinalizedLeftOnlySideways
=============================================================================
