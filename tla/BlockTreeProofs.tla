-------------------------- MODULE BlockTreeProofs --------------------------
(***************************************************************************)
(* Lemmas about the operations of BlockTree: each keeps the tree invariant, *)
(* and what notarizing a block changes.                                     *)
(***************************************************************************)
EXTENDS BlockTree, SequenceTheorems, TLAPS

\* Ancestors of a hash are hashes, shorter by the number of steps.
LEMMA AncestorHash ==
    ASSUME NEW h \in Hash, NEW i \in 0 .. Len(h)
    PROVE  /\ Len(h) \in Nat
           /\ Ancestor(h, i) \in Hash
           /\ Len(Ancestor(h, i)) = Len(h) - i
           /\ \A j \in 1 .. Len(h) - i : Ancestor(h, i)[j] = h[j]
<1> DEFINE E == Nat \X Payload
<1>1. h \in Seq(E) /\ Len(h) \in Nat
  BY DEF Hash
<1>2. \A j \in 1 .. Len(h) - i : h[j] \in E
  BY <1>1, ElementOfSeq
<1>3. /\ SubSeq(h, 1, Len(h) - i) \in Seq(E)
      /\ Len(SubSeq(h, 1, Len(h) - i)) = IF 1 <= Len(h) - i THEN Len(h) - i ELSE 0
      /\ \A j \in 1 .. Len(h) - i : SubSeq(h, 1, Len(h) - i)[j] = h[j]
  BY <1>1, <1>2, SubSeqProperties, Z3
<1> QED
  BY <1>1, <1>3 DEF Hash, Ancestor

\* Zero steps stay, all steps lead to the genesis block, and an ancestor's
\* ancestor is an ancestor.
LEMMA AncestorSteps ==
    ASSUME NEW h \in Hash, NEW i \in 0 .. Len(h), NEW j \in 0 .. Len(h) - i
    PROVE  /\ Ancestor(h, 0) = h
           /\ Ancestor(h, Len(h)) = GenesisHash
           /\ Ancestor(Ancestor(h, i), j) = Ancestor(h, i + j)
<1>1. Len(h) \in Nat
  BY AncestorHash
<1>2. Ancestor(h, 0) = h
  BY SubSeqFull DEF Hash, Ancestor
<1>3. Ancestor(h, Len(h)) = GenesisHash
  BY <1>1, SubSeqEmpty DEF Ancestor, GenesisHash
<1>4. /\ Ancestor(h, i) \in Hash /\ Len(Ancestor(h, i)) = Len(h) - i
      /\ \A k \in 1 .. Len(h) - i : Ancestor(h, i)[k] = h[k]
  BY AncestorHash
<1>5. /\ Ancestor(Ancestor(h, i), j) \in Hash
      /\ Len(Ancestor(Ancestor(h, i), j)) = Len(h) - (i + j)
      /\ \A k \in 1 .. Len(h) - (i + j) : Ancestor(Ancestor(h, i), j)[k] = h[k]
  <2>1. j \in 0 .. Len(Ancestor(h, i))
    BY <1>4
  <2>2. /\ Ancestor(Ancestor(h, i), j) \in Hash
        /\ Len(Ancestor(Ancestor(h, i), j)) = Len(Ancestor(h, i)) - j
        /\ \A k \in 1 .. Len(Ancestor(h, i)) - j :
              Ancestor(Ancestor(h, i), j)[k] = Ancestor(h, i)[k]
    BY <1>4, <2>1, AncestorHash
  <2> QED
    BY <1>1, <1>4, <2>2
<1>6. i + j \in 0 .. Len(h)
  BY <1>1
<1>7. /\ Ancestor(h, i + j) \in Hash
      /\ Len(Ancestor(h, i + j)) = Len(h) - (i + j)
      /\ \A k \in 1 .. Len(h) - (i + j) : Ancestor(h, i + j)[k] = h[k]
  BY <1>6, AncestorHash
<1>8. Ancestor(Ancestor(h, i), j) = Ancestor(h, i + j)
  BY <1>5, <1>7, SeqEqual DEF Hash
<1> QED
  BY <1>2, <1>3, <1>8

\* Epochs are numbers.
LEMMA EpochOfNat == ASSUME NEW h \in Hash PROVE EpochOf(h) \in Nat
<1>1. CASE h = GenesisHash
  BY <1>1 DEF EpochOf
<1>2. CASE h # GenesisHash
  <2>1. h \in Seq(Nat \X Payload) /\ Len(h) \in 1 .. Len(h)
    BY <1>2, EmptySeq DEF Hash, GenesisHash
  <2>2. h[Len(h)] \in Nat \X Payload
    BY <2>1, ElementOfSeq
  <2> QED
    BY <1>2, <2>2 DEF EpochOf
<1> QED
  BY <1>1, <1>2

\* A new block's ancestors are its parent and the parent's ancestors.
LEMMA BlockHashAncestors ==
    ASSUME NEW parent \in Hash, NEW epoch \in Nat, NEW payload \in Payload
    PROVE  LET h == BlockHash(parent, epoch, payload)
           IN  /\ h \in Hash
               /\ Len(h) = Len(parent) + 1
               /\ h # GenesisHash
               /\ EpochOf(h) = epoch
               /\ ParentHash(h) = parent
               /\ \A i \in 1 .. Len(h) : Ancestor(h, i) = Ancestor(parent, i - 1)
<1> DEFINE h == BlockHash(parent, epoch, payload)
           x == <<epoch, payload>>
<1>1. parent \in Seq(Nat \X Payload) /\ x \in Nat \X Payload /\ Len(parent) \in Nat
  BY DEF Hash
<1>2. /\ h \in Seq(Nat \X Payload) /\ Len(h) = Len(parent) + 1
      /\ \A i \in 1 .. Len(parent) : h[i] = parent[i]
      /\ h[Len(h)] = x
  BY <1>1, AppendProperties DEF BlockHash
<1>3. h # GenesisHash
  BY <1>1, <1>2, EmptySeq DEF GenesisHash
<1>4. EpochOf(h) = epoch
  BY <1>2, <1>3 DEF EpochOf
<1>5. ASSUME NEW i \in 1 .. Len(h) PROVE Ancestor(h, i) = Ancestor(parent, i - 1)
  <2>1. /\ i \in 0 .. Len(h) /\ i - 1 \in 0 .. Len(parent)
        /\ Len(h) - i = Len(parent) - (i - 1)
    BY <1>1, <1>2
  <2>2. /\ Ancestor(h, i) \in Hash /\ Len(Ancestor(h, i)) = Len(h) - i
        /\ \A j \in 1 .. Len(h) - i : Ancestor(h, i)[j] = h[j]
    BY <1>2, <2>1, AncestorHash DEF Hash
  <2>3. /\ Ancestor(parent, i - 1) \in Hash
        /\ Len(Ancestor(parent, i - 1)) = Len(parent) - (i - 1)
        /\ \A j \in 1 .. Len(parent) - (i - 1) : Ancestor(parent, i - 1)[j] = parent[j]
    BY <2>1, AncestorHash
  <2>4. \A j \in 1 .. Len(h) - i : h[j] = parent[j]
    BY <1>1, <1>2
  <2> HIDE DEF h
  <2> QED
    BY <2>1, <2>2, <2>3, <2>4, SeqEqual DEF Hash
<1>6. ParentHash(h) = parent
  <2>1. ParentHash(h) = Ancestor(h, 1)
    BY DEF ParentHash, Front, Ancestor
  <2>2. Ancestor(h, 1) = Ancestor(parent, 0)
    BY <1>1, <1>2, <1>5
  <2>3. Ancestor(parent, 0) = parent
    BY <1>1, SubSeqFull DEF Ancestor
  <2> QED
    BY <2>1, <2>2, <2>3
<1> HIDE DEF h
<1>7. h \in Hash
  BY <1>2 DEF Hash
<1> QED
  BY <1>2, <1>3, <1>4, <1>5, <1>6, <1>7 DEF h

-----------------------------------------------------------------------------
\* The ancestors of a stored block are stored, and of smaller depth.
LEMMA StoredAncestors ==
    ASSUME NEW t, IsTree(t), RootedAtGenesis(t),
           NEW h \in DOMAIN t.hbMapping, NEW i \in 0 .. Len(h)
    PROVE  /\ h \in Hash /\ Len(h) \in Nat /\ t.depths[h] = Len(h)
           /\ Ancestor(h, i) \in DOMAIN t.hbMapping
           /\ Ancestor(h, i) \in Hash
           /\ Len(Ancestor(h, i)) = Len(h) - i
<1>1. h \in Hash /\ t.depths[h] = Len(h)
  BY DEF IsTree, RootedAtGenesis
<1>2. Len(h) \in Nat /\ Ancestor(h, i) \in Hash /\ Len(Ancestor(h, i)) = Len(h) - i
  BY <1>1, AncestorHash
<1>3. Ancestor(h, i) \in DOMAIN t.hbMapping
  <2>1. CASE i = 0
    BY <1>1, <1>2, <2>1, AncestorSteps
  <2>2. CASE i \in 1 .. Len(h)
    BY <2>2 DEF RootedAtGenesis, IsPresent
  <2> QED
    BY <1>2, <2>1, <2>2
<1> QED
  BY <1>1, <1>2, <1>3

\* addBlock, field by field.
LEMMA AddBlockFields ==
    ASSUME NEW t, IsTree(t), NEW h
    PROVE  AddBlock(t, h) =
             [ hbMapping |-> TryEmplace(t.hbMapping, h, "PRESENT"),
               depths |-> TryEmplace(t.depths, h, t.depths[ParentHash(h)] + 1),
               deepestNotarized |-> t.deepestNotarized,
               deepestFinalized |-> t.deepestFinalized,
               assertFailed |-> t.assertFailed ]
<1> DEFINE x == TryEmplace(t.hbMapping, h, "PRESENT")
           y == TryEmplace(t.depths, h, t.depths[ParentHash(h)] + 1)
           t1 == [t EXCEPT !.hbMapping = x]
<1>1. t1 = [ hbMapping |-> x,
             depths |-> t.depths,
             deepestNotarized |-> t.deepestNotarized,
             deepestFinalized |-> t.deepestFinalized,
             assertFailed |-> t.assertFailed ]
  BY DEF IsTree
<1>2. AddBlock(t, h) = [t1 EXCEPT !.depths = y]
  BY DEF AddBlock
<1> HIDE DEF t1, x, y
<1>3. [t1 EXCEPT !.depths = y] =
           [ hbMapping |-> x,
             depths |-> y,
             deepestNotarized |-> t.deepestNotarized,
             deepestFinalized |-> t.deepestFinalized,
             assertFailed |-> t.assertFailed ]
  BY <1>1
<1> QED
  BY <1>2, <1>3 DEF x, y

\* Marking a block notarized, field by field.
LEMMA MarkNotarizedFields ==
    ASSUME NEW t, IsTree(t), NEW h
    PROVE  MarkNotarized(t, h) =
             [ hbMapping |-> [t.hbMapping EXCEPT ![h] = "NOTARIZED"],
               depths |-> t.depths,
               deepestNotarized |-> (IF t.depths[h] > t.depths[t.deepestNotarized] THEN h ELSE t.deepestNotarized),
               deepestFinalized |-> t.deepestFinalized,
               assertFailed |-> t.assertFailed ]
<1> DEFINE x == [t.hbMapping EXCEPT ![h] = "NOTARIZED"]
           y == (IF t.depths[h] > t.depths[t.deepestNotarized] THEN h ELSE t.deepestNotarized)
           t1 == [t EXCEPT !.hbMapping = x]
<1>1. t1 = [ hbMapping |-> x,
             depths |-> t.depths,
             deepestNotarized |-> t.deepestNotarized,
             deepestFinalized |-> t.deepestFinalized,
             assertFailed |-> t.assertFailed ]
  BY DEF IsTree
<1>2. MarkNotarized(t, h) = [t1 EXCEPT !.deepestNotarized = y]
  BY DEF MarkNotarized
<1> HIDE DEF t1, x, y
<1>3. [t1 EXCEPT !.deepestNotarized = y] =
           [ hbMapping |-> x,
             depths |-> t.depths,
             deepestNotarized |-> y,
             deepestFinalized |-> t.deepestFinalized,
             assertFailed |-> t.assertFailed ]
  BY <1>1
<1> QED
  BY <1>2, <1>3 DEF x, y

\* The constructor builds a tree.
LEMMA NewTreeInv == TreeInv(NewTree)
<1>1. GenesisHash \in Hash /\ Len(GenesisHash) = 0
  BY EmptySeq DEF GenesisHash, Hash
<1> QED
  BY <1>1 DEF TreeInv, NewTree, IsTree, RootedAtGenesis, DeepestNotarizedIsDeepest,
     FinalizedPrefixClosed, FinalizedIsJustified, IsPresent, Status

\* addBlock keeps the invariant, adds at most the block, as PRESENT, and
\* changes no status.
LEMMA AddBlockInv ==
    ASSUME NEW t, TreeInv(t), NEW parent \in DOMAIN t.hbMapping,
           NEW epoch \in Nat, NEW payload \in Payload
    PROVE  LET h == BlockHash(parent, epoch, payload)
               u == AddBlock(t, h)
           IN  /\ TreeInv(u)
               /\ DOMAIN u.hbMapping = DOMAIN t.hbMapping \cup {h}
               /\ \A b \in DOMAIN t.hbMapping : u.hbMapping[b] = t.hbMapping[b]
               /\ h \notin DOMAIN t.hbMapping => u.hbMapping[h] = "PRESENT"
               /\ u.deepestNotarized = t.deepestNotarized
               /\ u.deepestFinalized = t.deepestFinalized
               /\ u.assertFailed = t.assertFailed
               /\ \A b \in DOMAIN t.hbMapping : u.depths[b] = t.depths[b]
<1> DEFINE h == BlockHash(parent, epoch, payload)
           u == AddBlock(t, h)
<1> USE DEF TreeInv
<1>1. /\ parent \in Hash /\ Len(parent) \in Nat
      /\ t.depths[parent] = Len(parent)
      /\ \A i \in 0 .. Len(parent) : Ancestor(parent, i) \in DOMAIN t.hbMapping
  BY StoredAncestors DEF RootedAtGenesis, IsTree
<1>2. /\ h \in Hash /\ Len(h) = Len(parent) + 1 /\ ParentHash(h) = parent
      /\ h # GenesisHash
      /\ \A i \in 1 .. Len(h) : Ancestor(h, i) = Ancestor(parent, i - 1)
  BY <1>1, BlockHashAncestors
<1> HIDE DEF h
<1>3. u = [ hbMapping |-> TryEmplace(t.hbMapping, h, "PRESENT"),
            depths |-> TryEmplace(t.depths, h, t.depths[parent] + 1),
            deepestNotarized |-> t.deepestNotarized,
            deepestFinalized |-> t.deepestFinalized,
            assertFailed |-> t.assertFailed ]
  BY <1>2, AddBlockFields
<1>4. DOMAIN t.depths = DOMAIN t.hbMapping
  BY DEF IsTree
<1>5. /\ DOMAIN u.hbMapping = DOMAIN t.hbMapping \cup {h}
      /\ DOMAIN u.depths = DOMAIN t.hbMapping \cup {h}
      /\ u.hbMapping = [b \in DOMAIN u.hbMapping |-> u.hbMapping[b]]
      /\ u.depths = [b \in DOMAIN u.hbMapping |-> u.depths[b]]
      /\ \A b \in DOMAIN t.hbMapping :
            u.hbMapping[b] = t.hbMapping[b] /\ u.depths[b] = t.depths[b]
      /\ h \notin DOMAIN t.hbMapping =>
            u.hbMapping[h] = "PRESENT" /\ u.depths[h] = Len(h)
  BY <1>1, <1>2, <1>3, <1>4 DEF TryEmplace
<1>6. \A b \in DOMAIN u.hbMapping :
         b \in DOMAIN t.hbMapping \/ (b = h /\ u.hbMapping[b] = "PRESENT" /\ u.depths[b] = Len(b))
  BY <1>5
<1>7. u.deepestNotarized = t.deepestNotarized /\ u.deepestFinalized = t.deepestFinalized
      /\ u.assertFailed = t.assertFailed
  BY <1>3
<1>8. IsTree(u)
  <2>1. u = [ hbMapping |-> u.hbMapping, depths |-> u.depths,
              deepestNotarized |-> u.deepestNotarized,
              deepestFinalized |-> u.deepestFinalized,
              assertFailed |-> u.assertFailed ]
    BY <1>3
  <2>2. \A b \in DOMAIN u.hbMapping :
           b \in Hash /\ u.hbMapping[b] \in Status /\ u.depths[b] \in Nat
    BY <1>1, <1>2, <1>5, <1>6 DEF IsTree, Status
  <2> QED
    BY <1>5, <1>7, <2>1, <2>2 DEF IsTree
<1>9. RootedAtGenesis(u)
  <2>1. IsPresent(u, GenesisHash) /\ u.hbMapping[GenesisHash] = "FINALIZED"
    BY <1>5 DEF RootedAtGenesis, IsPresent
  <2>2. ASSUME NEW b \in DOMAIN u.hbMapping
        PROVE  u.depths[b] = Len(b) /\ \A i \in 1 .. Len(b) : Ancestor(b, i) \in DOMAIN u.hbMapping
    <3>1. CASE b \in DOMAIN t.hbMapping
      BY <1>5, <3>1 DEF RootedAtGenesis, IsPresent
    <3>2. CASE b \notin DOMAIN t.hbMapping
      <4>1. b = h /\ u.depths[b] = Len(b)
        BY <1>6, <3>2
      <4>2. ASSUME NEW i \in 1 .. Len(h) PROVE Ancestor(h, i) \in DOMAIN u.hbMapping
        <5>1. i - 1 \in 0 .. Len(parent)
          BY <1>1, <1>2
        <5> QED
          BY <1>1, <1>2, <1>5, <5>1
      <4> QED
        BY <4>1, <4>2
    <3> QED
      BY <3>1, <3>2
  <2> QED
    BY <2>1, <2>2 DEF RootedAtGenesis, IsPresent
<1>10. DeepestNotarizedIsDeepest(u)
  BY <1>5, <1>6, <1>7 DEF DeepestNotarizedIsDeepest, IsTree
<1>11. FinalizedPrefixClosed(u)
  BY <1>5, <1>6, <1>7 DEF FinalizedPrefixClosed, IsTree, RootedAtGenesis, IsPresent
<1>12. FinalizedIsJustified(u)
  <2>1. \A c, b : Justifies(t, c, b) => Justifies(u, c, b)
    BY <1>5 DEF Justifies, IsPresent
  <2> QED
    BY <1>5, <1>6, <2>1 DEF FinalizedIsJustified
<1> QED
  BY <1>5, <1>7, <1>8, <1>9, <1>10, <1>11, <1>12 DEF h

-----------------------------------------------------------------------------
\* The path to a stored block visits its ancestors, genesis first.
LEMMA PathProperties ==
    ASSUME NEW t, IsTree(t), RootedAtGenesis(t), NEW h \in DOMAIN t.hbMapping
    PROVE  LET path == PathFromRootTo(t, h)
           IN  /\ Len(path) = Len(h) + 1
               /\ \A i \in 1 .. Len(h) + 1 : path[i] = Ancestor(h, Len(h) + 1 - i)
<1> DEFINE path == PathFromRootTo(t, h)
<1>1. Len(h) \in Nat /\ t.depths[h] = Len(h)
  BY StoredAncestors DEF RootedAtGenesis, IsTree, Hash
<1>2. path = [i \in 1 .. Len(h) + 1 |-> Ancestor(h, Len(h) + 1 - i)]
  BY <1>1 DEF PathFromRootTo
<1>3. \A i \in 1 .. Len(h) + 1 : Ancestor(h, Len(h) + 1 - i) \in Hash
  BY <1>1, StoredAncestors
<1>4. path \in Seq(Hash) /\ Len(path) = Len(h) + 1
  <2> DEFINE n == Len(h) + 1
  <2>1. n \in Nat /\ path \in [1 .. n -> Hash]
    BY <1>1, <1>2, <1>3
  <2> HIDE DEF path, n
  <2>2. path \in Seq(Hash)
    BY <2>1
  <2>3. DOMAIN path = 1 .. n /\ DOMAIN path = 1 .. Len(path) /\ Len(path) \in Nat
    BY <2>1, <2>2, LenProperties
  <2>4. Len(path) = n
    BY <2>1, <2>3
  <2> QED
    BY <2>2, <2>4 DEF n
<1> QED
  BY <1>2, <1>4

\* Marking a block notarized keeps the invariant.
LEMMA MarkNotarizedInv ==
    ASSUME NEW t, TreeInv(t), NEW h \in DOMAIN t.hbMapping, t.hbMapping[h] = "PRESENT"
    PROVE  LET u == MarkNotarized(t, h)
           IN  /\ TreeInv(u)
               /\ DOMAIN u.hbMapping = DOMAIN t.hbMapping
               /\ u.hbMapping[h] = "NOTARIZED"
               /\ \A b \in DOMAIN t.hbMapping : b # h => u.hbMapping[b] = t.hbMapping[b]
               /\ u.depths = t.depths
               /\ t.depths[u.deepestNotarized] >= t.depths[t.deepestNotarized]
               /\ u.deepestFinalized = t.deepestFinalized
               /\ u.assertFailed = t.assertFailed
<1> USE DEF TreeInv
<1> DEFINE u == MarkNotarized(t, h)
           x == [t.hbMapping EXCEPT ![h] = "NOTARIZED"]
           y == IF t.depths[h] > t.depths[t.deepestNotarized] THEN h
                ELSE t.deepestNotarized
<1>1. u = [ hbMapping |-> x, depths |-> t.depths,
            deepestNotarized |-> y,
            deepestFinalized |-> t.deepestFinalized,
            assertFailed |-> t.assertFailed ]
  BY MarkNotarizedFields
<1>2. /\ u.hbMapping = x /\ u.depths = t.depths /\ u.deepestNotarized = y
      /\ u.deepestFinalized = t.deepestFinalized /\ u.assertFailed = t.assertFailed
      /\ u = [ hbMapping |-> u.hbMapping, depths |-> u.depths,
               deepestNotarized |-> u.deepestNotarized,
               deepestFinalized |-> u.deepestFinalized,
               assertFailed |-> u.assertFailed ]
  BY <1>1
<1> HIDE DEF u
<1>3. /\ DOMAIN x = DOMAIN t.hbMapping
      /\ x = [b \in DOMAIN x |-> x[b]]
      /\ x[h] = "NOTARIZED"
      /\ \A b \in DOMAIN t.hbMapping : b # h => x[b] = t.hbMapping[b]
  BY DEF IsTree
<1> HIDE DEF x
<1>4. /\ y \in DOMAIN t.hbMapping /\ x[y] # "PRESENT"
      /\ t.depths[y] >= t.depths[t.deepestNotarized] /\ t.depths[y] >= t.depths[h]
  BY <1>3 DEF IsTree, DeepestNotarizedIsDeepest
<1> HIDE DEF y
<1>5. IsTree(u)
  BY <1>2, <1>3, <1>4 DEF IsTree, Status
<1>6. RootedAtGenesis(u)
  BY <1>2, <1>3 DEF RootedAtGenesis, IsPresent
<1>7. DeepestNotarizedIsDeepest(u)
  <2>1. ASSUME NEW b \in DOMAIN t.hbMapping, x[b] # "PRESENT"
        PROVE  t.depths[b] <= t.depths[y]
    BY <1>3, <1>4, <2>1 DEF DeepestNotarizedIsDeepest, IsTree
  <2> QED
    BY <1>2, <1>3, <1>4, <2>1 DEF DeepestNotarizedIsDeepest
<1>8. FinalizedPrefixClosed(u)
  <2>1. t.deepestFinalized # h
    BY DEF FinalizedPrefixClosed
  <2>2. ASSUME NEW b \in DOMAIN t.hbMapping, x[b] = "FINALIZED", NEW i \in 1 .. Len(b)
        PROVE  x[Ancestor(b, i)] = "FINALIZED"
    <3>1. t.hbMapping[Ancestor(b, i)] = "FINALIZED"
      BY <1>3, <2>2 DEF FinalizedPrefixClosed
    <3>2. Ancestor(b, i) \in DOMAIN t.hbMapping
      BY DEF RootedAtGenesis, IsPresent
    <3> QED
      BY <1>3, <3>1, <3>2
  <2> QED
    BY <1>2, <1>3, <2>1, <2>2 DEF FinalizedPrefixClosed, IsTree
<1>9. FinalizedIsJustified(u)
  <2>1. \A c, b : Justifies(t, c, b) => Justifies(u, c, b)
    BY <1>2, <1>3 DEF Justifies, IsPresent
  <2> QED
    BY <1>2, <1>3, <2>1 DEF FinalizedIsJustified
<1> QED
  BY <1>2, <1>3, <1>4, <1>5, <1>6, <1>7, <1>8, <1>9 DEF u

-----------------------------------------------------------------------------
\* What the loop of tryFinalizeUntil walks over: ancestors of h with no
\* finalized block from them up to h's parent, all of these.
LEMMA ToFinalizeProperties ==
    ASSUME NEW t, TreeInv(t), NEW h \in DOMAIN t.hbMapping
    PROVE  LET todo == ToFinalize(t, PathFromRootTo(t, h))
           IN  /\ \A b \in todo : /\ t.hbMapping[b] # "FINALIZED"
                                  /\ \E k \in 1 .. Len(h) : b = Ancestor(h, k)
               /\ \A k \in 1 .. Len(h) :
                     \/ Ancestor(h, k) \in todo
                     \/ \E j \in 1 .. k : t.hbMapping[Ancestor(h, j)] = "FINALIZED"
<1> USE DEF TreeInv
<1> DEFINE path == PathFromRootTo(t, h)
           todo == ToFinalize(t, path)
<1>1. Len(h) \in Nat
  BY StoredAncestors DEF RootedAtGenesis, IsTree, Hash
<1>2. /\ Len(path) = Len(h) + 1
      /\ \A i \in 1 .. Len(h) + 1 : path[i] = Ancestor(h, Len(h) + 1 - i)
  BY PathProperties
<1> HIDE DEF path
<1> DEFINE Open(i) == \A j \in i .. Len(h) : t.hbMapping[path[j]] # "FINALIZED"
<1>3. /\ \A b \in todo : \E i \in 1 .. Len(h) : b = path[i] /\ Open(i)
      /\ \A i \in 1 .. Len(h) : Open(i) => path[i] \in todo
  <2>1. Len(path) - 1 = Len(h)
    BY <1>1, <1>2
  <2> QED
    BY <2>1 DEF ToFinalize
<1> HIDE DEF todo
<1>4. ASSUME NEW b \in todo
      PROVE  /\ t.hbMapping[b] # "FINALIZED"
             /\ \E k \in 1 .. Len(h) : b = Ancestor(h, k)
  <2>1. PICK i \in 1 .. Len(h) : /\ b = path[i]
                                 /\ \A j \in i .. Len(h) : t.hbMapping[path[j]] # "FINALIZED"
    BY <1>3
  <2>2. t.hbMapping[path[i]] # "FINALIZED"
    BY <1>1, <2>1
  <2>3. b = Ancestor(h, Len(h) + 1 - i) /\ Len(h) + 1 - i \in 1 .. Len(h)
    BY <1>1, <1>2, <2>1
  <2> QED
    BY <2>1, <2>2, <2>3
<1>5. ASSUME NEW k \in 1 .. Len(h), Ancestor(h, k) \notin todo
      PROVE  \E j \in 1 .. k : t.hbMapping[Ancestor(h, j)] = "FINALIZED"
  <2>1. /\ Len(h) + 1 - k \in 1 .. Len(h)
        /\ path[Len(h) + 1 - k] = Ancestor(h, k)
    BY <1>1, <1>2
  <2>2. PICK i \in Len(h) + 1 - k .. Len(h) : t.hbMapping[path[i]] = "FINALIZED"
    BY <1>5, <1>3, <2>1
  <2>3. path[i] = Ancestor(h, Len(h) + 1 - i) /\ Len(h) + 1 - i \in 1 .. k
    BY <1>1, <1>2, <2>1, <2>2
  <2> QED
    BY <2>2, <2>3
<1> QED
  BY <1>4, <1>5 DEF path, todo

\* Finalizing a set of blocks, field by field.
LEMMA FinalizedFields ==
    ASSUME NEW t, IsTree(t), NEW x, NEW y
    PROVE  [t EXCEPT !.hbMapping = x, !.deepestFinalized = y] =
             [ hbMapping |-> x,
               depths |-> t.depths,
               deepestNotarized |-> t.deepestNotarized,
               deepestFinalized |-> y,
               assertFailed |-> t.assertFailed ]
<1> DEFINE t1 == [t EXCEPT !.hbMapping = x]
<1>1. t1 = [ hbMapping |-> x,
             depths |-> t.depths,
             deepestNotarized |-> t.deepestNotarized,
             deepestFinalized |-> t.deepestFinalized,
             assertFailed |-> t.assertFailed ]
  BY DEF IsTree
<1>2. [t EXCEPT !.hbMapping = x, !.deepestFinalized = y] = [t1 EXCEPT !.deepestFinalized = y]
  OBVIOUS
<1> HIDE DEF t1
<1>3. [t1 EXCEPT !.deepestFinalized = y] =
           [ hbMapping |-> x,
             depths |-> t.depths,
             deepestNotarized |-> t.deepestNotarized,
             deepestFinalized |-> y,
             assertFailed |-> t.assertFailed ]
  BY <1>1
<1> QED
  BY <1>2, <1>3

\* A failed assert changes nothing else.
LEMMA AssertFailedFields ==
    ASSUME NEW t, TreeInv(t)
    PROVE  LET u == [t EXCEPT !.assertFailed = TRUE]
           IN  /\ TreeInv(u)
               /\ u.hbMapping = t.hbMapping /\ u.depths = t.depths
               /\ u.deepestNotarized = t.deepestNotarized
               /\ u.deepestFinalized = t.deepestFinalized
               /\ u.assertFailed
<1> DEFINE u == [t EXCEPT !.assertFailed = TRUE]
<1>1. u = [ hbMapping |-> t.hbMapping,
            depths |-> t.depths,
            deepestNotarized |-> t.deepestNotarized,
            deepestFinalized |-> t.deepestFinalized,
            assertFailed |-> TRUE ]
  <2>1. IsTree(t)
    BY DEF TreeInv
  <2>2. ASSUME NEW x
        PROVE  [t EXCEPT !.assertFailed = x] =
                  [ hbMapping |-> t.hbMapping,
                    depths |-> t.depths,
                    deepestNotarized |-> t.deepestNotarized,
                    deepestFinalized |-> t.deepestFinalized,
                    assertFailed |-> x ]
    BY <2>1 DEF IsTree
  <2> QED
    BY <2>2
<1> HIDE DEF u
<1>2. /\ u.hbMapping = t.hbMapping /\ u.depths = t.depths
      /\ u.deepestNotarized = t.deepestNotarized
      /\ u.deepestFinalized = t.deepestFinalized
      /\ u.assertFailed = TRUE
  BY <1>1
<1>3. IsTree(u)
  BY <1>1, <1>2 DEF TreeInv, IsTree
<1>4. RootedAtGenesis(u) /\ DeepestNotarizedIsDeepest(u) /\ FinalizedPrefixClosed(u)
  BY <1>2 DEF TreeInv, RootedAtGenesis, DeepestNotarizedIsDeepest,
     FinalizedPrefixClosed, IsPresent
<1>5. FinalizedIsJustified(u)
  BY <1>2 DEF TreeInv, FinalizedIsJustified, Justifies, IsPresent
<1> QED
  BY <1>2, <1>3, <1>4, <1>5 DEF TreeInv, u

\* tryFinalizeUntil, called for a block just notarized, keeps the invariant.
\* It turns NOTARIZED into FINALIZED and changes no other status; an assert
\* fails only over a block that is still PRESENT below the notarized one; and
\* deepestFinalized becomes the parent of the notarized block or stays.
LEMMA TryFinalizeInv ==
    ASSUME NEW t, TreeInv(t), NEW h \in DOMAIN t.hbMapping, t.hbMapping[h] = "NOTARIZED"
    PROVE  LET u == TryFinalizeUntil(t, h)
           IN  /\ TreeInv(u)
               /\ DOMAIN u.hbMapping = DOMAIN t.hbMapping
               /\ \A b \in DOMAIN t.hbMapping :
                     \/ u.hbMapping[b] = t.hbMapping[b]
                     \/ t.hbMapping[b] = "NOTARIZED" /\ u.hbMapping[b] = "FINALIZED"
               /\ u.hbMapping[h] = "NOTARIZED"
               /\ u.depths = t.depths
               /\ u.deepestNotarized = t.deepestNotarized
               /\ \/ u.deepestFinalized = t.deepestFinalized
                  \/ 1 \in 1 .. Len(h) /\ u.deepestFinalized = Ancestor(h, 1)
               /\ \/ u.assertFailed = t.assertFailed
                  \/ \E i \in 1 .. Len(h) : t.hbMapping[Ancestor(h, i)] = "PRESENT"
<1> DEFINE path == PathFromRootTo(t, h)
           todo == ToFinalize(t, path)
           u == TryFinalizeUntil(t, h)
<1>1. IsTree(t) /\ RootedAtGenesis(t)
  BY DEF TreeInv
<1>2. h \in Hash /\ Len(h) \in Nat /\ t.depths[h] = Len(h)
  <2>1. h \in Hash /\ t.depths[h] = Len(h)
    BY <1>1 DEF IsTree, RootedAtGenesis
  <2> QED
    BY <2>1 DEF Hash
<1>3. \A i \in 0 .. Len(h) :
         /\ Ancestor(h, i) \in DOMAIN t.hbMapping /\ Ancestor(h, i) \in Hash
         /\ Len(Ancestor(h, i)) = Len(h) - i
  BY <1>1, StoredAncestors
<1>4. /\ Len(path) = Len(h) + 1
      /\ \A i \in 1 .. Len(h) + 1 : path[i] = Ancestor(h, Len(h) + 1 - i)
  BY <1>1, PathProperties
<1>5. /\ \A b \in todo : /\ t.hbMapping[b] # "FINALIZED"
                         /\ \E k \in 1 .. Len(h) : b = Ancestor(h, k)
      /\ \A k \in 1 .. Len(h) :
            \/ Ancestor(h, k) \in todo
            \/ \E j \in 1 .. k : t.hbMapping[Ancestor(h, j)] = "FINALIZED"
  BY ToFinalizeProperties
<1> HIDE DEF path, todo
<1>6. CASE ~FinalizationPredicate(path)
  <2>1. u = t
    BY <1>6 DEF TryFinalizeUntil, path
  <2> QED
    BY <2>1
<1>7. CASE FinalizationPredicate(path) /\ \E b \in todo : t.hbMapping[b] # "NOTARIZED"
  <2>1. u = [t EXCEPT !.assertFailed = TRUE]
    BY <1>7 DEF TryFinalizeUntil, path, todo
  <2> HIDE DEF u
  <2>2. \E i \in 1 .. Len(h) : t.hbMapping[Ancestor(h, i)] = "PRESENT"
    <3>1. PICK b \in todo : t.hbMapping[b] # "NOTARIZED"
      BY <1>7
    <3>2. PICK k \in 1 .. Len(h) : b = Ancestor(h, k)
      BY <1>5, <3>1
    <3>3. t.hbMapping[b] \in Status /\ t.hbMapping[b] # "FINALIZED"
      BY <1>1, <1>2, <1>3, <1>5, <3>1, <3>2 DEF IsTree
    <3> QED
      BY <3>1, <3>2, <3>3 DEF Status
  <2> QED
    BY <2>1, <2>2, AssertFailedFields DEF u
<1>8. CASE FinalizationPredicate(path) /\ \A b \in todo : t.hbMapping[b] = "NOTARIZED"
  <2> DEFINE x == [b \in DOMAIN t.hbMapping |->
                      IF b \in todo THEN "FINALIZED" ELSE t.hbMapping[b]]
             y == path[Len(path) - 1]
  <2>1. u = [ hbMapping |-> x,
              depths |-> t.depths,
              deepestNotarized |-> t.deepestNotarized,
              deepestFinalized |-> y,
              assertFailed |-> t.assertFailed ]
    <3>1. u = [t EXCEPT !.hbMapping = x, !.deepestFinalized = y]
      BY <1>8 DEF TryFinalizeUntil, path, todo
    <3> HIDE DEF x, y, u
    <3> QED
      BY <1>1, <3>1, FinalizedFields
  <2> HIDE DEF u
  <2>2. /\ u.hbMapping = x /\ u.depths = t.depths
        /\ u.deepestNotarized = t.deepestNotarized
        /\ u.deepestFinalized = y /\ u.assertFailed = t.assertFailed
    BY <2>1
  <2>3. /\ DOMAIN x = DOMAIN t.hbMapping
        /\ x = [b \in DOMAIN x |-> x[b]]
        /\ \A b \in todo : b \in DOMAIN t.hbMapping /\ x[b] = "FINALIZED"
        /\ \A b \in DOMAIN t.hbMapping :
              b \in todo \/ x[b] = t.hbMapping[b]
    BY <1>2, <1>3, <1>5
  <2> HIDE DEF x
  <2>4. /\ Len(h) >= 2 /\ y = Ancestor(h, 1)
        /\ EpochOf(Ancestor(h, 2)) + 1 = EpochOf(Ancestor(h, 1))
        /\ EpochOf(Ancestor(h, 1)) + 1 = EpochOf(Ancestor(h, 0))
    <3>1. /\ Len(h) >= 2
          /\ EpochOf(path[Len(h) - 1]) + 1 = EpochOf(path[Len(h)])
          /\ EpochOf(path[Len(h)]) + 1 = EpochOf(path[Len(h) + 1])
      BY <1>2, <1>4, <1>8 DEF FinalizationPredicate
    <3>2. /\ path[Len(h) - 1] = Ancestor(h, 2) /\ path[Len(h)] = Ancestor(h, 1)
          /\ path[Len(h) + 1] = Ancestor(h, 0)
      BY <1>2, <1>4, <3>1
    <3>3. y = path[Len(h)]
      BY <1>2, <1>4
    <3> QED
      BY <3>1, <3>2, <3>3
  <2>5. /\ 1 \in 1 .. Len(h) /\ 1 \in 0 .. Len(h) /\ y \in DOMAIN t.hbMapping
    BY <1>2, <1>3, <2>4
  <2>6. ASSUME NEW b \in DOMAIN t.hbMapping
        PROVE  \/ x[b] = t.hbMapping[b]
               \/ t.hbMapping[b] = "NOTARIZED" /\ x[b] = "FINALIZED"
    BY <1>8, <2>3
  <2>7. ASSUME NEW k \in 1 .. Len(h) PROVE x[Ancestor(h, k)] = "FINALIZED"
    <3>1. CASE Ancestor(h, k) \in todo
      BY <2>3, <3>1
    <3>2. CASE Ancestor(h, k) \notin todo
      <4>1. PICK j \in 1 .. k : t.hbMapping[Ancestor(h, j)] = "FINALIZED"
        BY <1>5, <3>2
      <4>2. j \in 0 .. Len(h) /\ k - j \in 0 .. Len(h) - j
            /\ Len(Ancestor(h, j)) = Len(h) - j
        BY <1>2, <1>3
      <4>3. Ancestor(h, k) = Ancestor(Ancestor(h, j), k - j)
        BY <1>2, <4>2, AncestorSteps
      <4>4. t.hbMapping[Ancestor(h, k)] = "FINALIZED"
        <5>1. CASE k = j
          BY <4>1, <5>1
        <5>2. CASE k # j
          <6>1. k - j \in 1 .. Len(Ancestor(h, j))
            BY <1>2, <4>2, <5>2
          <6>2. Ancestor(h, j) \in DOMAIN t.hbMapping
            BY <1>3, <4>2
          <6> QED
            BY <4>1, <4>3, <6>1, <6>2 DEF TreeInv, FinalizedPrefixClosed
        <5> QED
          BY <5>1, <5>2
      <4> QED
        BY <1>2, <1>3, <2>6, <4>4
    <3> QED
      BY <3>1, <3>2
  <2>8. h \notin todo
    <3>1. ASSUME NEW k \in 1 .. Len(h) PROVE h # Ancestor(h, k)
      BY <1>2, <1>3
    <3> QED
      BY <1>5, <3>1
  <2>9. IsTree(u)
    <3>1. u = [ hbMapping |-> u.hbMapping, depths |-> u.depths,
                deepestNotarized |-> u.deepestNotarized,
                deepestFinalized |-> u.deepestFinalized,
                assertFailed |-> u.assertFailed ]
      BY <2>1, <2>2
    <3>2. \A b \in DOMAIN x : b \in Hash /\ x[b] \in Status /\ t.depths[b] \in Nat
      BY <1>1, <2>3, <2>6 DEF IsTree, Status
    <3> HIDE DEF y
    <3> QED
      BY <1>1, <2>2, <2>3, <2>5, <3>1, <3>2 DEF IsTree
  <2>10. RootedAtGenesis(u)
    BY <1>1, <2>2, <2>3, <2>6 DEF RootedAtGenesis, IsPresent
  <2>11. DeepestNotarizedIsDeepest(u)
    <3>1. \A b \in DOMAIN t.hbMapping : x[b] # "PRESENT" <=> t.hbMapping[b] # "PRESENT"
      BY <2>6
    <3> QED
      BY <1>1, <2>2, <2>3, <3>1 DEF TreeInv, DeepestNotarizedIsDeepest, IsTree
  <2>12. FinalizedPrefixClosed(u)
    <3>1. x[y] = "FINALIZED"
      BY <2>4, <2>5, <2>7
    <3>2. ASSUME NEW b \in DOMAIN x, x[b] = "FINALIZED", NEW i \in 1 .. Len(b)
          PROVE  x[Ancestor(b, i)] = "FINALIZED"
      <4>1. CASE b \in todo
        <5>1. PICK k \in 1 .. Len(h) : b = Ancestor(h, k)
          BY <1>5, <4>1
        <5>2. /\ Len(b) = Len(h) - k /\ k \in 0 .. Len(h) /\ i \in 0 .. Len(h) - k
              /\ k + i \in 1 .. Len(h)
          BY <1>2, <1>3, <5>1
        <5>3. Ancestor(b, i) = Ancestor(h, k + i)
          BY <1>2, <5>1, <5>2, AncestorSteps
        <5> QED
          BY <2>7, <5>2, <5>3
      <4>2. CASE b \notin todo
        <5>1. t.hbMapping[Ancestor(b, i)] = "FINALIZED"
          BY <2>3, <3>2, <4>2 DEF TreeInv, FinalizedPrefixClosed
        <5>2. Ancestor(b, i) \in DOMAIN t.hbMapping
          BY <1>1, <2>3 DEF RootedAtGenesis, IsPresent
        <5> QED
          BY <2>6, <5>1, <5>2
      <4> QED
        BY <4>1, <4>2
    <3> QED
      BY <2>2, <2>3, <3>1, <3>2 DEF FinalizedPrefixClosed
  <2>13. FinalizedIsJustified(u)
    <3>1. \A c, b : Justifies(t, c, b) => Justifies(u, c, b)
      BY <2>2, <2>3, <2>6 DEF Justifies, IsPresent
    <3>2. ASSUME NEW b \in todo PROVE Justifies(u, h, b)
      <4>1. \E i \in 1 .. Len(h) : b = Ancestor(h, i)
        BY <1>5
      <4>2. ASSUME NEW i \in 0 .. 2
            PROVE  /\ Ancestor(h, i) \in DOMAIN x /\ x[Ancestor(h, i)] # "PRESENT"
                   /\ EpochOf(Ancestor(h, i)) + i = EpochOf(h)
        <5>1. Ancestor(h, 0) = h
          BY <1>2, AncestorSteps
        <5>2. CASE i = 0
          <6>1. EpochOf(h) + 0 = EpochOf(h)
            BY <1>2, EpochOfNat
          <6>2. x[h] # "PRESENT"
            BY <2>6
          <6> QED
            BY <2>3, <5>1, <5>2, <6>1, <6>2
        <5>3. CASE i = 1
          <6>1. x[Ancestor(h, 1)] = "FINALIZED" /\ Ancestor(h, 1) \in DOMAIN x
            BY <1>3, <2>3, <2>5, <2>7
          <6> QED
            BY <2>4, <5>1, <5>3, <6>1
        <5>4. CASE i = 2
          <6>1. 2 \in 1 .. Len(h) /\ 2 \in 0 .. Len(h)
            BY <1>2, <2>4
          <6>2. x[Ancestor(h, 2)] = "FINALIZED" /\ Ancestor(h, 2) \in DOMAIN x
            BY <1>3, <2>3, <2>7, <6>1
          <6>3. ASSUME NEW a \in Nat, NEW b1, NEW c, a + 1 = b1, b1 + 1 = c
                PROVE  a + 2 = c
            BY <6>3
          <6>4. EpochOf(Ancestor(h, 2)) \in Nat
            BY <1>3, <6>1, EpochOfNat
          <6> QED
            BY <2>4, <5>1, <5>4, <6>2, <6>3, <6>4
        <5> QED
          BY <5>2, <5>3, <5>4
      <4> QED
        BY <1>2, <2>2, <2>4, <4>1, <4>2 DEF Justifies, IsPresent
    <3>3. ASSUME NEW b \in DOMAIN x, b # GenesisHash, x[b] = "FINALIZED"
          PROVE  \E c \in DOMAIN x : Justifies(u, c, b)
      <4>1. CASE b \in todo
        BY <2>3, <3>2, <4>1
      <4>2. CASE b \notin todo
        BY <2>3, <3>1, <3>3, <4>2 DEF TreeInv, FinalizedIsJustified
      <4> QED
        BY <4>1, <4>2
    <3> QED
      BY <2>2, <3>3 DEF FinalizedIsJustified
  <2>14. x[h] = "NOTARIZED"
    BY <2>3, <2>8
  <2> HIDE DEF y
  <2> QED
    BY <2>2, <2>3, <2>4, <2>5, <2>6, <2>9, <2>10, <2>11, <2>12, <2>13, <2>14
    DEF TreeInv, u
<1> QED
  BY <1>6, <1>7, <1>8

\* notarize, called for a block that is PRESENT, keeps the invariant.  The
\* block becomes NOTARIZED, other blocks at most advance from NOTARIZED to
\* FINALIZED.
LEMMA NotarizeInv ==
    ASSUME NEW t, TreeInv(t), NEW h \in DOMAIN t.hbMapping, t.hbMapping[h] = "PRESENT"
    PROVE  LET u == Notarize(t, h)
           IN  /\ TreeInv(u)
               /\ DOMAIN u.hbMapping = DOMAIN t.hbMapping
               /\ u.hbMapping[h] = "NOTARIZED"
               /\ \A b \in DOMAIN t.hbMapping \ {h} :
                     \/ u.hbMapping[b] = t.hbMapping[b]
                     \/ t.hbMapping[b] = "NOTARIZED" /\ u.hbMapping[b] = "FINALIZED"
               /\ u.depths = t.depths
               /\ t.depths[u.deepestNotarized] >= t.depths[t.deepestNotarized]
               /\ \/ u.deepestFinalized = t.deepestFinalized
                  \/ 1 \in 1 .. Len(h) /\ u.deepestFinalized = Ancestor(h, 1)
               /\ \/ u.assertFailed = t.assertFailed
                  \/ \E i \in 1 .. Len(h) : t.hbMapping[Ancestor(h, i)] = "PRESENT"
<1> DEFINE m == MarkNotarized(t, h)
           u == Notarize(t, h)
<1>1. /\ TreeInv(m)
      /\ DOMAIN m.hbMapping = DOMAIN t.hbMapping
      /\ m.hbMapping[h] = "NOTARIZED"
      /\ \A b \in DOMAIN t.hbMapping : b # h => m.hbMapping[b] = t.hbMapping[b]
      /\ m.depths = t.depths
      /\ t.depths[m.deepestNotarized] >= t.depths[t.deepestNotarized]
      /\ m.deepestFinalized = t.deepestFinalized
      /\ m.assertFailed = t.assertFailed
  BY MarkNotarizedInv
<1>2. u = TryFinalizeUntil(m, h)
  BY DEF Notarize
<1> HIDE DEF m, u
<1>3. /\ TreeInv(u)
      /\ DOMAIN u.hbMapping = DOMAIN m.hbMapping
      /\ \A b \in DOMAIN m.hbMapping :
            \/ u.hbMapping[b] = m.hbMapping[b]
            \/ m.hbMapping[b] = "NOTARIZED" /\ u.hbMapping[b] = "FINALIZED"
      /\ u.hbMapping[h] = "NOTARIZED"
      /\ u.depths = m.depths
      /\ u.deepestNotarized = m.deepestNotarized
      /\ \/ u.deepestFinalized = m.deepestFinalized
         \/ 1 \in 1 .. Len(h) /\ u.deepestFinalized = Ancestor(h, 1)
      /\ \/ u.assertFailed = m.assertFailed
         \/ \E i \in 1 .. Len(h) : m.hbMapping[Ancestor(h, i)] = "PRESENT"
  BY <1>1, <1>2, TryFinalizeInv
<1>4. \A i \in 1 .. Len(h) : /\ Ancestor(h, i) \in DOMAIN t.hbMapping
                             /\ Ancestor(h, i) # h
  <2>1. h \in Hash /\ Len(h) \in Nat
    BY StoredAncestors DEF TreeInv, IsTree, Hash
  <2>2. ASSUME NEW i \in 1 .. Len(h)
        PROVE  Ancestor(h, i) \in DOMAIN t.hbMapping /\ Len(Ancestor(h, i)) = Len(h) - i
    <3>1. i \in 0 .. Len(h) /\ IsTree(t) /\ RootedAtGenesis(t)
      BY <2>1 DEF TreeInv
    <3> QED
      BY <3>1, StoredAncestors
  <2> QED
    BY <2>1, <2>2
<1>5. (\E i \in 1 .. Len(h) : m.hbMapping[Ancestor(h, i)] = "PRESENT")
         => \E i \in 1 .. Len(h) : t.hbMapping[Ancestor(h, i)] = "PRESENT"
  BY <1>1, <1>4
<1> QED
  BY <1>1, <1>3, <1>5 DEF u

\* Block c ends three blocks of consecutive epochs.
Consecutive(c) ==
    /\ Len(c) >= 2
    /\ EpochOf(Ancestor(c, 2)) + 1 = EpochOf(Ancestor(c, 1))
    /\ EpochOf(Ancestor(c, 1)) + 1 = EpochOf(c)

\* The predicate of tryFinalizeUntil looks at just these three.
LEMMA PredicateIs ==
    ASSUME NEW t, TreeInv(t), NEW h \in DOMAIN t.hbMapping
    PROVE  LET path == PathFromRootTo(t, h)
           IN  /\ FinalizationPredicate(path) <=> Consecutive(h)
               /\ FinalizationPredicate(path) => path[Len(path) - 1] = Ancestor(h, 1)
<1> DEFINE path == PathFromRootTo(t, h)
<1>1. IsTree(t) /\ RootedAtGenesis(t) /\ h \in Hash /\ Len(h) \in Nat
  BY StoredAncestors DEF TreeInv, IsTree, Hash
<1>2. /\ Len(path) = Len(h) + 1
      /\ \A i \in 1 .. Len(h) + 1 : path[i] = Ancestor(h, Len(h) + 1 - i)
  BY <1>1, PathProperties
<1> HIDE DEF path
<1>3. CASE Len(h) < 2
  BY <1>1, <1>2, <1>3 DEF FinalizationPredicate, Consecutive, path
<1>4. CASE Len(h) >= 2
  <2>1. /\ path[Len(path) - 2] = Ancestor(h, 2)
        /\ path[Len(path) - 1] = Ancestor(h, 1)
        /\ path[Len(path)] = Ancestor(h, 0)
    <3>1. /\ Len(path) - 2 \in 1 .. Len(h) + 1 /\ Len(h) + 1 - (Len(path) - 2) = 2
          /\ Len(path) - 1 \in 1 .. Len(h) + 1 /\ Len(h) + 1 - (Len(path) - 1) = 1
          /\ Len(path) \in 1 .. Len(h) + 1 /\ Len(h) + 1 - Len(path) = 0
      BY <1>1, <1>2, <1>4
    <3> QED
      BY <1>2, <3>1
  <2>2. Ancestor(h, 0) = h
    BY <1>1, AncestorSteps
  <2> QED
    BY <1>1, <1>2, <1>4, <2>1, <2>2 DEF FinalizationPredicate, Consecutive, path
<1> QED
  BY <1>1, <1>3, <1>4 DEF path

\* What notarize does if no assert fails.
LEMMA NotarizeOutcome ==
    ASSUME NEW t, TreeInv(t), NEW h \in DOMAIN t.hbMapping, t.hbMapping[h] = "PRESENT",
           ~Notarize(t, h).assertFailed
    PROVE  LET u == Notarize(t, h)
           IN  /\ u.deepestNotarized = IF Len(h) > Len(t.deepestNotarized)
                                       THEN h ELSE t.deepestNotarized
               /\ Consecutive(h) => u.hbMapping[Ancestor(h, 1)] = "FINALIZED"
               /\ \A b \in DOMAIN t.hbMapping :
                     u.hbMapping[b] = "FINALIZED"
                        => \/ t.hbMapping[b] = "FINALIZED"
                           \/ /\ Len(b) <= Len(Ancestor(h, 1))
                              /\ u.deepestFinalized = Ancestor(h, 1)
<1> DEFINE m == MarkNotarized(t, h)
           u == Notarize(t, h)
           path == PathFromRootTo(m, h)
           todo == ToFinalize(m, path)
           x == [b \in DOMAIN m.hbMapping |-> IF b \in todo THEN "FINALIZED" ELSE m.hbMapping[b]]
           y == path[Len(path) - 1]
<1>1. /\ TreeInv(m)
      /\ DOMAIN m.hbMapping = DOMAIN t.hbMapping
      /\ m.hbMapping[h] = "NOTARIZED"
      /\ \A b \in DOMAIN t.hbMapping : b # h => m.hbMapping[b] = t.hbMapping[b]
  BY MarkNotarizedInv
<1>2. m.deepestNotarized = IF Len(h) > Len(t.deepestNotarized) THEN h ELSE t.deepestNotarized
  <2>1. IsTree(t) /\ RootedAtGenesis(t)
    BY DEF TreeInv
  <2>2. m.deepestNotarized = IF t.depths[h] > t.depths[t.deepestNotarized]
                             THEN h ELSE t.deepestNotarized
    <3> HIDE DEF m
    <3>1. m = [ hbMapping |-> [t.hbMapping EXCEPT ![h] = "NOTARIZED"],
               depths |-> t.depths,
               deepestNotarized |-> (IF t.depths[h] > t.depths[t.deepestNotarized]
                                     THEN h ELSE t.deepestNotarized),
               deepestFinalized |-> t.deepestFinalized,
               assertFailed |-> t.assertFailed ]
      BY <2>1, MarkNotarizedFields DEF m
    <3> QED
      BY <3>1
  <2> HIDE DEF m
  <2>3. t.depths[h] = Len(h) /\ t.depths[t.deepestNotarized] = Len(t.deepestNotarized)
    BY <2>1 DEF RootedAtGenesis, IsTree
  <2> QED
    BY <2>2, <2>3
<1>3. u = TryFinalizeUntil(m, h)
  BY DEF Notarize
<1> HIDE DEF m
<1>4. TreeInv(u) /\ u.deepestNotarized = m.deepestNotarized
  BY <1>1, <1>3, TryFinalizeInv
<1>5. /\ FinalizationPredicate(path) <=> Consecutive(h)
      /\ FinalizationPredicate(path) => y = Ancestor(h, 1)
  BY <1>1, PredicateIs
<1>6. /\ h \in Hash /\ Len(h) \in Nat
      /\ \A k \in 1 .. Len(h) : Len(Ancestor(h, k)) = Len(h) - k
  <2>1. IsTree(t) /\ RootedAtGenesis(t)
    BY DEF TreeInv
  <2>2. h \in Hash /\ Len(h) \in Nat
    BY <2>1 DEF IsTree, Hash
  <2>3. \A k \in 1 .. Len(h) : k \in 0 .. Len(h)
    BY <2>2
  <2> QED
    BY <2>1, <2>2, <2>3, StoredAncestors
<1>7. \A b \in todo : \E k \in 1 .. Len(h) : b = Ancestor(h, k)
  BY <1>1, ToFinalizeProperties
<1> HIDE DEF path, todo, y
<1>8. CASE ~FinalizationPredicate(path)
  <2>1. u = m
    BY <1>3, <1>8 DEF TryFinalizeUntil, path
  <2> HIDE DEF u
  <2>2. \A b \in DOMAIN t.hbMapping :
           u.hbMapping[b] = "FINALIZED" => t.hbMapping[b] = "FINALIZED"
    BY <1>1, <2>1
  <2> QED
    BY <1>2, <1>4, <1>5, <1>8, <2>2 DEF u
<1>9. CASE FinalizationPredicate(path)
  <2>1. ~\E b \in todo : m.hbMapping[b] # "NOTARIZED"
    <3> SUFFICES ASSUME \E b \in todo : m.hbMapping[b] # "NOTARIZED" PROVE FALSE
      OBVIOUS
    <3>1. u = [m EXCEPT !.assertFailed = TRUE]
      BY <1>3, <1>9 DEF TryFinalizeUntil, path, todo
    <3> HIDE DEF u
    <3>2. u.assertFailed
      BY <1>1, <3>1, AssertFailedFields
    <3> QED
      BY <3>2 DEF u
  <2>2. u = [m EXCEPT !.hbMapping = x, !.deepestFinalized = y]
    BY <1>3, <1>9, <2>1 DEF TryFinalizeUntil, path, todo, y
  <2> HIDE DEF x, u
  <2>3. u.hbMapping = x /\ u.deepestFinalized = y
    <3>1. IsTree(m)
      BY <1>1 DEF TreeInv
    <3>2. u = [ hbMapping |-> x,
               depths |-> m.depths,
               deepestNotarized |-> m.deepestNotarized,
               deepestFinalized |-> y,
               assertFailed |-> m.assertFailed ]
      BY <2>2, <3>1, FinalizedFields
    <3> QED
      BY <3>2
  <2>4. u.deepestFinalized = Ancestor(h, 1) /\ Len(h) >= 2
    BY <1>5, <1>9, <2>3 DEF Consecutive
  <2>5. u.hbMapping[Ancestor(h, 1)] = "FINALIZED"
    BY <1>4, <2>4 DEF TreeInv, FinalizedPrefixClosed
  <2>6. ASSUME NEW b \in DOMAIN t.hbMapping, u.hbMapping[b] = "FINALIZED"
        PROVE  t.hbMapping[b] = "FINALIZED" \/ Len(b) <= Len(Ancestor(h, 1))
    <3>1. CASE b \in todo
      <4>1. PICK k \in 1 .. Len(h) : b = Ancestor(h, k)
        BY <1>7, <3>1
      <4>2. Len(b) = Len(h) - k /\ Len(Ancestor(h, 1)) = Len(h) - 1
        BY <1>6, <2>4, <4>1
      <4> QED
        BY <1>6, <4>2
    <3>2. CASE b \notin todo
      <4>1. m.hbMapping[b] = "FINALIZED"
        BY <1>1, <2>3, <2>6, <3>2 DEF x
      <4> QED
        BY <1>1, <4>1
    <3> QED
      BY <3>1, <3>2
  <2> QED
    BY <1>2, <1>4, <2>4, <2>5, <2>6 DEF u
<1> QED
  BY <1>8, <1>9
=============================================================================
