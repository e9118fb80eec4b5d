--------------------------- MODULE SchedulerProofs ---------------------------
(***************************************************************************)
(* What the proofs about both schedulers share: the vectors in which        *)
(* messages are filed consist of the messages sent; what a scheduler lets   *)
(* the nodes do is what Streamlet lets them do; and a scheduler whose nodes *)
(* implement Ledger has them agree on what is final, for good.              *)
(***************************************************************************)
EXTENDS BaseScheduler, NodeProofs

-----------------------------------------------------------------------------
\* The equation of the recursive function in FlattenSeq.
Flattening(f, seqs) ==
    f = [i \in 1 .. Len(seqs) |-> IF i = 1 THEN seqs[i] ELSE f[i-1] \o seqs[i]]

\* FlattenSeq takes the last value of the function that satisfies it.
LEMMA FlattenSeqIs ==
    ASSUME NEW seqs, Len(seqs) # 0
    PROVE FlattenSeq(seqs) = (CHOOSE f : Flattening(f, seqs))[Len(seqs)]
BY DEF FlattenSeq, Flattening

\* There is one: by induction, one for every initial part of seqs.
LEMMA FlatteningExists ==
    ASSUME NEW E, NEW seqs \in Seq(Seq(E))
    PROVE  \E f : Flattening(f, seqs)
<1> DEFINE Upto(n) == \E f \in [1 .. n -> Seq(E)] :
                        \A i \in 1 .. n : f[i] = IF i = 1 THEN seqs[i] ELSE f[i-1] \o seqs[i]
           Bad == { n \in 0 .. Len(seqs) : ~Upto(n) }
<1>1. Len(seqs) \in Nat /\ \A i \in 1 .. Len(seqs) : seqs[i] \in Seq(E)
  BY ElementOfSeq
<1>2. Upto(0)
  <2> DEFINE f == [i \in 1 .. 0 |-> << >>]
  <2>1. f \in [1 .. 0 -> Seq(E)] /\ \A i \in 1 .. 0 : FALSE
    OBVIOUS
  <2> QED
    BY <2>1
<1>3. ASSUME NEW n \in 0 .. Len(seqs) - 1, Upto(n) PROVE Upto(n + 1)
  <2>1. PICK f \in [1 .. n -> Seq(E)] :
               \A i \in 1 .. n : f[i] = IF i = 1 THEN seqs[i] ELSE f[i-1] \o seqs[i]
    BY <1>3
  <2> DEFINE last == IF n = 0 THEN seqs[1] ELSE f[n] \o seqs[n+1]
             g == [i \in 1 .. n + 1 |-> IF i = n + 1 THEN last ELSE f[i]]
  <2>2. n \in Nat /\ n + 1 \in 1 .. Len(seqs) /\ n + 1 - 1 = n
    BY <1>1
  <2>3. last \in Seq(E)
    <3>1. CASE n = 0
      BY <1>1, <2>2, <3>1
    <3>2. CASE n # 0
      <4>1. f[n] \in Seq(E) /\ seqs[n+1] \in Seq(E)
        BY <1>1, <2>1, <2>2, <3>2
      <4> QED
        BY <3>2, <4>1, ConcatProperties
    <3> QED
      BY <3>1, <3>2
  <2>4. n + 1 = 1 <=> n = 0
    BY <2>2
  <2> HIDE DEF last
  <2>5. g \in [1 .. n + 1 -> Seq(E)]
    BY <2>1, <2>2, <2>3
  <2>6. \A i \in 1 .. n : g[i] = f[i]
    BY <2>2
  <2>7. g[n + 1] = last
    BY <2>2
  <2> HIDE DEF g
  <2>8. ASSUME NEW i \in 1 .. n + 1
        PROVE  g[i] = IF i = 1 THEN seqs[i] ELSE g[i-1] \o seqs[i]
    <3>1. CASE i = n + 1
      <4>1. CASE n = 0
        BY <2>7, <3>1, <4>1 DEF last
      <4>2. CASE n # 0
        <5>1. n \in 1 .. n /\ i # 1 /\ i - 1 = n
          BY <2>2, <3>1, <4>2
        <5>2. g[i] = last /\ last = f[n] \o seqs[i] /\ g[n] = f[n]
          BY <2>6, <2>7, <3>1, <4>2, <5>1 DEF last
        <5> QED
          BY <5>1, <5>2
      <4> QED
        BY <4>1, <4>2
    <3>2. CASE i \in 1 .. n
      <4>1. i = 1 \/ i - 1 \in 1 .. n
        BY <2>2, <3>2
      <4> QED
        BY <2>1, <2>6, <3>2, <4>1
    <3> QED
      BY <2>2, <3>1, <3>2
  <2> QED
    BY <2>5, <2>8
<1> HIDE DEF Upto
<1>4. Bad = {}
  <2> SUFFICES ASSUME Bad # {} PROVE FALSE
    OBVIOUS
  <2>1. Bad \in SUBSET Nat
    BY <1>1
  <2>2. PICK n \in Bad : \A k \in Bad : n <= k
    BY <2>1, LeastNat
  <2>3. n \in 0 .. Len(seqs) /\ ~Upto(n) /\ n # 0
    BY <1>2, <2>2
  <2>4. n - 1 \in 0 .. Len(seqs) - 1 /\ n - 1 \notin Bad /\ n - 1 \in 0 .. Len(seqs)
        /\ n - 1 + 1 = n
    BY <1>1, <2>2, <2>3
  <2>5. Upto(n - 1)
    BY <2>4
  <2> QED
    BY <1>3, <2>3, <2>4, <2>5
<1>5. Upto(Len(seqs))
  BY <1>1, <1>4
<1>6. PICK f \in [1 .. Len(seqs) -> Seq(E)] :
         \A i \in 1 .. Len(seqs) : f[i] = IF i = 1 THEN seqs[i] ELSE f[i-1] \o seqs[i]
  BY <1>5 DEF Upto
<1>7. f = [i \in 1 .. Len(seqs) |-> IF i = 1 THEN seqs[i] ELSE f[i-1] \o seqs[i]]
  BY <1>6
<1> QED
  BY <1>7 DEF Flattening

\* So the concatenation of sequences over E is a sequence over E.
LEMMA FlattenSeqType ==
    ASSUME NEW E, NEW seqs \in Seq(Seq(E))
    PROVE  FlattenSeq(seqs) \in Seq(E)
<1> DEFINE f == CHOOSE g : Flattening(g, seqs)
           Bad == { n \in 1 .. Len(seqs) : f[n] \notin Seq(E) }
<1>1. Len(seqs) \in Nat /\ \A i \in 1 .. Len(seqs) : seqs[i] \in Seq(E)
  BY ElementOfSeq
<1>2. CASE Len(seqs) = 0
  <2>1. seqs = << >>
    BY <1>2, EmptySeq
  <2>2. FlattenSeq(seqs) = seqs
    BY <1>2 DEF FlattenSeq
  <2> QED
    BY <2>1, <2>2, EmptySeq
<1>3. CASE Len(seqs) # 0
  <2>1. Flattening(f, seqs)
    BY FlatteningExists
  <2> HIDE DEF f
  <2>2. \A i \in 1 .. Len(seqs) : f[i] = IF i = 1 THEN seqs[i] ELSE f[i-1] \o seqs[i]
    BY <2>1, Zenon DEF Flattening
  <2>3. Bad = {}
    <3> SUFFICES ASSUME Bad # {} PROVE FALSE
      OBVIOUS
    <3>1. Bad \in SUBSET Nat
      BY <1>1
    <3>2. PICK n \in Bad : \A k \in Bad : n <= k
      BY <3>1, LeastNat
    <3>3. CASE n = 1
      BY <1>1, <2>2, <3>2, <3>3
    <3>4. CASE n # 1
      <4>1. n - 1 \in 1 .. Len(seqs) /\ n \in 1 .. Len(seqs) /\ n - 1 \notin Bad
        BY <1>1, <3>2, <3>4
      <4>2. f[n-1] \in Seq(E) /\ seqs[n] \in Seq(E) /\ f[n] = f[n-1] \o seqs[n]
        BY <1>1, <2>2, <3>4, <4>1
      <4>3. f[n] \in Seq(E)
        BY <4>2, ConcatProperties
      <4> QED
        BY <3>2, <4>3
    <3> QED
      BY <3>3, <3>4
  <2>4. f[Len(seqs)] \in Seq(E)
    BY <1>1, <1>3, <2>3
  <2> QED
    BY <1>3, <2>4, FlattenSeqIs DEF f
<1> QED
  BY <1>2, <1>3

\* What SetToSeqs lists are sequences over the set.
LEMMA WalkOfSet ==
    ASSUME NEW R \in SUBSET Nodes, NEW s \in SetToSeqs(R)
    PROVE  s \in Seq(R)
<1>1. Cardinality(R) \in Nat
  BY NodeSets, FS_Subset, FS_CardinalityType
<1>2. s \in [1 .. Cardinality(R) -> R]
  BY DEF SetToSeqs
<1> QED
  BY <1>1, <1>2

\* A dishonest node walks each of its receiver sets as a sequence of its
\* members (DishonestNode::broadcast).
LEMMA WalksTyped ==
    ASSUME NEW walks \in Walks, DishonestNodes # {}, NEW R \in ReceiverSets
    PROVE  walks[R] \in Seq(R)
<1>1. PICK all \in SetToSeqs(Nodes), half0 \in SetToSeqs(HonestNodesFractions(0)),
           half1 \in SetToSeqs(HonestNodesFractions(1)), others \in SetToSeqs(DishonestNodes) :
         walks = [Q \in ReceiverSets |-> CASE Q = Nodes                   -> all
                                          [] Q = HonestNodesFractions(0) -> half0
                                          [] Q = HonestNodesFractions(1) -> half1
                                          [] OTHER                       -> others]
  BY DEF Walks
<1>2. walks[R] = CASE R = Nodes                   -> all
                   [] R = HonestNodesFractions(0) -> half0
                   [] R = HonestNodesFractions(1) -> half1
                   [] OTHER                       -> others
  BY <1>1
<1>3. /\ all \in Seq(Nodes) /\ half0 \in Seq(HonestNodesFractions(0))
      /\ half1 \in Seq(HonestNodesFractions(1)) /\ others \in Seq(DishonestNodes)
  BY WalkOfSet, ReceiversAreNodes DEF ReceiverSets
<1>4. \/ R = Nodes \/ R = HonestNodesFractions(0) \/ R = HonestNodesFractions(1)
      \/ R = DishonestNodes
  BY DEF ReceiverSets
<1> QED
  BY <1>2, <1>3, <1>4

\* Filtering yields elements of the set.
LEMMA OnlyType ==
    ASSUME NEW T, NEW s \in Seq(T), NEW E
    PROVE  Only(s, E) \in Seq(E)
<1> DEFINE parts == [i \in DOMAIN s |-> IF s[i] \in E THEN << s[i] >> ELSE << >>]
<1>1. Len(s) \in Nat /\ DOMAIN s = 1 .. Len(s)
  OBVIOUS
<1>2. \A i \in 1 .. Len(s) : parts[i] \in Seq(E)
  BY <1>1
<1>3. parts \in [1 .. Len(s) -> Seq(E)]
  BY <1>1, <1>2
<1>4. parts \in Seq(Seq(E))
  BY <1>1, <1>3
<1> HIDE DEF parts
<1>5. Only(s, E) = FlattenSeq(parts)
  BY DEF Only, parts
<1> QED
  BY <1>4, <1>5, FlattenSeqType

\* An envelope becomes messages to members of its receiver set.
LEMMA OrderType ==
    ASSUME NEW walks \in Walks, NEW v \in HonestNodes \cup DishonestNodes, NEW type,
           NEW blocks, NEW e \in EnvelopesOf(v, type, blocks)
    PROVE  Order(walks, e) \in Seq(e.to)
<1>1. e.from = v /\ e.to \in ReceiverSets
  BY DEF EnvelopesOf
<1>2. CASE v \in HonestNodes
  <2>1. Counting \in Seq(Nat)
    <3>1. N \in Nat /\ \A i \in 1 .. N : i - 1 \in Nat
      BY NodeSets
    <3> QED
      BY <3>1 DEF Counting
  <2> QED
    BY <1>1, <1>2, <2>1, OnlyType DEF Order
<1>3. CASE v \notin HonestNodes
  BY <1>1, <1>3, WalksTyped DEF Order
<1> QED
  BY <1>2, <1>3

\* So one envelope becomes messages of the answer it is part of.
LEMMA SerializeType ==
    ASSUME NEW walks \in Walks, NEW v \in HonestNodes \cup DishonestNodes, NEW type, NEW blocks,
           NEW out \in Seq(EnvelopesOf(v, type, blocks)), NEW i \in DOMAIN out
    PROVE  Serialize(walks, out[i]) \in Seq(Messages(out))
<1> DEFINE order == Order(walks, out[i])
<1>1. out[i] \in EnvelopesOf(v, type, blocks)
  BY ElementOfSeq, LenProperties
<1>2. order \in Seq(out[i].to)
  BY <1>1, OrderType
<1> HIDE DEF order
<1>3. Len(order) \in Nat /\ DOMAIN order = 1 .. Len(order)
      /\ \A j \in 1 .. Len(order) : order[j] \in out[i].to
  BY <1>2, LenProperties, ElementOfSeq
<1>4. \A j \in 1 .. Len(order) : [out[i] EXCEPT !.to = order[j]] \in Messages(out)
  BY <1>3 DEF Messages
<1>5. Serialize(walks, out[i]) = [j \in 1 .. Len(order) |-> [out[i] EXCEPT !.to = order[j]]]
  BY <1>3 DEF Serialize, order
<1> QED
  BY <1>3, <1>4, <1>5

\* What a scheduler files of an answer are messages of the answer.
LEMMA VectorType ==
    ASSUME NEW walks \in Walks, NEW v \in HonestNodes \cup DishonestNodes, NEW type, NEW blocks,
           NEW out \in Seq(EnvelopesOf(v, type, blocks))
    PROVE  Vector(walks, out) \in Seq(Messages(out))
<1> DEFINE parts == [i \in DOMAIN out |-> Serialize(walks, out[i])]
<1>1. Len(out) \in Nat /\ DOMAIN out = 1 .. Len(out)
  BY LenProperties
<1>2. parts \in [1 .. Len(out) -> Seq(Messages(out))]
  BY <1>1, SerializeType
<1>3. parts \in Seq(Seq(Messages(out)))
  BY <1>1, <1>2
<1> HIDE DEF parts
<1>4. Vector(walks, out) = FlattenSeq(parts)
  BY DEF Vector, parts
<1> QED
  BY <1>3, <1>4, FlattenSeqType

\* Of no answer nothing is filed.
LEMMA NothingFiled == ASSUME NEW walks PROVE Vector(walks, << >>) = << >> /\ Messages(<< >>) = {}
<1>1. DOMAIN << >> = {} /\ Len(<< >>) = 0
  OBVIOUS
<1>2. [i \in DOMAIN << >> |-> Serialize(walks, << >>[i])] = << >>
  BY <1>1
<1>3. FlattenSeq(<< >>) = << >>
  BY <1>1 DEF FlattenSeq
<1> QED
  BY <1>1, <1>2, <1>3 DEF Vector, Messages

\* One sequence is its own concatenation.
LEMMA FlattenSeqOfOne ==
    ASSUME NEW E, NEW s \in Seq(E)
    PROVE  FlattenSeq(<< s >>) = s
<1> DEFINE one == << s >>
           f == CHOOSE g : Flattening(g, one)
<1>1. one \in Seq(Seq(E)) /\ Len(one) = 1 /\ one[1] = s
  OBVIOUS
<1> HIDE DEF one
<1>2. Flattening(f, one)
  BY <1>1, FlatteningExists
<1> HIDE DEF f
<1>3. FlattenSeq(one) = f[Len(one)]
  <2>1. Len(one) # 0
    BY <1>1
  <2> QED
    BY <2>1, FlattenSeqIs DEF f
<1>4. f = [i \in 1 .. Len(one) |-> IF i = 1 THEN one[i] ELSE f[i-1] \o one[i]]
  BY <1>2, Zenon DEF Flattening
<1>5. f[1] = one[1]
  BY <1>1, <1>4
<1> QED
  BY <1>1, <1>3, <1>5 DEF one

\* So is the one of its elements.
LEMMA FlattenSeqOfElements ==
    ASSUME NEW E, NEW s \in Seq(E)
    PROVE  FlattenSeq([i \in DOMAIN s |-> << s[i] >>]) = s
<1> DEFINE parts == [i \in DOMAIN s |-> << s[i] >>]
           f == CHOOSE g : Flattening(g, parts)
           Bad == { n \in 1 .. Len(s) : f[n] # [j \in 1 .. n |-> s[j]] }
<1>1. Len(s) \in Nat /\ DOMAIN s = 1 .. Len(s) /\ \A i \in 1 .. Len(s) : s[i] \in E
      /\ s = [j \in 1 .. Len(s) |-> s[j]]
  BY ElementOfSeq, LenProperties
<1>2. /\ parts = [i \in 1 .. Len(s) |-> << s[i] >>]
      /\ \A i \in 1 .. Len(s) : << s[i] >> \in Seq(E)
  BY <1>1
<1>3. parts \in Seq(Seq(E)) /\ Len(parts) = Len(s)
  BY <1>1, <1>2
<1>4. CASE Len(s) = 0
  <2>1. s = << >> /\ parts = << >>
    BY <1>3, <1>4, EmptySeq
  <2>2. FlattenSeq(parts) = parts
    BY <1>3, <1>4 DEF FlattenSeq
  <2> QED
    BY <2>1, <2>2
<1>5. CASE Len(s) # 0
  <2>1. Flattening(f, parts)
    BY <1>3, FlatteningExists
  <2>2. FlattenSeq(parts) = f[Len(s)]
    BY <1>3, <1>5, FlattenSeqIs
  <2>3. \A i \in 1 .. Len(s) : parts[i] = << s[i] >>
    BY <1>2
  <2> HIDE DEF f, parts
  <2>4. \A i \in 1 .. Len(s) : f[i] = IF i = 1 THEN parts[i] ELSE f[i-1] \o parts[i]
    BY <1>3, <2>1, Zenon DEF Flattening
  <2>5. Bad = {}
    <3> SUFFICES ASSUME Bad # {} PROVE FALSE
      OBVIOUS
    <3>1. Bad \in SUBSET Nat
      BY <1>1
    <3>2. PICK n \in Bad : \A k \in Bad : n <= k
      BY <3>1, LeastNat
    <3>3. n \in 1 .. Len(s) /\ f[n] # [j \in 1 .. n |-> s[j]]
      BY <3>2
    <3>4. CASE n = 1
      <4>1. f[1] = << s[1] >>
        BY <2>3, <2>4, <3>3, <3>4
      <4>2. << s[1] >> = [j \in 1 .. 1 |-> s[j]]
        OBVIOUS
      <4> QED
        BY <3>3, <3>4, <4>1, <4>2
    <3>5. CASE n # 1
      <4>1. n - 1 \in 1 .. Len(s) /\ n - 1 \notin Bad
        BY <1>1, <3>2, <3>3, <3>5
      <4>2. f[n-1] = [j \in 1 .. n - 1 |-> s[j]]
        BY <4>1
      <4>3. f[n] = f[n-1] \o << s[n] >>
        BY <2>3, <2>4, <3>3, <3>5
      <4> DEFINE t == [j \in 1 .. n - 1 |-> s[j]]
                 u == t \o << s[n] >>
      <4>4. n \in Nat /\ n - 1 \in Nat /\ \A j \in 1 .. n - 1 : s[j] \in E
        BY <1>1, <3>3
      <4>5. t \in Seq(E) /\ Len(t) = n - 1 /\ \A j \in 1 .. n - 1 : t[j] = s[j]
        BY <4>4
      <4> HIDE DEF t
      <4>6. u \in Seq(E) /\ Len(u) = n /\ \A j \in 1 .. n : u[j] = s[j]
        <5>1. << s[n] >> \in Seq(E) /\ Len(<< s[n] >>) = 1 /\ << s[n] >>[1] = s[n]
          BY <1>1, <3>3
        <5>2. u \in Seq(E) /\ Len(u) = n - 1 + 1
          BY <4>5, <5>1, ConcatProperties
        <5>3. ASSUME NEW j \in 1 .. n PROVE u[j] = s[j]
          <6>1. CASE j \in 1 .. n - 1
            BY <4>5, <5>1, <6>1, ConcatProperties
          <6>2. CASE j = n
            BY <4>4, <4>5, <5>1, <6>2, ConcatProperties
          <6>3. j \in 1 .. n - 1 \/ j = n
            BY <4>4
          <6> QED
            BY <6>1, <6>2, <6>3
        <5> QED
          BY <4>4, <5>2, <5>3
      <4>7. u = [j \in 1 .. n |-> s[j]]
        <5> HIDE DEF u
        <5>1. u = [j \in 1 .. Len(u) |-> u[j]]
          BY <4>6
        <5> QED
          BY <4>6, <5>1
      <4> QED
        BY <3>3, <4>2, <4>3, <4>7 DEF t
    <3> QED
      BY <3>4, <3>5
  <2>6. f[Len(s)] = [j \in 1 .. Len(s) |-> s[j]]
    BY <1>1, <1>5, <2>5
  <2> QED
    BY <1>1, <2>2, <2>6 DEF parts
<1> QED
  BY <1>4, <1>5

\* F consists of the elements of s at the positions in K, each taken once: g
\* tells which.
PicksBy(F, s, K, g) ==
    /\ g \in [1 .. Len(F) -> K]
    /\ \A j \in 1 .. Len(F) : F[j] = s[g[j]]
    /\ \A j, k \in 1 .. Len(F) : g[j] = g[k] => j = k
    /\ \A i \in K : \E j \in 1 .. Len(F) : g[j] = i

\* Concatenating some of a sequence's elements picks these.
LEMMA FlattenSeqOfSome ==
    ASSUME NEW E, NEW s \in Seq(E), NEW K \in SUBSET (DOMAIN s)
    PROVE  LET F == FlattenSeq([i \in DOMAIN s |-> IF i \in K THEN << s[i] >> ELSE << >>])
           IN  F \in Seq(E) /\ \E g : PicksBy(F, s, K, g)
<1> DEFINE part(i) == IF i \in K THEN << s[i] >> ELSE << >>
           parts == [i \in DOMAIN s |-> part(i)]
           f == CHOOSE g : Flattening(g, parts)
           Good(n) == f[n] \in Seq(E) /\ \E g : PicksBy(f[n], s, K \cap 1 .. n, g)
           Bad == { n \in 1 .. Len(s) : ~Good(n) }
<1>1. Len(s) \in Nat /\ DOMAIN s = 1 .. Len(s) /\ \A i \in 1 .. Len(s) : s[i] \in E
  BY ElementOfSeq, LenProperties
<1>2. ASSUME NEW i \in 1 .. Len(s)
      PROVE  /\ part(i) \in Seq(E)
             /\ i \in K => part(i) = << s[i] >>
             /\ i \notin K => part(i) = << >>
  <2>1. i \in K => part(i) = << s[i] >>
    OBVIOUS
  <2>2. i \notin K => part(i) = << >>
    OBVIOUS
  <2>3. << s[i] >> \in Seq(E) /\ << >> \in Seq(E)
    BY <1>1
  <2> HIDE DEF part
  <2> QED
    BY <2>1, <2>2, <2>3
<1> HIDE DEF part
<1>3. /\ parts \in Seq(Seq(E)) /\ Len(parts) = Len(s)
      /\ \A i \in 1 .. Len(s) : parts[i] = part(i)
  BY <1>1, <1>2
<1>4. \E g : PicksBy(<< >>, s, {}, g)
  <2>1. Len(<< >>) = 0
    OBVIOUS
  <2>2. PicksBy(<< >>, s, {}, << >>)
    BY <2>1 DEF PicksBy
  <2> QED
    BY <2>2
<1>5. CASE Len(s) = 0
  <2>1. FlattenSeq(parts) = parts
    BY <1>3, <1>5 DEF FlattenSeq
  <2>2. parts = << >> /\ K = {}
    BY <1>1, <1>3, <1>5, EmptySeq
  <2> QED
    BY <1>4, <2>1, <2>2, EmptySeq DEF part
<1>6. CASE Len(s) # 0
  <2>1. Flattening(f, parts)
    BY <1>3, FlatteningExists
  <2>2. FlattenSeq(parts) = f[Len(s)]
    BY <1>3, <1>6, FlattenSeqIs
  <2> HIDE DEF f, parts
  <2>3. \A i \in 1 .. Len(s) : f[i] = IF i = 1 THEN part(i) ELSE f[i-1] \o part(i)
    <3>1. \A i \in 1 .. Len(s) : f[i] = IF i = 1 THEN parts[i] ELSE f[i-1] \o parts[i]
      BY <1>3, <2>1, Zenon DEF Flattening
    <3> QED
      BY <1>3, <3>1
  <2>4. ASSUME NEW n \in 1 .. Len(s), NEW q \in Seq(E), NEW h, PicksBy(q, s, K \cap 1 .. n - 1, h),
               f[n] = q \o part(n)
        PROVE  Good(n)
    <3>1. n \in Nat /\ n >= 1
      BY <1>1
    <3>2. CASE n \notin K
      <4>1. K \cap 1 .. n = K \cap 1 .. n - 1
        BY <1>1, <3>1, <3>2
      <4>2. f[n] = q
        BY <1>2, <2>4, <3>2, ConcatEmptySeq
      <4> QED
        BY <2>4, <4>1, <4>2
    <3>3. CASE n \in K
      <4> DEFINE len == Len(q)
                 u == q \o << s[n] >>
                 g == [j \in 1 .. len + 1 |-> IF j = len + 1 THEN n ELSE h[j]]
      <4>1. f[n] = u
        BY <1>2, <2>4, <3>3
      <4>2. len \in Nat
        BY LenProperties
      <4>3. u \in Seq(E) /\ Len(u) = len + 1
        BY <1>1, AppendProperties, AppendIsConcat
      <4>4. (\A j \in 1 .. len : u[j] = q[j]) /\ u[len + 1] = s[n]
        <5>1. u = Append(q, s[n])
          BY <1>1, AppendIsConcat
        <5> QED
          BY <1>1, <5>1, AppendProperties
      <4>5. /\ h \in [1 .. len -> K \cap 1 .. n - 1]
            /\ \A j \in 1 .. len : q[j] = s[h[j]]
            /\ \A j, k \in 1 .. len : h[j] = h[k] => j = k
            /\ \A i \in K \cap 1 .. n - 1 : \E j \in 1 .. len : h[j] = i
        BY <2>4 DEF PicksBy
      <4> HIDE DEF u, len
      <4>6. /\ g[len + 1] = n
            /\ \A j \in 1 .. len : g[j] = h[j] /\ h[j] \in K \cap 1 .. n - 1 /\ h[j] # n
            /\ \A j \in 1 .. len + 1 : j \in 1 .. len \/ j = len + 1
            /\ 1 .. len \subseteq 1 .. len + 1 /\ len + 1 \in 1 .. len + 1
        BY <3>1, <4>2, <4>5
      <4>7. g \in [1 .. len + 1 -> K \cap 1 .. n]
        BY <3>1, <3>3, <4>2, <4>5
      <4> HIDE DEF g
      <4>8. \A j \in 1 .. len + 1 : u[j] = s[g[j]]
        BY <4>4, <4>5, <4>6
      <4>9. \A j, k \in 1 .. len + 1 : g[j] = g[k] => j = k
        BY <4>5, <4>6
      <4>10. \A i \in K \cap 1 .. n : i = n \/ i \in K \cap 1 .. n - 1
        BY <3>1
      <4>11. \A i \in K \cap 1 .. n : \E j \in 1 .. len + 1 : g[j] = i
        BY <4>5, <4>6, <4>10
      <4>12. PicksBy(u, s, K \cap 1 .. n, g)
        BY <4>3, <4>7, <4>8, <4>9, <4>11 DEF PicksBy
      <4> QED
        BY <4>1, <4>3, <4>12
    <3> QED
      BY <3>2, <3>3
  <2> HIDE DEF Good
  <2>5. Bad = {}
    <3> SUFFICES ASSUME Bad # {} PROVE FALSE
      OBVIOUS
    <3>1. Bad \in SUBSET Nat
      BY <1>1
    <3>2. PICK n \in Bad : \A k \in Bad : n <= k
      BY <3>1, LeastNat
    <3>3. n \in 1 .. Len(s) /\ ~Good(n)
      BY <3>2
    <3>4. CASE n = 1
      <4>1. << >> \o part(1) = part(1) /\ << >> \in Seq(E)
        BY <1>2, <3>3, <3>4, ConcatEmptySeq
      <4>2. K \cap 1 .. n - 1 = {}
        BY <3>4
      <4>3. f[n] = << >> \o part(n)
        BY <2>3, <3>3, <3>4, <4>1
      <4> QED
        BY <1>4, <2>4, <3>3, <4>1, <4>2, <4>3
    <3>5. CASE n # 1
      <4>1. n - 1 \in 1 .. Len(s) /\ n - 1 \notin Bad
        BY <1>1, <3>2, <3>3, <3>5
      <4>2. Good(n - 1)
        BY <4>1
      <4>3. f[n-1] \in Seq(E) /\ \E g : PicksBy(f[n-1], s, K \cap 1 .. n - 1, g)
        BY <4>2 DEF Good
      <4>4. f[n] = f[n-1] \o part(n)
        BY <2>3, <3>3, <3>5
      <4> QED
        BY <2>4, <3>3, <4>3, <4>4
    <3> QED
      BY <3>4, <3>5
  <2>6. Good(Len(s)) /\ K \cap 1 .. Len(s) = K
    BY <1>1, <1>6, <2>5
  <2> QED
    BY <2>2, <2>6 DEF Good, parts, part
<1> QED
  BY <1>5, <1>6

\* HonestNode::broadcast sends to every node in turn, starting from node 0.
LEMMA HonestBroadcast ==
    ASSUME NEW walks, NEW v \in HonestNodes, NEW type, NEW b
    PROVE  Vector(walks, << Envelope(v, Nodes, type, b) >>)
              = [i \in 1 .. N |-> [from |-> v, to |-> i - 1, type |-> type, block |-> b]]
<1> DEFINE e == Envelope(v, Nodes, type, b)
           M(i) == [from |-> v, to |-> i - 1, type |-> type, block |-> b]
           q == [i \in 1 .. N |-> M(i)]
<1>1. N \in Nat /\ e = [from |-> v, to |-> Nodes, type |-> type, block |-> b]
  BY NodeSets DEF Envelope
<1>2. Only(Counting, Nodes) = Counting
  <2>1. Counting \in Seq(Nat) /\ DOMAIN Counting = 1 .. N
    BY <1>1 DEF Counting
  <2>2. \A i \in 1 .. N : Counting[i] \in Nodes
    BY <1>1 DEF Counting, Nodes
  <2>3. [i \in DOMAIN Counting |-> IF Counting[i] \in Nodes THEN << Counting[i] >> ELSE << >>]
           = [i \in DOMAIN Counting |-> << Counting[i] >>]
    BY <2>1, <2>2
  <2> QED
    BY <2>1, <2>3, FlattenSeqOfElements DEF Only
<1>3. Order(walks, e) = Counting
  BY <1>1, <1>2 DEF Order
<1>4. Serialize(walks, e) = q
  <2>1. DOMAIN Counting = 1 .. N /\ \A i \in 1 .. N : Counting[i] = i - 1
    BY DEF Counting
  <2>2. Serialize(walks, e) = [i \in 1 .. N |-> [e EXCEPT !.to = Counting[i]]]
    BY <1>3, <2>1 DEF Serialize
  <2>3. ASSUME NEW i \in 1 .. N PROVE [e EXCEPT !.to = Counting[i]] = M(i)
    BY <1>1, <2>1
  <2> HIDE DEF e, M
  <2> QED
    BY <2>2, <2>3
<1>5. q \in Seq({ M(i) : i \in 1 .. N })
  <2> HIDE DEF M
  <2> QED
    BY <1>1
<1> HIDE DEF q, e, M
<1>6. DOMAIN << e >> = {1} /\ << e >>[1] = e
  OBVIOUS
<1>7. [i \in DOMAIN << e >> |-> Serialize(walks, << e >>[i])] = << q >>
  BY <1>4, <1>6
<1>8. FlattenSeq(<< q >>) = q
  BY <1>5, FlattenSeqOfOne
<1>9. Vector(walks, << e >>) = q
  BY <1>7, <1>8 DEF Vector
<1> QED
  BY <1>9 DEF q, e, M
-----------------------------------------------------------------------------
(* Streamlet's instance S has its own copy of every operator of the nodes,  *)
(* defined as the original is.                                              *)

\* Blocks and trees.
LEMMA SameHashes ==
    /\ S!GenesisHash = GenesisHash /\ S!N = N
    /\ S!HonestNodes = HonestNodes /\ S!DishonestNodes = DishonestNodes /\ S!Nodes = Nodes
    /\ \A h : /\ S!ParentHash(h) = ParentHash(h)
             /\ S!EpochOf(h) = EpochOf(h)
    /\ \A h, i : S!Ancestor(h, i) = Ancestor(h, i)
    /\ \A h, e, p : S!BlockHash(h, e, p) = BlockHash(h, e, p)
BY DEF S!GenesisHash, GenesisHash, S!N, N, S!HonestNodes, HonestNodes,
       S!DishonestNodes, DishonestNodes, S!Nodes, Nodes, S!Front, Front,
       S!ParentHash, ParentHash, S!EpochOf, EpochOf, S!Ancestor, Ancestor,
       S!BlockHash, BlockHash

LEMMA SameTrees ==
    /\ S!NewTree = NewTree
    /\ \A t, h : /\ S!IsPresent(t, h) = IsPresent(t, h)
                /\ S!IsDeepestNotarized(t, h) = IsDeepestNotarized(t, h)
    /\ \A f, k, v : S!TryEmplace(f, k, v) = TryEmplace(f, k, v)
BY SameHashes DEF S!NewTree, NewTree, S!IsPresent, IsPresent,
       S!IsDeepestNotarized, IsDeepestNotarized, S!TryEmplace, TryEmplace

LEMMA SameAddBlock == ASSUME NEW t, NEW h PROVE S!AddBlock(t, h) = AddBlock(t, h)
BY SameHashes, SameTrees DEF S!AddBlock, AddBlock

LEMMA SameMarkNotarized == ASSUME NEW t, NEW h PROVE S!MarkNotarized(t, h) = MarkNotarized(t, h)
BY DEF S!MarkNotarized, MarkNotarized

LEMMA SamePath ==
    /\ \A t, h : S!PathFromRootTo(t, h) = PathFromRootTo(t, h)
    /\ \A path : S!FinalizationPredicate(path) = FinalizationPredicate(path)
    /\ \A t, path : S!ToFinalize(t, path) = ToFinalize(t, path)
BY SameHashes DEF S!PathFromRootTo, PathFromRootTo, S!FinalizationPredicate,
       FinalizationPredicate, S!ToFinalize, ToFinalize

LEMMA SameTryFinalize ==
    ASSUME NEW t, NEW h PROVE S!TryFinalizeUntil(t, h) = TryFinalizeUntil(t, h)
BY SamePath DEF S!TryFinalizeUntil, TryFinalizeUntil

LEMMA SameNotarize == ASSUME NEW t, NEW h PROVE S!Notarize(t, h) = Notarize(t, h)
BY SameMarkNotarized, SameTryFinalize DEF S!Notarize, Notarize

\* Replicas.
LEMMA SameReplicas ==
    /\ S!NewReplica = NewReplica
    /\ \A r, b : S!RecordProposal(r, b) = RecordProposal(r, b)
    /\ \A r, m : /\ S!AcceptsProposal(r, m) = AcceptsProposal(r, m)
                /\ S!CountsVote(r, m) = CountsVote(r, m)
    /\ \A r, e : S!Voters(r, e) = Voters(r, e)
    /\ \A A : S!IsQuorum(A) = IsQuorum(A)
<1>1. S!NewReplica = NewReplica
  BY SameHashes, SameTrees DEF S!NewReplica, NewReplica
<1>2. ASSUME NEW r, NEW b PROVE S!RecordProposal(r, b) = RecordProposal(r, b)
  BY SameHashes, SameTrees, SameAddBlock DEF S!RecordProposal, RecordProposal
<1>3. ASSUME NEW r, NEW m
      PROVE  /\ S!AcceptsProposal(r, m) = AcceptsProposal(r, m)
             /\ S!CountsVote(r, m) = CountsVote(r, m)
  BY SameHashes, SameTrees DEF S!AcceptsProposal, AcceptsProposal, S!CountsVote, CountsVote
<1>4. ASSUME NEW r, NEW e PROVE S!Voters(r, e) = Voters(r, e)
  BY SameHashes DEF S!Voters, Voters
<1>5. ASSUME NEW A PROVE S!IsQuorum(A) = IsQuorum(A)
  BY SameHashes DEF S!IsQuorum, IsQuorum, S!Cardinality, Cardinality
<1> QED
  BY <1>1, <1>2, <1>3, <1>4, <1>5

LEMMA SameHandleVote == ASSUME NEW r, NEW m PROVE S!HandleVote(r, m) = HandleVote(r, m)
BY SameHashes, SameReplicas, SameNotarize DEF S!HandleVote, HandleVote

\* Epochs and messages.
LEMMA SameMessages ==
    /\ \A round : S!GetEpoch(round) = GetEpoch(round)
    /\ \A round : S!IsEpochStart(round) = IsEpochStart(round)
    /\ \A v, to, type, b : S!Envelope(v, to, type, b) = Envelope(v, to, type, b)
    /\ \A out : S!Messages(out) = Messages(out)
BY DEF S!GetEpoch, GetEpoch, S!IsEpochStart, IsEpochStart, S!Envelope, Envelope,
       S!Messages, Messages

\* Honest nodes.
LEMMA SameHonestAtTime ==
    ASSUME NEW v, NEW r, NEW round, NEW payload
    PROVE  S!HonestAtTime(v, r, round, payload) = HonestAtTime(v, r, round, payload)
BY SameHashes, SameMessages DEF S!HonestAtTime, HonestAtTime

LEMMA SameHonestReceive ==
    ASSUME NEW v, NEW r, NEW m
    PROVE  S!HonestOnMessageReceive(v, r, m) = HonestOnMessageReceive(v, r, m)
<1>1. S!HonestHandlePropose(v, r, m) = HonestHandlePropose(v, r, m)
  BY SameHashes, SameTrees, SameReplicas, SameMessages DEF S!HonestHandlePropose, HonestHandlePropose
<1> QED
  BY <1>1, SameHandleVote DEF S!HonestOnMessageReceive, HonestOnMessageReceive

\* Dishonest nodes.
LEMMA SameNewDishonest == S!NewDishonest = NewDishonest
BY SameReplicas DEF S!NewDishonest, NewDishonest

LEMMA SameDishonestAtTime ==
    ASSUME NEW v, NEW d, NEW round, NEW payload
    PROVE  S!DishonestAtTime(v, d, round, payload) = DishonestAtTime(v, d, round, payload)
<1>1. ASSUME NEW k PROVE S!HonestNodesFractions(k) = HonestNodesFractions(k)
  BY DEF S!HonestNodesFractions, HonestNodesFractions
<1>2. ASSUME NEW e, NEW k, NEW p
      PROVE  S!PreparePropose(v, d, e, k, p) = PreparePropose(v, d, e, k, p)
  BY <1>1, SameHashes, SameMessages DEF S!PreparePropose, PreparePropose
<1> QED
  BY <1>2, SameMessages DEF S!DishonestAtTime, DishonestAtTime

LEMMA SameDishonestReceive ==
    ASSUME NEW v, NEW d, NEW m
    PROVE  S!DishonestOnMessageReceive(v, d, m) = DishonestOnMessageReceive(v, d, m)
<1>1. ASSUME NEW k PROVE S!HonestNodesFractions(k) = HonestNodesFractions(k)
  BY DEF S!HonestNodesFractions, HonestNodesFractions
<1>2. S!Turn(d) = Turn(d)
  BY DEF S!Turn, Turn
<1>3. ASSUME NEW mischief, NEW k
      PROVE  S!DishonestHandlePropose(v, d, m, mischief, k)
                = DishonestHandlePropose(v, d, m, mischief, k)
  BY <1>1, <1>2, SameHashes, SameTrees, SameReplicas, SameMessages
     DEF S!DishonestHandlePropose, DishonestHandlePropose
<1> QED
  BY <1>3, SameHashes, SameHandleVote DEF S!DishonestOnMessageReceive, DishonestOnMessageReceive
-----------------------------------------------------------------------------
(* What the nodes answer, and what is filed of it. *)

\* A node of which nothing is known here but that it answers proposals with votes.
LEMMA AnswerFiled ==
    ASSUME walk \in Walks, NEW v \in HonestNodes \cup DishonestNodes, NEW m,
           NEW out \in AnswersTo(v, m)
    PROVE  Vector(walk, out) \in Seq(Messages(out))
BY AnswerEnvelopes, VectorType

\* A delivery (BaseScheduler::sendRec): the nodes stay in order, votes are
\* answered with nothing and proposals with votes for their block.
LEMMA Delivery ==
    ASSUME NodesInv(honest, dishonest, sent), walk \in Walks, NEW m \in sent
    PROVE  LET a == SendRec(m)
           IN  /\ NodesInv(a.honest, a.dishonest, sent \cup Messages(a.out))
               /\ Vector(walk, a.out) \in Seq(Messages(a.out))
               /\ m.type # "PROPOSAL" => a.out = << >>
               /\ \A w \in Messages(a.out) :
                     /\ w.type = "VOTE" /\ w.block = m.block
                     /\ w.from \in HonestNodes =>
                           /\ m.to \in HonestNodes
                           /\ VoteStep(m.to, honest[m.to], a.honest[m.to], w)
               /\ IF m.to \in HonestNodes
                  THEN /\ ReplicaStep(m.to, honest[m.to], m, a.honest[m.to])
                       /\ \A x \in HonestNodes : x # m.to => a.honest[x] = honest[x]
                  ELSE a.honest = honest
<1> DEFINE a == SendRec(m)
           h == HonestOnMessageReceive(m.to, honest[m.to], m)
           d == DishonestOnMessageReceive(m.to, dishonest[m.to], m)
<1>1. m \in Message /\ m.to \in Nodes
  BY DEF NodesInv, Message
<1>2. ASSUME NEW v \in HonestNodes \cup DishonestNodes, v = m.to, NEW out \in AnswersTo(v, m)
      PROVE  /\ Vector(walk, out) \in Seq(Messages(out))
             /\ m.type # "PROPOSAL" => out = << >>
             /\ \A w \in Messages(out) : w.type = "VOTE" /\ w.block = m.block
  <2>1. Vector(walk, out) \in Seq(Messages(out))
    BY AnswerFiled
  <2>2. \A w \in Messages(out) : w.type = "VOTE" /\ w.block = m.block
    BY <1>1, <1>2, AnswerVotes
  <2> QED
    BY <2>1, <2>2 DEF AnswersTo
<1>3. CASE m.to \in HonestNodes
  <2>1. /\ a.honest = [honest EXCEPT ![m.to] = h.replica] /\ a.dishonest = dishonest
        /\ a.out = h.out
    BY <1>3, NodeSets DEF SendRec
  <2>2. /\ NodesInv([honest EXCEPT ![m.to] = h.replica], dishonest, sent \cup Messages(h.out))
        /\ h.out \in AnswersTo(m.to, m)
        /\ ReplicaStep(m.to, honest[m.to], m, h.replica)
        /\ \A w \in Messages(h.out) : VoteStep(m.to, honest[m.to], h.replica, w)
    BY <1>3, NodesHonestStep
  <2> HIDE DEF a, h
  <2>3. /\ a.honest[m.to] = h.replica
        /\ \A x \in HonestNodes : x # m.to => a.honest[x] = honest[x]
    BY <1>3, <2>1 DEF NodesInv
  <2> QED
    BY <1>2, <1>3, <2>1, <2>2, <2>3 DEF a
<1>4. CASE m.to \in DishonestNodes
  <2>1. /\ a.honest = honest /\ a.dishonest = [dishonest EXCEPT ![m.to] = d.node]
        /\ a.out = d.out
    BY <1>4, NodeSets DEF SendRec
  <2>2. /\ NodesInv(honest, [dishonest EXCEPT ![m.to] = d.node], sent \cup Messages(d.out))
        /\ d.out \in AnswersTo(m.to, m)
        /\ \A w \in Messages(d.out) : w.from \notin HonestNodes
    BY <1>4, NodesDishonestStep
  <2>3. m.to \notin HonestNodes
    BY <1>4, NodeSets
  <2> HIDE DEF a, d
  <2> QED
    BY <1>2, <1>4, <2>1, <2>2, <2>3 DEF a
<1>5. CASE m.to \notin HonestNodes \cup DishonestNodes
  <2>1. a.honest = honest /\ a.dishonest = dishonest /\ a.out = << >>
    BY <1>5 DEF SendRec
  <2>2. Vector(walk, << >>) = << >> /\ Messages(<< >>) = {}
    BY NothingFiled
  <2> HIDE DEF a
  <2> QED
    BY <1>5, <2>1, <2>2, EmptySeq DEF a
<1> QED
  BY <1>3, <1>4, <1>5

\* Only the leader of the epoch answers when told the time, at its first round,
\* with proposals.
LEMMA Announcement ==
    ASSUME NodesInv(honest, dishonest, sent), walk \in Walks, time \in Nat,
           NEW payload \in Draws, NEW v \in Nodes
    PROVE  LET out == AtTime(v, payload)
           IN  /\ Vector(walk, out) \in Seq(Messages(out))
               /\ out # << >> => /\ v \in HonestNodes \cup DishonestNodes
                                /\ IsEpochStart(time) /\ GetLeader(GetEpoch(time)) = v
               /\ \A w \in Messages(out) :
                     /\ w \in Message /\ w.from = v /\ w.type = "PROPOSAL"
                     /\ EpochOf(w.block) = GetEpoch(time)
<1> DEFINE out == AtTime(v, payload)
<1>1. payload \in [0 .. 1 -> Payload] /\ payload[0] \in Payload
  BY DrawsAssumption
<1>2. \/ /\ v \in HonestNodes \cup DishonestNodes /\ out \in ProposalsOf(v, time)
         /\ out # << >> => IsEpochStart(time) /\ GetLeader(GetEpoch(time)) = v
      \/ out = << >>
  <2>1. CASE v \in HonestNodes
    <3>1. out = HonestAtTime(v, honest[v], time, payload[0]) /\ ReplicaInv(honest[v])
      BY <2>1, NodeSets DEF AtTime, NodesInv
    <3> HIDE DEF out
    <3> QED
      BY <1>1, <2>1, <3>1, HonestAtTimeSends
  <2>2. CASE v \in DishonestNodes
    <3>1. /\ out = DishonestAtTime(v, dishonest[v], time, payload)
          /\ DishonestInv(dishonest[v])
      BY <2>2, NodeSets DEF AtTime, NodesInv
    <3> HIDE DEF out
    <3> QED
      BY <1>1, <2>2, <3>1, DishonestAtTimeSends
  <2>3. CASE v \notin HonestNodes \cup DishonestNodes
    BY <2>3 DEF AtTime
  <2> QED
    BY <2>1, <2>2, <2>3
<1> HIDE DEF out
<1>3. CASE out = << >>
  <2>1. Vector(walk, << >>) = << >> /\ Messages(<< >>) = {}
    BY NothingFiled
  <2> QED
    BY <1>3, <2>1, EmptySeq DEF out
<1>4. CASE out # << >>
  <2>1. v \in HonestNodes \cup DishonestNodes /\ out \in ProposalsOf(v, time)
        /\ IsEpochStart(time) /\ GetLeader(GetEpoch(time)) = v
    BY <1>2, <1>4
  <2>2. Vector(walk, out) \in Seq(Messages(out))
    BY <2>1, VectorType DEF ProposalsOf
  <2>3. \A w \in Messages(out) :
           /\ w \in Message /\ w.from = v /\ w.type = "PROPOSAL"
           /\ EpochOf(w.block) = GetEpoch(time)
    BY <2>1, ProposalMessages
  <2> QED
    BY <2>1, <2>2, <2>3 DEF out
<1> QED
  BY <1>3, <1>4

-----------------------------------------------------------------------------
(* The steps, as Streamlet has them. *)

\* Fresh nodes are Streamlet's.
LEMMA InitialIsStreamlets ==
    ASSUME time = 0, pc = "broadcastTime", sent = {},
           honest = [v \in HonestNodes |-> NewReplica],
           dishonest = [v \in DishonestNodes |-> NewDishonest]
    PROVE  S!Init
BY SameHashes, SameReplicas, SameNewDishonest DEF S!Init, Announced

\* broadcastTime announces a round, whoever proposes.
LEMMA BroadcastIsStreamlets ==
    ASSUME NodesInv(honest, dishonest, sent), time \in Nat, time < NrRounds,
           pc = "broadcastTime", Announced' = time + 1, ~S!Aborted,
           UNCHANGED <<honest, dishonest>>, NEW payload \in Draws,
           \/ /\ \A v \in Nodes : AtTime(v, payload) = << >>
              /\ sent' = sent
           \/ \E v \in Nodes : /\ AtTime(v, payload) # << >>
                               /\ GetLeader(GetEpoch(time)) = v
                               /\ sent' = sent \cup Messages(AtTime(v, payload)),
           \A v \in Nodes : AtTime(v, payload) # << >> => GetLeader(GetEpoch(time)) = v
    PROVE  S!BroadcastTime
<1> DEFINE out(v) == AtTime(v, payload)
           H == { HonestAtTime(v, honest[v], time, payload[0]) : v \in HonestNodes }
           D == { DishonestAtTime(v, dishonest[v], time, payload) : v \in DishonestNodes }
<1>1. Announced = time
  BY DEF Announced
<1>2. /\ \A v \in HonestNodes : v \in Nodes /\ out(v) = HonestAtTime(v, honest[v], time, payload[0])
      /\ \A v \in DishonestNodes :
            v \in Nodes /\ out(v) = DishonestAtTime(v, dishonest[v], time, payload)
      /\ \A v \in Nodes \ (HonestNodes \cup DishonestNodes) : out(v) = << >>
  BY NodeSets DEF AtTime
<1>3. H \cup D = { out(v) : v \in HonestNodes \cup DishonestNodes }
  BY <1>2
<1> HIDE DEF out, H, D
<1>4. sent' = sent \cup UNION { Messages(o) : o \in H \cup D }
  <2>1. Messages(<< >>) = {}
    BY NothingFiled
  <2>2. CASE \A v \in Nodes : out(v) = << >>
    <3>1. sent' = sent
      BY <2>2 DEF out
    <3>2. \A o \in H \cup D : Messages(o) = {}
      BY <1>2, <1>3, <2>1, <2>2
    <3> QED
      BY <3>1, <3>2
  <2>3. CASE ~\A v \in Nodes : out(v) = << >>
    <3>1. PICK v \in Nodes : /\ out(v) # << >> /\ GetLeader(GetEpoch(time)) = v
                             /\ sent' = sent \cup Messages(out(v))
      BY <2>3 DEF out
    <3>2. v \in HonestNodes \cup DishonestNodes
      BY <1>2, <3>1
    <3>3. \A x \in Nodes : x # v => out(x) = << >>
      BY <3>1 DEF out
    <3>4. out(v) \in H \cup D /\ \A o \in H \cup D : o = out(v) \/ o = << >>
      BY <1>2, <1>3, <3>2, <3>3
    <3>5. UNION { Messages(o) : o \in H \cup D } = Messages(out(v))
      BY <2>1, <3>4
    <3> QED
      BY <3>1, <3>5
  <2> QED
    BY <2>2, <2>3
<1>5. /\ H = { S!HonestAtTime(v, honest[v], time, payload[0]) : v \in S!HonestNodes }
      /\ D = { S!DishonestAtTime(v, dishonest[v], time, payload) : v \in S!DishonestNodes }
  BY SameHashes, SameHonestAtTime, SameDishonestAtTime DEF H, D
<1>6. sent' = sent \cup UNION { S!Messages(o) : o \in H \cup D }
  BY <1>4, SameMessages
<1> QED
  BY <1>1, <1>5, <1>6 DEF S!BroadcastTime

\* sendRec delivers one message, or hands it to a dummy.
LEMMA DeliveryIsStreamlets ==
    ASSUME NEW m \in sent, ~S!Aborted,
           honest' = SendRec(m).honest, dishonest' = SendRec(m).dishonest,
           sent' = sent \cup Messages(SendRec(m).out), Announced' = Announced
    PROVE  [S!Next]_(S!vars)
<1> DEFINE h == HonestOnMessageReceive(m.to, honest[m.to], m)
           d == DishonestOnMessageReceive(m.to, dishonest[m.to], m)
<1>1. CASE m.to \in HonestNodes
  <2>1. /\ honest' = [honest EXCEPT ![m.to] = h.replica] /\ dishonest' = dishonest
        /\ sent' = sent \cup Messages(h.out)
    BY <1>1, NodeSets DEF SendRec
  <2>2. S!HonestReceives(m)
    BY <1>1, <2>1, SameHashes, SameHonestReceive, SameMessages DEF S!HonestReceives
  <2> QED
    BY <2>2 DEF S!Next
<1>2. CASE m.to \in DishonestNodes
  <2>1. /\ dishonest' = [dishonest EXCEPT ![m.to] = d.node] /\ honest' = honest
        /\ sent' = sent \cup Messages(d.out)
    BY <1>2, NodeSets DEF SendRec
  <2>2. S!DishonestReceives(m)
    BY <1>2, <2>1, SameHashes, SameDishonestReceive, SameMessages DEF S!DishonestReceives
  <2> QED
    BY <2>2 DEF S!Next
<1>3. CASE m.to \notin HonestNodes \cup DishonestNodes
  <2>1. honest' = honest /\ dishonest' = dishonest /\ sent' = sent
    BY <1>3, NothingFiled DEF SendRec
  <2> QED
    BY <2>1 DEF S!vars
<1> QED
  BY <1>1, <1>2, <1>3
-----------------------------------------------------------------------------
(* The ledger. *)

\* There is a longest finalized chain, and LongestFinalized is one.
LEMMA LongestIsLongest ==
    ASSUME NodesInv(honest, dishonest, sent)
    PROVE  /\ LongestFinalized \in { Finalized[v] : v \in HonestNodes } \cup { GenesisHash }
           /\ \A v \in HonestNodes : Len(Finalized[v]) <= Len(LongestFinalized)
<1>1. \A v \in HonestNodes : Finalized[v] \in Hash
  BY ChainsFinalized DEF Finalized
<1>2. \E c \in { Finalized[v] : v \in HonestNodes } \cup { GenesisHash } :
         \A v \in HonestNodes : Len(Finalized[v]) <= Len(c)
  BY <1>1, LongestExists
<1> QED
  BY <1>2 DEF LongestFinalized

\* A chain of which another one is an ancestor has it as a prefix.
LEMMA AncestorIsPrefix ==
    ASSUME NEW b \in Hash, NEW c \in Hash, Len(b) <= Len(c), b = Ancestor(c, Len(c) - Len(b))
    PROVE  L!IsPrefix(b, c)
<1>1. Len(b) \in Nat /\ Len(c) \in Nat
  BY DEF Hash
<1>2. Len(c) - (Len(c) - Len(b)) = Len(b)
  BY <1>1
<1>3. b = SubSeq(c, 1, Len(b))
  BY <1>2 DEF Ancestor
<1>4. SubSeq(b, 1, Len(b)) = b
  BY <1>1 DEF Hash
<1> QED
  BY <1>3, <1>4 DEF L!IsPrefix

\* Initially there is nothing in it.
LEMMA InitialIsLedgers ==
    ASSUME honest = [v \in HonestNodes |-> NewReplica]
    PROVE  L!Init
<1>1. Finalized = [v \in HonestNodes |-> << >>]
  BY DEF Finalized, NewReplica, NewTree, GenesisHash
<1>2. LongestFinalized = << >>
  <2>1. { Finalized[v] : v \in HonestNodes } \cup { GenesisHash } = { << >> }
    BY <1>1 DEF GenesisHash
  <2>2. \A v \in HonestNodes : Len(Finalized[v]) <= Len(<< >>)
    BY <1>1
  <2> QED
    BY <2>1, <2>2 DEF LongestFinalized
<1> QED
  BY <1>1, <1>2 DEF L!Init

\* Where nobody's chain has changed, the ledger has not.
LEMMA SameChains ==
    ASSUME Finalized' = Finalized
    PROVE  UNCHANGED L!vars
BY DEF LongestFinalized, L!vars

\* A node finalizes more: its chain is then part of the ledger, or extends it.
LEMMA LedgerStep ==
    ASSUME NodesInv(honest, dishonest, sent), NodesInv(honest', dishonest', sent'),
           NotarizedDeepens(honest'), 3 * DishonestCount < N,
           NEW v \in HonestNodes, \A x \in HonestNodes : x # v => honest'[x] = honest[x],
           \A b : SomeFinalized(honest, b) => SomeFinalized(honest', b),
           Len(Finalized[v]) <= Len(Finalized'[v])
    PROVE  L!Next
<1> DEFINE F == Finalized
           G == Finalized'
           f == F[v]
           g == G[v]
           old == LongestFinalized
           new == LongestFinalized'
<1>1. /\ F = [x \in HonestNodes |-> F[x]] /\ G = [x \in HonestNodes |-> G[x]]
      /\ \A x \in HonestNodes : x # v => G[x] = F[x]
  BY DEF Finalized
<1>2. /\ \A x \in HonestNodes : SomeFinalized(honest', F[x]) /\ F[x] \in Hash
      /\ \A x \in HonestNodes : SomeFinalized(honest', G[x]) /\ G[x] \in Hash
      /\ SomeFinalized(honest', GenesisHash) /\ GenesisHash \in Hash
  <2>1. /\ \A x \in HonestNodes : SomeFinalized(honest, F[x]) /\ F[x] \in Hash
        /\ \A x \in HonestNodes : SomeFinalized(honest', G[x]) /\ G[x] \in Hash
        /\ SomeFinalized(honest', GenesisHash)
    BY ChainsFinalized DEF Finalized
  <2>2. GenesisHash \in Hash
    BY EmptySeq DEF GenesisHash, Hash
  <2> QED
    BY <2>1, <2>2
<1>3. /\ old \in { F[x] : x \in HonestNodes } \cup { GenesisHash }
      /\ \A x \in HonestNodes : Len(F[x]) <= Len(old)
  BY LongestIsLongest
<1>4. /\ new \in { G[x] : x \in HonestNodes } \cup { GenesisHash }
      /\ \A x \in HonestNodes : Len(G[x]) <= Len(new)
  <2>1. /\ \A x \in HonestNodes : G[x] \in Hash
        /\ new = CHOOSE c \in { G[x] : x \in HonestNodes } \cup { GenesisHash } :
                    \A x \in HonestNodes : Len(G[x]) <= Len(c)
    BY <1>2 DEF LongestFinalized
  <2>2. \E c \in { G[x] : x \in HonestNodes } \cup { GenesisHash } :
           \A x \in HonestNodes : Len(G[x]) <= Len(c)
    BY <2>1, LongestExists
  <2> HIDE DEF G, new
  <2> QED
    BY <2>1, <2>2
<1> HIDE DEF F, G, old, new
<1>5. /\ SomeFinalized(honest', old) /\ old \in Hash /\ Len(old) \in Nat
      /\ SomeFinalized(honest', new) /\ new \in Hash /\ Len(new) \in Nat
      /\ Len(GenesisHash) = 0
      /\ \A x \in HonestNodes : Len(F[x]) \in Nat /\ Len(G[x]) \in Nat
  <2>1. SomeFinalized(honest', old) /\ old \in Hash
    BY <1>2, <1>3
  <2>2. SomeFinalized(honest', new) /\ new \in Hash
    BY <1>2, <1>4
  <2>3. \A c \in Hash : Len(c) \in Nat
    BY DEF Hash
  <2>4. Len(GenesisHash) = 0
    BY DEF GenesisHash
  <2> QED
    BY <1>2, <2>1, <2>2, <2>3, <2>4
<1>6. ASSUME NEW b \in Hash, NEW c \in Hash, SomeFinalized(honest', b),
             SomeFinalized(honest', c), Len(b) <= Len(c)
      PROVE  L!IsPrefix(b, c) /\ (Len(b) = Len(c) => b = c)
  <2>1. b = Ancestor(c, Len(c) - Len(b))
    BY <1>6, FinalizedComparable
  <2>2. Len(b) = Len(c) => b = c
    <3>1. Len(c) \in Nat /\ Len(c) - Len(c) = 0
      BY DEF Hash
    <3>2. 0 \in 0 .. Len(c) /\ 0 \in 0 .. Len(c) - 0
      BY <3>1
    <3> QED
      BY <2>1, <3>1, <3>2, AncestorSteps
  <2> QED
    BY <1>6, <2>1, <2>2, AncestorIsPrefix
<1>7. Len(f) <= Len(g)
  BY DEF F, G
<1>8. L!IsPrefix(f, g) /\ g \in Seq(Nat \X Payload)
  BY <1>2, <1>6, <1>7 DEF Hash
<1>9. G = [F EXCEPT ![v] = g]
  BY <1>1
<1>10. CASE Len(g) <= Len(old)
  <2>1. Len(new) <= Len(old)
    BY <1>1, <1>3, <1>4, <1>5, <1>10
  <2>2. Len(old) <= Len(new)
    <3>1. \A x \in HonestNodes : Len(F[x]) <= Len(G[x])
      BY <1>1, <1>5, <1>7
    <3> QED
      BY <1>3, <1>4, <1>5, <3>1
  <2>3. new = old
    BY <1>5, <1>6, <2>1, <2>2
  <2>4. L!IsPrefix(g, old)
    BY <1>2, <1>5, <1>6, <1>10
  <2> QED
    BY <1>8, <1>9, <2>3, <2>4 DEF L!Next, L!Follow, F, G, old, new
<1>11. CASE Len(old) <= Len(g)
  <2>1. Len(new) <= Len(g)
    <3>1. \A x \in HonestNodes : Len(G[x]) <= Len(g)
      BY <1>1, <1>3, <1>5, <1>11
    <3> QED
      BY <1>4, <1>5, <3>1
  <2>2. new = g
    BY <1>2, <1>4, <1>5, <1>6, <2>1
  <2>3. L!IsPrefix(old, g)
    BY <1>2, <1>5, <1>6, <1>11
  <2> QED
    BY <1>8, <1>9, <2>2, <2>3 DEF L!Next, L!Extend, F, G, old, new
<1> QED
  BY <1>5, <1>10, <1>11
-----------------------------------------------------------------------------
(* What a scheduler's nodes inherit from the ledger they implement: their     *)
(* finalized chains agree, and they only grow.                               *)

\* What the ledger and the nodes' chains are.
Chain == Seq(Nat \X Payload)

\* A prefix agrees with the longer sequence entry by entry.
LEMMA PrefixEntries ==
    ASSUME NEW T, NEW s \in Seq(T), NEW t \in Seq(T)
    PROVE  L!IsPrefix(s, t) <=> Len(s) <= Len(t) /\ \A i \in 1 .. Len(s) : s[i] = t[i]
<1>1. Len(s) \in Nat /\ Len(t) \in Nat
  OBVIOUS
<1>2. SubSeq(s, 1, Len(s)) = [i \in 1 .. Len(s) |-> s[i]]
  OBVIOUS
<1>3. ASSUME Len(s) <= Len(t)
      PROVE  SubSeq(t, 1, Len(s)) = [i \in 1 .. Len(s) |-> t[i]]
  BY <1>1, <1>3
<1> QED
  BY <1>1, <1>2, <1>3 DEF L!IsPrefix

\* Prefixes of prefixes are prefixes.
LEMMA PrefixTransitive ==
    ASSUME NEW T, NEW s \in Seq(T), NEW t \in Seq(T), NEW u \in Seq(T),
           L!IsPrefix(s, t), L!IsPrefix(t, u)
    PROVE  L!IsPrefix(s, u)
<1>1. Len(s) \in Nat /\ Len(t) \in Nat /\ Len(u) \in Nat
  OBVIOUS
<1> QED
  BY <1>1, PrefixEntries

\* Every sequence is a prefix of itself, the empty one of every sequence.
LEMMA PrefixReflexive ==
    ASSUME NEW T, NEW s \in Seq(T)
    PROVE  L!IsPrefix(s, s) /\ L!IsPrefix(<< >>, s)
<1>1. Len(s) \in Nat
  OBVIOUS
<1>2. L!IsPrefix(s, s)
  BY <1>1, PrefixEntries
<1>3. << >> \in Seq(T) /\ Len(<< >>) = 0
  BY EmptySeq
<1> DEFINE e == << >>
<1>4. e \in Seq(T) /\ Len(e) = 0
  BY <1>3
<1> HIDE DEF e
<1>5. Len(e) <= Len(s) /\ \A i \in 1 .. Len(e) : e[i] = s[i]
  BY <1>1, <1>4
<1>6. L!IsPrefix(e, s)
  BY <1>4, <1>5, PrefixEntries
<1> QED
  BY <1>2, <1>6 DEF e

\* Of two prefixes of one sequence, one is a prefix of the other.
LEMMA PrefixesComparable ==
    ASSUME NEW T, NEW s \in Seq(T), NEW t \in Seq(T), NEW u \in Seq(T),
           L!IsPrefix(s, u), L!IsPrefix(t, u)
    PROVE  L!IsPrefix(s, t) \/ L!IsPrefix(t, s)
<1>1. Len(s) \in Nat /\ Len(t) \in Nat /\ Len(u) \in Nat
  OBVIOUS
<1>2. CASE Len(s) <= Len(t)
  BY <1>1, <1>2, PrefixEntries
<1>3. CASE Len(t) <= Len(s)
  BY <1>1, <1>3, PrefixEntries
<1> QED
  BY <1>1, <1>2, <1>3

\* One step of one node: its chain grows, the ledger too if at all.
LEMMA StepGrows ==
    ASSUME L!IInv, NEW v \in HonestNodes, Finalized'[v] \in Chain,
           L!Follow(v, Finalized'[v]) \/ L!Extend(v, Finalized'[v])
    PROVE  /\ L!IsPrefix(Finalized[v], Finalized'[v])
           /\ L!IsPrefix(Finalized'[v], LongestFinalized')
           /\ LongestFinalized' \in Chain /\ L!IsPrefix(LongestFinalized, LongestFinalized')
           /\ Finalized' = [Finalized EXCEPT ![v] = Finalized'[v]]
<1>1. /\ Finalized[v] \in Chain /\ LongestFinalized \in Chain
      /\ L!IsPrefix(Finalized[v], LongestFinalized)
  BY DEF Chain, L!IInv, L!TypeOK, L!PrefixesOfLedger
<1>2. CASE L!Follow(v, Finalized'[v])
  BY <1>1, <1>2, PrefixReflexive DEF Chain, L!Follow
<1>3. CASE L!Extend(v, Finalized'[v])
  <2>1. LongestFinalized' = Finalized'[v] /\ L!IsPrefix(LongestFinalized, Finalized'[v])
        /\ Finalized' = [Finalized EXCEPT ![v] = Finalized'[v]]
    BY <1>3 DEF L!Extend
  <2> QED
    BY <1>1, <2>1, PrefixTransitive, PrefixReflexive DEF Chain
<1> QED
  BY <1>2, <1>3

\* Where the nodes implement the ledger, their chains are prefixes of one at every time.
THEOREM LedgerInvariant == L!Spec => []L!IInv
<1>1. L!Init => L!IInv
  <2> SUFFICES ASSUME L!Init PROVE L!IInv
    OBVIOUS
  <2>1. << >> \in Chain
    BY DEF Chain
  <2> QED
    BY <2>1, PrefixReflexive DEF Chain, L!Init, L!IInv, L!TypeOK, L!PrefixesOfLedger
<1>2. L!IInv /\ [L!Next]_(L!vars) => L!IInv'
  <2> SUFFICES ASSUME L!IInv, [L!Next]_(L!vars) PROVE L!IInv'
    OBVIOUS
  <2>1. CASE UNCHANGED L!vars
    BY <2>1 DEF Chain, L!IInv, L!TypeOK, L!PrefixesOfLedger, L!vars
  <2>2. ASSUME NEW v \in HonestNodes, Finalized'[v] \in Chain,
               L!Follow(v, Finalized'[v]) \/ L!Extend(v, Finalized'[v])
        PROVE  L!IInv'
    <3>1. /\ L!IsPrefix(Finalized'[v], LongestFinalized') /\ LongestFinalized' \in Chain
          /\ L!IsPrefix(LongestFinalized, LongestFinalized')
          /\ Finalized' = [Finalized EXCEPT ![v] = Finalized'[v]]
      BY <2>2, StepGrows
    <3>2. L!TypeOK'
      BY <2>2, <3>1 DEF Chain, L!IInv, L!TypeOK
    <3>3. ASSUME NEW w \in HonestNodes PROVE L!IsPrefix(Finalized'[w], LongestFinalized')
      <4>1. CASE w = v
        BY <3>1, <4>1
      <4>2. CASE w # v
        <5>1. Finalized'[w] = Finalized[w] /\ Finalized[w] \in Chain /\ LongestFinalized \in Chain
              /\ L!IsPrefix(Finalized[w], LongestFinalized)
          BY <3>1, <4>2 DEF Chain, L!IInv, L!TypeOK, L!PrefixesOfLedger
        <5> QED
          BY <3>1, <5>1, PrefixTransitive DEF Chain
      <4> QED
        BY <4>1, <4>2
    <3> QED
      BY <3>2, <3>3 DEF L!IInv, L!PrefixesOfLedger
  <2> QED
    BY <2>1, <2>2 DEF Chain, L!Next
<1> QED
  BY <1>1, <1>2, PTL DEF L!Spec

\* No two nodes ever hold conflicting chains (Tree::getFinalizedChain,
\* tree.cpp:87-89).
THEOREM ChainsAgree == L!Spec => []L!Agreement
<1>1. L!IInv => L!Agreement
  BY PrefixesComparable DEF Chain, L!IInv, L!TypeOK, L!PrefixesOfLedger, L!Agreement
<1> QED
  BY <1>1, LedgerInvariant, PTL

\* No node ever takes back what it has finalized (tree.cpp:72).
THEOREM ChainsGrow == L!Spec => L!Growth
<1>1. L!IInv /\ [L!Next]_(L!vars)
         => [\A v \in HonestNodes : L!IsPrefix(Finalized[v], Finalized'[v])]_(L!vars)
  <2> SUFFICES ASSUME L!IInv, L!Next, NEW w \in HonestNodes
               PROVE  L!IsPrefix(Finalized[w], Finalized'[w])
    BY DEF L!vars
  <2>1. Finalized \in [HonestNodes -> Chain]
    BY DEF Chain, L!IInv, L!TypeOK
  <2>2. ASSUME NEW v \in HonestNodes, Finalized'[v] \in Chain,
               L!Follow(v, Finalized'[v]) \/ L!Extend(v, Finalized'[v])
        PROVE  L!IsPrefix(Finalized[w], Finalized'[w])
    <3>1. /\ L!IsPrefix(Finalized[v], Finalized'[v])
          /\ Finalized' = [Finalized EXCEPT ![v] = Finalized'[v]]
      BY <2>2, StepGrows
    <3>2. CASE w = v
      BY <3>1, <3>2
    <3>3. CASE w # v
      <4>1. Finalized'[w] = Finalized[w] /\ Finalized[w] \in Chain
        BY <2>1, <3>1, <3>3
      <4> QED
        BY <4>1, PrefixReflexive DEF Chain
    <3> QED
      BY <3>2, <3>3
  <2> QED
    BY <2>2 DEF Chain, L!Next
<1> QED
  BY <1>1, LedgerInvariant, PTL DEF L!Spec, L!Growth
-----------------------------------------------------------------------------
(* Scenarios without dishonest nodes. *)

\* What becomes of a replica that receives m.
Handled(r, m) ==
    IF m.type # "PROPOSAL" THEN HandleVote(r, m)
    ELSE IF AcceptsProposal(r, m) THEN RecordProposal(r, m.block)
    ELSE r

\* Who is who in a scenario without dishonest nodes.
LEMMA AllHonest ==
    ASSUME DishonestCount = 0
    PROVE  /\ DishonestNodes = {} /\ N \in Nat
           /\ \A v \in HonestNodes : v \in Nat /\ v <= N - 1
           /\ \A v \in Nodes : v \in Nat /\ v <= N - 1
BY CountsAssumption DEF DishonestNodes, HonestNodes, Nodes, N

\* What an honest node does with a message is the same for every receiver
\* (HonestNode::onMessageReceive).
LEMMA HonestHandles ==
    ASSUME NEW m, NEW r
    PROVE  HonestOnMessageReceive(m.to, r, m).replica = Handled(r, m)
BY DEF HonestOnMessageReceive, HonestHandlePropose, Handled

\* What is sent by one broadcast.
Sendings(v, type, b) ==
    { [from |-> v, to |-> u, type |-> type, block |-> b] : u \in Nodes }

LEMMA MessagesOfBroadcast ==
    ASSUME NEW v, NEW type, NEW b
    PROVE  Messages(<< Envelope(v, Nodes, type, b) >>) = Sendings(v, type, b)
<1> DEFINE e == Envelope(v, Nodes, type, b)
           out == << e >>
<1>1. e = [from |-> v, to |-> Nodes, type |-> type, block |-> b]
  BY DEF Envelope
<1>2. DOMAIN out = {1} /\ out[1] = e
  OBVIOUS
<1>3. \A u : [e EXCEPT !.to = u] = [from |-> v, to |-> u, type |-> type, block |-> b]
  BY <1>1
<1>4. e.to = Nodes
  BY <1>1
<1> HIDE DEF e, out
<1>5. Messages(out) = UNION { { [out[i] EXCEPT !.to = u] : u \in out[i].to } : i \in {1} }
  BY <1>2 DEF Messages
<1>6. Messages(out) = { [out[1] EXCEPT !.to = u] : u \in out[1].to }
  BY <1>5
<1>7. Messages(out) = { [e EXCEPT !.to = u] : u \in Nodes }
  BY <1>2, <1>4, <1>6
<1>8. { [e EXCEPT !.to = u] : u \in Nodes } = Sendings(v, type, b)
  <2> DEFINE x(u) == [e EXCEPT !.to = u]
             y(u) == [from |-> v, to |-> u, type |-> type, block |-> b]
  <2>1. \A u : x(u) = y(u)
    BY <1>3
  <2> HIDE DEF x, y
  <2>2. { x(u) : u \in Nodes } = { y(u) : u \in Nodes }
    BY <2>1
  <2> QED
    BY <2>2 DEF Sendings, x, y
<1> QED
  BY <1>7, <1>8 DEF out, e

\* A delivery to an honest node changes that node, and is answered with one
\* broadcast of votes for a proposal it accepts (HonestNode::onMessageReceive).
LEMMA DeliveryAmongHonest ==
    ASSUME DishonestCount = 0, NEW m
    PROVE  /\ SendRec(m).dishonest = dishonest
           /\ SendRec(m).honest = IF m.to \in HonestNodes
                                  THEN [honest EXCEPT ![m.to] = Handled(honest[m.to], m)]
                                  ELSE honest
           /\ \/ SendRec(m).out = << >>
              \/ /\ m.to \in HonestNodes /\ m.type = "PROPOSAL"
                 /\ AcceptsProposal(honest[m.to], m)
                 /\ SendRec(m).out = << Envelope(m.to, Nodes, "VOTE", m.block) >>
<1> DEFINE h == HonestOnMessageReceive(m.to, honest[m.to], m)
<1>1. CASE m.to \in HonestNodes
  <2>1. /\ SendRec(m).honest = [honest EXCEPT ![m.to] = h.replica]
        /\ SendRec(m).dishonest = dishonest /\ SendRec(m).out = h.out
    BY <1>1, NodeSets DEF SendRec
  <2>2. h.replica = Handled(honest[m.to], m)
    BY HonestHandles
  <2>3. \/ h.out = << >>
        \/ /\ m.type = "PROPOSAL" /\ AcceptsProposal(honest[m.to], m)
           /\ h.out = << Envelope(m.to, Nodes, "VOTE", m.block) >>
    BY DEF HonestOnMessageReceive, HonestHandlePropose
  <2> HIDE DEF h
  <2> QED
    BY <1>1, <2>1, <2>2, <2>3
<1>2. CASE m.to \notin HonestNodes
  BY <1>2, AllHonest DEF SendRec
<1> QED
  BY <1>1, <1>2

\* The leader answers the announcement of its epoch's first round with one
\* broadcast (HonestNode::atTime).
LEMMA AnnouncementAmongHonest ==
    ASSUME DishonestCount = 0, NEW v, NEW payload, AtTime(v, payload) # << >>
    PROVE  /\ v \in HonestNodes /\ IsEpochStart(time) /\ GetLeader(GetEpoch(time)) = v
           /\ AtTime(v, payload) =
                 << Envelope(v, Nodes, "PROPOSAL",
                        BlockHash(honest[v].tree.deepestNotarized, GetEpoch(time), payload[0])) >>
<1>1. v \in HonestNodes
  BY AllHonest DEF AtTime
<1>2. AtTime(v, payload) = HonestAtTime(v, honest[v], time, payload[0])
  BY <1>1, NodeSets DEF AtTime
<1>3. /\ IsEpochStart(time) /\ GetLeader(GetEpoch(time)) = v
      /\ AtTime(v, payload) =
            << Envelope(v, Nodes, "PROPOSAL",
                   BlockHash(honest[v].tree.deepestNotarized, GetEpoch(time), payload[0])) >>
  BY <1>2 DEF HonestAtTime
<1> QED
  BY <1>1, <1>3

\* Its block stands on the deepest block notarized there.
LEMMA ProposalOnDeepest ==
    ASSUME DishonestCount = 0, NodesInv(honest, dishonest, sent), time \in Nat,
           NEW v \in Nodes, NEW payload \in Draws, AtTime(v, payload) # << >>
    PROVE  /\ v \in HonestNodes /\ IsEpochStart(time) /\ GetLeader(GetEpoch(time)) = v
           /\ \E b : /\ AtTime(v, payload) = << Envelope(v, Nodes, "PROPOSAL", b) >>
                     /\ ParentHash(b) = honest[v].tree.deepestNotarized
                     /\ EpochOf(b) = GetEpoch(time)
                     /\ b \in Hash
<1> DEFINE p == honest[v].tree.deepestNotarized
           b == BlockHash(p, GetEpoch(time), payload[0])
<1>1. /\ v \in HonestNodes /\ IsEpochStart(time) /\ GetLeader(GetEpoch(time)) = v
      /\ AtTime(v, payload) = << Envelope(v, Nodes, "PROPOSAL", b) >>
  BY AnnouncementAmongHonest
<1>2. ReplicaInv(honest[v]) /\ payload[0] \in Payload
  BY <1>1, DrawsAssumption DEF NodesInv
<1>3. p \in Hash /\ GetEpoch(time) \in Nat
  BY <1>2, GetEpochNat DEF ReplicaInv, TreeInv, IsTree
<1> HIDE DEF p
<1>4. b \in Hash /\ EpochOf(b) = GetEpoch(time) /\ ParentHash(b) = p
  BY <1>2, <1>3, BlockHashAncestors
<1> HIDE DEF b
<1>5. \E x : /\ AtTime(v, payload) = << Envelope(v, Nodes, "PROPOSAL", x) >>
            /\ ParentHash(x) = p /\ EpochOf(x) = GetEpoch(time) /\ x \in Hash
  BY <1>1, <1>4
<1> QED
  BY <1>1, <1>5 DEF p
=============================================================================
