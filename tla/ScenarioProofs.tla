---------------------------- MODULE ScenarioProofs ----------------------------
(***************************************************************************)
(* What holds of every run of the program, whatever the scenario file says  *)
(* and however wide an unsigned is: a node that takes part stands where its *)
(* id says (runner.cpp:78-90), and only a zero of the file, or counts that  *)
(* wrap around, can make a tick divide by zero.                             *)
(***************************************************************************)
EXTENDS Scenario, FiniteSets, FiniteSetTheorems, TLAPS

-----------------------------------------------------------------------------
(* The arithmetic of unsigned. *)

\* There are 2^n sets of n bits, so 2^n is a number, and it is positive.
LEMMA PowerPositive ==
    ASSUME NEW n \in Nat
    PROVE  2^n \in Nat \ {0}
<1> DEFINE Bits == 1 .. n
<1>1. IsFiniteSet(Bits) /\ Cardinality(Bits) = n
  BY FS_Interval
<1>2. IsFiniteSet(SUBSET Bits) /\ Cardinality(SUBSET Bits) = 2^n
  BY <1>1, FS_SUBSET
<1>3. Cardinality(SUBSET Bits) \in Nat
  BY <1>2, FS_CardinalityType
<1>4. Cardinality(SUBSET Bits) # 0
  <2>1. SUBSET Bits # {}
    OBVIOUS
  <2> QED
    BY <2>1, <1>2, FS_EmptySet
<1> HIDE DEF Bits
<1> QED
  BY <1>2, <1>3, <1>4

\* A number that fits is left as it is, one that does not becomes another number.
LEMMA UnsignedFits ==
    ASSUME NEW k \in Nat
    PROVE  /\ Unsigned(k) \in Nat
           /\ k < 2^Width => Unsigned(k) = k
<1> DEFINE P == 2^Width
<1>1. P \in Nat \ {0}
  BY PowerPositive, WidthAssumption
<1> HIDE DEF P
<1>2. k % P \in Nat /\ (k < P => k % P = k)
  BY <1>1
<1> QED
  BY <1>2 DEF Unsigned, P

-----------------------------------------------------------------------------
(* What play has built when it creates the scheduler. *)

Counts == HonestCount \in Nat /\ DummyCount \in Nat /\ DishonestCount \in Nat

\* The counts of a file are numbers, whether or not they are given.
LEMMA CountsAreNumbers ==
    ASSUME file \in Files
    PROVE  Counts
<1>1. \A key \in CountKeys : file[key] \in [kind : STRING, value : 0 .. 2^Width - 1]
  BY FilesAssumption DEF Keys
<1>2. 2^Width \in Nat
  BY PowerPositive, WidthAssumption
<1>3. \A key \in CountKeys : file[key].value \in Nat
  BY <1>1, <1>2
<1>4. \A key \in CountKeys : Get(key) \in Nat
  BY <1>3 DEF Get, DefaultOf
<1> QED
  BY <1>4 DEF Counts, HonestCount, DummyCount, DishonestCount, CountKeys

Kinds == {"honest", "dummy", "dishonest"}

Made == [kind : Kinds, id : Nat]

\* A loop of play makes a node for each number it runs through.
LEMMA LoopNodes ==
    ASSUME NEW kind \in Kinds, NEW from \in Nat, NEW to \in Nat, NEW n \in Nat,
           to - from = n
    PROVE  /\ Loop(kind, from, to) \in Seq(Made)
           /\ Len(Loop(kind, from, to)) = n
           /\ \A i \in 1 .. n : Loop(kind, from, to)[i] = Node(kind, from + i - 1)
<1> DEFINE Made1(i) == Node(kind, from + i - 1)
           F == [i \in 1 .. n |-> Made1(i)]
<1>1. \A i \in 1 .. n : Made1(i) \in Made
  <2>1. \A i \in 1 .. n : from + i - 1 \in Nat
    OBVIOUS
  <2> QED
    BY <2>1 DEF Node, Made
<1>2. Loop(kind, from, to) = F
  BY Zenon DEF Loop
<1> HIDE DEF Made1
<1>3. F \in Seq(Made) /\ Len(F) = n /\ \A i \in 1 .. n : F[i] = Made1(i)
  BY <1>1
<1> HIDE DEF F
<1> QED
  BY <1>2, <1>3 DEF Made1

\* The dummies are all alike.
LEMMA DummyNodes ==
    ASSUME NEW n \in Nat
    PROVE  /\ [i \in 1 .. n |-> Dummy] \in Seq(Made)
           /\ Len([i \in 1 .. n |-> Dummy]) = n
<1>1. Dummy \in Made
  BY DEF Dummy, Made, Kinds
<1> QED
  BY <1>1

\* The three loops make one node for each position, and a node that is told its
\* id is told the position it stands at, unless the counts wrap around.
LEMMA NodesStandAtIds ==
    ASSUME Counts, NoOverflow
    PROVE  /\ AllNodes \in Seq(Made)
           /\ Len(AllNodes) = N
           /\ \A i \in DOMAIN AllNodes :
                  AllNodes[i].kind # "dummy" => AllNodes[i].id = i - 1
<1> DEFINE h == HonestCount
           d == DummyCount
           x == DishonestCount
           A == Loop("honest", 0, h)
           B == [i \in 1 .. d |-> Dummy]
           C == Loop("dishonest", h + d, h + d + x)
           AB == A \o B
           ABC == AB \o C
<1>1. h \in Nat /\ d \in Nat /\ x \in Nat
  BY DEF Counts
<1>2. h + d + x < 2^Width
  BY DEF NoOverflow
<1>3. 2^Width \in Nat
  BY PowerPositive, WidthAssumption
<1>4. Unsigned(h + d) = h + d /\ N = h + d + x
  <2> HIDE DEF h, d, x
  <2>1. h + d < 2^Width
    BY <1>1, <1>2, <1>3
  <2>2. Unsigned(h + d) = h + d
    BY <2>1, <1>1, UnsignedFits
  <2>3. Unsigned(h + d + x) = h + d + x
    BY <1>1, <1>2, UnsignedFits
  <2> QED
    BY <2>2, <2>3 DEF N, h, d, x
<1>5. AllNodes = ABC
  BY <1>4 DEF AllNodes
<1> HIDE DEF h, d, x
<1>6. /\ A \in Seq(Made) /\ Len(A) = h
      /\ \A i \in 1 .. h : A[i] = Node("honest", i - 1)
  <2>1. h - 0 = h /\ \A i \in 1 .. h : 0 + i - 1 = i - 1
    BY <1>1
  <2>2. /\ Loop("honest", 0, h) \in Seq(Made) /\ Len(Loop("honest", 0, h)) = h
        /\ \A i \in 1 .. h : Loop("honest", 0, h)[i] = Node("honest", 0 + i - 1)
    BY <1>1, <2>1, LoopNodes DEF Kinds
  <2> QED
    BY <2>1, <2>2
<1>7. /\ B \in Seq(Made) /\ Len(B) = d
      /\ \A i \in 1 .. d : B[i] = Dummy
  BY <1>1, DummyNodes
<1>8. /\ C \in Seq(Made) /\ Len(C) = x
      /\ \A i \in 1 .. x : C[i] = Node("dishonest", h + d + i - 1)
  <2> DEFINE from == h + d
             to == h + d + x
  <2>1. from \in Nat /\ to \in Nat /\ to - from = x
    BY <1>1
  <2> HIDE DEF from, to
  <2>2. /\ Loop("dishonest", from, to) \in Seq(Made)
        /\ Len(Loop("dishonest", from, to)) = x
        /\ \A i \in 1 .. x :
               Loop("dishonest", from, to)[i] = Node("dishonest", from + i - 1)
    BY <1>1, <2>1, LoopNodes DEF Kinds
  <2> QED
    BY <2>2 DEF from, to
<1> HIDE DEF A, B, C
<1>9. /\ AB \in Seq(Made) /\ Len(AB) = h + d
      /\ \A i \in 1 .. h + d : AB[i] = IF i <= h THEN A[i] ELSE B[i - h]
  <2>1. A \in Seq(Made) /\ B \in Seq(Made) /\ h \in Nat /\ d \in Nat /\ Len(A) = h /\ Len(B) = d
    BY <1>1, <1>6, <1>7
  <2>2. /\ A \o B \in Seq(Made)
        /\ Len(A \o B) = h + d
        /\ \A i \in 1 .. h + d : (A \o B)[i] = IF i <= h THEN A[i] ELSE B[i - h]
    BY <2>1
  <2> HIDE DEF AB
  <2>3. AB = A \o B
    BY DEF AB
  <2> QED
    BY <2>2, <2>3
<1> HIDE DEF AB
<1>10. /\ ABC \in Seq(Made) /\ Len(ABC) = h + d + x
       /\ \A i \in 1 .. h + d + x :
              ABC[i] = IF i <= h + d THEN AB[i] ELSE C[i - (h + d)]
  <2> DEFINE m == h + d
  <2>1. /\ m \in Nat /\ AB \in Seq(Made) /\ Len(AB) = m
        /\ x \in Nat /\ C \in Seq(Made) /\ Len(C) = x
    BY <1>1, <1>8, <1>9
  <2> HIDE DEF m
  <2>2. /\ AB \o C \in Seq(Made)
        /\ Len(AB \o C) = m + x
        /\ \A i \in 1 .. m + x : (AB \o C)[i] = IF i <= m THEN AB[i] ELSE C[i - m]
    BY <2>1
  <2> HIDE DEF ABC
  <2>3. ABC = AB \o C
    BY DEF ABC
  <2> QED
    BY <2>2, <2>3 DEF m
<1> HIDE DEF ABC
<1>11. ASSUME NEW i \in 1 .. h + d + x, ABC[i].kind # "dummy"
       PROVE  ABC[i].id = i - 1
  <2>1. CASE i <= h
    <3>1. i \in 1 .. h /\ i \in 1 .. h + d /\ i <= h + d
      BY <2>1, <1>1
    <3>2. ABC[i] = Node("honest", i - 1)
      BY <3>1, <1>6, <1>9, <1>10
    <3> QED
      BY <3>2 DEF Node
  <2>2. CASE h < i /\ i <= h + d
    <3>1. i \in 1 .. h + d /\ ~(i <= h) /\ i - h \in 1 .. d
      BY <2>2, <1>1
    <3>2. ABC[i] = Dummy
      BY <3>1, <2>2, <1>7, <1>9, <1>10
    <3> QED
      BY <3>2, <1>11 DEF Dummy
  <2>3. CASE h + d < i
    <3>1. ~(i <= h + d) /\ i - (h + d) \in 1 .. x /\ h + d + (i - (h + d)) - 1 = i - 1
      BY <2>3, <1>1
    <3>2. ABC[i] = Node("dishonest", i - 1)
      BY <3>1, <1>8, <1>10
    <3> QED
      BY <3>2 DEF Node
  <2>4. i <= h \/ (h < i /\ i <= h + d) \/ h + d < i
    BY <1>1
  <2> QED
    BY <2>1, <2>2, <2>3, <2>4
<1>12. DOMAIN ABC = 1 .. h + d + x
  BY <1>10
<1> QED
  BY <1>4, <1>5, <1>10, <1>11, <1>12

-----------------------------------------------------------------------------
(* The invariant. *)

\* A run that has come past the constructor has a file that loads, and from the
\* loops on the nodes are the ones the file asks for.
PlayInv ==
    /\ file \in Files
    /\ pc \in {"load", "threw", "createNodes", "createScheduler", "start", "finished",
               "killed"}
    /\ pc \notin {"load", "threw"} => Loads(file)
    /\ pc \in {"createScheduler", "start", "finished"} => nodes = AllNodes
    /\ KilledOnlyByZero

\* The entry of an optional length that the getters read as zero is a zero.
LEMMA ReadAsZero ==
    ASSUME file \in Files, Loads(file), NEW key \in OptionalKeys, Get(key) = 0
    PROVE  SaysZero
<1>1. file[key] \in [kind : STRING, value : 0 .. 2^Width - 1]
  BY FilesAssumption DEF Keys
<1>2. DefaultOf(key) # 0
  BY DEF DefaultOf
<1>3. file[key] # Absent /\ file[key].value = 0
  BY <1>2 DEF Get
<1>4. file[key].kind \in {"absent", "number"}
  BY DEF Loads
<1>5. file[key] = [kind |-> file[key].kind, value |-> file[key].value]
  BY <1>1
<1>6. file[key] = Number(0)
  BY <1>3, <1>4, <1>5 DEF Absent, Number
<1> QED
  BY <1>6 DEF SaysZero

\* Nobody takes part in a run that has no nodes, unless the counts wrap around.
LEMMA NoneTakesPart ==
    ASSUME Counts, NoOverflow, nodes = AllNodes, N = 0
    PROVE  Participants = {}
<1>1. AllNodes \in Seq(Made) /\ Len(AllNodes) = 0
  BY NodesStandAtIds
<1>2. DOMAIN AllNodes = {}
  <2> HIDE DEF AllNodes
  <2> QED
    BY <1>1
<1> QED
  BY <1>2 DEF Participants

\* A division by zero goes back to the file.
LEMMA DivisionIsBlamed ==
    ASSUME PlayInv, pc = "start", DividesByZero
    PROVE  SaysZero \/ ~NoOverflow
<1>1. file \in Files /\ Loads(file) /\ nodes = AllNodes
  BY DEF PlayInv
<1>2. Counts
  BY <1>1, CountsAreNumbers
<1>3. \A key \in OptionalKeys : Get(key) = 0 => SaysZero
  BY <1>1, ReadAsZero
<1>4. Participants # {} /\ N = 0 => ~NoOverflow
  BY <1>1, <1>2, NoneTakesPart
<1> QED
  BY <1>3, <1>4 DEF DividesByZero, OptionalKeys

\* The invariant holds of the first state and of every step.
LEMMA PlayInvariant == Spec => []PlayInv
<1>1. Init => PlayInv
  BY DEF Init, PlayInv, KilledOnlyByZero
<1>2. PlayInv /\ [Next]_vars => PlayInv'
  <2> SUFFICES ASSUME PlayInv, [Next]_vars
               PROVE  PlayInv'
    OBVIOUS
  <2>1. CASE Load
    BY <2>1 DEF Load, PlayInv, KilledOnlyByZero, Loads
  <2>2. CASE CreateNodes
    BY <2>2 DEF CreateNodes, PlayInv, KilledOnlyByZero, Loads, AllNodes, HonestCount,
       DummyCount, DishonestCount, N, Get
  <2>3. CASE CreateScheduler
    BY <2>3 DEF CreateScheduler, PlayInv, KilledOnlyByZero, Loads, AllNodes, HonestCount,
       DummyCount, DishonestCount, N, Get
  <2>4. CASE ClockTick
    BY <2>4, DivisionIsBlamed DEF ClockTick, PlayInv, KilledOnlyByZero, Loads, AllNodes,
       HonestCount, DummyCount, DishonestCount, N, Get, SaysZero, NoOverflow
  <2>5. CASE Finish
    BY <2>5 DEF Finish, PlayInv, KilledOnlyByZero, Loads, AllNodes, HonestCount,
       DummyCount, DishonestCount, N, Get
  <2>6. CASE UNCHANGED vars
    BY <2>6 DEF vars, PlayInv, KilledOnlyByZero, Loads, AllNodes, HonestCount,
       DummyCount, DishonestCount, N, Get, SaysZero, NoOverflow
  <2>7. Terminating => UNCHANGED vars
    BY DEF Terminating
  <2> QED
    BY <2>1, <2>2, <2>3, <2>4, <2>5, <2>6, <2>7 DEF Next
<1> QED
  BY <1>1, <1>2, PTL DEF Spec

-----------------------------------------------------------------------------

\* IdsArePositions: the three loops of runner.cpp:78-90 give every node that takes
\* part the position it is put at, whatever the counts, as long as they fit.
THEOREM IdsStandAtPositions == Spec => []IdsArePositions
<1>1. PlayInv => IdsArePositions
  <2> SUFFICES ASSUME PlayInv,
                      pc \in {"createScheduler", "start", "finished"}, NoOverflow
               PROVE  /\ Len(nodes) = N
                      /\ \A i \in DOMAIN nodes :
                             nodes[i].kind # "dummy" => nodes[i].id = i - 1
    BY DEF IdsArePositions
  <2>1. file \in Files /\ nodes = AllNodes
    BY DEF PlayInv
  <2>2. Counts
    BY <2>1, CountsAreNumbers
  <2> QED
    BY <2>1, <2>2, NodesStandAtIds
<1> QED
  BY <1>1, PlayInvariant, PTL

\* KilledOnlyByZero: no run is killed by a division unless the file says 0 for a
\* length or counts that wrap around; the defaults of config.cpp divide nothing by
\* zero.
THEOREM OnlyZeroKills == Spec => []KilledOnlyByZero
<1>1. PlayInv => KilledOnlyByZero
  BY DEF PlayInv
<1> QED
  BY <1>1, PlayInvariant, PTL

=============================================================================
