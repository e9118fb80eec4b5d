------------------------------ MODULE MCScenario ------------------------------
(* Scenario files in which at most one entry is bad, and the README's. *)
EXTENDS Scenario

\* Numbers around zero, the least number of nodes of a partition, and the
\* largest unsigned.
Numbers(S) == { Number(k) : k \in S }

GoodEntries(key) ==
    CASE key = "rounds"          -> Numbers({0, 3})
      [] key = "honest-nodes"    -> Numbers({0, 1, 3})
      [] key = "dummy-nodes"     -> Numbers({0, 1})
      [] key = "dishonest-nodes" -> Numbers({0, 1, 7})
      [] key \in OptionalKeys    -> {Absent} \cup Numbers({0, 1})
      [] key = "scheduler-type"  -> {Text("simple"), Text("partitioning")}
      [] key = "service-type"    -> {Text("repeating")}
      [] OTHER                   -> {Text("name")}

GoodFiles ==
    { [key \in Keys |->
          CASE key = "rounds" -> r [] key = "honest-nodes" -> h
            [] key = "dummy-nodes" -> d [] key = "dishonest-nodes" -> x
            [] key = "repeat-n-times" -> n [] key = "synchronize-every-n" -> s
            [] key = "epoch-len" -> e [] key = "scheduler-type" -> t
            [] key = "service-type" -> Text("repeating")
            [] OTHER -> Text("name")] :
        r \in GoodEntries("rounds"), h \in GoodEntries("honest-nodes"),
        d \in GoodEntries("dummy-nodes"), x \in GoodEntries("dishonest-nodes"),
        n \in GoodEntries("repeat-n-times"), s \in GoodEntries("synchronize-every-n"),
        e \in GoodEntries("epoch-len"), t \in GoodEntries("scheduler-type") }

\* Bad entries are tried in the files that leave out what is optional.
PlainFiles == { f \in GoodFiles : \A key \in OptionalKeys : f[key] = Absent }

BadFiles ==
    { [f EXCEPT ![key] = bad] :
        f \in PlainFiles, key \in Keys, bad \in {Absent, Null, Text("other")} }

MCFiles == GoodFiles \cup BadFiles \cup {ReadmeExample}
=============================================================================
