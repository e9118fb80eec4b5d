--------------------------- MODULE LogConfigurations ---------------------------
(***************************************************************************)
(* el::Configurations of easylogging++, the logging library the program is  *)
(* built with: values registered for pairs of a level and a type, and the   *)
(* parser that reads them from text.                                        *)
(*                                                                         *)
(* A value is the text the code keeps: "true", a numeral, the name of a     *)
(* file; only a format is the set of the specifiers in it, of which the     *)
(* ones that tell one record from another are kept (%level, %vlevel,        *)
(* %logger, %msg).  A line of a file is a record of what parseLine finds in *)
(* it once blanks, quotes, comments behind it and upper case are dealt with.*)
(***************************************************************************)
EXTENDS Integers, SequencesExt

Global == "Global"

\* Level::Unknown and ConfigurationType::Unknown.
Unknown == "Unknown"

\* The levels forEachLevel walks, by their number in the enumeration.
Levels == <<"Trace", "Debug", "Fatal", "Error", "Warning", "Verbose", "Info">>

Types == {"Enabled", "ToFile", "ToStandardOutput", "Format", "Filename",
          "SubsecondPrecision", "PerformanceTracking", "MaxLogFileSize",
          "LogFlushThreshold"}

LevelFromString(name) == IF name \in {Global} \cup ToSet(Levels) THEN name ELSE Unknown
TypeFromString(name)  == IF name \in Types THEN name ELSE Unknown

\* For each type the levels and their values, in the order in which they were
\* registered; nothing depends on the order between two types.
NoConfigurations == [t \in Types |-> << >>]

-----------------------------------------------------------------------------
(* Setting.  vs is the list of one type. *)

HasConfiguration(vs, l) == \E i \in DOMAIN vs : vs[i][1] = l

ValueFor(vs, l) == vs[CHOOSE i \in DOMAIN vs : vs[i][1] = l][2]

\* What get, registerNew and setValue make of a value for some levels.
Register(vs, ls, v) ==
    LET new == SelectSeq(ls, LAMBDA l : ~HasConfiguration(vs, l))
    IN  [i \in DOMAIN vs |-> IF vs[i][1] \in ToSet(ls) THEN <<vs[i][1], v>> ELSE vs[i]]
        \o [i \in DOMAIN new |-> <<new[i], v>>]

\* unsafeSetGlobally.
UnsafeSetGlobally(vs, v) == Register(vs, Levels, v)

\* unsafeSet; set does the levels of Global a second time, to the same end.
UnsafeSet(vs, l, v) ==
    IF l = Global THEN UnsafeSetGlobally(Register(vs, <<Global>>, v), v) ELSE Register(vs, <<l>>, v)

Set(c, l, t, v) == [c EXCEPT ![t] = UnsafeSet(@, l, v)]

\* setGlobally of two arguments leaves Global itself out.
SetGlobally(c, t, v) == [c EXCEPT ![t] = UnsafeSetGlobally(@, v)]

SetIfNotExist(vs, l, v) == IF HasConfiguration(vs, l) THEN vs ELSE UnsafeSet(vs, l, v)

\* A Global among the values of the base sets all levels again.
SetFromBase(c, base) ==
    [t \in Types |-> FoldLeft(LAMBDA vs, k : UnsafeSet(vs, k[1], k[2]), c[t], base[t])]

-----------------------------------------------------------------------------
(* The defaults. *)

DefaultLogFile == "myeasylog.log"
DefaultFormat  == {"level", "logger", "msg"}

DefaultValues == [
    Enabled |-> "true", ToFile |-> "true", ToStandardOutput |-> "true",
    Format |-> DefaultFormat, Filename |-> DefaultLogFile, SubsecondPrecision |-> "3",
    PerformanceTracking |-> "true", MaxLogFileSize |-> "0", LogFlushThreshold |-> "0"]

LevelFormats == <<
    <<"Debug", DefaultFormat>>, <<"Error", DefaultFormat>>, <<"Fatal", DefaultFormat>>,
    <<"Verbose", DefaultFormat \cup {"vlevel"}>>, <<"Trace", DefaultFormat>> >>

SetToDefault(c) ==
    LET global == [t \in Types |-> UnsafeSet(c[t], Global, DefaultValues[t])]
    IN  [global EXCEPT !.Format = FoldLeft(LAMBDA vs, f : UnsafeSet(vs, f[1], f[2]), @, LevelFormats)]

\* ToFile and LogFlushThreshold have no default here.
SetRemainingToDefault(c) ==
    LET global == [t \in Types |-> IF t \in {"ToFile", "LogFlushThreshold"} THEN c[t]
                                   ELSE SetIfNotExist(c[t], Global, DefaultValues[t])]
    IN  [global EXCEPT !.Format = FoldLeft(LAMBDA vs, f : SetIfNotExist(vs, f[1], f[2]), @, LevelFormats)]

-----------------------------------------------------------------------------
(* Configurations::Parser. *)

NoFile      == << [kind |-> "no such file"] >>
Comment     == [kind |-> "comment"]
Blank       == [kind |-> "blank"]
OfLevel(l)  == [kind |-> "level", level |-> l]
Value(t, v) == [kind |-> "config", type |-> t, value |-> v]
OfLogger(i) == [kind |-> "logger", id |-> i]

\* s: the configurations and the level the last level line named.  What is neither
\* a level nor an assignment sets nothing, as an assignment to an unknown type does.
\* No caller looks at the result.
ParseLine(s, line) ==
    CASE line.kind = "level" -> [s EXCEPT !.level = LevelFromString(line.level)]
      [] line.kind = "config" ->
           IF s.level = Unknown \/ TypeFromString(line.type) = Unknown THEN s
           ELSE [s EXCEPT !.conf = Set(s.conf, s.level, line.type, line.value)]
      [] OTHER -> s

ParseFromText(c, lines) == FoldLeft(ParseLine, [conf |-> c, level |-> Unknown], lines).conf

ParseFromFile(c, lines, base) == ParseFromText(SetFromBase(c, base), lines)

\* The constructor of a file; base is NoConfigurations for a null pointer.  A
\* file that is not there leaves the base out, and the defaults in.
FromFile(lines, useDefaultsForRemaining, base) ==
    LET parsed == IF lines = NoFile THEN NoConfigurations
                  ELSE ParseFromFile(NoConfigurations, lines, base)
    IN  IF useDefaultsForRemaining THEN SetRemainingToDefault(parsed) ELSE parsed

=============================================================================
