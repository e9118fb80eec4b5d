------------------------------- MODULE VRegistry -------------------------------
(***************************************************************************)
(* Which verbose records are written: el::base::VRegistry, its level for    *)
(* all files and its levels for modules; and CommandLineArgs, from which it *)
(* and the storage are set.                                                *)
(*                                                                         *)
(* A file is a stem and an extension.  A pattern is compared with both; its *)
(* stem is a sequence of the pieces it is read from, or << "*" >>, which    *)
(* any file matches.  Modules are named without an extension.              *)
(***************************************************************************)
EXTENDS Integers, SequencesExt

kMaxVerboseLevel == 9

NewVRegistry == [level |-> 0, modules |-> << >>]

ClearModules(v) == [v EXCEPT !.modules = << >>]

VModulesEnabled(F) == "DisableVModules" \notin F

\* setLevel.
AtMostMax(level) == IF level > kMaxVerboseLevel THEN kMaxVerboseLevel ELSE level

Extensions == {".h", ".c", ".cpp", ".cc", ".cxx", ".-inl.h", ".hxx", ".hpp", ".hh"}
AnyStem    == <<"*">>

\* insert: a pattern that is there already keeps its level.
InsertModule(modules, F, name, level) ==
    LET extensions == IF "DisableVModulesExtensions" \in F THEN {""} ELSE Extensions
    IN  modules @@ [p \in [stem : {name}, ext : extensions] |-> level]

\* setModules; spec is "name=level,name=level...", level -1 where there is none.
\* A name without a level is run together with the name behind it.
ReadModule(s, F, entry) ==
    LET name  == s.name \o entry.name
        level == IF entry.level = -1 THEN s.level ELSE entry.level
    IN  IF name = << >> \/ level = -1 THEN [s EXCEPT !.name = name, !.level = level]
        ELSE [name |-> << >>, level |-> -1,
              modules |-> InsertModule(s.modules, F, name, level)]

SetModules(v, F, spec) ==
    [v EXCEPT !.modules = FoldLeft(LAMBDA s, entry : ReadModule(s, F, entry),
                                   [name |-> << >>, level |-> -1, modules |-> @],
                                   spec).modules]

\* wildCardMatch, of the base name of the file.
Matches(f, p) ==
    \/ p.stem = AnyStem /\ p.ext \in {"", f.ext}
    \/ p.stem = <<f.stem>> /\ p.ext = f.ext

\* allowed: the answers it may give; the first pattern that matches decides, and
\* the map of the modules is unordered.
Allowed(v, F, vlevel, f) ==
    LET matching == {p \in DOMAIN v.modules : Matches(f, p)}
    IN  IF DOMAIN v.modules = {} THEN {vlevel <= v.level}
        ELSE IF matching = {} THEN {"AllowVerboseIfModuleNotSpecified" \in F}
        ELSE {vlevel <= v.modules[p] : p \in matching}

-----------------------------------------------------------------------------
(* CommandLineArgs: an argument has a key, and a value behind the first '='  *)
(* or none.                                                                 *)

HasParam(argv, key) == \E i \in DOMAIN argv : argv[i] = [key |-> key]

HasParamWithValue(argv, key) == \E i \in DOMAIN argv : argv[i].key = key /\ "value" \in DOMAIN argv[i]

\* The first of them is kept.
GetParamValue(argv, key) ==
    SelectSeq(argv, LAMBDA a : a.key = key /\ "value" \in DOMAIN a)[1].value

\* setFromArgs; one spelling stands for the upper and lower case ones.
SetFromArgs(v, F, argv) ==
    IF HasParam(argv, "-v") THEN [v EXCEPT !.level = kMaxVerboseLevel]
    ELSE IF HasParamWithValue(argv, "--v")
    THEN [v EXCEPT !.level = AtMostMax(GetParamValue(argv, "--v"))]
    ELSE IF HasParamWithValue(argv, "-vmodule") /\ VModulesEnabled(F)
    THEN SetModules(v, F, GetParamValue(argv, "-vmodule"))
    ELSE v

=============================================================================
