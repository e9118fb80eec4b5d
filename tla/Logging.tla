-------------------------------- MODULE Logging --------------------------------
(***************************************************************************)
(* The logging of the program: the storage of easylogging++ as a state      *)
(* machine, one action for each call a program makes, main's among them.    *)
(* The calls come in any order; left bounds how many of each kind are still *)
(* to come.  The uninitialised m_loggingLevel is Unset, and any level when  *)
(* it is read.                                                             *)
(***************************************************************************)
EXTENDS Loggers, VRegistry

CONSTANTS
    Budgets,            \* how many calls of each kind may be made
    Argvs,              \* the command lines
    Confs,              \* the el::Configurations callers configure loggers with
    GlobalFiles,        \* the files of configureFromGlobal
    SingleSettings,     \* the <<type, value>> of reconfigureLogger, reconfigureAllLoggers
    Ids,                \* the ids callers use
    OneCharacterIds,    \* those of one character
    IdLists,            \* the ids of a CLOG
    LevelsWritten,      \* the levels callers write at
    FlagsUsed,          \* the flags callers add and remove
    LoggingLevels,      \* the levels of setLoggingLevel
    ModuleSpecs,        \* the texts of setVModules
    Sites,              \* the LOG_EVERY_N, LOG_AFTER_N and LOG_N_TIMES of the source
    Sources,            \* the files VLOG is written in
    kMaxLogPerCounter   \* where a counter starts again

LoggingFlag == {
    "NewLineForContainer", "AllowVerboseIfModuleNotSpecified", "LogDetailedCrashReason",
    "DisableApplicationAbortOnFatalLog", "ImmediateFlush", "StrictLogFileSizeCheck",
    "ColoredTerminalOutput", "MultiLoggerSupport",
    "DisablePerformanceTrackingCheckpointComparison", "DisableVModules",
    "DisableVModulesExtensions", "HierarchicalLogging", "CreateLoggerAutomatically",
    "AutoSpacing", "FixedTimeFormat", "IgnoreSigInt"}

ASSUME FlagsAssumption == FlagsUsed \subseteq LoggingFlag
ASSUME IdsAssumption == DefaultId \in Ids
ASSUME CounterAssumption == kMaxLogPerCounter \in Nat \ {0}

VARIABLES
    el,                 \* the loggers, the defaults, the disk and the standard output
    flags,              \* m_flags
    loggingLevel,       \* m_loggingLevel
    vRegistry,          \* the level and the modules
    counter,            \* m_hitCounts, for each site
    hits,               \* how often each site was reached, and how often it wrote
    argv,               \* the command line, once START_EASYLOGGINGPP has seen it
    ended,              \* "running", "returned" or "aborted"
    left                \* the calls still to come

vars == <<el, flags, loggingLevel, vRegistry, counter, hits, argv, ended, left>>

Unset == "Unset"

Kinds == {"configure", "flag", "write", "verbose", "occasional"}

\* Storage::Storage registers the default logger.
Init ==
    /\ el = Get([loggers |-> << >>, defaults |-> SetToDefault(NoConfigurations),
                 disk |-> EmptyDisk, out |-> << >>], DefaultId, TRUE)
    /\ flags = {"AllowVerboseIfModuleNotSpecified"}
    /\ loggingLevel = Unset
    /\ vRegistry = NewVRegistry
    /\ counter = [s \in Sites |-> 0]
    /\ hits = [s \in Sites |-> [reached |-> 0, written |-> 0]]
    /\ argv = << >>
    /\ ended = "running"
    /\ left \in Budgets

Call(kind) ==
    /\ ended = "running"
    /\ left[kind] > 0
    /\ left' = [left EXCEPT ![kind] = @ - 1]

Walks(e) == SetToSeqs(DOMAIN e.loggers)

-----------------------------------------------------------------------------
(* Configuring. *)

\* START_EASYLOGGINGPP.
SetApplicationArguments ==
    /\ argv = << >>
    /\ Call("configure")
    /\ argv' \in Argvs
    /\ vRegistry' = SetFromArgs(vRegistry, flags, argv')
    /\ IF HasParamWithValue(argv', "--default-log-file")
       THEN LET c == SetGlobally(NoConfigurations, "Filename",
                                 GetParamValue(argv', "--default-log-file"))
            IN  \E ids \in Walks(el) : el' = ReconfigureAll(SetDefaultConfigurations(el, c), ids, c)
       ELSE UNCHANGED el
    /\ UNCHANGED <<flags, loggingLevel, counter, hits, ended>>

\* What main configures the default logger with.
MainConfiguration(enabled) == SetGlobally(NoConfigurations, "Enabled", enabled)

\* The configurations and the settings given for one logger, created if it has to
\* be; main gives the default logger's.
Given == ({DefaultId} \X {MainConfiguration(v) : v \in {"false", "true"}}) \cup (Ids \X Confs)

\* The calls of el::Loggers that change the loggers.
Configured(e) ==
    UNION {
        {Unregister(e, id) : id \in Ids},
        LET got == [id \in Ids |-> Get(e, id, TRUE)]
        IN  {got[id] : id \in Ids}
              \cup {ReconfigureLogger(got[g[1]], g[1], g[2]) : g \in Given}
              \cup {ReconfigureLoggerType(got[id], id, s[1], s[2]) : id \in Ids, s \in SingleSettings},
        {ReconfigureAllType(e, ids, l, s[1], s[2]) :
            ids \in Walks(e), l \in {Global, "Error"}, s \in SingleSettings},
        {SetDefaultConfigurations(e, c) : c \in Confs},
        {ReconfigureAll(SetDefaultConfigurations(e, c), ids, c) : c \in Confs, ids \in Walks(e)},
        {ConfigureFromGlobal(e, OneCharacterIds, lines) : lines \in GlobalFiles},
        {FlushAll(e)}
    }

ConfigureLoggers ==
    /\ Call("configure")
    /\ el' \in Configured(el)
    /\ UNCHANGED <<flags, loggingLevel, vRegistry, counter, hits, argv, ended>>

\* configureFromArg; a file that cannot be read leaves things as they are.
ConfigureFromArg ==
    /\ Call("configure")
    /\ HasParamWithValue(argv, "--logging-conf")
    /\ el' = ConfigureFromGlobal(el, OneCharacterIds, GetParamValue(argv, "--logging-conf"))
    /\ UNCHANGED <<flags, loggingLevel, vRegistry, counter, hits, argv, ended>>

AddOrRemoveFlag ==
    /\ Call("flag")
    /\ \E f \in FlagsUsed : flags' \in {flags \cup {f}, flags \ {f}}
    /\ UNCHANGED <<el, loggingLevel, vRegistry, counter, hits, argv, ended>>

SetLoggingLevel ==
    /\ Call("flag")
    /\ loggingLevel' \in LoggingLevels
    /\ UNCHANGED <<el, flags, vRegistry, counter, hits, argv, ended>>

\* setVerboseLevel, setVModules, clearVModules.
SetVerbosity ==
    /\ Call("flag")
    /\ \/ \E level \in 0..(kMaxVerboseLevel + 1) : vRegistry' = [vRegistry EXCEPT !.level = AtMostMax(level)]
       \/ \E spec \in ModuleSpecs :
             /\ VModulesEnabled(flags)
             /\ vRegistry' = SetModules(vRegistry, flags, spec)
       \/ vRegistry' = ClearModules(vRegistry)
    /\ UNCHANGED <<el, flags, loggingLevel, counter, hits, argv, ended>>

-----------------------------------------------------------------------------
(* Writing. *)

\* The levels m_loggingLevel may hold where it is read.
LevelsHeld ==
    IF "HierarchicalLogging" \in flags /\ loggingLevel = Unset
    THEN {Global, Unknown} \cup ToSet(Levels) ELSE {loggingLevel}

\* abort() runs no destructor: what is in the streams then stays there, and never
\* reaches the files.
After(w) ==
    /\ el' = w.e
    /\ ended' = IF w.aborted THEN "aborted" ELSE ended

Written(ids, m) ==
    \E level \in LevelsHeld : After(Write(Lookup(el, flags, ids[1]), flags, level, ids, m))

\* CLOG.
Log ==
    /\ Call("write")
    /\ \E ids \in IdLists, l \in LevelsWritten :
          Written(ids, LogMessage(l, 0, "said"))
    /\ UNCHANGED <<flags, loggingLevel, vRegistry, counter, hits, argv>>

\* VLOG.
VLog ==
    /\ Call("verbose")
    /\ \E vlevel \in 0..kMaxVerboseLevel, f \in Sources :
          \E allowed \in Allowed(vRegistry, flags, vlevel, f) :
             IF allowed
             THEN Written(<<DefaultId>>, LogMessage("Verbose", vlevel, "said"))
             ELSE UNCHANGED <<el, ended>>
    /\ UNCHANGED <<flags, loggingLevel, vRegistry, counter, hits, argv>>

\* Mutant: the counter starts again at nothing.
ValidateHitCountsFromZero(count, n) == IF count >= kMaxLogPerCounter THEN 1 ELSE count + 1

\* HitCounter::validateHitCounts.
ValidateHitCounts(count, n) ==
    1 + IF count < kMaxLogPerCounter THEN count
        ELSE IF n >= 1 THEN kMaxLogPerCounter % n ELSE 0

\* RegisteredHitCounters: the counter behind a call, and whether it says to write.
Validated(s, count) ==
    CASE s.kind = "EveryN" ->
           LET c == ValidateHitCounts(count, s.n) IN <<c, s.n >= 1 /\ c # 0 /\ c % s.n = 0>>
      [] s.kind = "AfterN" -> IF count >= s.n THEN <<count, TRUE>> ELSE <<count + 1, FALSE>>
      [] s.kind = "NTimes" -> <<count + 1, count + 1 <= s.n>>

\* LOG_EVERY_N, LOG_AFTER_N, LOG_N_TIMES.
LogOccasionally ==
    /\ Call("occasional")
    /\ \E s \in Sites :
          LET v == Validated(s, counter[s])
          IN  /\ counter' = [counter EXCEPT ![s] = v[1]]
              /\ hits' = [hits EXCEPT ![s].reached = @ + 1,
                                      ![s].written = @ + IF v[2] THEN 1 ELSE 0]
              /\ IF v[2] THEN Written(<<DefaultId>>, LogMessage("Info", 0, "said"))
                 ELSE UNCHANGED <<el, ended>>
    /\ UNCHANGED <<flags, loggingLevel, vRegistry, argv>>

\* The end of main: the destructor of the loggers flushes all files.
Return ==
    /\ ended = "running"
    /\ ended' = "returned"
    /\ el' = FlushAll(el)
    /\ UNCHANGED <<flags, loggingLevel, vRegistry, counter, hits, argv, left>>

Next ==
    \/ SetApplicationArguments
    \/ ConfigureLoggers
    \/ ConfigureFromArg
    \/ AddOrRemoveFlag
    \/ SetLoggingLevel
    \/ SetVerbosity
    \/ Log
    \/ VLog
    \/ LogOccasionally
    \/ Return

Spec == Init /\ [][Next]_vars

-----------------------------------------------------------------------------
(* What the program's author relies on.                                     *)

\* What has reached a file, and what was written to it, the buffer included.
OnDisk(disk, f)  == IF f \in DOMAIN disk.files THEN disk.files[f] ELSE << >>
Content(disk, f) == IF f \in DOMAIN disk.files THEN disk.files[f] \o disk.pending[f] ELSE << >>

\* The value a logger has registered for a level.
Asked(e, id, l, t) == ValueFor(e.loggers[id].configurations[t], l)

\* What a logger answers from its typed maps, which leave out what is Global's and
\* are built anew on each configuration (build, setValue, .cc:1674, .h:2002), is
\* what is registered for the level.  ToFile is answered false for a file that does
\* not open, and for every level that follows Global if Global's does not.
ConfiguredIsAnswered ==
    \A id \in DOMAIN el.loggers, l \in ToSet(Levels) :
        LET Answer(t) == Config(el.loggers[id].typed, t, l)
            Wanted(t) == Asked(el, id, l, t)
        IN  /\ Answer("Enabled") = GetBool(Wanted("Enabled"))
            /\ Answer("ToStandardOutput") = GetBool(Wanted("ToStandardOutput"))
            /\ Answer("MaxLogFileSize") = GetULong(Wanted("MaxLogFileSize"))
            /\ Answer("LogFlushThreshold") = GetULong(Wanted("LogFlushThreshold"))
            /\ Answer("Format") = LogFormat(l, Wanted("Format"))
            /\ Answer("Filename") = Wanted("Filename")
            /\ Answer("FileStream") = NewFileStream(Wanted("Filename"))
            /\ {Wanted("Filename"), Asked(el, id, Global, "Filename")} \cap BadFiles = {}
                  => Answer("ToFile") = GetBool(Wanted("ToFile"))

\* The lines of seq' behind those of seq; all of them, if seq was cut.
NewLines(old, new) == IF IsPrefix(old, new) THEN SubSeq(new, Len(old) + 1, Len(new)) ELSE new

\* A line that names its logger and level gets to the file, or to the standard
\* output, only as that logger asks for that level, whichever loggers share the
\* stream, fall back to Global or were named by the call (.cc:2219-2242, 1692).
MayStand(line, flag, t) ==
    LET id == line.logger  l == line.level
    IN  /\ Has(el', id)
        /\ l \in ToSet(Levels)
        /\ GetBool(Asked(el', id, l, t))
        /\ GetBool(Asked(el', id, l, "Enabled")) \/ (flag /\ l # "Verbose")

WrittenWhereConfigured ==
    [][LET hierarchical == "HierarchicalLogging" \in flags
       IN  /\ \A f \in DOMAIN el'.disk.files :
                \A line \in ToSet(NewLines(Content(el.disk, f), Content(el'.disk, f))) :
                   /\ MayStand(line, hierarchical, "ToFile")
                   /\ Asked(el', line.logger, line.level, "Filename") = f
           /\ \A line \in ToSet(NewLines(el.out, el'.out)) :
                MayStand(line, hierarchical, "ToStandardOutput")]_vars

\* The default logger never holds back as many records of a level as its threshold,
\* whatever reconfigurations, shared streams and flushes of others came between:
\* configure, which starts the counts again, flushes as well (.cc:647-664).  So an
\* abort loses fewer of them than that, and none at the default threshold of 0, the
\* Fatal record included (.cc:117, 2644-2652).
HeldBelowThreshold ==
    \A l \in ToSet(Levels), f \in DOMAIN el.disk.files :
        LET held == SelectSeq(el.disk.pending[f],
                              LAMBDA line : line.logger = DefaultId /\ line.level = l)
        IN  held # << >> =>
                Len(held) < GetULong(Asked(el, DefaultId, l, "LogFlushThreshold"))

\* Nothing written to a file is taken from it again, whether it has reached the disk
\* or is still in the buffer, by opening the file for another logger, configuring,
\* flushing, an abort or the end of the program, unless some logger limits its size,
\* before the step or after it (.cc:647-664, 731, 1819-1837).
FilesKeptOrRolled ==
    [][\A f \in DOMAIN el.disk.files :
         \/ /\ IsPrefix(OnDisk(el.disk, f), OnDisk(el'.disk, f))
            /\ IsPrefix(Content(el.disk, f), Content(el'.disk, f))
         \/ \E e \in {el, el'} : \E id \in DOMAIN e.loggers, l \in ToSet(Levels) :
               /\ Asked(e, id, l, "Filename") = f
               /\ GetULong(Asked(e, id, l, "MaxLogFileSize")) # 0]_vars

\* LOG_EVERY_N writes at every n-th pass, LOG_AFTER_N at all but the first n and
\* LOG_N_TIMES at the first n, also when the counter has started again
\* (.cc:1840-1881, .h:2076): for n up to kMaxLogPerCounter.
OccasionsCounted ==
    \A s \in Sites :
        LET r == hits[s].reached
        IN  hits[s].written =
              CASE s.kind = "EveryN" -> IF s.n = 0 THEN 0 ELSE r \div s.n
                [] s.kind = "AfterN" -> IF r > s.n THEN r - s.n ELSE 0
                [] s.kind = "NTimes" -> IF r > s.n THEN s.n ELSE r

=============================================================================
