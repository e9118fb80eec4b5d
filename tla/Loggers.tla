-------------------------------- MODULE Loggers --------------------------------
(***************************************************************************)
(* el::Logger, the registry of loggers and the dispatching of a record to   *)
(* them.  The state of the library is a record e: its loggers, by their     *)
(* ids; defaults, the configurations a new one starts with; the disk of     *)
(* TypedConfigurations; and out, the lines on the standard output.          *)
(*                                                                         *)
(* A logger has its configurations, their typed form, and unflushed, how    *)
(* many records of each level it has written since it last flushed.  In     *)
(* most operators s is one logger and the disk.  F is the set of logging    *)
(* flags.  The program has one thread, and the locks are empty.             *)
(***************************************************************************)
EXTENDS TypedConfigurations

CONSTANT ValidIds       \* the ids made of the characters of kValidLoggerIdSymbols

DefaultId == "default"

-----------------------------------------------------------------------------
(* Logger. *)

InitUnflushedCount == [l \in ToSet(Levels) |-> 0]

\* flush(level); the stream the caller may hand in is the level's own.
FlushLevel(s, l) ==
    LET fs == Config(s.logger.typed, "FileStream", l)
    IN  IF ~Config(s.logger.typed, "ToFile", l) \/ fs = NullStream THEN s
        ELSE [logger |-> [s.logger EXCEPT !.unflushed[l] = 0],
              disk |-> ValidateFileRolling(s.logger.typed,
                          [s.disk EXCEPT !.files[fs] = @ \o s.disk.pending[fs],
                                         !.pending[fs] = << >>], l)]

Flush(s) == FoldLeft(FlushLevel, s, Levels)

WithTyped(c, b) ==
    [logger |-> [configurations |-> c, typed |-> b.tc, unflushed |-> InitUnflushedCount],
     disk |-> b.disk]

Rebuild(c, disk) == WithTyped(c, Build(c, disk))

\* Mutant: what the logger still holds back is left to the next flush.
ConfigureUnflushed(s, conf) == Rebuild(SetFromBase(s.logger.configurations, conf), s.disk)

\* Mutant: the typed configurations are kept when no Filename was given.
ConfigureKeepingTyped(s, conf) ==
    LET c == SetFromBase(s.logger.configurations, conf)
    IN  IF DOMAIN s.logger.typed.Filename # {} /\ ~HasConfiguration(conf.Filename, Global)
        THEN WithTyped(c, [tc |-> s.logger.typed, disk |-> Flush(s).disk])
        ELSE Rebuild(c, s.disk)

\* configure: the files of the old typed configurations are flushed, if there are
\* any, before the new ones are built.
Configure(s, conf) ==
    LET built == DOMAIN s.logger.typed.Filename # {}
        named == HasConfiguration(s.logger.configurations.Filename, Global)
    IN  Rebuild(SetFromBase(s.logger.configurations, conf),
                IF built /\ named THEN Flush(s).disk ELSE s.disk)

\* reconfigure: what the configurations have become is read anew.
Reconfigure(s) == Configure(s, NoConfigurations)

IsValidId(id) == id \in ValidIds

NewLogger == [configurations |-> NoConfigurations, typed |-> EmptyMaps,
              unflushed |-> InitUnflushedCount]

-----------------------------------------------------------------------------
(* RegisteredLoggers and Loggers. *)

Has(e, id) == id \in DOMAIN e.loggers

WithLogger(e, id, s) == [e EXCEPT !.loggers = (id :> s.logger) @@ @, !.disk = s.disk]

\* get: a logger that is not there is made from the defaults, if its id is valid.
Get(e, id, forceCreation) ==
    IF Has(e, id) \/ ~forceCreation \/ ~IsValidId(id) THEN e
    ELSE WithLogger(e, id, Configure([logger |-> NewLogger, disk |-> e.disk], e.defaults))

\* remove: the streams of the logger stay open, for any logger that names their
\* files, and what is in them is not flushed.
Unregister(e, id) ==
    IF id = DefaultId THEN e
    ELSE [e EXCEPT !.loggers = [i \in DOMAIN @ \ {id} |-> @[i]]]

ConfigureLogger(e, id, conf) ==
    WithLogger(e, id, Configure([logger |-> e.loggers[id], disk |-> e.disk], conf))

\* One configuration is set in place, and the logger configured with its own.
SetAndReconfigure(e, id, l, t, v) ==
    LET set == [e.loggers[id] EXCEPT !.configurations = Set(@, l, t, v)]
    IN  WithLogger(e, id, Reconfigure([logger |-> set, disk |-> e.disk]))

\* reconfigureLogger(id, configurations) and reconfigureLogger(id, type, value),
\* of a library in which Get was asked to create the logger.
ReconfigureLogger(e, id, conf) == IF Has(e, id) THEN ConfigureLogger(e, id, conf) ELSE e

ReconfigureLoggerType(e, id, t, v) ==
    IF Has(e, id) THEN SetAndReconfigure(e, id, Global, t, v) ELSE e

\* The registry is unordered: ids is the order in which it is walked.
ReconfigureAll(e, ids, conf) == FoldLeft(LAMBDA a, id : ConfigureLogger(a, id, conf), e, ids)

ReconfigureAllType(e, ids, l, t, v) ==
    FoldLeft(LAMBDA a, id : SetAndReconfigure(a, id, l, t, v), e, ids)

SetDefaultConfigurations(e, conf) == [e EXCEPT !.defaults = SetFromBase(@, conf)]

\* unsafeFlushAll: every stream, and no logger's count.
FlushAll(e) ==
    [e EXCEPT !.disk.files = [f \in DOMAIN @ |-> @[f] \o e.disk.pending[f]],
              !.disk.pending = [f \in DOMAIN @ |-> << >>]]

\* configureFromGlobal: the lines behind a logger's id configure that logger.  An
\* id of one character is dropped, and its lines go to the logger before it.  g:
\* the library, the logger the lines are for, and the lines.
ConfigureCollected(g) ==
    IF g.lines # << >> /\ Has(g.e, g.id)
    THEN [g EXCEPT !.e = ConfigureLogger(g.e, g.id, ParseFromText(NoConfigurations, g.lines)),
                   !.lines = << >>]
    ELSE [g EXCEPT !.lines = << >>]

NextLogger(g, OneCharacter, id) ==
    IF id \in OneCharacter THEN g ELSE [g EXCEPT !.e = Get(g.e, id, TRUE), !.id = id]

GlobalLine(OneCharacter, g, line) ==
    CASE line.kind = "comment" -> g
      [] line.kind = "logger" -> NextLogger(ConfigureCollected(g), OneCharacter, line.id)
      [] OTHER -> [g EXCEPT !.lines = Append(@, line)]

ConfigureFromGlobal(e, OneCharacter, lines) ==
    IF lines = NoFile THEN e
    ELSE ConfigureCollected(
            FoldLeft(LAMBDA g, line : GlobalLine(OneCharacter, g, line),
                     [e |-> e, id |-> Unknown, lines |-> << >>], lines)).e

-----------------------------------------------------------------------------
(* Records. *)

LogMessage(level, vlevel, msg) == [level |-> level, vlevel |-> vlevel, msg |-> msg]

NoVerboseLevel == -1

\* DefaultLogBuilder::build, for the specifiers kept.
Line(tc, id, m) ==
    LET f == Config(tc, "Format", m.level)
    IN  [s \in f.userFormat |->
            CASE s = "level"  -> f.format
              [] s = "logger" -> id
              [] s = "vlevel" -> IF m.level = "Verbose" THEN m.vlevel ELSE NoVerboseLevel
              [] s = "msg"    -> m.msg]

\* DefaultLogDispatchCallback::dispatch: the record is written and counted, and
\* the buffer flushed once the count has reached the threshold; ImmediateFlush does
\* not count.  s is the logger with the disk.
FlushIfNeeded(s, F, l) ==
    IF "ImmediateFlush" \in F \/ s.logger.unflushed[l] >= Config(s.logger.typed, "LogFlushThreshold", l)
    THEN FlushLevel(s, l) ELSE s

WriteToFile(s, F, l, line) ==
    LET fs == Config(s.logger.typed, "FileStream", l)
    IN  IF ~Config(s.logger.typed, "ToFile", l) \/ fs = NullStream THEN s
        ELSE FlushIfNeeded(
                [logger |-> IF "ImmediateFlush" \in F THEN s.logger
                            ELSE [s.logger EXCEPT !.unflushed[l] = @ + 1],
                 disk |-> [s.disk EXCEPT !.pending[fs] = Append(@, line)]], F, l)

WriteToStandardOutput(out, tc, l, line) ==
    IF Config(tc, "ToStandardOutput", l) THEN Append(out, line) ELSE out

\* LogDispatcher::dispatch.
Dispatch(e, F, id, m) ==
    LET lg   == e.loggers[id]
        line == Line(lg.typed, id, m)
        disk == IF "StrictLogFileSizeCheck" \in F
                THEN ValidateFileRolling(lg.typed, e.disk, m.level) ELSE e.disk
        new  == WithLogger(e, id, WriteToFile([logger |-> lg, disk |-> disk], F, m.level, line))
    IN  [new EXCEPT !.out = WriteToStandardOutput(@, lg.typed, m.level, line)]

LevelNumber(l) ==
    IF l = Global THEN 0 ELSE IF l = Unknown THEN 8 ELSE CHOOSE i \in DOMAIN Levels : Levels[i] = l

\* Writer::initializeLogger's m_proceed; loggingLevel is what m_loggingLevel holds.
Proceeds(e, F, loggingLevel, id, l) ==
    IF "HierarchicalLogging" \in F /\ l # "Verbose"
    THEN LevelNumber(l) >= LevelNumber(loggingLevel)
    ELSE Config(e.loggers[id].typed, "Enabled", l)

\* A Writer of its own for the default logger, which is always there.
Tell(e, F, loggingLevel, l, text) ==
    IF Proceeds(e, F, loggingLevel, DefaultId, l)
    THEN Dispatch(e, F, DefaultId, LogMessage(l, 0, text)) ELSE e

Aborts(F, l) == l = "Fatal" /\ "DisableApplicationAbortOnFatalLog" \notin F

Lookup(e, F, id) == Get(e, id, "CreateLoggerAutomatically" \in F)

\* processDispatch for one of the ids, of the library in which it was looked up.
WriteTo(e, F, loggingLevel, id, m) ==
    IF ~Has(e, id)
    THEN [e |-> Tell(e, F, loggingLevel, "Debug", "not registered"), aborted |-> FALSE]
    ELSE IF ~Proceeds(e, F, loggingLevel, id, m.level) THEN [e |-> e, aborted |-> FALSE]
    ELSE IF Aborts(F, m.level)
    THEN [e |-> Tell(Dispatch(e, F, id, m), F, loggingLevel, "Warning", "aborting"),
          aborted |-> TRUE]
    ELSE [e |-> Dispatch(e, F, id, m), aborted |-> FALSE]

\* Nothing is written behind an abort.
WriteToAll(e, F, loggingLevel, ids, m) ==
    FoldLeft(LAMBDA w, id : IF w.aborted THEN w
                            ELSE WriteTo(Lookup(w.e, F, id), F, loggingLevel, id, m),
             [e |-> e, aborted |-> FALSE], ids)

\* CLOG(level, ids), of the library in which the first id was looked up: without
\* MultiLoggerSupport it alone counts.  The text is in the first logger's stream,
\* and is lost if that logger does not proceed.
Write(e, F, loggingLevel, ids, m) ==
    LET kept  == Has(e, ids[1]) /\ Proceeds(e, F, loggingLevel, ids[1], m.level)
        named == IF "MultiLoggerSupport" \in F THEN ids ELSE SubSeq(ids, 1, 1)
    IN  WriteToAll(e, F, loggingLevel, named, [m EXCEPT !.msg = IF kept THEN @ ELSE ""])

=============================================================================
