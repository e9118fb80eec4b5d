-------------------------- MODULE TypedConfigurations --------------------------
(***************************************************************************)
(* el::base::TypedConfigurations: the configurations of a logger, read into *)
(* a map from levels for each type.  A level whose value is Global's has no *)
(* entry of its own, so that reading falls back to Global's.  Building them *)
(* opens the files they name.                                              *)
(*                                                                         *)
(* The disk is a record: streams, what m_logStreamsReference has for each   *)
(* name a logger was ever given; files, what of each has reached the file;  *)
(* and pending, what is in the stream's buffer still.  A stream is known by *)
(* the name of its file, which holds as long as Global's Filename is the    *)
(* first of them, as it is in every logger.  Names hold no %datetime, files *)
(* start empty, and sizes are counted in records.                           *)
(***************************************************************************)
EXTENDS LogConfigurations

CONSTANT BadFiles       \* the names that cannot be opened for writing

NullStream == "nullptr"

EmptyDisk == [streams |-> << >>, files |-> << >>, pending |-> << >>]

\* unsafeGetConfigByVal, unsafeGetConfigByRef; every logger's maps have Global.
GetConfig(map, l) == IF l \in DOMAIN map THEN map[l] ELSE map[Global]

\* The getters: enabled, toFile, filename, fileStream and so on.
Config(tc, t, l) == GetConfig(tc[t], l)

\* A first value is Global's, whatever its level.
SetValue(map, l, v) ==
    IF DOMAIN map = {} THEN Global :> v
    ELSE IF Global \in DOMAIN map /\ map[Global] = v THEN map
    ELSE (l :> v) @@ map

-----------------------------------------------------------------------------
(* LogFormat. *)

\* What updateFormatSpec writes for %level; Global leaves the specifier there.
LevelText(l) == IF l \in ToSet(Levels) THEN l ELSE "%level"

\* Mutant: formats are the same when the user's texts are.
LogFormatOfUser(l, specifiers) ==
    [level |-> Global, userFormat |-> specifiers, format |-> LevelText(Global)]

\* The specifiers are the flags of the format; m_format is the text with the
\* level put in.
LogFormat(l, specifiers) ==
    [level |-> l, userFormat |-> specifiers, format |-> LevelText(l)]

\* operator= leaves m_format as it was.
AssignFormat(map, l, f) ==
    IF l \in DOMAIN map THEN [f EXCEPT !.format = map[l].format] ELSE f

-----------------------------------------------------------------------------
(* build. *)

GetBool(v) == v \in {"TRUE", "true", "1"}

Numerals == <<"1", "2", "3", "4", "5", "6", "7", "8", "9">>

\* getULong: 0 for "0", and for what is no numeral.
GetULong(v) == IF Contains(Numerals, v) THEN CHOOSE i \in DOMAIN Numerals : Numerals[i] = v ELSE 0

\* SubsecondPrecision::init.
SubsecondPrecision(width) == IF width \in 1..6 THEN width ELSE 3

\* The first loop, for one configuration and the map of its type.
Typed(map, l, t, v) ==
    CASE t \in {"Enabled", "ToFile", "ToStandardOutput"} -> SetValue(map, l, GetBool(v))
      [] t = "Format" -> SetValue(map, l, AssignFormat(map, l, LogFormat(l, v)))
      [] t = "SubsecondPrecision" -> SetValue(map, Global, SubsecondPrecision(GetULong(v)))
      [] t = "PerformanceTracking" -> SetValue(map, Global, GetBool(v))
      [] t \in {"MaxLogFileSize", "LogFlushThreshold"} -> SetValue(map, l, GetULong(v))
      [] t = "Filename" -> map

\* File::newFileStream: the file is opened for appending, or there is no stream.
NewFileStream(name) == IF name \in BadFiles THEN NullStream ELSE name

\* Mutant: opening a file empties it, whoever writes to it already.
InsertFileAnew(s, l, name) ==
    LET at == IF DOMAIN s.tc.Filename = {} /\ DOMAIN s.tc.FileStream = {} THEN Global ELSE l
        fs == NewFileStream(name)
        fresh == IF fs = NullStream THEN << >> ELSE fs :> << >>
    IN  [tc |-> [s.tc EXCEPT
                    !.Filename = @ @@ (at :> name),
                    !.FileStream = @ @@ (at :> fs),
                    !.ToFile = IF fs = NullStream THEN SetValue(@, at, FALSE) ELSE @],
         disk |-> [streams |-> (name :> fs) @@ s.disk.streams,
                   files |-> fresh @@ s.disk.files,
                   pending |-> fresh @@ s.disk.pending]]

\* s: the maps and the disk.  insert leaves an entry alone that is there already.
InsertFile(s, l, name) ==
    LET at == IF DOMAIN s.tc.Filename = {} /\ DOMAIN s.tc.FileStream = {} THEN Global ELSE l
        fs == IF name \in DOMAIN s.disk.streams THEN s.disk.streams[name] ELSE NewFileStream(name)
    IN  [tc |-> [s.tc EXCEPT
                    !.Filename = @ @@ (at :> name),
                    !.FileStream = @ @@ (at :> fs),
                    !.ToFile = IF fs = NullStream THEN SetValue(@, at, FALSE) ELSE @],
         disk |-> [streams |-> s.disk.streams @@ (name :> fs),
                   files |-> IF fs = NullStream THEN s.disk.files ELSE s.disk.files @@ (fs :> << >>),
                   pending |-> IF fs = NullStream THEN s.disk.pending
                               ELSE s.disk.pending @@ (fs :> << >>)]]

\* unsafeValidateFileRolling: a file that has reached its limit is emptied, with
\* what is in the buffer.
ValidateFileRolling(tc, disk, l) ==
    LET fs  == Config(tc, "FileStream", l)
        max == Config(tc, "MaxLogFileSize", l)
    IN  IF fs # NullStream /\ max # 0 /\ Len(disk.files[fs]) + Len(disk.pending[fs]) >= max
        THEN [disk EXCEPT !.files[fs] = << >>, !.pending[fs] = << >>]
        ELSE disk

EmptyMaps == [t \in Types \cup {"FileStream"} |-> << >>]

\* build: first the values, then the files, then the limits.
Values(c) ==
    [t \in DOMAIN EmptyMaps |->
        IF t \notin Types THEN << >>
        ELSE FoldLeft(LAMBDA map, k : Typed(map, k[1], t, k[2]), << >>, c[t])]

Open(s, c) == FoldLeft(LAMBDA a, k : InsertFile(a, k[1], k[2]), s, c.Filename)

Limit(s, c) ==
    LET limited == SelectSeq(c.MaxLogFileSize, LAMBDA k : GetULong(k[2]) # 0)
    IN  [s EXCEPT !.disk = FoldLeft(LAMBDA d, k : ValidateFileRolling(s.tc, d, k[1]), @, limited)]

Build(c, disk) == Limit(Open([tc |-> Values(c), disk |-> disk], c), c)

=============================================================================
