------------------------------- MODULE MCLogging -------------------------------
(***************************************************************************)
(* The logging for TLC: a few programs that configure, a few that write,    *)
(* and both.  A counter starts again at 4 instead of 100000.               *)
(***************************************************************************)
EXTENDS Logging

Calls(configure, flag, write, verbose, occasional) ==
    [configure |-> configure, flag |-> flag, write |-> write,
     verbose |-> verbose, occasional |-> occasional]

MCBudgets == {Calls(2, 0, 2, 0, 0), Calls(1, 0, 3, 0, 0), Calls(1, 1, 2, 0, 0),
              Calls(0, 2, 2, 0, 0), Calls(1, 1, 0, 1, 0), Calls(0, 2, 0, 1, 0),
              Calls(0, 0, 0, 0, 9)}

Arg(key, value) == [key |-> key, value |-> value]

MCGlobalFile == <<
    OfLogger("net"), Comment, OfLevel("Global"), Value("Filename", "net.log"),
    OfLogger("n"), OfLevel("Info"), Value("Filename", "bad"), Blank >>

MCGlobalFiles == {MCGlobalFile, NoFile}

MCModuleSpecs == {
    << [name |-> <<"tree">>, level |-> 2], [name |-> <<"*">>, level |-> 5] >>,
    << [name |-> <<"tr">>, level |-> -1], [name |-> <<"ee">>, level |-> 1] >> }

MCArgvs == {
    << [key |-> "true"], Arg("--default-log-file", "app.log"),
       Arg("--default-log-file", "net.log"), Arg("--v", 12) >>,
    << [key |-> "-v"],
       Arg("--logging-conf", << OfLogger("default"), OfLevel("Error"), Value("LogFlushThreshold", "2"),
                                OfLevel("Info"), Value("Filename", "net.log") >>) >>,
    << Arg("-vmodule", << [name |-> <<"tree">>, level |-> 2] >>) >> }

MCConfs == {
    FromFile(<< OfLevel("Global"), Value("Filename", "app.log"), Value("MaxLogFileSize", "2"),
                Value("LogFlushThreshold", "3"), OfLevel("Error"), Value("Filename", "net.log") >>,
             TRUE, NoConfigurations),
    FromFile(NoFile, TRUE, NoConfigurations),
    ParseFromText(NoConfigurations,
        << Value("Enabled", "false"), OfLevel("Error"), Value("Enabled", "false"),
           Value("Colour", "red"), OfLevel("Global"), Value("LogFlushThreshold", "2") >>),
    ParseFromText(NoConfigurations,
        << OfLevel("Global"), Value("Filename", "bad"),
           OfLevel("Info"), Value("Filename", "app.log") >>) }

MCSingleSettings == { <<"LogFlushThreshold", "2">>, <<"ToStandardOutput", "false">>,
                      <<"Filename", "net.log">> }

MCIdLists == { <<"default">>, <<"net", "default">>, <<"default", "net">> }

MCFlags == {"MultiLoggerSupport", "CreateLoggerAutomatically", "HierarchicalLogging",
            "ImmediateFlush", "StrictLogFileSizeCheck", "DisableApplicationAbortOnFatalLog",
            "DisableVModules", "DisableVModulesExtensions",
            "AllowVerboseIfModuleNotSpecified"}

MCSites == { [kind |-> "EveryN", n |-> 0], [kind |-> "EveryN", n |-> 3],
             [kind |-> "EveryN", n |-> 4], [kind |-> "AfterN", n |-> 2],
             [kind |-> "NTimes", n |-> 2] }

MCSources == { [stem |-> "tree", ext |-> ".cpp"], [stem |-> "runner", ext |-> ".cpp"] }

=============================================================================
