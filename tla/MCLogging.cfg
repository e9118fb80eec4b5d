CONSTANTS
    BadFiles = {"bad"}
    ValidIds = {"default", "net", "n"}
    Budgets <- MCBudgets
    Argvs <- MCArgvs
    Confs <- MCConfs
    GlobalFiles <- MCGlobalFiles
    SingleSettings <- MCSingleSettings
    Ids = {"default", "net", "not valid"}
    OneCharacterIds = {"n"}
    IdLists <- MCIdLists
    LevelsWritten = {"Info", "Error", "Fatal"}
    FlagsUsed <- MCFlags
    LoggingLevels = {"Error", "Info"}
    ModuleSpecs <- MCModuleSpecs
    Sites <- MCSites
    Sources <- MCSources
    kMaxLogPerCounter = 4
SPECIFICATION Spec
INVARIANTS
    ConfiguredIsAnswered
    HeldBelowThreshold
    OccasionsCounted
PROPERTIES
    WrittenWhereConfigured
    FilesKeptOrRolled
CHECK_DEADLOCK FALSE
