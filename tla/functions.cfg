\* Every small input of the functions that keep no state.
CONSTANTS
    Objects <- MCObjects
    Statuses = {0, 1}
    Outputs <- MCOutputs
    HeldLists <- MCHeldLists
    Files <- MCFiles
    Path <- MCPath
    URIs = {"host", "other", "none"}
    Texts <- MCTexts
    Passwords <- MCPasswords
    BlockLength = 2
SPECIFICATION Spec
INVARIANTS
    IllTypedIsAbsent
    ReadsBack
    OutcomeDecides
    OneDefault
    EveryGoodEntry
    LookupsAgree
    ConfiguredIsReached
    ReadsWhatWasWritten
