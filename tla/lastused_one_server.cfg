\* One UCCS server; users with passwords that share a key and one that does not.
CONSTANTS
    Uccs = {"home"}
    Config <- MCConfig
    Users = {a, b}
    Passwords = {"long1", "long2", "short"}
    KeyOf <- MCKeyOf
    Outputs <- MCOutputs
    Requests = {"home", "host", "other", "spare", "none"}
    NoCreds = NoCreds
    NoFile = NoFile
    EmptyFile = EmptyFile
    Nothing = Nothing
    WriteResults = {TRUE, FALSE}
SPECIFICATION Spec
INVARIANTS
    TypeOK
    ChosenIsShown
    ChosenNameIsShown
    FileIsLatestChoice
