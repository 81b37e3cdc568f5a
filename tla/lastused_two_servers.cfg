\* Two UCCS servers with a user of the same name, and an RDP server.
CONSTANTS
    Uccs = {"home", "work"}
    Config <- MCConfig
    Users = {a, b}
    Passwords = {"short"}
    KeyOf <- MCKeyOf
    Outputs <- MCOneList
    Requests = {"home", "work", "direct", "host", "other"}
    NoCreds = NoCreds
    NoFile = NoFile
    EmptyFile = EmptyFile
    Nothing = Nothing
    WriteResults = {TRUE}
SPECIFICATION Spec
INVARIANTS
    ChosenIsShown
