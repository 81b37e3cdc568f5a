\* Lovers of forgotten credentials outlive the next change of credentials.
CONSTANTS
    Callers = {s1, s2}
    Creds = {c1, c2}
    Serials = {n1}
    Calls <- EveryCall
    Pids = {p1, p2}
    NoCreds = NoCreds
    NoPid = NoPid
    CacheChoices = {TRUE, FALSE}
    ExecChoices = {TRUE}
    PipeMayFill = FALSE
SPECIFICATION Spec

PROPERTIES
    ChangeDropsLovers
