\* Every call is answered, when the tool is found and its output fits the pipe.
CONSTANTS
    Callers = {s1}
    Creds = {c1, c2}
    Serials = {n1, n2}
    Calls <- OnePairRepeats
    Pids = {p1, p2}
    NoCreds = NoCreds
    NoPid = NoPid
    CacheChoices = {FALSE}
    ExecChoices = {TRUE}
    PipeMayFill = FALSE
SPECIFICATION FairSpec

PROPERTIES
    EveryCallAnswered
    ImplementsFairFlight
