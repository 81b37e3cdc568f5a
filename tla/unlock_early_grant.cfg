\* The cache answers for credentials no query has confirmed.
CONSTANTS
    Callers = {s1, s2}
    Creds = {c1, c2}
    Serials = {n1}
    Calls <- EveryCall
    Pids = {p1, p2}
    NoCreds = NoCreds
    NoPid = NoPid
    CacheChoices = {TRUE, FALSE}
    ExecChoices = {TRUE}
    PipeMayFill = FALSE
SPECIFICATION Spec

INVARIANTS
    GrantedIsAccepted
