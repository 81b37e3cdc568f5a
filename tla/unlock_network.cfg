\* Clients that never allow the cache, with and without a query tool, and a
\* tool that may fill its pipe.  Without a tool, or with one stuck on its pipe,
\* the system stops when every call is open.
CONSTANTS
    Callers = {s1, s2}
    Creds = {c1, c2}
    Serials = {n1}
    Calls <- EveryCall
    Pids = {p1, p2}
    NoCreds = NoCreds
    NoPid = NoPid
    CacheChoices = {FALSE}
    ExecChoices = {TRUE, FALSE}
    PipeMayFill = TRUE
SPECIFICATION Spec
SYMMETRY Symmetry
INVARIANTS
    GrantedIsAccepted
    LoversWereGranted
    RefusedGetsNothing
    HangsInTwoWays
PROPERTIES
    KeptListOnlyWithoutOwn
CHECK_DEADLOCK FALSE
