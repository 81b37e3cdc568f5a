\* Two servers configured in any way, two requests of each open at a time, and a
\* greeter.
CONSTANTS
    Servers = {u1, u2}
    Messages = {m1, m2}
    NMStates <- MCNMStates
    Stopped = 0
    Replies = {TRUE, FALSE}
    Clients = {g1}
    InboxLength = 1
SPECIFICATION ServiceSpec
SYMMETRY Symmetry
INVARIANTS
    ServiceTypeOK
    StateIsCurrent
    AnnouncedIsCurrent
    CancellationsAreHarmless
    ClientsAreCurrent
PROPERTIES
    VerifiedOnThisNetwork
    KeepsItsPromise
