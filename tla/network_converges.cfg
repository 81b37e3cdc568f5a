\* Every HEAD that is replied to comes back with status 200.
CONSTANTS
    Servers = {u1}
    Messages = {m1, m2}
    NMStates <- MCNMStates
    Stopped = 0
    Replies = {TRUE}
    Clients = {g1}
    InboxLength = 1
SPECIFICATION FairServiceSpec
PROPERTIES
    EventuallyOffered
    EventuallyShown
