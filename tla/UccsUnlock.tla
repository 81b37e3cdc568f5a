------------------------------ MODULE UccsUnlock ------------------------------
(***************************************************************************)
(* Unlocking one UCCS server: the GetServersForLogin call of the service,  *)
(* from uccs_server_unlock to the answer handle_get_servers_login_cb sends *)
(* (src/src/uccs-server.c, src/src/main.c).                                *)
(*                                                                         *)
(* The service is one thread running a GLib main loop, so every handler    *)
(* and every callback is one atomic action.  Between two of them run the   *)
(* other callers, the query tool (a child process) and the kernel's pipes. *)
(*                                                                         *)
(* The answer to a login is the outcome of a query tool that the server    *)
(* spawns with the login's username as argument and its password on stdin. *)
(* At most one query is awaited at a time; logins with the credentials of  *)
(* that query join it, a login with others abandons it.                    *)
(***************************************************************************)
EXTENDS QueryOutput

CONSTANTS
    Callers,      \* bus names of the clients (their unique names)
    Creds,        \* username and password pairs a client may present
    Serials,      \* tells apart the equal calls one client has open
    Calls,        \* the calls they make
    Pids,         \* children that may be alive or watched at one time
    NoCreds,      \* NULL in username and password
    NoPid,        \* 0 in json_pid and json_watch, NULL in the streams
    CacheChoices, \* values clients pass for allowCache
    ExecChoices,  \* outcomes of looking the query tool up in the path
    PipeMayFill   \* the tool may write more than its stdout pipe holds

ASSUME SentinelsAssumption == NoCreds \notin Creds /\ NoPid \notin Pids

(***************************************************************************)
(* A call is its parameters.  It may be made again once it is answered.    *)
(***************************************************************************)
ASSUME CallsAssumption ==
    Calls \subseteq [sender : Callers, creds : Creds, serial : Serials]

ASSUME ModesAssumption ==
    /\ CacheChoices \subseteq BOOLEAN
    /\ ExecChoices \subseteq BOOLEAN
    /\ PipeMayFill \in BOOLEAN

VARIABLES
    exec,         \* the query tool was found when the server was configured
    creds,        \* username and password, set and cleared together
    lovers,       \* bus names the list of servers may be shown to
    waiters,      \* json_waiters: the calls the query will answer
    json_pid,     \* the child the server knows about
    json_watch,   \* the child whose watch the server knows about
    json_stream,  \* the child json_stream reads from
    pass_stream,  \* the child pass_stream writes to
    subservers,   \* whose credentials the held list was fetched with
    verdict,      \* state of every call, loginSuccess of its answer
    list,         \* whose list the answer carried, NoCreds for the empty one
    sources,      \* child watches installed in the main loop
    writing,      \* children whose password write has not completed
    tool,         \* where each child is, or what it left on exit
    ranWith,      \* credentials each child was started with
    accepted,     \* history: credentials some query came back good for
    told          \* who was sent LoginChanged by the last handler

serverVars == <<exec, creds, lovers, waiters, json_pid, json_watch,
                json_stream, pass_stream, subservers>>
vars == <<exec, creds, lovers, waiters, json_pid, json_watch, json_stream,
          pass_stream, subservers, verdict, list, sources, writing, tool,
          ranWith, accepted, told>>

\* Where a child is before it leaves one of the Outcomes behind.
Phases == {"none", "reading", "answering", "blocked"}

TypeOK ==
    /\ exec \in BOOLEAN
    /\ creds \in Creds \cup {NoCreds}
    /\ lovers \subseteq Callers
    /\ waiters \subseteq Calls
    /\ {json_pid, json_watch, json_stream, pass_stream} \subseteq Pids \cup {NoPid}
    /\ subservers \in Creds \cup {NoCreds}
    /\ verdict \in [Calls -> {"idle", "pending", "granted", "refused"}]
    /\ list \in [Calls -> Creds \cup {NoCreds}]
    /\ sources \subseteq Pids
    /\ writing \subseteq Pids
    /\ tool \in [Pids -> Phases \cup Outcomes]
    /\ ranWith \in [Pids -> Creds \cup {NoCreds}]
    /\ accepted \subseteq Creds
    /\ told \subseteq Callers

Init ==
    /\ exec \in ExecChoices
    /\ creds = NoCreds
    /\ lovers = {}
    /\ waiters = {}
    /\ json_pid = NoPid
    /\ json_watch = NoPid
    /\ json_stream = NoPid
    /\ pass_stream = NoPid
    /\ subservers = NoCreds
    /\ verdict = [i \in Calls |-> "idle"]
    /\ list = [i \in Calls |-> NoCreds]
    /\ sources = {}
    /\ writing = {}
    /\ tool = [p \in Pids |-> "none"]
    /\ ranWith = [p \in Pids |-> NoCreds]
    /\ accepted = {}
    /\ told = {}

-----------------------------------------------------------------------------
(***************************************************************************)
(* Answering.  uccs_server_get_servers looks the sender up in the lovers   *)
(* as they are when the answer is built; the verdict plays no part in it.  *)
(***************************************************************************)
\* Variants named Operator_What are plausible slips of the code, kept to show
\* that the properties below tell them from the code.  No action uses them.
Shown_Unchecked(i, authorized, held) == held

Shown_NoArray(i, authorized, held) ==
    IF i.sender \in authorized THEN held ELSE NoPid

Shown(i, authorized, held) == IF i.sender \in authorized THEN held ELSE NoCreds

Answer_OnlyGrants(answered, v) ==
    [i \in Calls |-> IF i \in answered /\ v # "refused" THEN v ELSE verdict[i]]

Answer(answered, v) ==
    [i \in Calls |-> IF i \in answered THEN v ELSE verdict[i]]

Listing(answered, authorized, held) ==
    [i \in Calls |-> IF i \in answered THEN Shown(i, authorized, held)
                                       ELSE list[i]]

-----------------------------------------------------------------------------
(***************************************************************************)
(* Clearing the lovers.  GLib refuses to emit a signal whose name is not   *)
(* one element of letters, digits and underscores; a name is modelled as   *)
(* the sequence of its elements between dots.                              *)
(***************************************************************************)
IsMemberName(name) == Len(name) = 1

SignalName == <<"org", "ArcticaProject", "RemoteLogon", "LoginChanged">>

AfterClearHash_Keeps == lovers

\* clear_hash returns early when there is no username to put in the signal.
AfterClearHash == IF creds = NoCreds THEN lovers ELSE {}

Told(dropped) == IF IsMemberName(SignalName) THEN dropped ELSE {}

-----------------------------------------------------------------------------
(***************************************************************************)
(* clear_json, which a login with other credentials than the server's own  *)
(* runs: the watch is removed, the streams are closed, the pid is          *)
(* forgotten and the waiters are refused.  The child is not killed; its    *)
(* pending password write still completes and closes its stdin.            *)
(***************************************************************************)
Abandons(i) == i.creds # creds

Flushed_None(i) == {}

Flushed(i) == IF Abandons(i) THEN waiters ELSE {}

FieldLeft(i, field) == IF Abandons(i) THEN NoPid ELSE field

SourcesLeft_KeepsWatch(i) == sources

SourcesLeft(i) == IF Abandons(i) THEN sources \ {json_watch} ELSE sources

\* A child that exited and that nobody watches is of no further consequence.
ToolsLeft(i) ==
    [p \in Pids |-> IF /\ p \notin SourcesLeft(i)
                       /\ tool[p] \in Outcomes
                    THEN "none" ELSE tool[p]]

RanLeft(i) ==
    [p \in Pids |-> IF ToolsLeft(i)[p] = "none" THEN NoCreds ELSE ranWith[p]]

\* Bound: at most Cardinality(Pids) children are alive or watched.
FreshPid(p) ==
    /\ tool[p] = "none"
    /\ p \notin sources
    /\ p \notin writing

-----------------------------------------------------------------------------
(***************************************************************************)
(* uccs_server_unlock(i) with allowcache = a, by where it returns.         *)
(***************************************************************************)
CacheHit(i, a) == a /\ i.creds = creds

\* Same username and password as the server holds: granted on the spot.
UnlockCached(i, a) ==
    /\ CacheHit(i, a)
    /\ lovers' = lovers \cup {i.sender}
    /\ verdict' = Answer({i}, "granted")
    /\ list' = Listing({i}, lovers', subservers)
    /\ told' = {}
    /\ UNCHANGED <<exec, creds, waiters, json_pid, json_watch, json_stream,
                   pass_stream, subservers, sources, writing, tool, ranWith,
                   accepted>>

\* g_return_if_fail(server->exec != NULL): returns without an answer.
UnlockIgnored(i, a) ==
    /\ ~CacheHit(i, a)
    /\ ~exec
    /\ verdict' = Answer({i}, "pending")
    /\ list' = [list EXCEPT ![i] = NoCreds]
    /\ told' = {}
    /\ UNCHANGED <<serverVars, sources, writing, tool, ranWith, accepted>>

\* A query with these credentials is running: wait for it too.
Join(i, a) ==
    /\ ~CacheHit(i, a)
    /\ exec
    /\ ~Abandons(i)
    /\ json_pid # NoPid
    /\ lovers' = AfterClearHash
    /\ told' = Told(lovers \ lovers')
    /\ waiters' = waiters \cup {i}
    /\ verdict' = Answer({i}, "pending")
    /\ list' = [list EXCEPT ![i] = NoCreds]
    /\ UNCHANGED <<exec, creds, json_pid, json_watch, json_stream,
                   pass_stream, subservers, sources, writing, tool, ranWith,
                   accepted>>

\* No query is running, or the running one is abandoned.
NeedsQuery(i, a) ==
    /\ ~CacheHit(i, a)
    /\ exec
    /\ Abandons(i) \/ json_pid = NoPid

\* The child p is spawned, watched, and the password is on its way to it.
Start(i, a, p) ==
    /\ NeedsQuery(i, a)
    /\ FreshPid(p)
    /\ lovers' = AfterClearHash
    /\ told' = Told(lovers \ lovers')
    /\ creds' = i.creds
    /\ waiters' = (waiters \ Flushed(i)) \cup {i}
    /\ verdict' = [Answer(Flushed(i), "refused") EXCEPT ![i] = "pending"]
    /\ list' = [Listing(Flushed(i), lovers', subservers) EXCEPT ![i] = NoCreds]
    /\ json_pid' = p
    /\ json_watch' = p
    /\ json_stream' = p
    /\ pass_stream' = p
    /\ sources' = SourcesLeft(i) \cup {p}
    /\ writing' = writing \cup {p}
    /\ tool' = [ToolsLeft(i) EXCEPT ![p] = "reading"]
    /\ ranWith' = [RanLeft(i) EXCEPT ![p] = i.creds]
    /\ UNCHANGED <<exec, subservers, accepted>>

\* The spawn fails: everyone waiting is refused, the credentials stay.
StartFails(i, a) ==
    /\ NeedsQuery(i, a)
    /\ lovers' = AfterClearHash
    /\ told' = Told(lovers \ lovers')
    /\ creds' = i.creds
    /\ waiters' = {}
    /\ verdict' = Answer(waiters \cup {i}, "refused")
    /\ list' = Listing(waiters \cup {i}, lovers', subservers)
    /\ json_pid' = NoPid
    /\ json_watch' = FieldLeft(i, json_watch)
    /\ json_stream' = FieldLeft(i, json_stream)
    /\ pass_stream' = FieldLeft(i, pass_stream)
    /\ sources' = SourcesLeft(i)
    /\ tool' = ToolsLeft(i)
    /\ ranWith' = RanLeft(i)
    /\ UNCHANGED <<exec, subservers, writing, accepted>>

Unlock(i, a) ==
    /\ verdict[i] # "pending"
    /\ \/ UnlockCached(i, a)
       \/ UnlockIgnored(i, a)
       \/ Join(i, a)
       \/ \E p \in Pids : Start(i, a, p)
       \/ StartFails(i, a)

-----------------------------------------------------------------------------
(***************************************************************************)
(* The main loop's callbacks.                                              *)
(***************************************************************************)

\* Closing the stream the password went through is the end of file the tool
\* reads its stdin up to.
StdinClosed_Forgotten(p) == tool

StdinClosed(p) ==
    [tool EXCEPT ![p] = IF @ = "reading" THEN "answering" ELSE @]

\* The password is in the pipe.
PasswordWriteCb(p) ==
    /\ p \in writing
    /\ writing' = writing \ {p}
    /\ tool' = StdinClosed(p)
    /\ told' = {}
    /\ UNCHANGED <<serverVars, verdict, list, sources, ranWith, accepted>>

\* json_grab_cb, once the watched child has exited.  The stream it parses is
\* that of the child it is called for (WatchedQuery below).
JsonGrabCb(p) ==
    /\ p \in sources
    /\ tool[p] \in Outcomes
    /\ json_pid' = NoPid
    /\ json_watch' = NoPid
    /\ json_stream' = NoPid
    /\ pass_stream' = NoPid
    /\ sources' = sources \ {p}
    /\ tool' = [tool EXCEPT ![p] = "none"]
    /\ creds' = IF tool[p] = "failed" THEN NoCreds ELSE creds
    /\ subservers' = IF Replaces(tool[p]) THEN ranWith[p] ELSE subservers
    /\ waiters' = {}
    /\ lovers' = IF Passes(tool[p])
                 THEN lovers \cup {i.sender : i \in waiters} ELSE lovers
    /\ verdict' = Answer(waiters, IF Passes(tool[p]) THEN "granted" ELSE "refused")
    /\ list' = Listing(waiters, lovers', subservers')
    /\ accepted' = IF Passes(tool[p]) THEN accepted \cup {ranWith[p]} ELSE accepted
    /\ told' = {}
    /\ ranWith' = [ranWith EXCEPT ![p] = NoCreds]
    /\ UNCHANGED <<exec, writing>>

-----------------------------------------------------------------------------
(***************************************************************************)
(* The query tool.  It may exit before it has read its stdin; nothing      *)
(* reads its stdout before it exits, so once the pipe is full it waits     *)
(* until the read end goes away.                                           *)
(***************************************************************************)
ToolExits(p, o) ==
    /\ \/ tool[p] \in {"reading", "answering"}
       \/ tool[p] = "blocked" /\ json_stream # p
    /\ tool' = [tool EXCEPT ![p] = IF p \in sources THEN o ELSE "none"]
    /\ ranWith' = [ranWith EXCEPT ![p] = IF p \in sources THEN @ ELSE NoCreds]
    /\ told' = {}
    /\ UNCHANGED <<serverVars, verdict, list, sources, writing, accepted>>

ToolFillsPipe(p) ==
    /\ PipeMayFill
    /\ tool[p] = "answering"
    /\ tool' = [tool EXCEPT ![p] = "blocked"]
    /\ told' = {}
    /\ UNCHANGED <<serverVars, verdict, list, sources, writing, ranWith, accepted>>

-----------------------------------------------------------------------------
Next ==
    \/ \E i \in Calls, a \in CacheChoices : Unlock(i, a)
    \/ \E p \in Pids :
         \/ PasswordWriteCb(p)
         \/ JsonGrabCb(p)
         \/ ToolFillsPipe(p)
         \/ \E o \in Outcomes : ToolExits(p, o)

Spec == Init /\ [][Next]_vars

(***************************************************************************)
(* The main loop dispatches every source that stays ready, and a tool that *)
(* has read its stdin to the end finishes unless it is stuck on its pipe.  *)
(* Nothing obliges a client to call.                                       *)
(***************************************************************************)
ToolAnswers(p) == tool[p] = "answering" /\ \E o \in Outcomes : ToolExits(p, o)

Fairness ==
    \A p \in Pids : /\ WF_vars(PasswordWriteCb(p))
                    /\ WF_vars(JsonGrabCb(p))
                    /\ WF_vars(ToolAnswers(p))

FairSpec == Spec /\ Fairness

-----------------------------------------------------------------------------
(***************************************************************************)
(* Properties                                                              *)
(***************************************************************************)

\* What the server knows of its query is one child: the pid, the watch and
\* both streams are set and cleared together, and the main loop watches that
\* child and no other (uccs_server_unlock, clear_json, json_grab_cb).
WatchedQuery ==
    /\ json_watch = json_pid
    /\ json_stream = json_pid
    /\ pass_stream = json_pid
    /\ sources = {json_pid} \ {NoPid}

\* Callers only wait while a query is out, and that query was started with
\* the credentials each of them presented: the json_waiters of an earlier
\* user are never left to be answered by a later user's query.
WaitersShareTheQuery ==
    waiters # {} => /\ json_pid # NoPid
                    /\ ranWith[json_pid] = creds
                    /\ \A i \in waiters : i.creds = creds

\* A call without an answer is in json_waiters, and nothing answers a call
\* twice: json_waiters holds no call that has its answer.
NobodyIsForgotten == exec => waiters = {i \in Calls : verdict[i] = "pending"}

\* A call that had to wait is granted only by the good exit of a query that
\* ran with the call's own credentials (json_grab_cb), whatever queries were
\* abandoned in the meantime and are still to exit.
QueryGrantsAreEarned ==
    [][\A i \in waiters : verdict'[i] = "granted" =>
          \E p \in sources \ sources' : /\ tool[p] \in {"noList", "list"}
                                       /\ ranWith[p] = i.creds]_vars

\* The held list is only ever replaced by one fetched with the credentials
\* the server holds: an abandoned query's output never reaches parse_json.
ListIsFetchedByTheHolder ==
    [][subservers' # subservers => subservers' = creds]_vars

\* loginSuccess is TRUE only for credentials a query has come back good for.
GrantedIsAccepted ==
    \A i \in Calls : verdict[i] = "granted" => i.creds \in accepted

\* Whoever may see the list has been granted the credentials it is held under.
LoversWereGranted ==
    \A s \in lovers :
        \E i \in Calls : /\ i.sender = s
                        /\ i.creds = creds
                        /\ verdict[i] = "granted"

\* A refusal carries no servers.
RefusedGetsNothing ==
    \A i \in Calls : verdict[i] = "refused" => list[i] = NoCreds

\* When the credentials change, the people who had the old ones are dropped
\* (the comment above clear_hash's call in uccs_server_unlock).
ChangeDropsLovers ==
    [][creds' \notin {creds, NoCreds} => lovers \cap lovers' = {}]_vars

\* Whoever is dropped from the lovers is sent LoginChanged.
DroppedCallersAreTold == [][lovers \ lovers' \subseteq told']_vars

\* A call stays without an answer in two ways only: the service has no query
\* tool (the return after the cache in uccs_server_unlock), or the tool is
\* stuck on its stdout, which nobody reads before it exits (json_grab_cb).  In
\* any other state the child the call waits for is watched and has its next
\* step before it: it is being sent its end of file, it is answering, or its
\* exit waits in the main loop.
Advances(p) ==
    /\ p \in sources
    /\ \/ tool[p] = "reading" /\ p \in writing
       \/ tool[p] = "answering"
       \/ tool[p] \in Outcomes

HangsInTwoWays ==
    \A i \in Calls : verdict[i] = "pending" =>
        \/ ~exec
        \/ json_pid \in Pids /\ (Advances(json_pid) \/ tool[json_pid] = "blocked")

\* A call that waited and is shown a list somebody else's query fetched was
\* answered by a query that printed none: no other outcome leaves the list of
\* the user before in place for the next one (parse_json, json_grab_cb).
KeptListOnlyWithoutOwn ==
    [][\A i \in waiters : list'[i] \notin {NoCreds, i.creds} =>
          \E p \in sources \ sources' : tool[p] = "noList"]_vars

\* Every GetServersForLogin call is answered.
EveryCallAnswered ==
    \A i \in Calls : verdict[i] = "pending" ~> verdict[i] # "pending"

\* The unlocking implements SingleFlight: the pair in flight is the pair the
\* server holds whenever it has a child.
Flight == INSTANCE SingleFlight
          WITH held <- creds, inFlight <- json_pid # NoPid

\* Every step is a step of SingleFlight or leaves it alone.
ImplementsFlight == Flight!Spec

\* And every query that is not pre-empted lands.
ImplementsFairFlight == Flight!FairSpec
=============================================================================
