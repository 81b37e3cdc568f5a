# remote-logon-service in TLA+

`remote-logon-service` is a D-Bus session service.  A login screen asks it
which remote desktop servers there are; for a *UCCS* server it presents a
username and a password and gets the list of machines that user may log into.
The service is single-threaded C on GLib: one main loop dispatches D-Bus calls,
NetworkManager notifications, replies of libsoup and the exits of child
processes.  What makes it hard is what happens between two dispatches.

All paths below are relative to the repository's root; the code is in `src/`.

## The system

| part | state it keeps | operations | talks to |
|---|---|---|---|
| Unlocking (`uccs-server.c`, `main.c`) | `username`/`password`, `lovers` (bus names that may see the list), `json_waiters`, `json_pid`, `json_watch`, `json_stream`, `pass_stream`, `subservers` | `uccs_server_unlock`, `clear_hash`, `clear_json`, `password_write_cb`, `json_grab_cb`, `parse_json`, `json_waiters_notify`, `uccs_server_get_servers` | the query tool (argv, stdin, stdout, exit status), D-Bus replies, `LoginChanged` signals |
| Network and verification (`uccs-server.c`, `main.c`) | `last_network`, `min_network`, `verify_server`, `verified_server`, `parent.state`, messages in the soup session | `nm_state_changed`, `verify_server`, `verify_server_cb`, `uccs_notify_state_change`, `server_status_updated` | NMClient, libsoup, `ServersUpdated` broadcasts |
| Last used server (`uccs-server.c`, `server.c`) | `last_used` of every server, one encrypted file per username | `server_set_last_used_server`, `set_last_used_server`, the first half of `uccs_server_get_servers`, `DefaultServer` in `parse_json` | the user's cache directory, libgcrypt |
| D-Bus front end (`main.c`, the XML) | `config_file_servers` | `handle_get_servers`, `handle_get_servers_login`, `handle_get_domains`, `handle_set_last_used_server`, `find_config_file`, `name_lost` | all of the above, and the greeters on the session bus |
| Server construction (`server.c`, `rdp-`, `citrix-`, `x2go-server.c`, `uccs-server.c`) | the fields of one server | `server_new_from_keyfile`, `server_new_from_json` and the constructors of each kind, `parse_rds_array`, `get_properties`, `server_get_variant` | GKeyFile, json-glib |
| File encryption (`crypt.c`) | none | `setup_cipher`, `do_aes_encrypt`, `do_aes_decrypt` | libgcrypt |

Who calls whom: the front end looks the UCCS server up by URI and calls
`uccs_server_unlock` with a callback; the callback builds the reply from
`uccs_server_get_servers`, which reads the lovers, the held list and the cache
file.  A change of `parent.state` is a GObject signal the front end turns into a
broadcast of every available server.

What is hard about it, and what has to hold (the full list, with lines, is
`hazards` in `PROJECT.json`):

- **Queries overlap.**  A login with other credentials abandons the running
  query without killing its child.  Nothing of the old child (watch, stream,
  waiters, output) may touch the new login.
- **Everyone waits for one child.**  Calls pile up in `json_waiters`; each has
  to be answered, once, by a query of its own credentials.
- **The cache answers from what is stored**, and storing, confirming and
  forgetting credentials are different steps.
- **Permission outlives its reason.**  `lovers`, `subservers` and the
  credentials are cleared in different places.
- **Two asynchronous sources decide what is offered**: network changes and HEAD
  replies, among them the cancellations of an abort, which arrive after it.
- **A choice survives restarts** in a file keyed by username and password, and
  has to be found again in a list that may have changed.
- **Greeters hold copies.**  A greeter subscribes to `ServersUpdated` and calls
  `GetServers` whenever it likes; its answer and the broadcasts race, and the
  service may be restarted under its feet.
- **Input comes from outside**: a configuration file, the JSON a query tool
  prints.  One bad entry must not cost a good one, and a rejected output must
  not leave half of itself behind.

## The modules

    ServerFactory   what a listed server is made of and shown as
    Selection       loops over a list that skip entries
      QueryOutput   parse_json, parse_rds_array: the ends of a query
        UccsUnlock        logins          implements  SingleFlight
        LastUsed          the choice      (with Configuration)
      Configuration find_config_file and the lookups by URI
    Crypt           keys, blocks and padding of the file
    PureFunctions   hands inputs to QueryOutput, Configuration and Crypt
    UccsNetwork     which UCCS servers are offered
      RemoteLogon         greeters and the bus  implements  ServerLists

An indented module EXTENDS the one above it, `QueryOutput` both of those above.
`ServerFactory`, `Selection`, `QueryOutput`, `Configuration` and `Crypt` are pure
operators; the others are state machines.

`UccsUnlock` is the core: one UCCS server, its callers and the query tool.

| model | code |
|---|---|
| `Unlock(i, a)`: `UnlockCached`, `UnlockIgnored`, `Join`, `Start`, `StartFails` | `uccs_server_unlock` with `allowcache = a`, one action per way it returns, each with everything `clear_hash`, `clear_json` and the spawn do on that way |
| `PasswordWriteCb(p)` | `password_write_cb`: closing the stream is the tool's end of file |
| `JsonGrabCb(p)` | `json_grab_cb` with `parse_json`, `json_waiters_notify` and the replies built by `uccs_server_get_servers` |
| `ToolExits`, `ToolFillsPipe` | the environment: the query tool may exit at any time with any outcome, may never read its stdin, and may write more than its stdout pipe holds |
| `Outcomes` (in `QueryOutput`) | the five ends of a query the code tells apart; `OutcomeOf` says which one an exit status and an output are, and `OutcomeAlwaysDecides` proves that the verdict and the fate of the held list follow from it |
| `lovers`, `waiters`, `json_pid`, ... | the fields of the same name; `creds` is the pair, which the code always sets and clears together |
| `verdict`, `list` | what a call was answered: `loginSuccess` and whose list |
| `sources`, `writing`, `tool`, `ranWith` | the main loop's child watches, the unfinished password writes, the children |
| `told` | to whom the last handler sent `LoginChanged`; a name with dots is refused by GLib (`IsMemberName`) |
| `accepted` | history, read by properties only |

`JsonGrabCb(p)` uses `ranWith[p]` for the stream it parses; that this is the
stream of the exited child is `WatchedQuery`, checked and proved.

`SingleFlight` is what unlocking promises, without child, pipes and main loop:
one pair of credentials, at most one query in flight, for that pair.
`UccsUnlock` implements it under `held <- creds`, `inFlight <- json_pid # NoPid`,
`verdict <- verdict`.

`UccsNetwork` has one action for a change of the NMClient (all servers' handlers
run in one emission), one for a HEAD reply and one for the cancellation of an
aborted HEAD.  `Reported` and `Judged` are the two case distinctions of
`nm_state_changed` and `uccs_notify_state_change`.  `Start` is everything up to
the main loop: the servers are made, with any configuration (`NetworkRequired`,
`VerifyServer`, URI, NMClient or none), look at the network, verify themselves,
and the list is broadcast.  `StartUnconfigured` is the early return for a file
that cannot be read, `Stop` the end of the process by `name_lost` or a crash;
nothing survives it.  When several servers' handlers run in one emission each
sends a broadcast; only the last is kept, which carries the states the emission
ends with.  Servers of other kinds are always offered and are left out.

`RemoteLogon` adds the greeters: who subscribed, whose `GetServers` call waits in
the main loop, what is on the bus to each client, and the list a client read
last.  The service's actions are those of `UccsNetwork`, each with its broadcast
(`server_status_updated` is connected to every server's state-changed signal),
and `HandleGetServers`.  The bus keeps the order of what the service sends to one
client; calls may be overtaken by anything.  `ServerLists` is what the interface
promises: an answer is the list offered, every change is sent to every
subscriber, in order.  `RemoteLogon` implements it under
`live <- service = "running"`, `offered <- Available(state)`.

`ServerFactory` has the three constructors from JSON, `get_properties` of the four
kinds and `server_get_variant`; a string that may be NULL is a set of at most one
string.  `QueryOutput` is `parse_json`, with the marks a `DefaultServer` sets and
the case of a malformed list that leaves the held one in place.  `Configuration`
is `find_config_file` with the keyfile constructors, and the lookups by URI, each
translated from the loop of its own handler.  `Domains` is what
`GetCachedDomainsForServer` answers, an empty list for every URI; no property is
about it.  `Crypt` models a CBC block by its key
and the text up to its end, and another key's result by bytes that are none.

`Selection` is the shape that `parse_rds_array` and `find_config_file` share: a loop
that skips some entries of a list and appends something for each of the others.
`Turns` is what has been appended after each of its turns, a recursive function,
and `Kept` the result.  `PureFunctions` has no state of the service: each of its
steps hands one input (a JSON object; an exit status, an output and a held list;
a configuration file; a text and passwords) to the operators, whose properties are
its invariants.  Its constants are the inputs, of any size; `MCFunctions` gives TLC
the small ones.

`LastUsed` has the lists, the flags, the files and `SetLastUsedServer`, by the
three ways a URI can match (`MarkOwn`, `MarkListed`, `MarkNothing`), and a
restart that loses everything but the disk.  Its servers are what
`find_config_file` makes of a file, its queries are outputs of the tool that go
through `QueryOutput`, and a write may fail.  Logins are there only as far as
they touch these.  A file opens with a password that has the same key (`KeyOf`:
the first 16 bytes) and is taken to hold no entry otherwise.  A nameless choice,
or one on a nameless UCCS server, leaves a file without an entry (`EmptyFile`):
GLib refuses to set the key.

`MC*` modules give TLC the values a cfg cannot write; `*_proofs` modules hold the
theorems.  Operators named `Operator_What` before an operator of the same stem
are plausible slips of the code; no action uses them, and each is refuted by a
property when put in the operator's place.

## What is checked

| run | what it asks | instance |
|---|---|---|
| `unlock_cached` | one query, own waiters, nobody forgotten, grants earned, list fetched by the holder, `SingleFlight` implemented | 2 clients, 2 pairs, cache on and off, 2 children, tool present |
| `unlock_network` | without the cache: only confirmed credentials are granted, only granted callers see a list; the two ways a call can hang, and the one way another user's list is shown | 2 clients, 2 pairs, 2 children, tool present or missing, pipe may fill |
| `unlock_answered` | every call is answered; `SingleFlight` with fairness is implemented | 1 client with 2 equal calls of one pair and 1 of another, 2 children |
| `network_offer` | states, broadcasts and the greeter's list are current, old requests are harmless, `ServerLists` is implemented | 2 servers in any configuration, 2 open HEADs each, 4 network states and a stopped NetworkManager, 1 greeter, any restarts |
| `network_converges` | a reachable server is offered, and shown to a subscriber, in the end | 1 server, 2 open HEADs, status 200, 1 greeter |
| `lastused_one_server` | the last choice is the one mark shown, or the first server of its name; the file is the latest choice | 1 UCCS server, 2 users, 3 passwords (2 with one key), 9 outputs, one with a name twice, writes that may fail |
| `functions` | constructors, listing, parsing, lookups and encryption on every small input | objects with a member missing and another of any type, arrays of up to 3 entries, files with 2 groups and up to 3 names, texts of up to 2 blocks |

The runs that expect a violation are described further down.

`unlock_network` turns deadlock checking off: with the tool missing and every
call pending, or every tool stuck, nothing can happen any more, and that is how
the code is.

**Bounds.**  Two pairs of credentials are enough for a query to be abandoned
and come back to, two clients for one to profit from the other's login.  Two
children: the abandoned one and the current one; an abandoned child touches
nothing but its own pipes, so a third one adds nothing to the server's state,
and the proofs are for any number.  `StartFails` is possible whenever a query is
needed, also when both children are busy.  Two equal calls of one client are
what makes `Join` interesting in `unlock_answered`, and its third call, with
another pair, is what abandons a query and comes in between; in the other runs the two
clients join each other.  Two open HEADs give an outdated one and a current one
that race.  Four network states: below, at and between the two that
`NetworkRequired` may ask for, and the greatest; `Stopped` is 0, the state an
NMClient has (`NM_STATE_UNKNOWN`) when NetworkManager is not running.

One greeter is enough, as greeters do not meet; the proofs are for any number.
`InboxLength` guards only what the environment does (network changes, starts,
calls), so the service's own answers and broadcasts are never held back: a HEAD
reply or an answer may still be added to a full inbox, so lists do pile up.

In `functions` a block is two bytes, which gives texts that end before, at and
after the end of a block and passwords that are shorter and longer than a key;
`WhatIsWrittenIsRead` proves the same for every length, as the other theorems of
`Functions_proofs` do for lists, files and objects of any size.

Symmetry is used for invariants and box properties only.  In `UccsUnlock`
clients, pairs and children are interchangeable; in `RemoteLogon` servers,
messages and clients are.

**Fairness.**  In `UccsUnlock` the main loop dispatches a source that stays
ready, so `PasswordWriteCb` and `JsonGrabCb` are weakly fair; a tool whose stdin
is closed finishes (`ToolAnswers`), unless it is stuck on its pipe, which
`unlock_answered` excludes.  A tool that reads its stdin has no fairness: that
its stdin gets closed is what the code has to see to.  Clients owe nothing; a
call is answered even if the client's next ones pre-empt it.  In `RemoteLogon`
libsoup finishes every message, the main loop serves every call and the bus
delivers what it was given.  NetworkManager, clients and whoever starts the
service owe nothing: `EventuallyOffered` and `EventuallyShown` are conditional on
a service and a network that stay up, and `EventuallyShown` on a client that
subscribed and was sent anything since.

## Where code and documentation disagree

Each run finds a behaviour of the code that contradicts the line `findings`
quotes.

- `unlock_early_grant`: the credentials are stored before they are verified, so
  the next call with the same ones and `allowCache` is granted at once.
- `unlock_stale_lovers`: a failed query sets the username to NULL, and with it
  switches `clear_hash` off: the next change of credentials keeps the lovers.
- `unlock_untold`: `LoginChanged` is emitted under a name GLib does not accept.
- `network_asleep`: `NetworkRequired=none` still wants NetworkManager awake, as
  `NM_STATE_ASLEEP` is below `NM_STATE_DISCONNECTED`.
- `lastused_two_servers`: the choice on one UCCS server erases the choice made
  under the same username on another.

More behaviours are in the models that no line of the repository clearly
contradicts.  Properties say exactly how far they go: a call hangs when the tool
was not found or is stuck on its pipe, and in no other way (`HangsInTwoWays`);
the list of an earlier user is shown after a query that printed none, and in no
other way (`KeptListOnlyWithoutOwn`).  The wrong one of two listed servers with
one name may be marked, but it is the first one and the only mark
(`ChosenNameIsShown`); an unknown UCCS URI makes `SetLastUsedServer` use the
last configured server, and `LookupsAgree` is about URIs that are found.  A service
that is started again with a file it cannot read sends nothing, and its clients
keep their lists: `ClientsAreCurrent` is about configured services.

## What is proved

For every value of the constants that satisfies the named assumptions, with no
bound on clients, credentials, children, servers or messages:

- `UccsUnlock_proofs`: `TypeOK`, `WatchedQuery`, `WaitersShareTheQuery`,
  `NobodyIsForgotten`, `QueryGrantsAreEarned`, `ListIsFetchedByTheHolder`; that
  every step is a step or a stutter of `SingleFlight` when the tool is found
  (`ExecChoices \subseteq {TRUE}`); and, when no client allows the cache
  (`CacheChoices \subseteq {FALSE}`), `GrantedIsAccepted`, `LoversWereGranted`,
  `RefusedGetsNothing` and `KeptListOnlyWithoutOwn`.  `HangsInTwoWays` is proved
  without either assumption.

  The inductive invariant is `QueryInv`.  `WatchedQuery` alone is not inductive
  enough to follow the grants: one has to know that the watched child was started
  with the credentials now held (`ChildRunsHeld`), that its record has not been
  cleaned up (`WatchedChild`) and that without a tool there is no query
  (`NoToolNoQuery`).  Then an abandoning login is where the work is: `FlushedAll`
  shows that it leaves neither watch nor waiters, so `Start` begins from an empty
  slate.  `NoCacheInv` adds that nobody may see a list while a query is out or
  the server holds no credentials (`NobodyLovesYet`); it needs the absence of cached logins, and
  the runs `unlock_early_grant` and `unlock_stale_lovers` show that it does.

- `SingleFlight_proofs`: its types, and `WaitsForItsOwn`: nobody waits for a
  query of other credentials.

- `UccsNetwork_proofs`: `TypeOK`, `StateIsCurrent`, `AnnouncedIsCurrent`,
  `CancellationsAreHarmless`, `VerifiedOnThisNetwork`.  The inductive invariant
  `NetworkInv` adds that every request from before the last disconnection is a
  cancelled one (`OutdatedAreCancelled`), which is what the abort is for, and
  that a server without an NMClient has no request (`NoClientNoHead`).

- `RemoteLogon_proofs`: a behaviour of the whole is one of `UccsNetwork`
  (`ServiceIsNetwork`), so that module's theorems hold for it; the types;
  `ClientsAreCurrent`; and `KeepsItsPromise`.  `ClientsAreCurrent` is inductive
  with the network's invariants: a state change is broadcast in its own step
  (`ToldInforms`), an answer is read off the same states (`NewestAppended`), and
  reading does not change what is newest (`NewestRead`).  The refinement needs
  that only a running service has requests under way (`OnlyRunningAsks`), so
  that a reply to one is a change the promise allows.

- `Selection_proofs`: `KeepsWhatItShould`, what a loop that skips entries yields for
  a list of any length: each kept entry is at the place that the number of kept
  entries up to it gives, and there is nothing else.  The library's induction
  theorems take an operator as a parameter and cannot be used; instead, the set of
  the turns after which the loop has done its work contains 0 and with every number
  the next (`UpToInduction`), which follows from a least element of any set of
  naturals (`LeastNatural`), itself from the well-foundedness of `<`.  That the
  recursion defines a function at all (`LoopDefined`) is proved in the same way.

- `QueryOutput_proofs`: for every object and every output, the facts behind
  `IllTypedIsAbsent`, `ReadsBack`, `OutcomeDecides`, `OneDefault` and
  `EveryGoodEntry`.  `ReadsBack` goes member by member through what a client is
  shown (`ReadBackMembers`, `ShownAlike`).  `OneDefault` needs that a name that is
  found has one first position, hence that a parsed list is a sequence
  (`ParsedIsSequence`); `EveryGoodEntry` needs that a node makes one server at most,
  as no protocol is of two kinds (`OneServer`).

- `Functions_proofs`: the eight properties of `PureFunctions` as invariants of its
  specification, for sets of inputs of any size.  `OutcomeDecides` is the link
  between `QueryOutput` and the five outcomes of `UccsUnlock`.
  `LookupsAgree` compares two loops: a login goes to the first UCCS server with the
  URI, a choice to the last server its own loop visits, which is that one because the
  loop leaves there (`LookupsAlwaysAgree`); it needs that the servers are numbered
  from 1 on, whatever names were skipped (`ServersAreNumbered`).
  `ConfiguredIsReached` finds the first server with the URI (`LeastNatural` again)
  and follows it back to the group it was made of (`AlwaysReached`, `UccsGroups`).
  `ReadsWhatWasWritten` is for every text of bytes other than 0, all passwords with
  one key and every block length, by way of the padded text (`DecryptedIsPadded`).
  Assumed is what the libraries' parsers yield: the value of an array, and the
  names of a main group, are sequences; there is one main group at most.

- `LastUsed_proofs`: `TypeOK`, with the lemmas that a search in a list yields
  positions of that list; `FileIsLatestChoice`; `ChosenNameIsShown`, for any
  lists and any number of UCCS servers (the run has one); and `ChosenIsShown` for
  one UCCS server (`OneUccsServer`).  The inductive invariant is `ChoiceInv`.  Its
  core is `Durable`: the choice of a user who chose on one server only is the file,
  or has left it without an entry.  A second server's choice ends that for both, so
  nothing has to be known of the order in which they were made.  That the name
  in the file marks one entry takes the first of the entries with that name
  (`FirstFound`), in a list that is a sequence (`ListsAreSequences`).

Only model-checked: the liveness properties and `ImplementsFairFlight`, as fairness
is out of the proof system's reach.  Every other property that a passing run checks
is a theorem, `GrantedIsAccepted`, `LoversWereGranted`, `RefusedGetsNothing` and
`KeptListOnlyWithoutOwn` without the cache, `ChosenIsShown` for one UCCS server, as
in the runs.  That `OutdatedAreCancelled` rests on libsoup delivering an
abort's cancellations before later replies is an assumption of the model
(`HeadReplied`).

## What is not modelled

- `SetApplicationsForServer` has no handler in `main.c`, and nothing emits
  `LoginServersUpdated`.
- `x2go_server_new_from_keyfile` is never called: the Type X2GO of the
  configuration makes a UCCS server, which the model has.
- The message catalogue: the `Name` of a configured server goes through gettext, and
  the models have what comes out of it, the same before and after a restart.
- Failing writes of the password (`password_write_cb` leaves stdin open then).
- The cipher itself, and failures of libgcrypt.  A file opened with a wrong key
  is taken to yield no entry.
- `dispose` and `finalize`: the service keeps its servers until it exits.
- Failures of memory, of the session bus and of pipes other than those named.
  Reading the tool's output blocks until its end of file; it is taken to end with
  the tool's exit.
- The broadcasts between the first and the last of one NMClient emission.
- The `last_used` flag of a configured server in broadcasts: `RemoteLogon`
  compares which servers are listed, not their flags.
- Several UCCS servers in one process share nothing the unlocking touches but
  the environment of their children, set just before each spawn; `UccsUnlock`
  models one.

## Plan

Done: `UccsUnlock` with `SingleFlight`; `UccsNetwork`; `LastUsed`; `ServerFactory`,
`Selection`, `QueryOutput`, `Configuration` and `Crypt` with `PureFunctions`;
`RemoteLogon` with `ServerLists`; their runs, and the proofs above.  Left:

1. The composition of `RemoteLogon` with one `UccsUnlock` per server.  They share
   only the list of configured servers, so it would show little new.
2. The broadcasts of one NMClient emission one by one, with the intermediate
   lists, as actions of `RemoteLogon`.
