------------------------------ MODULE LastUsed ------------------------------
(***************************************************************************)
(* The last used server: the last_used flags of the servers a UCCS server  *)
(* lists, SetLastUsedServer, and the file in the user's cache directory    *)
(* that carries the choice over a restart (src/src/uccs-server.c,          *)
(* src/src/server.c, src/src/main.c, src/src/crypt.c).                     *)
(*                                                                         *)
(* UccsUnlock models how logins and queries meet; here only what the end   *)
(* of a query does to the list, the flags and the credentials is kept.     *)
(* Every answered login runs uccs_server_get_servers, so showing the list  *)
(* is part of it.  A server is its position in the configuration.          *)
(***************************************************************************)
EXTENDS QueryOutput, Configuration

CONSTANTS
    Config,         \* the servers that find_config_file found
    Users, Passwords,
    KeyOf,          \* the 16 bytes of a password that make the AES key
    Outputs,        \* outputs of the query tool
    Requests,       \* URIs that clients pass
    NoCreds,        \* NULL in username and password
    NoFile,         \* a file that is not there
    EmptyFile,      \* a file without an entry
    Nothing,        \* nothing shown, or nothing chosen
    WriteResults    \* whether writing the file succeeds

ConfigServers == DOMAIN Config

UccsServers == {s \in ConfigServers : Config[s].kind = "uccs"}

Creds == [user : Users, password : Passwords]

\* What may be listed: nothing at first, then what some output had in it.
Lists ==
    {<<>>} \cup {ParseRdsArray(o.value.RemoteDesktopServers.value) :
                    o \in {q \in Outputs : /\ HasServers(q)
                                           /\ q.value.RemoteDesktopServers.type = "array"}}

ASSUME OutputsAssumption == \A o \in Outputs : IsParsed(o)

ASSUME LastUsedAssumption ==
    /\ Config \in Seq({Config[s] : s \in ConfigServers}) /\ Config # <<>>
    /\ KeyOf \in [Passwords -> Passwords]
    /\ NoCreds \notin Creds
    /\ WriteResults \subseteq BOOLEAN

VARIABLES
    creds,     \* what each server holds
    list,      \* subservers of each server
    last_used, \* the entries of its list that carry the flag
    own,       \* the configured servers that carry it themselves
    disk,      \* one encrypted file per username
    chosen,    \* history: what was last written for a server and a user
    reply      \* the list the last handler answered with

vars == <<creds, list, last_used, own, disk, chosen, reply>>

Entries == UNION {{l[k] : k \in DOMAIN l} : l \in Lists}

Names == {e.name : e \in Entries}

Files == [key : Passwords, group : {Config[s].name : s \in ConfigServers}, name : Names]

Choices == [key : Passwords, name : Names, uri : {e.uri : e \in Entries}]

ASSUME SentinelsAssumption ==
    /\ NoFile \notin Files /\ EmptyFile \notin Files
    /\ Nothing \notin Choices

TypeOK ==
    /\ creds \in [ConfigServers -> Creds \cup {NoCreds}]
    /\ list \in [ConfigServers -> Lists]
    /\ DOMAIN last_used = ConfigServers
    /\ \A s \in ConfigServers : last_used[s] \subseteq DOMAIN list[s]
    /\ own \subseteq ConfigServers
    /\ disk \in [Users -> Files \cup {NoFile, EmptyFile}]
    /\ chosen \in [ConfigServers \X Users -> Choices \cup {Nothing}]

Init ==
    /\ creds = [s \in ConfigServers |-> NoCreds]
    /\ list = [s \in ConfigServers |-> <<>>]
    /\ last_used = [s \in ConfigServers |-> {}]
    /\ own = {}
    /\ disk = [u \in Users |-> NoFile]
    /\ chosen = [x \in ConfigServers \X Users |-> Nothing]
    /\ reply = Nothing

-----------------------------------------------------------------------------
\* The name in the user's file, if it opens with the password held and its
\* group is this server's name.  Another key yields no key file.
Remembered(s, c) ==
    IF /\ c # NoCreds
       /\ disk[c.user] \notin {NoFile, EmptyFile}
       /\ disk[c.user].key = KeyOf[c.password]
       /\ disk[c.user].group = Config[s].name
    THEN disk[c.user].name ELSE {}

\* Variants named Operator_What are plausible slips of the code, kept to show
\* that the properties below tell them from the code.  No action uses them.
Flags_Added(s, c, l, flags) ==
    flags \cup UNION {Named(l, name) : name \in Remembered(s, c)}

\* uccs_server_get_servers: the remembered entry, if it is listed, becomes the
\* only one that carries the flag.
Flags(s, c, l, flags) ==
    LET found == UNION {Named(l, name) : name \in Remembered(s, c)}
    IN  IF found = {} THEN flags ELSE found

\* A login is answered with list l, whose flags were set by the query.
Shows(s, l, flags) ==
    /\ list' = [list EXCEPT ![s] = l]
    /\ last_used' = [last_used EXCEPT ![s] = Flags(s, creds[s], l, flags)]
    /\ reply' = [server |-> s, creds |-> creds[s], list |-> l,
                 last_used |-> Flags(s, creds[s], l, flags)]
    /\ UNCHANGED <<creds, own, disk, chosen>>

-----------------------------------------------------------------------------
\* uccs_server_unlock with other credentials: they are held from here on, the
\* list of the earlier login with them.
LogIn(s, c) ==
    /\ c # creds[s]
    /\ creds' = [creds EXCEPT ![s] = c]
    /\ reply' = Nothing
    /\ UNCHANGED <<list, last_used, own, disk, chosen>>

\* The list is shown without a query, or by a refusal: to a caller who used
\* the cache, or who may see the list for an earlier login.
ShowHeld(s) == Shows(s, list[s], last_used[s])

\* json_grab_cb with exit status 0 and output o: everyone who waited is shown
\* the list, or refused.
QueryEnds(s, o) ==
    LET result == QueryResult(0, o, list[s], last_used[s])
    IN  /\ creds[s] # NoCreds
        /\ \/ result.passed /\ Shows(s, result.list, result.flags)
           \/ /\ ~result.passed
              /\ list' = [list EXCEPT ![s] = result.list]
              /\ last_used' = [last_used EXCEPT ![s] = result.flags]
              /\ reply' = Nothing
              /\ UNCHANGED <<creds, own, disk, chosen>>

\* json_grab_cb with another exit status.
QueryFails(s) ==
    /\ creds[s] # NoCreds
    /\ creds' = [creds EXCEPT ![s] = NoCreds]
    /\ reply' = Nothing
    /\ UNCHANGED <<list, last_used, own, disk, chosen>>

-----------------------------------------------------------------------------
FileAfter_FirstEntry(s, k) ==
    [key |-> KeyOf[creds[s].password], group |-> Config[s].name,
     name |-> list[s][1].name]

\* set_last_used_server writes the whole file, with this one entry; without a
\* group or a name GLib refuses the entry, and the file is empty.
FileAfter(s, k) ==
    IF Config[s].name = {} \/ list[s][k].name = {} THEN EmptyFile
    ELSE [key |-> KeyOf[creds[s].password], group |-> Config[s].name,
          name |-> list[s][k].name]

Choice(s, k) ==
    [key |-> KeyOf[creds[s].password], name |-> list[s][k].name, uri |-> list[s][k].uri]

\* The URI is the configured server's own.
MarkOwn(s, uri) ==
    /\ FindUri(Config[s], list[s], uri) = {0}
    /\ own' = own \cup {s}
    /\ UNCHANGED <<last_used, disk, chosen>>

\* The URI is that of a listed server.  written tells whether the file could
\* be replaced; a failure leaves the old one.
MarkListed(s, uri, written) ==
    /\ \E k \in FindUri(Config[s], list[s], uri) \ {0} :
          /\ last_used' = [last_used EXCEPT ![s] = @ \cup {k}]
          /\ IF creds[s] = NoCreds \/ ~written THEN UNCHANGED <<disk, chosen>>
             ELSE /\ disk' = [disk EXCEPT ![creds[s].user] = FileAfter(s, k)]
                  /\ chosen' = [chosen EXCEPT ![<<s, creds[s].user>>] = Choice(s, k)]
    /\ UNCHANGED own

MarkNothing(s, uri) ==
    /\ FindUri(Config[s], list[s], uri) = {}
    /\ UNCHANGED <<last_used, own, disk, chosen>>

SetLastUsed(uccsUri, serverUri, written) ==
    /\ \E s \in LastUsedTarget(Config, uccsUri) :
          \/ MarkOwn(s, serverUri)
          \/ MarkListed(s, serverUri, written)
          \/ MarkNothing(s, serverUri)
    /\ reply' = Nothing
    /\ UNCHANGED <<creds, list>>

\* The service stops, or crashes, and is started again.
Restart ==
    /\ creds' = [s \in ConfigServers |-> NoCreds]
    /\ list' = [s \in ConfigServers |-> <<>>]
    /\ last_used' = [s \in ConfigServers |-> {}]
    /\ own' = {}
    /\ reply' = Nothing
    /\ UNCHANGED <<disk, chosen>>

Next ==
    \/ \E s \in UccsServers :
         \/ \E c \in Creds : LogIn(s, c)
         \/ ShowHeld(s)
         \/ \E o \in Outputs : QueryEnds(s, o)
         \/ QueryFails(s)
    \/ \E u, v \in Requests, w \in WriteResults : SetLastUsed(u, v, w)
    \/ Restart

Spec == Init /\ [][Next]_vars

-----------------------------------------------------------------------------
(***************************************************************************)
(* Properties                                                              *)
(***************************************************************************)

\* The choice a user could last have written is the one server marked as last
\* used in every list the user is shown that still has it, and has no other
\* server of its name: over other users' logins, failed queries, new lists, later
\* choices that could not be written, and restarts (uccs_server_get_servers,
\* set_last_used_server).
ChosenIsShown ==
    reply # Nothing /\ reply.creds # NoCreds =>
        LET choice == chosen[<<reply.server, reply.creds.user>>]
            l      == reply.list
            isChoice(k) == l[k].name = choice.name /\ l[k].uri = choice.uri
        IN  /\ choice # Nothing
            /\ choice.name # {} /\ Config[reply.server].name # {}
            /\ choice.key = KeyOf[reply.creds.password]
            /\ \E k \in DOMAIN l :
                  isChoice(k) /\ \A j \in DOMAIN l : l[j].name = choice.name => j = k
            => \E k \in DOMAIN l : reply.last_used = {k} /\ isChoice(k)

\* Nor does it take more than that the user chose on no other UCCS server: in
\* lists with several servers of one name, which the file cannot tell apart, the
\* first of them is marked, and only that one (uccs_server_get_servers,
\* set_last_used_server).
ChosenNameIsShown ==
    reply # Nothing /\ reply.creds # NoCreds =>
        LET choice == chosen[<<reply.server, reply.creds.user>>]
            l      == reply.list
            named  == {k \in DOMAIN l : l[k].name = choice.name}
        IN  /\ choice # Nothing
            /\ choice.name # {} /\ Config[reply.server].name # {}
            /\ choice.key = KeyOf[reply.creds.password]
            /\ \A s \in ConfigServers \ {reply.server} :
                  chosen[<<s, reply.creds.user>>] = Nothing
            /\ named # {}
            => \E k \in named : reply.last_used = {k} /\ \A j \in named : k <= j

\* A file is only ever what its user last wrote on a server with the name that
\* its group gives, under that user's key.
FileIsLatestChoice ==
    \A u \in Users : disk[u] \notin {NoFile, EmptyFile} =>
        \E s \in ConfigServers :
            /\ Config[s].name = disk[u].group
            /\ chosen[<<s, u>>] # Nothing
            /\ chosen[<<s, u>>].key = disk[u].key
            /\ chosen[<<s, u>>].name = disk[u].name
=============================================================================
