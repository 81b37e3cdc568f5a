----------------------------- MODULE Configuration -----------------------------
(***************************************************************************)
(* The servers the configuration file names, and how the D-Bus handlers    *)
(* look a server up (src/src/main.c, src/src/server.c,                     *)
(* src/src/uccs-server.c).                                                 *)
(*                                                                         *)
(* A group of the file is a function from its keys to their values.  A     *)
(* file that can be read is [main, groups]: main is the set of at most one *)
(* main group, whose Servers is a sequence of names; groups is a function  *)
(* from the names of the server groups to these.  A string that may be     *)
(* NULL is a set of at most one string.  The servers are a sequence, and a *)
(* lookup yields the set of the position it finds.  A Name is what the     *)
(* message catalogue makes of it (gettext), the same in every run.         *)
(***************************************************************************)
EXTENDS Selection

Key(group, key) == {group[k] : k \in {key} \cap DOMAIN group}

\* rdp_server_new_from_keyfile and citrix_server_new_from_keyfile.
RdpFromKeyfile(group) ==
    [kind |-> "rdp", name |-> Key(group, "Name"), uri |-> Key(group, "URI")]

CitrixFromKeyfile(group) ==
    [kind |-> "citrix", name |-> Key(group, "Name"), uri |-> Key(group, "URI")]

\* The query tool: that of the group, or the one the service was built with,
\* if the path has it.
Exec(group, path) ==
    path \cap (IF "Exec" \in DOMAIN group THEN Key(group, "Exec")
               ELSE {"remote-logon-config-agent"})

\* uccs_server_new_from_keyfile.  A NetworkRequired nobody knows is Global, a
\* VerifyServer that is no boolean is FALSE.
UccsFromKeyfile(group, path) ==
    [kind          |-> "uccs",
     name          |-> Key(group, "Name"),
     uri           |-> Key(group, "URI"),
     exec          |-> Exec(group, path),
     needs_network |-> Key(group, "NetworkRequired") # {"None"},
     verify_server |-> Key(group, "VerifyServer") \subseteq {"true", "1"}]

\* server_new_from_keyfile: every Type but RDP and ICA makes a UCCS server.
NewFromKeyfile(group, path) ==
    CASE Key(group, "Type") = {"RDP"} -> RdpFromKeyfile(group)
      [] Key(group, "Type") = {"ICA"} -> CitrixFromKeyfile(group)
      [] Key(group, "Type") \notin {{"RDP"}, {"ICA"}} -> UccsFromKeyfile(group, path)

\* Variants named Operator_What are plausible slips of the code, kept to show
\* that the properties below tell them from the code.  No action uses them.
ServersOf_UpToAGap(file, path, names) ==
    LET gaps == {k \in DOMAIN names : names[k] \notin DOMAIN file.groups}
    IN  [k \in {j \in DOMAIN names : \A g \in gaps : j < g} |->
            NewFromKeyfile(file.groups[names[k]], path)]

\* Names without a group are skipped.
ServersOf(file, path, names) ==
    LET known == Kept(names, {k \in DOMAIN names : names[k] \in DOMAIN file.groups})
    IN  [k \in DOMAIN known |-> NewFromKeyfile(file.groups[known[k]], path)]

\* find_config_file of the set of at most one file: the servers, and whether
\* ServersUpdated is sent.
FindConfigFile(files, path) ==
    LET mains == UNION {file.main : file \in files}
        lists == UNION {Key(main, "Servers") : main \in mains}
    IN  [servers   |-> IF lists = {} THEN <<>>
                       ELSE ServersOf(CHOOSE file \in files : TRUE, path,
                                      CHOOSE names \in lists : TRUE),
         announced |-> mains # {}]

-----------------------------------------------------------------------------
\* The first entry of a list with a URI.
AtUri(list, uri) ==
    {k \in DOMAIN list : /\ list[k].uri = {uri}
                         /\ \A j \in 1 .. k - 1 : list[j].uri # {uri}}

\* The first UCCS server with a URI: handle_get_servers_login.
LoginTarget(servers, uri) ==
    LET matches(k) == servers[k].kind = "uccs" /\ servers[k].uri = {uri}
    IN  {k \in DOMAIN servers : matches(k) /\ \A j \in 1 .. k - 1 : ~matches(j)}

LastUsedTarget_AnyKind(servers, uri) ==
    LET leaves(k) == servers[k].uri = {uri}
        visited   == {k \in DOMAIN servers : \A j \in 1 .. k - 1 : ~leaves(j)}
    IN  {k \in visited : \A j \in visited : j <= k}

\* handle_set_last_used_server: the last server its loop visits.  The loop goes
\* on to the next one unless it leaves at a UCCS server with the URI; a server
\* of another kind, or of another URI, is what it has left behind at the end.
LastUsedTarget(servers, uri) ==
    LET leaves(k) == servers[k].kind = "uccs" /\ servers[k].uri = {uri}
        visited   == {k \in DOMAIN servers : \A j \in 1 .. k - 1 : ~leaves(j)}
    IN  {k \in visited : \A j \in visited : j <= k}

\* server_find_uri: the server itself (0), or one of those it lists.
FindUri(server, list, uri) ==
    IF server.uri = {uri} THEN {0} ELSE AtUri(list, uri)

\* handle_get_domains.  lists[k] is what server k lists.
DomainsTarget(servers, lists, uri) ==
    LET found(k) == FindUri(servers[k], lists[k], uri) # {}
    IN  {k \in DOMAIN servers : found(k) /\ \A j \in 1 .. k - 1 : ~found(j)}

\* No kind of server remembers domains.
CachedDomains(server) == <<>>

Domains(servers, lists, uri) ==
    IF DomainsTarget(servers, lists, uri) = {} THEN <<>>
    ELSE CachedDomains(CHOOSE k \in DomainsTarget(servers, lists, uri) : TRUE)

-----------------------------------------------------------------------------
(***************************************************************************)
(* Properties of the operators, for a file and the programs in the path.   *)
(***************************************************************************)

\* A choice is recorded with the server the user logged in to: when
\* GetServersForLogin finds a server for a URI, SetLastUsedServer finds the
\* same one, and it is a UCCS server, as the cast of handle_get_servers_login
\* takes for granted.
LookupsAgreeIn(files, path, uri) ==
    LET servers == FindConfigFile(files, path).servers
        found   == LoginTarget(servers, uri)
    IN  found # {} => /\ LastUsedTarget(servers, uri) = found
                      /\ \A k \in found : servers[k].kind = "uccs"

\* Every UCCS group the main group names becomes a server that a login with
\* the group's URI reaches, whatever stands between them in the file, unless
\* another UCCS group has the same URI.
ConfiguredIsReachedIn(files, path) ==
    \A file \in files : \A main \in file.main : \A names \in Key(main, "Servers") :
        LET servers == FindConfigFile(files, path).servers
            uccs    == {n \in DOMAIN names :
                           /\ names[n] \in DOMAIN file.groups
                           /\ Key(file.groups[names[n]], "Type") \cap {"RDP", "ICA"} = {}}
            group(n) == file.groups[names[n]]
        IN  \A n \in uccs : \A uri \in Key(group(n), "URI") :
               (\A m \in uccs : Key(group(m), "URI") = {uri} => names[m] = names[n])
                  => \E k \in LoginTarget(servers, uri) :
                        servers[k] = UccsFromKeyfile(group(n), path)
=============================================================================
