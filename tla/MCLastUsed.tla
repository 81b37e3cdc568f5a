----------------------------- MODULE MCLastUsed -----------------------------
(* LastUsed for TLC.  Two of the passwords agree in the bytes that make    *)
(* the key.  As in the test data, URIs repeat within a list.  One list has *)
(* two servers of one name, and one has a server without a name.           *)
EXTENDS LastUsed, TLC

CONSTANTS Uccs   \* the UCCS servers, which share the file with an RDP server

MCKeyOf == [p \in Passwords |-> IF p = "long1" THEN "long2" ELSE p]

\* One UCCS server, or two and an RDP server at the end of the file.
MCConfig ==
    LET group(n) == "Name" :> n @@ "URI" :> n
        groups   == [n \in Uccs |-> group(n)]
                       @@ "rdp" :> ("Type" :> "RDP" @@ "URI" :> "direct")
        names    == IF Uccs = {"home"} THEN <<"home">> ELSE <<"home", "work", "rdp">>
    IN  FindConfigFile({[main |-> {"Servers" :> names}, groups |-> groups]},
                       {"remote-logon-config-agent"}).servers

String(s) == [type |-> "string", value |-> s]

Listed(members, uri) ==
    [type |-> "object", value |-> members @@ "Protocol" :> String("rdp") @@ "URL" :> String(uri)]

Usa == Listed("Name" :> String("usa"), "host")
Asia == Listed("Name" :> String("asia"), "other")
Uk == Listed("Name" :> String("uk"), "host")
Usa2 == Listed("Name" :> String("usa"), "other")
Nameless == Listed("Name" :> [type |-> "null"], "spare")

Output(members) == [type |-> "object", value |-> members]

Servers(array) == "RemoteDesktopServers" :> [type |-> "array", value |-> array]

Default(name) == "DefaultServer" :> String(name)

\* Good lists with and without a default, one with a name twice, a default that
\* is not listed, a default beside a list that is none, and no list.
MCOneList ==
    {Output(Servers(<<Usa, Asia>>)), Output(Servers(<<Usa, Asia>>) @@ Default("usa")),
     Output(Servers(<<Usa, Asia>>) @@ Default("uk"))}

MCOutputs ==
    MCOneList \cup
    {Output(Servers(<<Asia, Usa, Uk, Nameless>>)),
     Output(Servers(<<Asia, Usa, Uk, Nameless>>) @@ Default("uk")),
     Output(Servers(<<Usa2, Asia, Usa>>)),
     Output("RemoteDesktopServers" :> String("none") @@ Default("asia")),
     [type |-> "nothing"], [type |-> "invalid"]}
=============================================================================
