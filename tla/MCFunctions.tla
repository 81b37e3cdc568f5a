----------------------------- MODULE MCFunctions -----------------------------
(* PureFunctions for TLC: every small input.                               *)
EXTENDS PureFunctions, TLC

String(s) == [type |-> "string", value |-> s]
Yes == [type |-> "boolean", value |-> TRUE]
Null == [type |-> "null"]

\* JSON objects: a full one of every protocol, with up to two members missing
\* or of another value or type.
FullObject(protocol) ==
    [Protocol |-> protocol, Name |-> String("usa"), URL |-> String("host"),
     Username |-> String("me"), Password |-> String("secret"),
     WindowsDomain |-> String("office"), DomainRequired |-> Yes,
     Command |-> String("office"), CommandRequired |-> Yes]

Protocols == {String("ICA"), String("freerdp"), String("X2GO"), String("vnc"), Null}

Members == DOMAIN FullObject(Null)

MCObjects ==
    {[m \in Members \ gone |-> IF m \in odd THEN node ELSE FullObject(p)[m]] :
        p \in Protocols, gone \in {{m} : m \in Members} \cup {{}},
        odd \in {{m} : m \in Members} \cup {{}},
        node \in {String(""), Yes, Null, [type |-> "int", value |-> 1]}}

\* Outputs of the query tool: arrays of up to three entries, or none, with and
\* without a default, and what is no object.
Entry(protocol, name) ==
    [type |-> "object",
     value |-> [Protocol |-> String(protocol), Name |-> name, URL |-> String("host")]]

Entries == {Entry("ICA", String("usa")), Entry("rdp", String("asia")),
            Entry("rdp", String("")), Entry("rdp", Null),
            Entry("vnc", String("usa")), Null}

Arrays == UNION {[1 .. n -> Entries] : n \in 0 .. 3}

ServersNodes ==
    {[type |-> "array", value |-> a] : a \in Arrays} \cup {Null, String("usa")}

DefaultServers == {String("usa"), String("asia"), String(""), Yes}

With(member, nodes) == {member :> node : node \in nodes} \cup {<<>>}

MCOutputs ==
    {[type |-> "object", value |-> s @@ d] :
        s \in With("RemoteDesktopServers", ServersNodes),
        d \in With("DefaultServer", DefaultServers)}
    \cup {[type |-> t] : t \in {"invalid", "nothing", "array", "string"}}

MCHeldLists == {<<>>, <<RdpFromJson(Entry("rdp", String("usa")).value)>>}

\* Configuration files: two groups, and a main group with up to three names.
Groups ==
    {("Type" :> t @@ "URI" :> u @@ "Name" :> "n") : t \in {"RDP", "UCCS", "X2GO"}, u \in {"host", "other"}}
    \cup {("URI" :> "host" @@ "Exec" :> "lost" @@ "VerifyServer" :> "no"),
          ("Type" :> "UCCS" @@ "NetworkRequired" :> "None")}

Mains ==
    {"Servers" :> names : names \in UNION {[1 .. n -> {"one", "two", "gone"}] : n \in 0 .. 3}}

MCFiles ==
    {[main |-> main, groups |-> "one" :> one @@ "two" :> two] :
        main \in {{m} : m \in Mains} \cup {{}}, one \in Groups, two \in Groups}

MCPath == {"remote-logon-config-agent"}

\* Texts and passwords around the length of a block.
Words(length) == UNION {[1 .. n -> 1 .. 2] : n \in 0 .. length}

MCTexts == Words(2 * BlockLength)

MCPasswords == Words(BlockLength + 1)
=============================================================================
