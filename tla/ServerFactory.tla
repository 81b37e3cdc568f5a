----------------------------- MODULE ServerFactory -----------------------------
(***************************************************************************)
(* What a listed server is made of, and how clients are shown it           *)
(* (src/src/server.c, src/src/rdp-server.c, src/src/citrix-server.c,       *)
(* src/src/x2go-server.c).                                                 *)
(*                                                                         *)
(* A string that may be NULL is a set of at most one string.  A JSON node  *)
(* is a record of its type and its value; a JSON object is a function from *)
(* its members to nodes.  Whether a server carries the last-used flag is   *)
(* kept by its owner, not here.  A listed server is ALLGOOD from           *)
(* server_init to its end.                                                 *)
(***************************************************************************)
EXTENDS Sequences

\* Variants named Operator_What are plausible slips of the code, kept to show
\* that the properties below tell them from the code.  No action uses them.
StringMember_AnyType(object, member) ==
    {IF object[m].type = "string" THEN object[m].value ELSE "" :
        m \in {member} \cap DOMAIN object}

\* A member counts if it is a string; any other node is as good as none.
StringMember(object, member) ==
    {object[m].value : m \in {x \in {member} \cap DOMAIN object :
                                 object[x].type = "string"}}

IsTrue(object, member) ==
    \E m \in {member} \cap DOMAIN object :
        object[m].type = "boolean" /\ object[m].value

-----------------------------------------------------------------------------
\* The constructors.  extra is the domain of an RDP or Citrix server and the
\* command of an X2Go server.
FromJson(kind, object, extra, required) ==
    [kind     |-> kind,
     name     |-> StringMember(object, "Name"),
     uri      |-> StringMember(object, "URL"),
     username |-> StringMember(object, "Username"),
     password |-> StringMember(object, "Password"),
     extra    |-> StringMember(object, extra),
     required |-> IsTrue(object, required)]

CitrixFromJson(object) == FromJson("citrix", object, "WindowsDomain", "DomainRequired")

RdpFromJson(object) == FromJson("rdp", object, "WindowsDomain", "DomainRequired")

X2GoFromJson(object) == FromJson("x2go", object, "Command", "CommandRequired")

IcaProtocols == {"ICA", "ica"}

RdpProtocols_Freerdp == {"freerdp", "rdp", "RDP", "FreeRDP"}

RdpProtocols == {"freerdp", "rdp", "freerdp2", "RDP", "FreeRDP", "FreeRDP2"}

X2GoProtocols == {"x2go", "X2go", "X2Go", "X2GO", "x2GO", "x2gO"}

\* server_new_from_json: the server, or none for a protocol nobody knows.
NewFromJson(object) ==
    LET protocol == StringMember(object, "Protocol")
    IN  {CitrixFromJson(object) : p \in protocol \cap IcaProtocols}
        \cup {RdpFromJson(object) : p \in protocol \cap RdpProtocols}
        \cup {X2GoFromJson(object) : p \in protocol \cap X2GoProtocols}

-----------------------------------------------------------------------------
\* Showing a server: NULL is shown as the empty string.
OrEmpty(string) == IF string = {} THEN "" ELSE CHOOSE s \in string : TRUE

Property(name, required, value) ==
    [name |-> name, required |-> required, value |-> OrEmpty(value)]

LoginProperties(server, extra) ==
    <<Property("username", TRUE, server.username),
      Property("password", TRUE, server.password),
      Property(extra, server.required, server.extra)>>

RdpProperties(server) == LoginProperties(server, "domain")

CitrixProperties(server) == LoginProperties(server, "domain")

X2GoProperties(server) == LoginProperties(server, "command")

UccsProperties == <<Property("email", TRUE, {}), Property("password", TRUE, {})>>

PropertiesOf(server) ==
    CASE server.kind = "rdp"    -> RdpProperties(server)
      [] server.kind = "citrix" -> CitrixProperties(server)
      [] server.kind = "x2go"   -> X2GoProperties(server)
      [] server.kind = "uccs"   -> UccsProperties

TypeName ==
    [citrix |-> "ica", rdp |-> "freerdp2", uccs |-> "uccs", x2go |-> "x2go"]

\* server_get_variant.  No kind of server has applications.
Variant(server, used) ==
    [type         |-> TypeName[server.kind],
     name         |-> OrEmpty(server.name),
     uri          |-> OrEmpty(server.uri),
     last_used    |-> used,
     properties   |-> PropertiesOf(server),
     applications |-> <<>>]

-----------------------------------------------------------------------------
(***************************************************************************)
(* Properties of the operators, for a JSON object.                         *)
(***************************************************************************)

\* Members of another type than the constructors expect (numbers, null,
\* objects, a boolean for a string) change nothing: the server is the one made
\* without them.
BooleanMembers == {"DomainRequired", "CommandRequired"}

WellTyped(object) ==
    {m \in DOMAIN object :
        object[m].type = IF m \in BooleanMembers THEN "boolean" ELSE "string"}

IllTypedIsAbsentIn(object) ==
    NewFromJson(object) = NewFromJson([m \in WellTyped(object) |-> object[m]])

\* What a client is shown of a listed server is enough to make the same server
\* of it again: the type it is shown is a protocol of its kind, and every
\* field comes back (get_properties and server_get_variant against
\* server_new_from_json).
ReadBack(shown) ==
    LET string(v) == [type |-> "string", value |-> v]
        extra     == shown.properties[3]
        required  == [type |-> "boolean", value |-> extra.required]
    IN  [Protocol        |-> string(shown.type),
         Name            |-> string(shown.name),
         URL             |-> string(shown.uri),
         Username        |-> string(shown.properties[1].value),
         Password        |-> string(shown.properties[2].value),
         WindowsDomain   |-> string(extra.value),
         DomainRequired  |-> required,
         Command         |-> string(extra.value),
         CommandRequired |-> required]

ReadsBackIn(object) ==
    \A server \in NewFromJson(object) :
        \E again \in NewFromJson(ReadBack(Variant(server, FALSE))) :
            Variant(again, FALSE) = Variant(server, FALSE)
=============================================================================
