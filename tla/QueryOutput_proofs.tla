-------------------------- MODULE QueryOutput_proofs --------------------------
(***************************************************************************)
(* What a query's output is made into, for every output: the properties of *)
(* the operators of ServerFactory and QueryOutput.                         *)
(***************************************************************************)
EXTENDS QueryOutput, Selection_proofs

-----------------------------------------------------------------------------
\* A member counts with the type the constructors look for, and with no other.
LEMMA StringsAreKept ==
    ASSUME NEW object, NEW member, member \notin BooleanMembers
    PROVE  StringMember([m \in WellTyped(object) |-> object[m]], member)
              = StringMember(object, member)
BY DEF StringMember, WellTyped

LEMMA BooleansAreKept ==
    ASSUME NEW object, NEW member \in BooleanMembers
    PROVE  IsTrue([m \in WellTyped(object) |-> object[m]], member)
              = IsTrue(object, member)
<1> DEFINE kept == [m \in WellTyped(object) |-> object[m]]
<1>1. IsTrue(kept, member) <=> IsTrue(object, member)
  BY DEF IsTrue, WellTyped
<1> QED
  BY <1>1 DEF IsTrue

\* Members of a type the constructors do not look for change nothing, whatever
\* they are and however many (server_new_from_json and the constructors).
LEMMA IllTypedNeverCounts ==
    ASSUME NEW object
    PROVE  IllTypedIsAbsentIn(object)
<1> DEFINE kept == [m \in WellTyped(object) |-> object[m]]
<1>1. \A m \in {"Protocol", "Name", "URL", "Username", "Password", "WindowsDomain", "Command"} :
         StringMember(kept, m) = StringMember(object, m)
  BY StringsAreKept DEF BooleanMembers
<1>2. \A m \in {"DomainRequired", "CommandRequired"} : IsTrue(kept, m) = IsTrue(object, m)
  BY BooleansAreKept DEF BooleanMembers
<1> HIDE DEF kept
<1>3. /\ CitrixFromJson(kept) = CitrixFromJson(object)
      /\ RdpFromJson(kept) = RdpFromJson(object)
      /\ X2GoFromJson(kept) = X2GoFromJson(object)
  BY <1>1, <1>2 DEF CitrixFromJson, RdpFromJson, X2GoFromJson, FromJson
<1>4. NewFromJson(kept) = NewFromJson(object)
  BY <1>1, <1>3 DEF NewFromJson
<1> QED
  BY <1>4 DEF IllTypedIsAbsentIn, kept

-----------------------------------------------------------------------------
\* A string that is there is shown.
LEMMA ShownOfOne ==
    ASSUME NEW v
    PROVE  OrEmpty({v}) = v
<1>1. (CHOOSE s \in {v} : TRUE) = v
  OBVIOUS
<1> QED
  BY <1>1 DEF OrEmpty
\* A shown server whose third property has the name extra, read back as JSON.
LEMMA ReadBackMembers ==
    ASSUME NEW shown, NEW server, NEW extra,
           shown.properties = LoginProperties(server, extra),
           server.required \in BOOLEAN
    PROVE  LET object == ReadBack(shown)
           IN  /\ StringMember(object, "Protocol") = {shown.type}
               /\ StringMember(object, "Name") = {shown.name}
               /\ StringMember(object, "URL") = {shown.uri}
               /\ StringMember(object, "Username") = {OrEmpty(server.username)}
               /\ StringMember(object, "Password") = {OrEmpty(server.password)}
               /\ StringMember(object, "WindowsDomain") = {OrEmpty(server.extra)}
               /\ StringMember(object, "Command") = {OrEmpty(server.extra)}
               /\ IsTrue(object, "DomainRequired") = server.required
               /\ IsTrue(object, "CommandRequired") = server.required
<1> DEFINE object == ReadBack(shown)
           string(v) == [type |-> "string", value |-> v]
           required == [type |-> "boolean", value |-> server.required]
<1>1. /\ shown.properties[1].value = OrEmpty(server.username)
      /\ shown.properties[2].value = OrEmpty(server.password)
      /\ shown.properties[3].value = OrEmpty(server.extra)
      /\ shown.properties[3].required = server.required
  BY DEF LoginProperties, Property
<1>2. object =
        [Protocol        |-> string(shown.type),
         Name            |-> string(shown.name),
         URL             |-> string(shown.uri),
         Username        |-> string(OrEmpty(server.username)),
         Password        |-> string(OrEmpty(server.password)),
         WindowsDomain   |-> string(OrEmpty(server.extra)),
         DomainRequired  |-> required,
         Command         |-> string(OrEmpty(server.extra)),
         CommandRequired |-> required]
  BY <1>1 DEF ReadBack
<1> HIDE DEF object
<1>3. ASSUME NEW m \in DOMAIN object, NEW v, object[m] = string(v)
      PROVE  StringMember(object, m) = {v}
  <2>1. object[m].type = "string" /\ object[m].value = v
    BY <1>3
  <2>2. {x \in {m} \cap DOMAIN object : object[x].type = "string"} = {m}
    BY <2>1
  <2> QED
    BY <2>1, <2>2 DEF StringMember
<1>4. ASSUME NEW m \in DOMAIN object, object[m] = required
      PROVE  IsTrue(object, m) = server.required
  <2>1. IsTrue(object, m) <=> server.required
    BY <1>4 DEF IsTrue
  <2> QED
    BY <2>1 DEF IsTrue
<1>5. /\ {"Protocol", "Name", "URL", "Username", "Password", "WindowsDomain",
          "DomainRequired", "Command", "CommandRequired"} \subseteq DOMAIN object
      /\ object["Protocol"] = string(shown.type)
      /\ object["Name"] = string(shown.name)
      /\ object["URL"] = string(shown.uri)
      /\ object["Username"] = string(OrEmpty(server.username))
      /\ object["Password"] = string(OrEmpty(server.password))
      /\ object["WindowsDomain"] = string(OrEmpty(server.extra))
      /\ object["DomainRequired"] = required
      /\ object["Command"] = string(OrEmpty(server.extra))
      /\ object["CommandRequired"] = required
  BY <1>2
<1> HIDE DEF string, required
<1> QED
  BY <1>3, <1>4, <1>5 DEF object

\* The server made of it is shown like the first one.
ReadsBackAs(object, kind, extra, required) ==
    LET server == FromJson(kind, object, extra, required)
        back   == ReadBack(Variant(server, FALSE))
    IN  /\ StringMember(back, "Protocol") = {TypeName[kind]}
        /\ Variant(FromJson(kind, back, extra, required), FALSE)
              = Variant(server, FALSE)

LEMMA ShownAlike ==
    ASSUME NEW object, NEW kind \in {"rdp", "citrix", "x2go"}, NEW first, NEW second,
           IF kind = "x2go" THEN first = "Command" /\ second = "CommandRequired"
           ELSE first = "WindowsDomain" /\ second = "DomainRequired"
    PROVE  ReadsBackAs(object, kind, first, second)
<1> DEFINE server == FromJson(kind, object, first, second)
           shown == Variant(server, FALSE)
           back  == ReadBack(shown)
           again == FromJson(kind, back, first, second)
           label == IF kind = "x2go" THEN "command" ELSE "domain"
<1>1. /\ server.kind = kind /\ server.required \in BOOLEAN
  BY DEF FromJson, IsTrue
<1> HIDE DEF server
<1>2. \A x : x.kind = kind => PropertiesOf(x) = LoginProperties(x, label)
  BY DEF PropertiesOf, RdpProperties, CitrixProperties, X2GoProperties
<1>3. /\ shown.type = TypeName[kind] /\ shown.name = OrEmpty(server.name)
      /\ shown.uri = OrEmpty(server.uri)
      /\ shown.properties = LoginProperties(server, label)
  BY <1>1, <1>2 DEF Variant
<1>4. /\ StringMember(back, "Protocol") = {shown.type}
      /\ StringMember(back, "Name") = {shown.name}
      /\ StringMember(back, "URL") = {shown.uri}
      /\ StringMember(back, "Username") = {OrEmpty(server.username)}
      /\ StringMember(back, "Password") = {OrEmpty(server.password)}
      /\ StringMember(back, first) = {OrEmpty(server.extra)}
      /\ IsTrue(back, second) = server.required
  <2> HIDE DEF shown
  <2> QED
    BY <1>1, <1>3, ReadBackMembers
<1> HIDE DEF back
<1>5. /\ again.kind = kind
      /\ again.name = {OrEmpty(server.name)} /\ again.uri = {OrEmpty(server.uri)}
      /\ again.username = {OrEmpty(server.username)}
      /\ again.password = {OrEmpty(server.password)}
      /\ again.extra = {OrEmpty(server.extra)} /\ again.required = server.required
  BY <1>3, <1>4 DEF FromJson
<1> HIDE DEF again, shown
<1>6. LoginProperties(again, label) = LoginProperties(server, label)
  BY <1>5, ShownOfOne DEF LoginProperties, Property
<1>7. Variant(again, FALSE) = Variant(server, FALSE)
  BY <1>1, <1>2, <1>5, <1>6, ShownOfOne DEF Variant
<1> QED
  BY <1>3, <1>4, <1>7 DEF ReadsBackAs, server, shown, back, again
\* What a client is shown of a listed server makes the same server again: no
\* field is lost or mixed up, and the type it is shown is a protocol that the
\* constructors know (server_get_variant against server_new_from_json).
LEMMA AlwaysReadsBack ==
    ASSUME NEW object
    PROVE  ReadsBackIn(object)
<1> SUFFICES ASSUME NEW server \in NewFromJson(object)
             PROVE  \E again \in NewFromJson(ReadBack(Variant(server, FALSE))) :
                       Variant(again, FALSE) = Variant(server, FALSE)
  BY DEF ReadsBackIn
<1> DEFINE back == ReadBack(Variant(server, FALSE))
<1>1. CASE server = CitrixFromJson(object)
  <2>1. /\ StringMember(back, "Protocol") = {"ica"}
        /\ Variant(CitrixFromJson(back), FALSE) = Variant(server, FALSE)
    <3>1. server = FromJson("citrix", object, "WindowsDomain", "DomainRequired")
      BY <1>1 DEF CitrixFromJson
    <3>2. TypeName["citrix"] = "ica"
      BY DEF TypeName
    <3>3. ReadsBackAs(object, "citrix", "WindowsDomain", "DomainRequired")
      BY ShownAlike
    <3> QED
      BY <3>1, <3>2, <3>3 DEF CitrixFromJson, ReadsBackAs
  <2>2. CitrixFromJson(back) \in NewFromJson(back)
    BY <2>1 DEF NewFromJson, IcaProtocols
  <2> QED
    BY <2>1, <2>2
<1>2. CASE server = RdpFromJson(object)
  <2>1. /\ StringMember(back, "Protocol") = {"freerdp2"}
        /\ Variant(RdpFromJson(back), FALSE) = Variant(server, FALSE)
    <3>1. server = FromJson("rdp", object, "WindowsDomain", "DomainRequired")
      BY <1>2 DEF RdpFromJson
    <3>2. TypeName["rdp"] = "freerdp2"
      BY DEF TypeName
    <3>3. ReadsBackAs(object, "rdp", "WindowsDomain", "DomainRequired")
      BY ShownAlike
    <3> QED
      BY <3>1, <3>2, <3>3 DEF RdpFromJson, ReadsBackAs
  <2>2. RdpFromJson(back) \in NewFromJson(back)
    BY <2>1 DEF NewFromJson, RdpProtocols
  <2> QED
    BY <2>1, <2>2
<1>3. CASE server = X2GoFromJson(object)
  <2>1. /\ StringMember(back, "Protocol") = {"x2go"}
        /\ Variant(X2GoFromJson(back), FALSE) = Variant(server, FALSE)
    <3>1. server = FromJson("x2go", object, "Command", "CommandRequired")
      BY <1>3 DEF X2GoFromJson
    <3>2. TypeName["x2go"] = "x2go"
      BY DEF TypeName
    <3>3. ReadsBackAs(object, "x2go", "Command", "CommandRequired")
      BY ShownAlike
    <3> QED
      BY <3>1, <3>2, <3>3 DEF X2GoFromJson, ReadsBackAs
  <2>2. X2GoFromJson(back) \in NewFromJson(back)
    BY <2>1 DEF NewFromJson, X2GoProtocols
  <2> QED
    BY <2>1, <2>2
<1> QED
  BY <1>1, <1>2, <1>3 DEF NewFromJson

-----------------------------------------------------------------------------
\* A list that is parsed is a sequence.
LEMMA ParsedIsSequence ==
    ASSUME NEW array, IsSequence(array)
    PROVE  LET list == ParseRdsArray(array)
           IN  Len(list) \in Nat /\ DOMAIN list = 1 .. Len(list)
<1> DEFINE keep == {k \in DOMAIN array : IsServer(array[k])}
           servers == Kept(array, keep)
<1>1. Len(servers) \in Nat /\ DOMAIN servers = 1 .. Len(servers)
  <2>1. servers \in Seq({array[k] : k \in 1 .. Len(array)})
    BY KeepsWhatItShould DEF IsSequence, Appended
  <2> HIDE DEF servers
  <2> QED
    BY <2>1
<1>2. DOMAIN ParseRdsArray(array) = 1 .. Len(servers)
  <2> DEFINE made(k) == CHOOSE s \in NewFromJson(servers[k].value) : TRUE
  <2>1. ParseRdsArray(array) = [k \in DOMAIN servers |-> made(k)]
    BY DEF ParseRdsArray
  <2> HIDE DEF servers, made
  <2> QED
    BY <1>1, <2>1
<1> QED
  <2> DEFINE list == ParseRdsArray(array)
  <2>1. list = [k \in DOMAIN servers |-> CHOOSE s \in NewFromJson(servers[k].value) : TRUE]
    BY DEF ParseRdsArray
  <2> HIDE DEF servers, list
  <2>2. list \in Seq({list[k] : k \in 1 .. Len(servers)})
    BY <1>1, <2>1
  <2> QED
    BY <1>1, <1>2, <2>2 DEF list

\* The tool's default is marked, whatever was marked before, and no other
\* server of its list is (parse_json).
LEMMA AlwaysOneDefault ==
    ASSUME NEW status, NEW output, NEW list, NEW flags,
           IsParsed(output)
    PROVE  OneDefaultIn(status, output, list, flags)
<1> SUFFICES ASSUME OutcomeOf(status, output) = "list"
             PROVE  LET result == QueryResult(status, output, list, flags)
                        names  == StringMember(output.value, "DefaultServer") \ {""}
                    IN  IF names = {} THEN \A k \in result.flags : result.list[k].name = {""}
                        ELSE \E k \in DOMAIN result.list : /\ result.flags = {k}
                                                           /\ result.list[k].name = names
  BY DEF OneDefaultIn
<1> DEFINE parsed == ParseRdsArray(output.value.RemoteDesktopServers.value)
           result == QueryResult(status, output, list, flags)
           given  == StringMember(output.value, "DefaultServer")
           marked == UNION {Named(parsed, name) : name \in given}
<1>1. /\ status = 0 /\ HasServers(output)
      /\ output.value.RemoteDesktopServers.type = "array"
      /\ DefaultIsGood(output.value, parsed)
  BY DEF OutcomeOf, ListOutcome
<1>2. result.list = parsed /\ result.flags = marked
  BY <1>1 DEF QueryResult, ParseJson, ParseServers, Marked
<1>3. Len(parsed) \in Nat /\ DOMAIN parsed = 1 .. Len(parsed)
  BY <1>1, ParsedIsSequence DEF IsParsed
<1>4. given = {} \/ \E v : given = {v}
  BY DEF StringMember
<1>5. \A v : v \in given => v = "" \/ Named(parsed, v) # {}
  <2>1. given # {} => "DefaultServer" \in DOMAIN output.value
    BY DEF StringMember
  <2> QED
    BY <1>1, <1>4, <2>1 DEF DefaultIsGood
<1> HIDE DEF parsed, result, given
<1>6. CASE given \ {""} = {}
  <2>1. ASSUME NEW k \in marked
        PROVE  parsed[k].name = {""}
    BY <1>6 DEF Named
  <2> QED
    BY <1>2, <1>6, <2>1 DEF result, given
<1>7. CASE given \ {""} # {}
  <2>1. PICK v : given = {v} /\ v # ""
    BY <1>4, <1>7
  <2>2. PICK k \in Named(parsed, v) : TRUE
    BY <1>5, <2>1
  <2>3. \A j \in Named(parsed, v) : j = k
    BY <1>3, <2>2 DEF Named
  <2>4. marked = {k} /\ k \in DOMAIN parsed /\ parsed[k].name = {v}
    <3>1. Named(parsed, v) = {k}
      BY <2>2, <2>3
    <3>2. marked = Named(parsed, v)
      BY <2>1
    <3>3. k \in DOMAIN parsed /\ parsed[k].name = {v}
      BY <2>2 DEF Named
    <3> QED
      BY <3>1, <3>2, <3>3
  <2>5. given \ {""} = {v}
    BY <2>1
  <2> QED
    BY <1>2, <1>7, <2>4, <2>5 DEF result, given
<1> QED
  BY <1>6, <1>7

\* A node makes one server at most: no protocol is of two kinds.
LEMMA OneServer ==
    ASSUME NEW object, NEW server \in NewFromJson(object)
    PROVE  NewFromJson(object) = {server}
<1>1. PICK v : StringMember(object, "Protocol") = {v}
  BY DEF NewFromJson, StringMember
<1>2. /\ v \in IcaProtocols => v \notin RdpProtocols \cup X2GoProtocols
      /\ v \in RdpProtocols => v \notin X2GoProtocols
  BY DEF IcaProtocols, RdpProtocols, X2GoProtocols
<1> QED
  BY <1>1, <1>2 DEF NewFromJson

\* An entry that makes no server costs no other entry its place: every good
\* one is listed, in order, and nothing else (parse_rds_array).
LEMMA AlwaysEveryGoodEntry ==
    ASSUME NEW array, IsSequence(array)
    PROVE  EveryGoodEntryIn(array)
<1> DEFINE keep    == {k \in DOMAIN array : IsServer(array[k])}
           servers == Kept(array, keep)
           list    == ParseRdsArray(array)
           good(k) == CountUpTo(keep, k)
           Made(node) == CHOOSE s \in NewFromJson(node.value) : TRUE
<1>1. Appended(array, keep, Len(array), servers)
  BY KeepsWhatItShould DEF IsSequence
<1>2. /\ DOMAIN array = 1 .. Len(array) /\ Len(array) \in Nat
  BY DEF IsSequence
<1>3. list = [k \in DOMAIN servers |-> Made(servers[k])]
  BY DEF ParseRdsArray
<1>4. Len(list) \in Nat /\ DOMAIN list = 1 .. Len(list)
  BY ParsedIsSequence
<1>5. \A k \in DOMAIN array : k \in keep <=> IsServer(array[k])
  OBVIOUS
<1>6. EveryGoodEntryIn(array) <=>
         /\ Len(list) = good(Len(array))
         /\ \A k \in DOMAIN array :
               IsServer(array[k]) => {list[good(k)]} = NewFromJson(array[k].value)
  BY DEF EveryGoodEntryIn
<1> HIDE DEF keep, list, servers, Made
<1>7. /\ Len(servers) = good(Len(array)) /\ Len(servers) \in Nat
      /\ DOMAIN servers = 1 .. Len(servers)
  BY <1>1 DEF Appended
<1>8. Len(list) = Len(servers)
  <2>1. DOMAIN list = DOMAIN servers
    BY <1>3
  <2>2. 1 .. Len(list) = 1 .. Len(servers)
    BY <1>4, <1>7, <2>1
  <2> QED
    BY <1>4, <1>7, <2>2
<1>9. ASSUME NEW k \in DOMAIN array, IsServer(array[k])
      PROVE  {list[good(k)]} = NewFromJson(array[k].value)
  <2>1. good(k) \in DOMAIN servers /\ servers[good(k)] = array[k]
    BY <1>1, <1>2, <1>5, <1>7, <1>9 DEF Appended
  <2>2. list[good(k)] = Made(array[k])
    BY <1>3, <2>1
  <2>3. Made(array[k]) \in NewFromJson(array[k].value)
    BY <1>9 DEF IsServer, Made
  <2> QED
    BY <2>2, <2>3, OneServer
<1> QED
  BY <1>6, <1>7, <1>8, <1>9

\* A default that is named in a list is found in it.
LEMMA GoodDefault ==
    ASSUME NEW object, NEW l
    PROVE  DefaultIsGood(object, l) \in BOOLEAN
BY DEF DefaultIsGood

\* Whatever the tool printed, and whatever was held, the verdict on a query and
\* the fate of the held list are those of the outcome UccsUnlock knows it by
\* (json_grab_cb, parse_json).
LEMMA OutcomesDecide ==
    ASSUME NEW status, NEW output, NEW l, NEW flags
    PROVE  OutcomeDecidesIn(status, output, l, flags)
<1> DEFINE result  == QueryResult(status, output, l, flags)
           outcome == OutcomeOf(status, output)
           listed  == ParseRdsArray(output.value.RemoteDesktopServers.value)
<1> SUFFICES /\ result.passed = Passes(outcome)
             /\ result.list = IF Replaces(outcome) THEN listed ELSE l
  BY DEF OutcomeDecidesIn
<1>1. CASE status # 0
  <2>1. outcome = "failed"
    BY <1>1 DEF OutcomeOf
  <2>2. result = [passed |-> FALSE, list |-> l, flags |-> flags]
    BY <1>1 DEF QueryResult
  <2>3. Passes("failed") = FALSE /\ Replaces("failed") = FALSE
    BY DEF Passes, Replaces
  <2> HIDE DEF result, outcome, listed
  <2>4. result.passed = FALSE /\ result.list = l
    BY <2>2
  <2> QED
    BY <2>1, <2>3, <2>4
<1>2. CASE status = 0 /\ HasServers(output)
  <2> DEFINE node    == output.value.RemoteDesktopServers
             isArray == node.type = "array"
             good    == DefaultIsGood(output.value, IF isArray THEN listed ELSE l)
  <2>1. outcome = IF ~isArray THEN "garbage"
                  ELSE IF good THEN "list" ELSE "badDefault"
    BY <1>2 DEF OutcomeOf, ListOutcome
  <2>2. /\ result.passed = (isArray /\ good)
        /\ result.list = IF isArray THEN listed ELSE l
    BY <1>2 DEF QueryResult, ParseJson, ParseServers
  <2>3. good \in BOOLEAN
    BY GoodDefault
  <2> HIDE DEF result, outcome, listed, good, isArray
  <2> QED
    BY <2>1, <2>2, <2>3 DEF Passes, Replaces, isArray
<1>3. CASE status = 0 /\ ~HasServers(output)
  <2>1. outcome = IF output.type \in {"object", "nothing"} THEN "noList" ELSE "garbage"
    BY <1>3 DEF OutcomeOf
  <2>2. /\ result.passed = (output.type \in {"object", "nothing"})
        /\ result.list = l
    BY <1>3 DEF QueryResult, ParseJson
  <2> HIDE DEF result, outcome, listed
  <2> QED
    BY <2>1, <2>2 DEF Passes, Replaces
<1> QED
  BY <1>1, <1>2, <1>3

\* A string that is shown as a server's name is one string, or none.
LEMMA OneName ==
    ASSUME NEW object, NEW server \in NewFromJson(object)
    PROVE  server.name = {} \/ \E n : server.name = {n}
<1>1. server.name = StringMember(object, "Name")
  BY DEF NewFromJson, CitrixFromJson, RdpFromJson, X2GoFromJson, FromJson
<1> QED
  BY <1>1 DEF StringMember

\* So is the name of every server of a list that is parsed.
LEMMA ParsedNames ==
    ASSUME NEW array, IsSequence(array), NEW k \in DOMAIN ParseRdsArray(array)
    PROVE  \/ ParseRdsArray(array)[k].name = {}
           \/ \E n : ParseRdsArray(array)[k].name = {n}
<1> DEFINE keep    == {j \in DOMAIN array : IsServer(array[j])}
           servers == Kept(array, keep)
           list    == ParseRdsArray(array)
<1>1. Appended(array, keep, Len(array), servers)
  BY KeepsWhatItShould DEF IsSequence
<1>2. list = [j \in DOMAIN servers |-> CHOOSE s \in NewFromJson(servers[j].value) : TRUE]
  BY DEF ParseRdsArray
<1> HIDE DEF servers, list
<1>3. k \in DOMAIN servers /\ k \in 1 .. Len(servers)
  BY <1>1, <1>2 DEF Appended, list
<1>4. IsServer(servers[k])
  BY <1>1, <1>3 DEF Appended
<1>5. list[k] \in NewFromJson(servers[k].value)
  BY <1>2, <1>3, <1>4 DEF IsServer
<1> QED
  BY <1>5, OneName DEF list
=============================================================================
