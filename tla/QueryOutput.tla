------------------------------ MODULE QueryOutput ------------------------------
(***************************************************************************)
(* What the end of a query does with the query tool's output: parse_json   *)
(* and parse_rds_array (src/src/uccs-server.c).                            *)
(*                                                                         *)
(* An output is its root JSON node; "invalid" is the type of one that does *)
(* not parse and "nothing" that of an empty one, which has no root node.   *)
(* The value of an array is the sequence of its nodes.  A list of servers  *)
(* is a sequence; flags are the positions in it that are marked last used. *)
(***************************************************************************)
EXTENDS Selection, ServerFactory

IsServer(node) == node.type = "object" /\ NewFromJson(node.value) # {}

\* Variants named Operator_What are plausible slips of the code, kept to show
\* that the properties below tell them from the code.  No action uses them.
ParseRdsArray_UpToTheFirst(array) ==
    LET bad == {k \in DOMAIN array : ~IsServer(array[k])}
    IN  [k \in {j \in DOMAIN array : \A b \in bad : j < b} |->
            CHOOSE s \in NewFromJson(array[k].value) : TRUE]

\* parse_rds_array: entries that make no server are skipped.
ParseRdsArray(array) ==
    LET servers == Kept(array, {k \in DOMAIN array : IsServer(array[k])})
    IN  [k \in DOMAIN servers |-> CHOOSE s \in NewFromJson(servers[k].value) : TRUE]

\* The first entry of a list with a name, as a set.
Named_All(list, name) == {k \in DOMAIN list : list[k].name = {name}}

Named(list, name) ==
    {k \in DOMAIN list : /\ list[k].name = {name}
                         /\ \A j \in 1 .. k - 1 : list[j].name # {name}}

HasServers(output) ==
    output.type = "object" /\ "RemoteDesktopServers" \in DOMAIN output.value

\* An output as the parser makes it: the value of an array is a sequence.
IsParsed(output) ==
    HasServers(output) /\ output.value.RemoteDesktopServers.type = "array"
        => IsSequence(output.value.RemoteDesktopServers.value)

\* The DefaultServer: not there, or the empty string, or the name of a listed
\* server.
DefaultIsGood(object, list) ==
    "DefaultServer" \in DOMAIN object =>
        \E name \in StringMember(object, "DefaultServer") :
            name = "" \/ Named(list, name) # {}

Marked(object, list) ==
    UNION {Named(list, name) : name \in StringMember(object, "DefaultServer")}

ParseServers_DefaultDecides(object, list, flags) ==
    LET node    == object.RemoteDesktopServers
        isArray == node.type = "array"
        current == IF isArray THEN ParseRdsArray(node.value) ELSE list
    IN  [passed |-> DefaultIsGood(object, current),
         list   |-> current,
         flags  |-> (IF isArray THEN {} ELSE flags) \cup Marked(object, current)]

ParseServers_KeepsFlags(object, list, flags) ==
    LET node    == object.RemoteDesktopServers
        isArray == node.type = "array"
        current == IF isArray THEN ParseRdsArray(node.value) ELSE list
    IN  [passed |-> isArray /\ DefaultIsGood(object, current),
         list   |-> current,
         flags  |-> flags \cup Marked(object, current)]

\* RemoteDesktopServers is there.  When it is no array the held list stays,
\* and the DefaultServer is looked up in that.
ParseServers(object, list, flags) ==
    LET node    == object.RemoteDesktopServers
        isArray == node.type = "array"
        current == IF isArray THEN ParseRdsArray(node.value) ELSE list
    IN  [passed |-> isArray /\ DefaultIsGood(object, current),
         list   |-> current,
         flags  |-> (IF isArray THEN {} ELSE flags) \cup Marked(object, current)]

ParseJson(output, list, flags) ==
    IF HasServers(output) THEN ParseServers(output.value, list, flags)
    ELSE [passed |-> output.type \in {"object", "nothing"},
          list |-> list, flags |-> flags]

\* json_grab_cb: only the output of a query with exit status 0 is looked at.
QueryResult(status, output, list, flags) ==
    IF status = 0 THEN ParseJson(output, list, flags)
    ELSE [passed |-> FALSE, list |-> list, flags |-> flags]

-----------------------------------------------------------------------------
(***************************************************************************)
(* How a query ends, as far as a login can tell: a nonzero exit status;    *)
(* output that is no JSON object, or whose RemoteDesktopServers is no      *)
(* array; an object without one; a list with a DefaultServer that is not   *)
(* in it; a list.                                                          *)
(***************************************************************************)
Outcomes == {"failed", "garbage", "noList", "badDefault", "list"}

Passes_AnyExit0(o) == o # "failed"

\* Exit status 0 and parse_json returns TRUE.
Passes(o) == o \in {"noList", "list"}

\* parse_rds_array ran: the old list is freed and the new one is held.
Replaces(o) == o \in {"badDefault", "list"}

ListOutcome(object) ==
    LET node == object.RemoteDesktopServers
    IN  IF node.type # "array" THEN "garbage"
        ELSE IF DefaultIsGood(object, ParseRdsArray(node.value)) THEN "list"
        ELSE "badDefault"

OutcomeOf(status, output) ==
    IF status # 0 THEN "failed"
    ELSE IF HasServers(output) THEN ListOutcome(output.value)
    ELSE IF output.type \in {"object", "nothing"} THEN "noList"
    ELSE "garbage"

-----------------------------------------------------------------------------
(***************************************************************************)
(* Properties of the operators, for an exit status, an output and a list   *)
(* that is held when the query ends.                                       *)
(***************************************************************************)

\* The five outcomes are all a login needs to know: the verdict on a query,
\* and whether its list is held from then on, follow from the outcome and do
\* not depend on the list that is held (parse_json).
OutcomeDecidesIn(status, output, list, flags) ==
    LET result  == QueryResult(status, output, list, flags)
        outcome == OutcomeOf(status, output)
    IN  /\ result.passed = Passes(outcome)
        /\ result.list = IF Replaces(outcome)
                         THEN ParseRdsArray(output.value.RemoteDesktopServers.value)
                         ELSE list

\* A list that is held after a good query has one marked server if the tool
\* named a default, whatever was marked before, and none otherwise.
OneDefaultIn(status, output, list, flags) ==
    OutcomeOf(status, output) = "list" =>
        LET result == QueryResult(status, output, list, flags)
            names  == StringMember(output.value, "DefaultServer") \ {""}
        IN  IF names = {} THEN \A k \in result.flags : result.list[k].name = {""}
            ELSE \E k \in DOMAIN result.list : /\ result.flags = {k}
                                               /\ result.list[k].name = names

\* A list holds the entries that describe a server, in the order of the
\* output: one bad entry costs no other (parse_rds_array).
EveryGoodEntryIn(array) ==
    LET good(k) == CountUpTo({j \in DOMAIN array : IsServer(array[j])}, k)
        list    == ParseRdsArray(array)
    IN  /\ Len(list) = good(Len(array))
        /\ \A k \in DOMAIN array :
              IsServer(array[k]) => {list[good(k)]} = NewFromJson(array[k].value)
=============================================================================
