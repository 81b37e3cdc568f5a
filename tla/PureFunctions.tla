----------------------------- MODULE PureFunctions -----------------------------
(***************************************************************************)
(* The functions of the service that keep no state: every step hands one   *)
(* input to one of them (src/src/server.c, src/src/uccs-server.c,          *)
(* src/src/main.c, src/src/crypt.c).                                       *)
(***************************************************************************)
EXTENDS QueryOutput, Configuration, Crypt

CONSTANTS
    Objects,    \* JSON objects that describe a server, or do not
    Statuses,   \* exit statuses of the query tool
    Outputs,    \* roots of what it printed
    HeldLists,  \* lists that may be held when a query ends
    Files,      \* configuration files
    Path,       \* the programs in the path
    URIs,       \* URIs that clients pass
    Texts, Passwords

ASSUME OutputsAssumption == \A output \in Outputs : IsParsed(output)

\* A key file has one main group at most, and the names in it are a sequence.
ASSUME FilesAssumption ==
    \A file \in Files :
        /\ \A main, other \in file.main : main = other
        /\ \A main \in file.main : \A names \in Key(main, "Servers") : IsSequence(names)

ASSUME TextsAssumption == Texts \subseteq Seq(1 .. 255)

VARIABLE input   \* what is handed to which function

NoInput == [to |-> "nobody"]

Init == input = NoInput

MakeServer ==
    \E object \in Objects : input' = [to |-> "server_new_from_json", object |-> object]

EndQuery ==
    \E status \in Statuses, output \in Outputs, list \in HeldLists :
        \E flags \in SUBSET DOMAIN list :
            input' = [to |-> "json_grab_cb", status |-> status, output |-> output,
                      list |-> list, flags |-> flags]

ReadConfiguration ==
    \E files \in {{}} \cup {{file} : file \in Files} :
        input' = [to |-> "find_config_file", files |-> files]

WriteFile ==
    \E text \in Texts, password, other \in Passwords :
        input' = [to |-> "do_aes_encrypt", text |-> text, password |-> password,
                  other |-> other]

Next ==
    \/ /\ input = NoInput
       /\ \/ MakeServer
          \/ EndQuery
          \/ ReadConfiguration
          \/ WriteFile
    \/ input # NoInput /\ input' = NoInput

Spec == Init /\ [][Next]_input

-----------------------------------------------------------------------------
(***************************************************************************)
(* Properties: those of the operators, for the input at hand.              *)
(***************************************************************************)
\* A member of a wrong type is as good as absent (server_new_from_json and the
\* constructors).
IllTypedIsAbsent ==
    input.to = "server_new_from_json" => IllTypedIsAbsentIn(input.object)

\* A server can be made again of what a client is shown of it
\* (server_get_variant, get_properties).
ReadsBack == input.to = "server_new_from_json" => ReadsBackIn(input.object)

\* Verdict and list follow from the five outcomes UccsUnlock tells apart
\* (parse_json, json_grab_cb).
OutcomeDecides ==
    input.to = "json_grab_cb" =>
        OutcomeDecidesIn(input.status, input.output, input.list, input.flags)

\* One server is marked by a good query with a default (parse_json).
OneDefault ==
    input.to = "json_grab_cb" =>
        OneDefaultIn(input.status, input.output, input.list, input.flags)

\* A bad entry costs no other entry (parse_rds_array).
EveryGoodEntry ==
    input.to = "json_grab_cb" /\ OutcomeOf(0, input.output) \in {"list", "badDefault"} =>
        EveryGoodEntryIn(input.output.value.RemoteDesktopServers.value)

\* SetLastUsedServer finds the server GetServersForLogin found
\* (handle_set_last_used_server).
LookupsAgree ==
    input.to = "find_config_file" =>
        \A uri \in URIs : LookupsAgreeIn(input.files, Path, uri)

\* A login reaches every UCCS group the main group names (find_config_file).
ConfiguredIsReached ==
    input.to = "find_config_file" => ConfiguredIsReachedIn(input.files, Path)

\* What is written is what is read (do_aes_encrypt and do_aes_decrypt).
ReadsWhatWasWritten ==
    input.to = "do_aes_encrypt" =>
        ReadsWhatWasWrittenIn(input.text, input.password, input.other)
=============================================================================
