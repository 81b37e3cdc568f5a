--------------------------- MODULE LastUsed_proofs ---------------------------
(* Proofs about LastUsed: its types, and what the users' files hold.       *)
EXTENDS LastUsed, QueryOutput_proofs

\* Looking a name up yields positions of the list it is looked up in.
LEMMA NamedInList ==
    ASSUME NEW l, NEW name
    PROVE  Named(l, name) \subseteq DOMAIN l
BY DEF Named

\* So does looking a URI up.
LEMMA AtUriInList ==
    ASSUME NEW l, NEW uri
    PROVE  AtUri(l, uri) \subseteq DOMAIN l
BY DEF AtUri

\* What a list marks is in it, if the flags it came with were.
LEMMA FlagsInList ==
    ASSUME NEW s, NEW c, NEW l, NEW flags \in SUBSET DOMAIN l
    PROVE  Flags(s, c, l, flags) \subseteq DOMAIN l
<1> DEFINE found == UNION {Named(l, name) : name \in Remembered(s, c)}
<1>1. found \subseteq DOMAIN l
  BY NamedInList
<1> QED
  BY <1>1 DEF Flags

\* A query ends with a list that may be listed, and marks positions of it:
\* flags never outlive the list they belong to (parse_json).
LEMMA ResultTyped ==
    ASSUME NEW o \in Outputs, NEW l \in Lists, NEW flags \in SUBSET DOMAIN l
    PROVE  /\ QueryResult(0, o, l, flags).list \in Lists
           /\ QueryResult(0, o, l, flags).flags
                 \subseteq DOMAIN QueryResult(0, o, l, flags).list
<1>1. CASE HasServers(o)
  <2> DEFINE node    == o.value.RemoteDesktopServers
             current == IF node.type = "array" THEN ParseRdsArray(node.value) ELSE l
             kept    == IF node.type = "array" THEN {} ELSE flags
  <2>1. current \in Lists
    BY <1>1 DEF Lists
  <2>2. Marked(o.value, current) \subseteq DOMAIN current
    BY NamedInList DEF Marked
  <2>3. kept \subseteq DOMAIN current
    OBVIOUS
  <2>4. QueryResult(0, o, l, flags) =
           [passed |-> node.type = "array" /\ DefaultIsGood(o.value, current),
            list |-> current, flags |-> kept \cup Marked(o.value, current)]
    BY <1>1 DEF QueryResult, ParseJson, ParseServers
  <2> HIDE DEF node, current, kept
  <2> QED
    BY <2>1, <2>2, <2>3, <2>4
<1>2. CASE ~HasServers(o)
  BY <1>2 DEF QueryResult, ParseJson
<1> QED
  BY <1>1, <1>2

\* SetLastUsedServer addresses a server of the configuration, also when the
\* URI is that of none.
LEMMA TargetExists ==
    ASSUME NEW uri
    PROVE  LastUsedTarget(Config, uri) \subseteq ConfigServers
BY DEF LastUsedTarget, ConfigServers

\* What a successful choice leaves behind is well formed.
LEMMA ChoiceTyped ==
    ASSUME TypeOK, NEW s \in ConfigServers, creds[s] # NoCreds,
           NEW k \in DOMAIN list[s]
    PROVE  /\ creds[s].user \in Users
           /\ FileAfter(s, k) \in Files \cup {EmptyFile}
           /\ Choice(s, k) \in Choices
<1>1. creds[s] \in Creds /\ list[s] \in Lists
  BY DEF TypeOK
<1>2. creds[s].user \in Users /\ KeyOf[creds[s].password] \in Passwords
  BY <1>1, LastUsedAssumption DEF Creds
<1>3. list[s][k] \in Entries
  BY <1>1 DEF Entries
<1> QED
  BY <1>2, <1>3 DEF FileAfter, Choice, Files, Choices, Names

\* A position that FindUri yields, other than the server's own, is one of the
\* list it looked in.
LEMMA FoundInList ==
    ASSUME NEW server, NEW l, NEW uri, NEW k \in FindUri(server, l, uri) \ {0}
    PROVE  k \in DOMAIN l
BY AtUriInList DEF FindUri

\* The parts of the type invariant that an action which shows a list, or puts
\* one in place, can disturb.
LEMMA ShowsTyped ==
    ASSUME TypeOK, NEW s \in ConfigServers, NEW l \in Lists,
           NEW flags \in SUBSET DOMAIN l, Shows(s, l, flags)
    PROVE  TypeOK'
<1>1. Flags(s, creds[s], l, flags) \subseteq DOMAIN l
  BY FlagsInList
<1> QED
  BY <1>1 DEF Shows, TypeOK

\* Types of the step that marks a listed server and writes the file.
LEMMA MarkListedTyped ==
    ASSUME TypeOK, NEW s \in ConfigServers, NEW uri, NEW w,
           MarkListed(s, uri, w), UNCHANGED <<creds, list>>
    PROVE  TypeOK'
<1>1. PICK k \in FindUri(Config[s], list[s], uri) \ {0} :
         /\ last_used' = [last_used EXCEPT ![s] = @ \cup {k}]
         /\ IF creds[s] = NoCreds \/ ~w THEN UNCHANGED <<disk, chosen>>
            ELSE /\ disk' = [disk EXCEPT ![creds[s].user] = FileAfter(s, k)]
                 /\ chosen' = [chosen EXCEPT ![<<s, creds[s].user>>] = Choice(s, k)]
  BY DEF MarkListed
<1>2. k \in DOMAIN list[s]
  BY FoundInList
<1>3. /\ DOMAIN last_used' = ConfigServers
      /\ \A t \in ConfigServers : last_used'[t] \subseteq DOMAIN list'[t]
  BY <1>1, <1>2 DEF TypeOK
<1>4. CASE creds[s] = NoCreds \/ ~w
  BY <1>1, <1>3, <1>4 DEF MarkListed, TypeOK
<1>5. CASE ~(creds[s] = NoCreds \/ ~w)
  <2>1. /\ creds[s].user \in Users
        /\ FileAfter(s, k) \in Files \cup {EmptyFile}
        /\ Choice(s, k) \in Choices
    BY <1>2, <1>5, ChoiceTyped
  <2>2. disk' \in [Users -> Files \cup {NoFile, EmptyFile}]
    BY <1>1, <1>5, <2>1 DEF TypeOK
  <2>3. chosen' \in [ConfigServers \X Users -> Choices \cup {Nothing}]
    BY <1>1, <1>5, <2>1 DEF TypeOK
  <2> QED
    BY <1>3, <2>2, <2>3 DEF MarkListed, TypeOK
<1> QED
  BY <1>4, <1>5

\* The state keeps its types: what is in memory, and what is on disk.
THEOREM LastUsedTypeCorrect == Spec => []TypeOK
<1>1. Init => TypeOK
  BY DEF Init, TypeOK, Lists
<1>2. TypeOK /\ [Next]_vars => TypeOK'
  <2> SUFFICES ASSUME TypeOK, [Next]_vars
               PROVE  TypeOK'
    OBVIOUS
  <2> UccsServers \subseteq ConfigServers
    BY DEF UccsServers
  <2>1. ASSUME NEW s \in UccsServers, NEW c \in Creds, LogIn(s, c)
        PROVE  TypeOK'
    BY <2>1 DEF LogIn, TypeOK
  <2>2. ASSUME NEW s \in UccsServers, ShowHeld(s)
        PROVE  TypeOK'
    <3>1. list[s] \in Lists /\ last_used[s] \in SUBSET DOMAIN list[s]
      BY DEF TypeOK
    <3> QED
      BY <2>2, <3>1, ShowsTyped DEF ShowHeld
  <2>3. ASSUME NEW s \in UccsServers, NEW o \in Outputs, QueryEnds(s, o)
        PROVE  TypeOK'
    <3> DEFINE result == QueryResult(0, o, list[s], last_used[s])
    <3>1. list[s] \in Lists /\ last_used[s] \in SUBSET DOMAIN list[s]
      BY DEF TypeOK
    <3>2. result.list \in Lists /\ result.flags \in SUBSET DOMAIN result.list
      BY <3>1, ResultTyped
    <3>3. \/ Shows(s, result.list, result.flags)
          \/ /\ list' = [list EXCEPT ![s] = result.list]
             /\ last_used' = [last_used EXCEPT ![s] = result.flags]
             /\ UNCHANGED <<creds, own, disk, chosen>>
      BY <2>3 DEF QueryEnds
    <3> HIDE DEF result
    <3>4. CASE Shows(s, result.list, result.flags)
      BY <3>2, <3>4, ShowsTyped
    <3>5. CASE /\ list' = [list EXCEPT ![s] = result.list]
               /\ last_used' = [last_used EXCEPT ![s] = result.flags]
               /\ UNCHANGED <<creds, own, disk, chosen>>
      BY <3>2, <3>5 DEF TypeOK
    <3> QED
      BY <3>3, <3>4, <3>5
  <2>4. ASSUME NEW s \in UccsServers, QueryFails(s)
        PROVE  TypeOK'
    BY <2>4 DEF QueryFails, TypeOK
  <2>5. ASSUME NEW u, NEW v, NEW w, SetLastUsed(u, v, w)
        PROVE  TypeOK'
    <3>1. UNCHANGED <<creds, list>>
      BY <2>5 DEF SetLastUsed
    <3>2. PICK s \in ConfigServers : \/ MarkOwn(s, v)
                                    \/ MarkListed(s, v, w)
                                    \/ MarkNothing(s, v)
      BY <2>5, TargetExists DEF SetLastUsed
    <3>3. CASE MarkOwn(s, v)
      BY <3>1, <3>3 DEF MarkOwn, TypeOK
    <3>4. CASE MarkListed(s, v, w)
      BY <3>1, <3>4, MarkListedTyped
    <3>5. CASE MarkNothing(s, v)
      BY <3>1, <3>5 DEF MarkNothing, TypeOK
    <3> QED
      BY <3>2, <3>3, <3>4, <3>5
  <2>6. CASE Restart
    BY <2>6 DEF Restart, TypeOK, Lists
  <2>7. CASE UNCHANGED vars
    BY <2>7 DEF vars, TypeOK
  <2> QED
    BY <2>1, <2>2, <2>3, <2>4, <2>5, <2>6, <2>7 DEF Next
<1> QED
  BY <1>1, <1>2, PTL DEF Spec

-----------------------------------------------------------------------------
\* Writing the choice and its file in one step keeps them together, whether
\* or not the file could be replaced.
LEMMA MarkListedKeepsFiles ==
    ASSUME TypeOK, FileIsLatestChoice, NEW s \in ConfigServers, NEW uri,
           NEW w, MarkListed(s, uri, w)
    PROVE  FileIsLatestChoice'
<1>1. PICK k \in FindUri(Config[s], list[s], uri) \ {0} :
         IF creds[s] = NoCreds \/ ~w THEN UNCHANGED <<disk, chosen>>
         ELSE /\ disk' = [disk EXCEPT ![creds[s].user] = FileAfter(s, k)]
              /\ chosen' = [chosen EXCEPT ![<<s, creds[s].user>>] = Choice(s, k)]
  BY DEF MarkListed
<1>2. k \in DOMAIN list[s]
  BY FoundInList
<1>3. CASE creds[s] = NoCreds \/ ~w
  BY <1>1, <1>3 DEF FileIsLatestChoice
<1>4. CASE ~(creds[s] = NoCreds \/ ~w)
  <2> DEFINE user == creds[s].user
  <2>1. user \in Users /\ Choice(s, k) \in Choices /\ Choice(s, k) # Nothing
    BY <1>2, <1>4, ChoiceTyped, SentinelsAssumption
  <2>2. FileAfter(s, k) # EmptyFile =>
           /\ FileAfter(s, k).group = Config[s].name
           /\ FileAfter(s, k).key = Choice(s, k).key
           /\ FileAfter(s, k).name = Choice(s, k).name
    BY DEF FileAfter, Choice
  <2>3. /\ disk' = [disk EXCEPT ![user] = FileAfter(s, k)]
        /\ chosen' = [chosen EXCEPT ![<<s, user>>] = Choice(s, k)]
    BY <1>1, <1>4
  <2> HIDE DEF user
  <2> SUFFICES ASSUME NEW u \in Users, disk'[u] \notin {NoFile, EmptyFile}
               PROVE  \E t \in ConfigServers :
                         /\ Config[t].name = disk'[u].group
                         /\ chosen'[<<t, u>>] # Nothing
                         /\ chosen'[<<t, u>>].key = disk'[u].key
                         /\ chosen'[<<t, u>>].name = disk'[u].name
    BY DEF FileIsLatestChoice
  <2>4. CASE u = user
    <3>1. disk'[u] = FileAfter(s, k)
      BY <2>1, <2>3, <2>4 DEF TypeOK
    <3>2. chosen'[<<s, u>>] = Choice(s, k)
      BY <2>1, <2>3, <2>4 DEF TypeOK
    <3> QED
      BY <2>1, <2>2, <3>1, <3>2
  <2>5. CASE u # user
    <3>1. disk'[u] = disk[u]
      BY <2>1, <2>3, <2>5 DEF TypeOK
    <3>2. \A t \in ConfigServers : chosen'[<<t, u>>] = chosen[<<t, u>>]
      BY <2>1, <2>3, <2>5 DEF TypeOK
    <3> QED
      BY <3>1, <3>2 DEF FileIsLatestChoice
  <2> QED
    BY <2>4, <2>5
<1> QED
  BY <1>3, <1>4

\* A user's file is what that user last wrote on a server with the name it
\* gives, whatever other users, failed queries, failed writes and restarts do
\* in between (set_last_used_server).
THEOREM FilesAreLatest == Spec => []FileIsLatestChoice
<1>1. Init => FileIsLatestChoice
  BY DEF Init, FileIsLatestChoice
<1>2. TypeOK /\ FileIsLatestChoice /\ [Next]_vars => FileIsLatestChoice'
  <2> SUFFICES ASSUME TypeOK, FileIsLatestChoice, [Next]_vars
               PROVE  FileIsLatestChoice'
    OBVIOUS
  <2>1. CASE UNCHANGED <<disk, chosen>>
    BY <2>1 DEF FileIsLatestChoice
  <2>2. ASSUME NEW u, NEW v, NEW w, SetLastUsed(u, v, w)
        PROVE  FileIsLatestChoice'
    <3>1. PICK s \in ConfigServers : \/ MarkOwn(s, v)
                                    \/ MarkListed(s, v, w)
                                    \/ MarkNothing(s, v)
      BY <2>2, TargetExists DEF SetLastUsed
    <3>2. CASE MarkListed(s, v, w)
      BY <3>2, MarkListedKeepsFiles
    <3>3. CASE MarkOwn(s, v) \/ MarkNothing(s, v)
      BY <2>1, <3>3 DEF MarkOwn, MarkNothing
    <3> QED
      BY <3>1, <3>2, <3>3
  <2> QED
    BY <2>1, <2>2 DEF Next, LogIn, ShowHeld, Shows, QueryEnds, QueryFails,
                      Restart, vars
<1> QED
  BY <1>1, <1>2, LastUsedTypeCorrect, PTL DEF Spec

-----------------------------------------------------------------------------
(***************************************************************************)
(* The user's last choice is the one that is shown, as long as the user    *)
(* chose on no other UCCS server, which would have written the same file.  *)
(* The file holds a name alone: without an assumption on the lists the     *)
(* first server of that name is shown.                                     *)
(***************************************************************************)
OnlyChoice(s, u) ==
    /\ chosen[<<s, u>>] # Nothing
    /\ \A t \in ConfigServers \ {s} : chosen[<<t, u>>] = Nothing

\* Only UCCS servers hold credentials, and a user's only choice is the file.
Durable ==
    /\ \A s \in ConfigServers \ UccsServers : creds[s] = NoCreds
    /\ \A s \in ConfigServers, u \in Users :
          chosen[<<s, u>>] # Nothing => s \in UccsServers
    /\ \A s \in ConfigServers, u \in Users : OnlyChoice(s, u) =>
          disk[u] = IF Config[s].name = {} \/ chosen[<<s, u>>].name = {} THEN EmptyFile
                    ELSE [key |-> chosen[<<s, u>>].key, group |-> Config[s].name,
                          name |-> chosen[<<s, u>>].name]

\* A list is a sequence, and a name in it is one string or none.
LEMMA ListsAreSequences ==
    ASSUME NEW l \in Lists
    PROVE  /\ Len(l) \in Nat /\ DOMAIN l = 1 .. Len(l)
           /\ \A k \in DOMAIN l : l[k].name = {} \/ \E n : l[k].name = {n}
<1>1. CASE l = <<>>
  BY <1>1
<1>2. CASE l # <<>>
  <2>1. PICK o \in Outputs : /\ HasServers(o) /\ o.value.RemoteDesktopServers.type = "array"
                             /\ l = ParseRdsArray(o.value.RemoteDesktopServers.value)
    BY <1>2 DEF Lists
  <2> DEFINE array == o.value.RemoteDesktopServers.value
  <2>2. IsSequence(array)
    BY <2>1, OutputsAssumption DEF IsParsed
  <2> HIDE DEF array
  <2>3. /\ Len(ParseRdsArray(array)) \in Nat
        /\ DOMAIN ParseRdsArray(array) = 1 .. Len(ParseRdsArray(array))
    BY <2>2, ParsedIsSequence
  <2>4. \A k \in DOMAIN ParseRdsArray(array) :
           \/ ParseRdsArray(array)[k].name = {}
           \/ \E n : ParseRdsArray(array)[k].name = {n}
    BY <2>2, ParsedNames
  <2> QED
    BY <2>1, <2>3, <2>4 DEF array
<1> QED
  BY <1>1, <1>2

\* Looking a name up finds the first entry that has it.
LEMMA FirstFound ==
    ASSUME NEW l \in Lists, NEW n, {k \in DOMAIN l : l[k].name = {n}} # {}
    PROVE  \E k \in DOMAIN l : /\ l[k].name = {n} /\ Named(l, n) = {k}
                               /\ \A j \in DOMAIN l : l[j].name = {n} => k <= j
<1> DEFINE named == {k \in DOMAIN l : l[k].name = {n}}
<1>1. DOMAIN l = 1 .. Len(l) /\ Len(l) \in Nat
  BY ListsAreSequences
<1>2. PICK k \in named : \A j \in named : k <= j
  <2>1. named \in SUBSET Nat
    BY <1>1
  <2> QED
    BY <2>1, LeastNatural
<1>3. \A j \in DOMAIN l : l[j].name = {n} => k <= j
  BY <1>2
<1>4. k \in Named(l, n)
  <2>1. ASSUME NEW j \in 1 .. k - 1
        PROVE  l[j].name # {n}
    <3>1. j \in DOMAIN l /\ ~(k <= j)
      BY <1>1, <1>2
    <3> QED
      BY <1>3, <3>1
  <2> QED
    BY <1>2, <2>1 DEF Named
<1>5. \A j \in Named(l, n) : j = k
  <2>1. ASSUME NEW j \in Named(l, n)
        PROVE  j = k
    <3>1. j \in DOMAIN l /\ k <= j /\ k \notin 1 .. j - 1
      BY <1>2, <1>3, <2>1 DEF Named
    <3> QED
      BY <1>1, <1>2, <3>1
  <2> QED
    BY <2>1
<1>6. Named(l, n) = {k}
  BY <1>4, <1>5
<1> QED
  BY <1>2, <1>3, <1>6

\* A list is shown as ChosenNameIsShown says when the file is the last choice.
LEMMA ShowsTheChoice ==
    ASSUME TypeOK, Durable, NEW s \in UccsServers,
           NEW l \in Lists, NEW flags, Shows(s, l, flags)
    PROVE  ChosenNameIsShown'
<1> DEFINE c      == creds[s]
           choice == chosen[<<s, c.user>>]
           named  == {k \in DOMAIN l : l[k].name = choice.name}
<1>1. /\ reply' = [server |-> s, creds |-> c, list |-> l,
                   last_used |-> Flags(s, c, l, flags)]
      /\ chosen' = chosen
  BY DEF Shows
<1>2. SUFFICES ASSUME c # NoCreds, choice # Nothing, choice.name # {},
                      Config[s].name # {}, choice.key = KeyOf[c.password],
                      \A t \in ConfigServers \ {s} : chosen[<<t, c.user>>] = Nothing,
                      named # {}
               PROVE  \E k \in named : /\ Flags(s, c, l, flags) = {k}
                                       /\ \A j \in named : k <= j
  BY <1>1 DEF ChosenNameIsShown
<1>3. c.user \in Users /\ s \in ConfigServers
  BY <1>2 DEF TypeOK, Creds, UccsServers
<1>4. disk[c.user] = [key |-> choice.key, group |-> Config[s].name, name |-> choice.name]
  BY <1>2, <1>3 DEF Durable, OnlyChoice
<1>5. choice \in Choices
  BY <1>2, <1>3 DEF TypeOK
<1>6. disk[c.user] \in Files
  BY <1>3, <1>4, <1>5 DEF Files, Choices
<1>7. Remembered(s, c) = choice.name
  BY <1>2, <1>4, <1>6, SentinelsAssumption DEF Remembered
<1>8. PICK n : choice.name = {n}
  BY <1>2, ListsAreSequences
<1>9. PICK k \in named : Named(l, n) = {k} /\ \A j \in named : k <= j
  BY <1>2, <1>8, FirstFound
<1>10. Flags(s, c, l, flags) = {k}
  BY <1>7, <1>8, <1>9 DEF Flags
<1> QED
  BY <1>9, <1>10

\* Writing a choice keeps Durable: it is the file of its user, and if another
\* server has a choice of that user's, neither is the only one any more.
LEMMA MarkListedIsDurable ==
    ASSUME TypeOK, Durable, NEW s \in ConfigServers, NEW uri, NEW w,
           MarkListed(s, uri, w), UNCHANGED creds
    PROVE  Durable'
<1>1. PICK k \in FindUri(Config[s], list[s], uri) \ {0} :
         IF creds[s] = NoCreds \/ ~w THEN UNCHANGED <<disk, chosen>>
         ELSE /\ disk' = [disk EXCEPT ![creds[s].user] = FileAfter(s, k)]
              /\ chosen' = [chosen EXCEPT ![<<s, creds[s].user>>] = Choice(s, k)]
  BY DEF MarkListed
<1>2. k \in DOMAIN list[s]
  BY FoundInList
<1>3. CASE creds[s] = NoCreds \/ ~w
  BY <1>1, <1>3 DEF Durable, OnlyChoice
<1>4. CASE ~(creds[s] = NoCreds \/ ~w)
  <2> DEFINE user == creds[s].user
  <2>1. user \in Users /\ s \in UccsServers /\ Choice(s, k) # Nothing
    BY <1>2, <1>4, ChoiceTyped, SentinelsAssumption DEF Durable
  <2>2. /\ disk' = [disk EXCEPT ![user] = FileAfter(s, k)]
        /\ chosen' = [chosen EXCEPT ![<<s, user>>] = Choice(s, k)]
    BY <1>1, <1>4
  <2> HIDE DEF user
  <2>3. /\ disk'[user] = FileAfter(s, k) /\ chosen'[<<s, user>>] = Choice(s, k)
        /\ \A u \in Users : u # user => disk'[u] = disk[u]
        /\ \A t \in ConfigServers, u \in Users :
              t # s \/ u # user => chosen'[<<t, u>>] = chosen[<<t, u>>]
    BY <2>1, <2>2 DEF TypeOK
  <2>4. \A t \in ConfigServers, u \in Users :
           chosen'[<<t, u>>] # Nothing => t \in UccsServers
    BY <2>1, <2>3 DEF Durable
  <2>5. ASSUME NEW t \in ConfigServers, NEW u \in Users, OnlyChoice(t, u)'
        PROVE  disk'[u] = IF Config[t].name = {} \/ chosen'[<<t, u>>].name = {}
                          THEN EmptyFile
                          ELSE [key |-> chosen'[<<t, u>>].key, group |-> Config[t].name,
                                name |-> chosen'[<<t, u>>].name]
    <3>1. CASE u # user
      <4>1. OnlyChoice(t, u)
        BY <2>3, <2>5, <3>1 DEF OnlyChoice
      <4> QED
        BY <2>3, <3>1, <4>1 DEF Durable
    <3>2. CASE u = user
      <4>1. t = s
        BY <2>1, <2>3, <2>5, <3>2 DEF OnlyChoice
      <4> QED
        BY <2>3, <3>2, <4>1 DEF FileAfter, Choice
    <3> QED
      BY <3>1, <3>2
  <2> QED
    BY <2>4, <2>5 DEF Durable
<1> QED
  BY <1>3, <1>4

\* What a reply shows is a list of a UCCS server.
ListedReply ==
    reply # Nothing => /\ reply.server \in UccsServers
                       /\ reply.creds \in Creds \cup {NoCreds}
                       /\ reply.list \in Lists

ChoiceInv == Durable /\ ChosenNameIsShown /\ ListedReply

LEMMA ChoiceIsInvariant == Spec => []ChoiceInv
<1>1. Init => ChoiceInv
  BY DEF Init, ChoiceInv, Durable, OnlyChoice, ChosenNameIsShown, ListedReply
<1>2. TypeOK /\ ChoiceInv /\ [Next]_vars => ChoiceInv'
  <2> SUFFICES ASSUME TypeOK, ChoiceInv, [Next]_vars
               PROVE  ChoiceInv'
    OBVIOUS
  <2> UccsServers \subseteq ConfigServers
    BY DEF UccsServers
  <2> Durable
    BY DEF ChoiceInv
  <2>1. ASSUME reply' = Nothing, Durable'
        PROVE  ChoiceInv'
    BY <2>1 DEF ChoiceInv, ChosenNameIsShown, ListedReply
  <2>2. ASSUME \A t \in ConfigServers \ UccsServers : creds'[t] = NoCreds,
               disk' = disk, chosen' = chosen
        PROVE  Durable'
    BY <2>2 DEF Durable, OnlyChoice
  <2> \A t \in ConfigServers \ UccsServers : creds[t] = NoCreds
    BY DEF Durable
  <2>3. ASSUME NEW s \in UccsServers, NEW l \in Lists, NEW flags, Shows(s, l, flags)
        PROVE  ChoiceInv'
    <3>1. Durable'
      BY <2>2, <2>3 DEF Shows
    <3>2. ListedReply'
      BY <2>3 DEF Shows, ListedReply, TypeOK
    <3> QED
      BY <2>3, <3>1, <3>2, ShowsTheChoice DEF ChoiceInv
  <2>4. ASSUME NEW s \in UccsServers, NEW c \in Creds, LogIn(s, c)
        PROVE  ChoiceInv'
    <3>1. Durable'
      BY <2>2, <2>4 DEF LogIn, TypeOK
    <3> QED
      BY <2>1, <2>4, <3>1 DEF LogIn
  <2>5. ASSUME NEW s \in UccsServers, ShowHeld(s)
        PROVE  ChoiceInv'
    BY <2>3, <2>5 DEF ShowHeld, TypeOK
  <2>6. ASSUME NEW s \in UccsServers, NEW o \in Outputs, QueryEnds(s, o)
        PROVE  ChoiceInv'
    <3> DEFINE result == QueryResult(0, o, list[s], last_used[s])
    <3>1. result.list \in Lists
      BY ResultTyped DEF TypeOK
    <3>2. \/ Shows(s, result.list, result.flags)
          \/ /\ reply' = Nothing
             /\ creds' = creds /\ disk' = disk /\ chosen' = chosen
      BY <2>6 DEF QueryEnds
    <3> HIDE DEF result
    <3>3. CASE Shows(s, result.list, result.flags)
      BY <2>3, <3>1, <3>3
    <3>4. CASE reply' = Nothing /\ creds' = creds /\ disk' = disk /\ chosen' = chosen
      <4>1. Durable'
        BY <2>2, <3>4
      <4> QED
        BY <2>1, <3>4, <4>1
    <3> QED
      BY <3>2, <3>3, <3>4
  <2>7. ASSUME NEW s \in UccsServers, QueryFails(s)
        PROVE  ChoiceInv'
    <3>1. Durable'
      BY <2>2, <2>7 DEF QueryFails, TypeOK
    <3> QED
      BY <2>1, <2>7, <3>1 DEF QueryFails
  <2>8. ASSUME NEW u, NEW v, NEW w, SetLastUsed(u, v, w)
        PROVE  ChoiceInv'
    <3>1. reply' = Nothing /\ creds' = creds
      BY <2>8 DEF SetLastUsed
    <3>2. PICK s \in ConfigServers : \/ MarkOwn(s, v)
                                    \/ MarkListed(s, v, w)
                                    \/ MarkNothing(s, v)
      BY <2>8, TargetExists DEF SetLastUsed
    <3>3. CASE MarkListed(s, v, w)
      BY <2>1, <3>1, <3>3, MarkListedIsDurable
    <3>4. CASE MarkOwn(s, v) \/ MarkNothing(s, v)
      <4>1. disk' = disk /\ chosen' = chosen
        BY <3>4 DEF MarkOwn, MarkNothing
      <4>2. Durable'
        BY <2>2, <3>1, <4>1
      <4> QED
        BY <2>1, <3>1, <4>2
    <3> QED
      BY <3>2, <3>3, <3>4
  <2>9. CASE Restart
    <3>1. Durable'
      BY <2>2, <2>9 DEF Restart
    <3> QED
      BY <2>1, <2>9, <3>1 DEF Restart
  <2>10. CASE UNCHANGED vars
    <3>1. creds' = creds /\ disk' = disk /\ chosen' = chosen /\ reply' = reply
      BY <2>10 DEF vars
    <3>2. Durable'
      BY <2>2, <3>1
    <3>3. ChosenNameIsShown' /\ ListedReply'
      BY <3>1 DEF ChoiceInv, ChosenNameIsShown, ListedReply
    <3> QED
      BY <3>2, <3>3 DEF ChoiceInv
  <2> QED
    BY <2>4, <2>5, <2>6, <2>7, <2>8, <2>9, <2>10 DEF Next
<1> QED
  BY <1>1, <1>2, LastUsedTypeCorrect, PTL DEF Spec

\* Every list a user is shown has one mark, on the first server with the name
\* of the last choice that user could write, if it has one and the user chose on
\* no other server: whatever the lists are, and whatever other users, queries,
\* failed writes and restarts do in between (set_last_used_server,
\* uccs_server_get_servers).
THEOREM LastNameIsShown == Spec => []ChosenNameIsShown
<1>1. ChoiceInv => ChosenNameIsShown
  BY DEF ChoiceInv
<1> QED
  BY <1>1, ChoiceIsInvariant, PTL

\* With one UCCS server, in every list that has one server of that name, that is
\* the server that was chosen (set_last_used_server, uccs_server_get_servers).
OneUccsServer == \A s, t \in UccsServers : s = t

THEOREM LastChoiceIsShown ==
    ASSUME OneUccsServer
    PROVE  Spec => []ChosenIsShown
<1>1. ChoiceInv => ChosenIsShown
  <2> SUFFICES ASSUME Durable, ChosenNameIsShown, ListedReply,
                      reply # Nothing, reply.creds # NoCreds
               PROVE  LET choice == chosen[<<reply.server, reply.creds.user>>]
                          l      == reply.list
                          isChoice(k) == l[k].name = choice.name /\ l[k].uri = choice.uri
                      IN  /\ choice # Nothing
                          /\ choice.name # {} /\ Config[reply.server].name # {}
                          /\ choice.key = KeyOf[reply.creds.password]
                          /\ \E k \in DOMAIN l :
                                /\ isChoice(k)
                                /\ \A j \in DOMAIN l : l[j].name = choice.name => j = k
                          => \E k \in DOMAIN l : reply.last_used = {k} /\ isChoice(k)
    BY DEF ChoiceInv, ChosenIsShown
  <2> DEFINE choice == chosen[<<reply.server, reply.creds.user>>]
             l      == reply.list
             named  == {k \in DOMAIN l : l[k].name = choice.name}
  <2> SUFFICES ASSUME choice # Nothing, choice.name # {},
                      Config[reply.server].name # {},
                      choice.key = KeyOf[reply.creds.password],
                      NEW k \in DOMAIN l,
                      l[k].name = choice.name, l[k].uri = choice.uri,
                      \A j \in DOMAIN l : l[j].name = choice.name => j = k
               PROVE  reply.last_used = {k}
    OBVIOUS
  <2>1. \A s \in ConfigServers \ {reply.server} :
           chosen[<<s, reply.creds.user>>] = Nothing
    BY DEF ListedReply, Creds, Durable, OneUccsServer
  <2>2. PICK j \in named : reply.last_used = {j}
    <3>1. k \in named
      OBVIOUS
    <3> QED
      BY <2>1, <3>1 DEF ChosenNameIsShown
  <2>3. j = k
    BY <2>2
  <2> QED
    BY <2>2, <2>3
<1> QED
  BY <1>1, ChoiceIsInvariant, PTL
=============================================================================
