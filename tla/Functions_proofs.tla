--------------------------- MODULE Functions_proofs ---------------------------
(***************************************************************************)
(* The functions that keep no state, for every input: facts about the      *)
(* configuration and the encryption, beside those about the output of a    *)
(* query in QueryOutput_proofs, and the properties of PureFunctions.       *)
(***************************************************************************)
EXTENDS PureFunctions, QueryOutput_proofs

-----------------------------------------------------------------------------
\* The servers are numbered from 1 on, whatever the file (find_config_file).
LEMMA ServersAreNumbered ==
    ASSUME NEW files, NEW path,
           \A file \in files : \A main \in file.main :
              \A names \in Key(main, "Servers") : IsSequence(names)
    PROVE  \E n \in Nat : DOMAIN FindConfigFile(files, path).servers = 1 .. n
<1> DEFINE mains   == UNION {file.main : file \in files}
           lists   == UNION {Key(main, "Servers") : main \in mains}
           servers == FindConfigFile(files, path).servers
           names   == CHOOSE l \in lists : TRUE
           file    == CHOOSE f \in files : TRUE
           keep    == {k \in DOMAIN names : names[k] \in DOMAIN file.groups}
<1>1. CASE lists = {}
  <2>1. servers = <<>>
    BY <1>1 DEF FindConfigFile
  <2>2. DOMAIN servers = 1 .. 0
    BY <2>1
  <2> QED
    BY <2>2
<1>2. CASE lists # {}
  <2>1. names \in lists
    BY <1>2
  <2>2. IsSequence(names)
    BY <2>1
  <2>3. servers = ServersOf(file, path, names)
    BY <1>2 DEF FindConfigFile
  <2>4. DOMAIN servers = DOMAIN Kept(names, keep)
    BY <2>3 DEF ServersOf
  <2> HIDE DEF names, keep, servers
  <2>5. Appended(names, keep, Len(names), Kept(names, keep))
    BY <2>2, KeepsWhatItShould DEF IsSequence
  <2>6. DOMAIN Kept(names, keep) = 1 .. Len(Kept(names, keep))
    BY <2>5 DEF Appended
  <2>7. Len(Kept(names, keep)) \in Nat
    BY <2>5 DEF Appended
  <2> QED
    BY <2>4, <2>6, <2>7 DEF servers
<1> QED
  BY <1>1, <1>2

\* The loop of SetLastUsedServer stops where that of a login does: it visits
\* the servers up to the first UCCS server with the URI, so the last one it
\* visits is that server (handle_get_servers_login, handle_set_last_used_server).
LEMMA LookupsAlwaysAgree ==
    ASSUME NEW files, NEW path, NEW uri,
           \A file \in files : \A main \in file.main :
              \A names \in Key(main, "Servers") : IsSequence(names)
    PROVE  LookupsAgreeIn(files, path, uri)
<1> DEFINE servers    == FindConfigFile(files, path).servers
           Matches(k) == servers[k].kind = "uccs" /\ servers[k].uri = {uri}
           visited    == {k \in DOMAIN servers : \A j \in 1 .. k - 1 : ~Matches(j)}
<1>1. PICK n \in Nat : DOMAIN servers = 1 .. n
  BY ServersAreNumbered
<1>2. LoginTarget(servers, uri)
         = {k \in DOMAIN servers : Matches(k) /\ \A j \in 1 .. k - 1 : ~Matches(j)}
  BY DEF LoginTarget
<1>3. LastUsedTarget(servers, uri) = {k \in visited : \A j \in visited : j <= k}
  BY DEF LastUsedTarget
<1> HIDE DEF servers, Matches
<1>4. ASSUME NEW k \in LoginTarget(servers, uri)
      PROVE  LastUsedTarget(servers, uri) = {k} /\ LoginTarget(servers, uri) = {k}
  <2>1. k \in 1 .. n /\ Matches(k) /\ \A j \in 1 .. k - 1 : ~Matches(j)
    BY <1>1, <1>2
  <2>2. visited = 1 .. k
    <3>1. ASSUME NEW i \in visited
          PROVE  i \in 1 .. k
      <4>1. i \in 1 .. n /\ ~(k \in 1 .. i - 1)
        BY <1>1, <2>1
      <4> QED
        BY <2>1, <4>1
    <3>2. ASSUME NEW i \in 1 .. k
          PROVE  i \in visited
      <4>1. i \in 1 .. n /\ \A j \in 1 .. i - 1 : j \in 1 .. k - 1
        BY <2>1
      <4> QED
        BY <1>1, <2>1, <4>1
    <3> QED
      BY <3>1, <3>2
  <2> HIDE DEF visited
  <2>3. {i \in 1 .. k : \A j \in 1 .. k : j <= i} = {k}
    BY <2>1
  <2>4. LastUsedTarget(servers, uri) = {k}
    BY <1>3, <2>2, <2>3
  <2>5. ASSUME NEW i \in LoginTarget(servers, uri)
        PROVE  i = k
    <3>1. i \in 1 .. n /\ Matches(i) /\ \A j \in 1 .. i - 1 : ~Matches(j)
      BY <1>1, <1>2
    <3>2. ~(k \in 1 .. i - 1) /\ ~(i \in 1 .. k - 1)
      BY <2>1, <3>1
    <3> QED
      BY <2>1, <3>1, <3>2
  <2> QED
    BY <2>4, <2>5
<1>5. \A k \in LoginTarget(servers, uri) : servers[k].kind = "uccs"
  BY <1>2 DEF Matches
<1>6. LoginTarget(servers, uri) # {} =>
         LastUsedTarget(servers, uri) = LoginTarget(servers, uri)
  BY <1>4
<1> QED
  BY <1>5, <1>6 DEF LookupsAgreeIn, servers

LEMMA KeyOfOne ==
    ASSUME NEW group, NEW key, NEW v \in Key(group, key)
    PROVE  Key(group, key) = {v}
BY DEF Key

\* A group whose Type names no other kind makes a UCCS server, and no other
\* group does (server_new_from_keyfile).
LEMMA UccsGroups ==
    ASSUME NEW group, NEW path
    PROVE  /\ Key(group, "Type") \cap {"RDP", "ICA"} = {} =>
                 NewFromKeyfile(group, path) = UccsFromKeyfile(group, path)
           /\ NewFromKeyfile(group, path).kind = "uccs" =>
                 Key(group, "Type") \cap {"RDP", "ICA"} = {}
           /\ UccsFromKeyfile(group, path).kind = "uccs"
           /\ NewFromKeyfile(group, path).uri = Key(group, "URI")
<1> DEFINE type == Key(group, "Type")
<1>1. type = {} \/ \E v : type = {v}
  BY DEF Key
<1>2. /\ RdpFromKeyfile(group).kind = "rdp" /\ CitrixFromKeyfile(group).kind = "citrix"
      /\ UccsFromKeyfile(group, path).kind = "uccs"
      /\ RdpFromKeyfile(group).uri = Key(group, "URI")
      /\ CitrixFromKeyfile(group).uri = Key(group, "URI")
      /\ UccsFromKeyfile(group, path).uri = Key(group, "URI")
  BY DEF RdpFromKeyfile, CitrixFromKeyfile, UccsFromKeyfile
<1> HIDE DEF type
<1>3. CASE type = {"RDP"}
  <2>1. NewFromKeyfile(group, path) = RdpFromKeyfile(group)
    BY <1>3 DEF NewFromKeyfile, type
  <2> QED
    BY <1>2, <1>3, <2>1 DEF type
<1>4. CASE type = {"ICA"}
  <2>1. NewFromKeyfile(group, path) = CitrixFromKeyfile(group)
    BY <1>4 DEF NewFromKeyfile, type
  <2> QED
    BY <1>2, <1>4, <2>1 DEF type
<1>5. CASE type \notin {{"RDP"}, {"ICA"}}
  <2>1. NewFromKeyfile(group, path) = UccsFromKeyfile(group, path)
    BY <1>5 DEF NewFromKeyfile, type
  <2>2. type \cap {"RDP", "ICA"} = {}
    BY <1>1, <1>5
  <2> QED
    BY <1>2, <2>1, <2>2 DEF type
<1> QED
  BY <1>3, <1>4, <1>5

\* The first server that matches a UCCS group's URI is made of that group, if
\* no other UCCS group has the URI (find_config_file, handle_get_servers_login).
LEMMA AlwaysReached ==
    ASSUME NEW files, NEW path,
           \A file, other \in files : file = other,
           \A file \in files :
              /\ \A main, other \in file.main : main = other
              /\ \A main \in file.main :
                    \A names \in Key(main, "Servers") : IsSequence(names)
    PROVE  ConfiguredIsReachedIn(files, path)
<1> SUFFICES ASSUME NEW file \in files, NEW main \in file.main,
                    NEW names \in Key(main, "Servers")
             PROVE  LET servers == FindConfigFile(files, path).servers
                        uccs    == {n \in DOMAIN names :
                                       /\ names[n] \in DOMAIN file.groups
                                       /\ Key(file.groups[names[n]], "Type") \cap {"RDP", "ICA"} = {}}
                        group(n) == file.groups[names[n]]
                    IN  \A n \in uccs : \A uri \in Key(group(n), "URI") :
                           (\A m \in uccs : Key(group(m), "URI") = {uri} => names[m] = names[n])
                              => \E k \in LoginTarget(servers, uri) :
                                    servers[k] = UccsFromKeyfile(group(n), path)
  BY Zenon DEF ConfiguredIsReachedIn
<1> DEFINE servers == FindConfigFile(files, path).servers
           group(name) == file.groups[name]
           uccs    == {n \in DOMAIN names :
                          /\ names[n] \in DOMAIN file.groups
                          /\ Key(group(names[n]), "Type") \cap {"RDP", "ICA"} = {}}
<1> SUFFICES ASSUME NEW n \in uccs, NEW uri \in Key(group(names[n]), "URI"),
                    \A m \in uccs :
                       Key(group(names[m]), "URI") = {uri} => names[m] = names[n]
             PROVE  \E k \in LoginTarget(servers, uri) :
                       servers[k] = UccsFromKeyfile(group(names[n]), path)
  BY Zenon
<1> DEFINE keep    == {k \in DOMAIN names : names[k] \in DOMAIN file.groups}
           known   == Kept(names, keep)
           place(m) == CountUpTo(keep, m)
           Matches(k) == servers[k].kind = "uccs" /\ servers[k].uri = {uri}
           found   == {k \in DOMAIN servers : Matches(k)}
<1>1. servers = [k \in DOMAIN known |-> NewFromKeyfile(group(known[k]), path)]
  <2>1. UNION {f.main : f \in files} = {main}
    OBVIOUS
  <2>2. Key(main, "Servers") = {names}
    BY DEF Key
  <2>3. UNION {Key(m, "Servers") : m \in {main}} = {names}
    BY <2>2
  <2>4. (CHOOSE f \in files : TRUE) = file /\ (CHOOSE x \in {names} : TRUE) = names
    OBVIOUS
  <2>5. servers = ServersOf(file, path, names)
    BY <2>1, <2>3, <2>4 DEF FindConfigFile
  <2> QED
    BY <2>5 DEF ServersOf
<1>2. Appended(names, keep, Len(names), known)
  BY KeepsWhatItShould DEF IsSequence
<1>3. DOMAIN names = 1 .. Len(names)
  BY DEF IsSequence
<1>4. \A k \in DOMAIN names : k \in keep <=> names[k] \in DOMAIN file.groups
  OBVIOUS
<1> HIDE DEF servers, keep, known
<1>5. DOMAIN known = 1 .. Len(known) /\ DOMAIN servers = 1 .. Len(known)
  BY <1>1, <1>2 DEF Appended
<1>6. place(n) \in found
  <2>1. place(n) \in DOMAIN known /\ known[place(n)] = names[n]
    BY <1>2, <1>3, <1>4, <1>5 DEF Appended
  <2>2. servers[place(n)] = NewFromKeyfile(group(names[n]), path)
    BY <1>1, <2>1
  <2>3. Key(group(names[n]), "URI") = {uri}
    BY KeyOfOne
  <2>4. Matches(place(n))
    BY <2>2, <2>3, UccsGroups
  <2> QED
    BY <1>5, <2>1, <2>4
<1>7. PICK k \in found : \A j \in found : k <= j
  <2>1. found \in SUBSET Nat
    BY <1>5
  <2> QED
    BY <1>6, <2>1, LeastNatural
<1>8. k \in LoginTarget(servers, uri)
  <2>1. ASSUME NEW j \in 1 .. k - 1
        PROVE  ~Matches(j)
    <3>1. j \in DOMAIN servers /\ ~(k <= j)
      <4>1. Len(known) \in Nat /\ k \in 1 .. Len(known)
        BY <1>2, <1>5 DEF Appended
      <4> QED
        BY <1>5, <4>1
    <3> QED
      BY <1>7, <3>1
  <2> QED
    BY <1>7, <2>1 DEF LoginTarget
<1>9. PICK m \in DOMAIN names : m \in keep /\ known[k] = names[m]
  BY <1>2, <1>3, <1>5 DEF Appended
<1>10. names[m] = names[n]
  <2>1. servers[k] = NewFromKeyfile(group(names[m]), path)
    BY <1>1, <1>5, <1>9
  <2>2. /\ Key(group(names[m]), "Type") \cap {"RDP", "ICA"} = {}
        /\ Key(group(names[m]), "URI") = {uri}
    BY <1>7, <2>1, UccsGroups
  <2> QED
    BY <1>4, <1>9, <2>2
<1>11. servers[k] = UccsFromKeyfile(group(names[n]), path)
  BY <1>1, <1>5, <1>7, <1>9, <1>10, UccsGroups
<1> QED
  BY <1>8, <1>11 DEF servers

-----------------------------------------------------------------------------
\* Where a byte of the text is found among its blocks.
LEMMA InItsBlock ==
    ASSUME NEW n \in Nat, NEW i \in 1 .. ((n + BlockLength - 1) \div BlockLength) * BlockLength
    PROVE  LET b == (i - 1) \div BlockLength + 1
           IN  /\ b \in 1 .. (n + BlockLength - 1) \div BlockLength
               /\ i \in 1 .. b * BlockLength
<1> DEFINE B == BlockLength
           q == (i - 1) \div B
           m == (n + B - 1) \div B
<1>1. B \in Nat /\ B > 0
  BY CryptAssumption
<1>2. m \in Nat
  BY <1>1, SMTT(30)
<1>3. i \in Nat /\ 1 <= i /\ i <= m * B
  BY <1>1, <1>2, SMTT(30)
<1>4. q \in Nat /\ q * B <= i - 1 /\ i - 1 < (q + 1) * B
  BY <1>1, <1>3, SMTT(30)
<1>5. q < m
  <2>1. q * B < m * B
    BY <1>1, <1>2, <1>3, <1>4, SMTT(30)
  <2> QED
    BY <1>1, <1>2, <1>4, <2>1, SMTT(30)
<1> QED
  BY <1>1, <1>2, <1>3, <1>4, <1>5, SMTT(30)

\* The blocks have room for the text.
LEMMA Room ==
    ASSUME NEW n \in Nat
    PROVE  /\ (n + BlockLength - 1) \div BlockLength \in Nat
           /\ n <= ((n + BlockLength - 1) \div BlockLength) * BlockLength
<1> DEFINE B == BlockLength
           m == (n + B - 1) \div B
<1>1. B \in Nat /\ B > 0
  BY CryptAssumption
<1>2. m \in Nat /\ n + B - 1 < (m + 1) * B
  BY <1>1, SMTT(30)
<1>3. (m + 1) * B = m * B + B
  BY <1>1, <1>2, SMTT(30)
<1> QED
  BY <1>1, <1>2, <1>3, SMTT(30)

\* What the right key makes of the blocks: the text, filled up with 0.
LEMMA DecryptedIsPadded ==
    ASSUME NEW text \in Seq(1 .. 255), NEW password, NEW other,
           CipherKey(other) = CipherKey(password)
    PROVE  Decrypted(Encrypt(text, password), other)
              = Padded(text, Blocks(text) * BlockLength)
<1> DEFINE blocks == Encrypt(text, password)
           n      == Blocks(text) * BlockLength
           of(i)  == (i - 1) \div BlockLength + 1
<1>1. Len(text) \in Nat
  OBVIOUS
<1>2. Blocks(text) \in Nat
  BY <1>1, Room DEF Blocks
<1>3. Len(blocks) = Blocks(text)
  <2>1. blocks \in Seq({blocks[b] : b \in 1 .. Blocks(text)})
    BY <1>2, SMTT(30) DEF Encrypt
  <2>2. DOMAIN blocks = 1 .. Blocks(text)
    BY DEF Encrypt
  <2> QED
    BY <1>2, <2>1, <2>2
<1>4. ASSUME NEW i \in 1 .. n
      PROVE  /\ blocks[of(i)].key = CipherKey(other)
             /\ blocks[of(i)].upTo[i] = IF i <= Len(text) THEN text[i] ELSE 0
  <2>1. of(i) \in 1 .. Blocks(text) /\ i \in 1 .. of(i) * BlockLength
    BY <1>1, InItsBlock DEF Blocks
  <2>2. blocks[of(i)] = [key  |-> CipherKey(password),
                         upTo |-> Padded(text, of(i) * BlockLength)]
    BY <2>1 DEF Encrypt
  <2> HIDE DEF blocks, of
  <2>3. blocks[of(i)].upTo = Padded(text, of(i) * BlockLength)
    BY <2>2
  <2> QED
    BY <2>1, <2>2, <2>3 DEF Padded
<1> HIDE DEF blocks, of
<1>5. Decrypted(blocks, other)
         = [i \in 1 .. n |-> IF blocks[of(i)].key = CipherKey(other)
                             THEN blocks[of(i)].upTo[i] ELSE Noise]
  BY <1>3 DEF Decrypted, of
<1> QED
  BY <1>4, <1>5 DEF Padded, blocks

\* A text of any length, with a password of any length, is read back as it was
\* written, block boundaries or not (do_aes_encrypt, do_aes_decrypt).
LEMMA AlwaysReadsWhatWasWritten ==
    ASSUME NEW text \in Seq(1 .. 255), NEW password, NEW other
    PROVE  ReadsWhatWasWrittenIn(text, password, other)
<1> SUFFICES ASSUME CipherKey(other) = CipherKey(password)
             PROVE  Decrypt(Encrypt(text, password), other) = text
  BY DEF ReadsWhatWasWrittenIn
<1> DEFINE n     == Blocks(text) * BlockLength
           bytes == Padded(text, n)
<1>1. Len(text) \in Nat /\ n \in Nat /\ Len(text) <= n
  <2>1. Len(text) \in Nat
    OBVIOUS
  <2>2. Blocks(text) \in Nat /\ Len(text) <= n
    BY <2>1, Room DEF Blocks
  <2> QED
    BY <2>1, <2>2, CryptAssumption
<1>2. bytes = [i \in 1 .. n |-> IF i <= Len(text) THEN text[i] ELSE 0]
  BY DEF Padded
<1>3. \A i \in 1 .. Len(text) : text[i] \in 1 .. 255
  BY ElementOfSeq
<1>4. text = [i \in 1 .. Len(text) |-> text[i]]
  OBVIOUS
<1> DEFINE l == Len(text)
<1> HIDE DEF n, bytes, l
<1>5. /\ l \in Nat /\ n \in Nat /\ l <= n
      /\ bytes = [i \in 1 .. n |-> IF i <= l THEN text[i] ELSE 0]
      /\ \A i \in 1 .. l : text[i] # 0
  <2>1. \A x \in 1 .. 255 : x # 0
    OBVIOUS
  <2> QED
    BY <1>1, <1>2, <1>3, <2>1 DEF l
<1>6. {j \in DOMAIN bytes : \A k \in 1 .. j : bytes[k] # 0} = 1 .. l
  <2>1. ASSUME NEW j \in 1 .. l, NEW k \in 1 .. j
        PROVE  j \in DOMAIN bytes /\ bytes[k] # 0
    BY <1>5
  <2>2. ASSUME NEW j \in DOMAIN bytes, \A k \in 1 .. j : bytes[k] # 0
        PROVE  j \in 1 .. l
    <3>1. j \in 1 .. n /\ bytes[j] # 0
      <4>1. j \in 1 .. n
        BY <1>5
      <4>2. j \in 1 .. j
        BY <1>5, <4>1
      <4> QED
        BY <2>2, <4>1, <4>2
    <3> QED
      BY <1>5, <3>1
  <2>3. 1 .. l \subseteq DOMAIN bytes
    BY <1>5
  <2> QED
    BY <2>1, <2>2, <2>3
<1>7. UpToZero(bytes) = [i \in 1 .. l |-> bytes[i]]
  BY <1>6 DEF UpToZero
<1>8. [i \in 1 .. l |-> bytes[i]] = [i \in 1 .. l |-> text[i]]
  BY <1>5
<1> QED
  BY <1>4, <1>7, <1>8, DecryptedIsPadded DEF Decrypt, bytes, n, l

-----------------------------------------------------------------------------
(***************************************************************************)
(* The properties of PureFunctions as invariants.  What is handed to a     *)
(* function is what some action hands to it; that is all they rest on,     *)
(* besides the facts above.                                                *)
(***************************************************************************)
InputTyped ==
    \/ input = NoInput
    \/ \E object \in Objects : input = [to |-> "server_new_from_json", object |-> object]
    \/ \E status \in Statuses, output \in Outputs, list \in HeldLists :
          \E flags \in SUBSET DOMAIN list :
             input = [to |-> "json_grab_cb", status |-> status, output |-> output,
                      list |-> list, flags |-> flags]
    \/ \E files \in {{}} \cup {{file} : file \in Files} :
          input = [to |-> "find_config_file", files |-> files]
    \/ \E text \in Texts, password, other \in Passwords :
          input = [to |-> "do_aes_encrypt", text |-> text, password |-> password,
                   other |-> other]

LEMMA InputsAreTyped == Spec => []InputTyped
<1>1. Init => InputTyped
  BY DEF Init, InputTyped
<1>2. InputTyped /\ [Next]_input => InputTyped'
  <2> SUFFICES ASSUME InputTyped, [Next]_input
               PROVE  InputTyped'
    OBVIOUS
  <2>1. CASE MakeServer
    BY <2>1 DEF MakeServer, InputTyped
  <2>2. CASE EndQuery
    BY <2>2, Zenon DEF EndQuery, InputTyped
  <2>3. CASE ReadConfiguration
    BY <2>3, Zenon DEF ReadConfiguration, InputTyped
  <2>4. CASE WriteFile
    BY <2>4, Zenon DEF WriteFile, InputTyped
  <2>5. CASE input' = NoInput
    BY <2>5 DEF InputTyped, NoInput
  <2>6. CASE UNCHANGED input
    BY <2>6, Zenon DEF InputTyped
  <2> QED
    BY <2>1, <2>2, <2>3, <2>4, <2>5, <2>6 DEF Next
<1> QED
  BY <1>1, <1>2, PTL DEF Spec

\* What is handed to the end of a query, and to the reading of the file.
LEMMA QueryInput ==
    ASSUME InputTyped, input.to = "json_grab_cb"
    PROVE  input.output \in Outputs
<1>1. input # NoInput
  BY DEF NoInput
<1> QED
  BY <1>1 DEF InputTyped

LEMMA FileInput ==
    ASSUME InputTyped, input.to = "find_config_file"
    PROVE  /\ \A file, other \in input.files : file = other
           /\ input.files \subseteq Files
<1>1. input # NoInput
  BY DEF NoInput
<1>2. PICK files \in {{}} \cup {{file} : file \in Files} : input.files = files
  BY <1>1 DEF InputTyped
<1> QED
  BY <1>2

LEMMA TextInput ==
    ASSUME InputTyped, input.to = "do_aes_encrypt"
    PROVE  input.text \in Seq(1 .. 255)
<1>1. input # NoInput
  BY DEF NoInput
<1>2. input.text \in Texts
  BY <1>1 DEF InputTyped
<1> QED
  BY <1>2, TextsAssumption

\* Members of a type the constructors do not look for never change the server
\* that is made (server_new_from_json).
THEOREM IllTypedNeverMatters == Spec => []IllTypedIsAbsent
<1>1. InputTyped => IllTypedIsAbsent
  BY IllTypedNeverCounts DEF IllTypedIsAbsent
<1> QED
  BY <1>1, InputsAreTyped, PTL

\* Of what a client is shown of a server the same server can be made, whatever
\* JSON object it came from (server_get_variant, get_properties).
THEOREM ShownIsEnough == Spec => []ReadsBack
<1>1. InputTyped => ReadsBack
  BY AlwaysReadsBack DEF ReadsBack
<1> QED
  BY <1>1, InputsAreTyped, PTL

\* The verdict on a query and the list that is held after it follow from its
\* outcome, whatever was printed and whatever was held (json_grab_cb).
THEOREM OutcomeAlwaysDecides == Spec => []OutcomeDecides
<1>1. InputTyped => OutcomeDecides
  BY OutcomesDecide DEF OutcomeDecides
<1> QED
  BY <1>1, InputsAreTyped, PTL

\* A good query leaves the tool's default marked and nothing else, in lists of
\* any length and whatever was marked before (parse_json).
THEOREM DefaultIsTheMark == Spec => []OneDefault
<1>1. InputTyped => OneDefault
  <2> SUFFICES ASSUME InputTyped, input.to = "json_grab_cb"
               PROVE  OneDefaultIn(input.status, input.output, input.list, input.flags)
    BY DEF OneDefault
  <2> QED
    BY QueryInput, OutputsAssumption, AlwaysOneDefault
<1> QED
  BY <1>1, InputsAreTyped, PTL

\* A list holds every entry of the output that describes a server, in order, and
\* no other, however many bad entries are between them (parse_rds_array).
THEOREM GoodEntriesAreListed == Spec => []EveryGoodEntry
<1>1. InputTyped => EveryGoodEntry
  <2> SUFFICES ASSUME InputTyped, input.to = "json_grab_cb",
                      OutcomeOf(0, input.output) \in {"list", "badDefault"}
               PROVE  EveryGoodEntryIn(input.output.value.RemoteDesktopServers.value)
    BY DEF EveryGoodEntry
  <2>1. /\ HasServers(input.output)
        /\ input.output.value.RemoteDesktopServers.type = "array"
    BY DEF OutcomeOf, ListOutcome
  <2> QED
    BY <2>1, QueryInput, OutputsAssumption, AlwaysEveryGoodEntry DEF IsParsed
<1> QED
  BY <1>1, InputsAreTyped, PTL

\* A choice goes to the server that the login with the same URI went to, for
\* every configuration file (handle_set_last_used_server).
THEOREM ChoiceGoesWhereTheLoginWent == Spec => []LookupsAgree
<1>1. InputTyped => LookupsAgree
  <2> SUFFICES ASSUME InputTyped, input.to = "find_config_file", NEW uri \in URIs
               PROVE  LookupsAgreeIn(input.files, Path, uri)
    BY DEF LookupsAgree
  <2> QED
    BY FileInput, FilesAssumption, LookupsAlwaysAgree
<1> QED
  BY <1>1, InputsAreTyped, PTL

\* A login reaches every UCCS group that the main group names and that no other
\* shares its URI with, in files with any number of groups (find_config_file).
THEOREM ConfiguredIsAlwaysReached == Spec => []ConfiguredIsReached
<1>1. InputTyped => ConfiguredIsReached
  <2> SUFFICES ASSUME InputTyped, input.to = "find_config_file"
               PROVE  ConfiguredIsReachedIn(input.files, Path)
    BY DEF ConfiguredIsReached
  <2> QED
    BY FileInput, FilesAssumption, AlwaysReached
<1> QED
  BY <1>1, InputsAreTyped, PTL

\* A text of any length is read back as it was written, with a password of any
\* length (do_aes_encrypt, do_aes_decrypt).
THEOREM WhatIsWrittenIsRead == Spec => []ReadsWhatWasWritten
<1>1. InputTyped => ReadsWhatWasWritten
  BY TextInput, AlwaysReadsWhatWasWritten DEF ReadsWhatWasWritten
<1> QED
  BY <1>1, InputsAreTyped, PTL
=============================================================================
