-------------------------- MODULE UccsUnlock_proofs --------------------------
(***************************************************************************)
(* Proofs about UccsUnlock, for any number of clients, credentials and     *)
(* children.                                                               *)
(***************************************************************************)
EXTENDS UccsUnlock, TLAPS

(***************************************************************************)
(* Type correctness.                                                       *)
(***************************************************************************)

\* The answers a handler hands out are answers.
LEMMA AnswerType ==
    ASSUME TypeOK, NEW answered \in SUBSET Calls,
           NEW v \in {"idle", "pending", "granted", "refused"}
    PROVE  Answer(answered, v) \in [Calls -> {"idle", "pending", "granted", "refused"}]
BY DEF TypeOK, Answer

LEMMA ListingType ==
    ASSUME TypeOK, NEW answered \in SUBSET Calls, NEW authorized \in SUBSET Callers,
           NEW held \in Creds \cup {NoCreds}
    PROVE  Listing(answered, authorized, held) \in [Calls -> Creds \cup {NoCreds}]
BY DEF TypeOK, Listing, Shown

LEMMA SenderType ==
    ASSUME NEW i \in Calls PROVE i.sender \in Callers /\ i.creds \in Creds
BY CallsAssumption

\* What clear_json leaves behind.
LEMMA LeftType ==
    ASSUME TypeOK, NEW i \in Calls
    PROVE  /\ Flushed(i) \in SUBSET Calls
           /\ SourcesLeft(i) \in SUBSET Pids
           /\ ToolsLeft(i) \in [Pids -> Phases \cup Outcomes]
           /\ RanLeft(i) \in [Pids -> Creds \cup {NoCreds}]
           /\ FieldLeft(i, json_watch) \in Pids \cup {NoPid}
           /\ FieldLeft(i, json_stream) \in Pids \cup {NoPid}
           /\ FieldLeft(i, pass_stream) \in Pids \cup {NoPid}
BY DEF TypeOK, Flushed, SourcesLeft, ToolsLeft, RanLeft, FieldLeft, Phases

\* LoginChanged is sent to callers, if at all.
LEMMA ClearHashType ==
    ASSUME TypeOK
    PROVE  /\ AfterClearHash \in SUBSET Callers
           /\ Told(lovers \ AfterClearHash) \in SUBSET Callers
BY DEF TypeOK, AfterClearHash, Told

\* A watched child has not been cleaned up, and knows whose login it is for.
WatchedChild == \A p \in sources : tool[p] # "none" /\ ranWith[p] \in Creds

LEMMA TypeInitial == Init => TypeOK /\ WatchedChild
BY ModesAssumption DEF Init, TypeOK, WatchedChild, Phases

LEMMA WatchedChildStep == TypeOK /\ WatchedChild /\ [Next]_vars => WatchedChild'
<1> SUFFICES ASSUME TypeOK, WatchedChild, [Next]_vars PROVE WatchedChild'
  OBVIOUS
<1> USE DEF TypeOK, WatchedChild
<1>1. ASSUME NEW i \in Calls, NEW a \in CacheChoices, Unlock(i, a) PROVE WatchedChild'
  <2>1. \A p \in SourcesLeft(i) : /\ p \in sources
                                 /\ ToolsLeft(i)[p] = tool[p]
                                 /\ RanLeft(i)[p] = ranWith[p]
    BY DEF SourcesLeft, ToolsLeft, RanLeft
  <2>2. CASE UnlockCached(i, a)
    BY <2>2 DEF UnlockCached
  <2>3. CASE UnlockIgnored(i, a)
    BY <2>3 DEF UnlockIgnored
  <2>4. CASE Join(i, a)
    BY <2>4 DEF Join
  <2>5. CASE \E p \in Pids : Start(i, a, p)
    <3> PICK q \in Pids : Start(i, a, q)
      BY <2>5
    <3>1. sources' = SourcesLeft(i) \cup {q}
      BY DEF Start
    <3>2. /\ tool' = [ToolsLeft(i) EXCEPT ![q] = "reading"]
          /\ ranWith' = [RanLeft(i) EXCEPT ![q] = i.creds]
      BY DEF Start
    <3>3. /\ ToolsLeft(i) \in [Pids -> Phases \cup Outcomes]
          /\ RanLeft(i) \in [Pids -> Creds \cup {NoCreds}]
      BY LeftType
    <3> QED
      BY <2>1, <3>1, <3>2, <3>3, SenderType
  <2>6. CASE StartFails(i, a)
    BY <2>1, <2>6 DEF StartFails
  <2> QED
    BY <1>1, <2>2, <2>3, <2>4, <2>5, <2>6 DEF Unlock
<1>2. ASSUME NEW p \in Pids, PasswordWriteCb(p) PROVE WatchedChild'
  BY <1>2 DEF PasswordWriteCb, StdinClosed
<1>3. ASSUME NEW p \in Pids, JsonGrabCb(p) PROVE WatchedChild'
  BY <1>3 DEF JsonGrabCb
<1>4. ASSUME NEW p \in Pids, ToolFillsPipe(p) PROVE WatchedChild'
  BY <1>4 DEF ToolFillsPipe
<1>5. ASSUME NEW p \in Pids, NEW o \in Outcomes, ToolExits(p, o) PROVE WatchedChild'
  BY <1>5 DEF ToolExits, Outcomes
<1>6. CASE UNCHANGED vars
  BY <1>6 DEF vars
<1> QED
  BY <1>1, <1>2, <1>3, <1>4, <1>5, <1>6 DEF Next

LEMMA TypeStep == TypeOK /\ WatchedChild /\ [Next]_vars => TypeOK'
<1> SUFFICES ASSUME TypeOK, WatchedChild, [Next]_vars PROVE TypeOK'
  OBVIOUS
<1>1. ASSUME NEW i \in Calls, NEW a \in CacheChoices, Unlock(i, a) PROVE TypeOK'
  <2> USE LeftType, ClearHashType, SenderType
  <2>1. CASE UnlockCached(i, a)
    <3>1. lovers' \in SUBSET Callers
      BY <2>1 DEF TypeOK, UnlockCached
    <3>2. /\ verdict' \in [Calls -> {"idle", "pending", "granted", "refused"}]
          /\ list' \in [Calls -> Creds \cup {NoCreds}]
      BY <2>1, <3>1, AnswerType, ListingType DEF UnlockCached, TypeOK
    <3> QED
      BY <2>1, <3>1, <3>2 DEF TypeOK, UnlockCached
  <2>2. CASE UnlockIgnored(i, a)
    BY <2>2, AnswerType DEF TypeOK, UnlockIgnored, serverVars
  <2>3. CASE Join(i, a)
    BY <2>3, AnswerType DEF TypeOK, Join
  <2>4. CASE \E p \in Pids : Start(i, a, p)
    <3> PICK p \in Pids : Start(i, a, p)
      BY <2>4
    <3>1. lovers' \in SUBSET Callers /\ told' \in SUBSET Callers
      BY DEF Start
    <3>2. Answer(Flushed(i), "refused") \in [Calls -> {"idle", "pending", "granted", "refused"}]
      BY AnswerType
    <3>3. Listing(Flushed(i), lovers', subservers) \in [Calls -> Creds \cup {NoCreds}]
      BY <3>1, ListingType DEF TypeOK
    <3>4. /\ verdict' \in [Calls -> {"idle", "pending", "granted", "refused"}]
          /\ list' \in [Calls -> Creds \cup {NoCreds}]
      BY <3>2, <3>3 DEF Start
    <3>5. /\ tool' \in [Pids -> Phases \cup Outcomes]
          /\ ranWith' \in [Pids -> Creds \cup {NoCreds}]
      BY DEF Start, Phases
    <3> QED
      BY <3>1, <3>4, <3>5 DEF TypeOK, Start
  <2>5. CASE StartFails(i, a)
    <3>1. lovers' \in SUBSET Callers /\ told' \in SUBSET Callers
      BY <2>5 DEF StartFails
    <3>2. waiters \cup {i} \in SUBSET Calls
      BY DEF TypeOK
    <3>3. /\ verdict' \in [Calls -> {"idle", "pending", "granted", "refused"}]
          /\ list' \in [Calls -> Creds \cup {NoCreds}]
      BY <2>5, <3>1, <3>2, AnswerType, ListingType DEF StartFails, TypeOK
    <3> QED
      BY <2>5, <3>1, <3>3 DEF TypeOK, StartFails
  <2> QED
    BY <1>1, <2>1, <2>2, <2>3, <2>4, <2>5 DEF Unlock
<1>2. ASSUME NEW p \in Pids, PasswordWriteCb(p) PROVE TypeOK'
  BY <1>2 DEF TypeOK, PasswordWriteCb, StdinClosed, serverVars, Phases
<1>3. ASSUME NEW p \in Pids, JsonGrabCb(p) PROVE TypeOK'
  <2>1. /\ lovers' \in SUBSET Callers
        /\ subservers' \in Creds \cup {NoCreds}
        /\ accepted' \in SUBSET Creds
    BY <1>3, SenderType DEF TypeOK, WatchedChild, JsonGrabCb
  <2>2. waiters \in SUBSET Calls
    BY DEF TypeOK
  <2>3. /\ verdict' \in [Calls -> {"idle", "pending", "granted", "refused"}]
        /\ list' \in [Calls -> Creds \cup {NoCreds}]
    BY <1>3, <2>1, <2>2, AnswerType, ListingType DEF JsonGrabCb
  <2> QED
    BY <1>3, <2>1, <2>3 DEF TypeOK, JsonGrabCb, Phases
<1>4. ASSUME NEW p \in Pids, ToolFillsPipe(p) PROVE TypeOK'
  BY <1>4 DEF TypeOK, ToolFillsPipe, serverVars, Phases
<1>5. ASSUME NEW p \in Pids, NEW o \in Outcomes, ToolExits(p, o) PROVE TypeOK'
  BY <1>5 DEF TypeOK, ToolExits, serverVars, Phases
<1>6. CASE UNCHANGED vars
  BY <1>6 DEF TypeOK, vars
<1> QED
  BY <1>1, <1>2, <1>3, <1>4, <1>5, <1>6 DEF Next

\* The server's fields, its calls, its children and the main loop keep their
\* types.
THEOREM TypeCorrect == Spec => []TypeOK
<1>1. TypeOK /\ WatchedChild /\ [Next]_vars => (TypeOK /\ WatchedChild)'
  BY TypeStep, WatchedChildStep
<1> QED
  BY <1>1, TypeInitial, PTL DEF Spec

-----------------------------------------------------------------------------
(***************************************************************************)
(* One query, and everybody who waits waits for it.  QueryInv is the       *)
(* inductive invariant: the three properties need each other, and the two  *)
(* facts about the held credentials say which query the server's one child *)
(* is running.                                                             *)
(***************************************************************************)
ChildRunsHeld ==
    json_pid # NoPid => /\ ranWith[json_pid] = creds
                        /\ creds # NoCreds

NoToolNoQuery == ~exec => json_pid = NoPid /\ creds = NoCreds

QueryInv ==
    /\ TypeOK
    /\ WatchedChild
    /\ WatchedQuery
    /\ ChildRunsHeld
    /\ NoToolNoQuery
    /\ WaitersShareTheQuery
    /\ NobodyIsForgotten

\* Nobody is left waiting once the waiters of an abandoned query are refused.
LEMMA FlushedAll ==
    ASSUME QueryInv, NEW i \in Calls, Abandons(i) \/ json_pid = NoPid
    PROVE  /\ waiters \ Flushed(i) = {}
           /\ SourcesLeft(i) = {}
           /\ FieldLeft(i, json_watch) = NoPid
           /\ FieldLeft(i, json_stream) = NoPid
           /\ FieldLeft(i, pass_stream) = NoPid
BY SentinelsAssumption
DEF QueryInv, TypeOK, WatchedQuery, WaitersShareTheQuery, Flushed, SourcesLeft, FieldLeft

LEMMA AnswerAt ==
    ASSUME NEW answered, NEW v, NEW i \in Calls
    PROVE  Answer(answered, v)[i] = IF i \in answered THEN v ELSE verdict[i]
BY DEF Answer

LEMMA QueryInitial == Init => QueryInv
BY TypeInitial, SentinelsAssumption
DEF Init, QueryInv, WatchedQuery, ChildRunsHeld, NoToolNoQuery,
    WaitersShareTheQuery, NobodyIsForgotten

LEMMA QueryStep == QueryInv /\ [Next]_vars => QueryInv'
<1> SUFFICES ASSUME QueryInv, [Next]_vars
             PROVE  (/\ WatchedQuery /\ ChildRunsHeld /\ NoToolNoQuery
                     /\ WaitersShareTheQuery /\ NobodyIsForgotten)'
  BY TypeStep, WatchedChildStep DEF QueryInv
<1> DEFINE Goal == /\ WatchedQuery /\ ChildRunsHeld /\ NoToolNoQuery
                   /\ WaitersShareTheQuery /\ NobodyIsForgotten
<1>a. TypeOK /\ WatchedChild /\ Goal
  BY DEF QueryInv
<1>b. waiters \subseteq Calls
  BY <1>a DEF TypeOK
<1>1. ASSUME NEW i \in Calls, NEW a \in CacheChoices, Unlock(i, a) PROVE Goal'
  <2>1. CASE UnlockCached(i, a)
    <3>1. NobodyIsForgotten'
      BY <1>1, <1>a, <2>1, AnswerAt DEF UnlockCached, Unlock, NobodyIsForgotten
    <3> QED
      BY <1>a, <2>1, <3>1
      DEF UnlockCached, WatchedQuery, ChildRunsHeld, NoToolNoQuery, WaitersShareTheQuery
  <2>2. CASE UnlockIgnored(i, a)
    BY <1>a, <2>2
    DEF UnlockIgnored, serverVars, WatchedQuery, ChildRunsHeld, NoToolNoQuery,
        WaitersShareTheQuery, NobodyIsForgotten
  <2>3. CASE Join(i, a)
    <3>1. NobodyIsForgotten'
      BY <1>a, <2>3, AnswerAt DEF Join, NobodyIsForgotten
    <3> QED
      BY <1>a, <2>3, <3>1
      DEF Join, Abandons, WatchedQuery, ChildRunsHeld, NoToolNoQuery, WaitersShareTheQuery
  <2>4. CASE \E p \in Pids : Start(i, a, p)
    <3> PICK p \in Pids : Start(i, a, p)
      BY <2>4
    <3>1. /\ waiters \ Flushed(i) = {}
          /\ SourcesLeft(i) = {}
      BY FlushedAll DEF Start, NeedsQuery
    <3>2. p # NoPid /\ i.creds # NoCreds
      BY SentinelsAssumption, SenderType
    <3>3. waiters' = {i} /\ creds' = i.creds /\ json_pid' = p
      BY <3>1 DEF Start
    <3>4. WatchedQuery'
      BY <3>1, <3>2 DEF Start, WatchedQuery
    <3>5. ranWith'[p] = i.creds
      BY LeftType, <1>a DEF Start
    <3>6. NobodyIsForgotten'
      <4>1. verdict' = [Answer(Flushed(i), "refused") EXCEPT ![i] = "pending"]
        BY DEF Start
      <4>2. \A j \in Calls : verdict'[j] = IF j = i THEN "pending"
                                           ELSE IF j \in Flushed(i) THEN "refused"
                                           ELSE verdict[j]
        BY <4>1, AnswerAt DEF Answer
      <4>3. exec /\ waiters = {j \in Calls : verdict[j] = "pending"}
        BY <1>a DEF NobodyIsForgotten, Start, NeedsQuery
      <4>4. \A j \in Calls : verdict'[j] = "pending" <=> j = i
        BY <3>1, <4>2, <4>3
      <4> QED
        BY <3>3, <4>4 DEF NobodyIsForgotten
    <3>7. exec'
      BY DEF Start, NeedsQuery
    <3> QED
      BY <3>2, <3>3, <3>4, <3>5, <3>6, <3>7
      DEF ChildRunsHeld, NoToolNoQuery, WaitersShareTheQuery
  <2>5. CASE StartFails(i, a)
    <3>1. /\ SourcesLeft(i) = {}
          /\ FieldLeft(i, json_watch) = NoPid
          /\ FieldLeft(i, json_stream) = NoPid
          /\ FieldLeft(i, pass_stream) = NoPid
      BY <2>5, FlushedAll DEF StartFails, NeedsQuery
    <3>2. exec' /\ waiters' = {} /\ json_pid' = NoPid
      BY <2>5 DEF StartFails, NeedsQuery
    <3>3. WatchedQuery'
      BY <2>5, <3>1 DEF StartFails, WatchedQuery
    <3>4. NobodyIsForgotten'
      BY <1>a, <2>5, <3>2, AnswerAt DEF StartFails, NobodyIsForgotten, NeedsQuery
    <3> QED
      BY <3>2, <3>3, <3>4 DEF ChildRunsHeld, NoToolNoQuery, WaitersShareTheQuery
  <2> QED
    BY <1>1, <2>1, <2>2, <2>3, <2>4, <2>5 DEF Unlock
<1>2. ASSUME NEW p \in Pids, PasswordWriteCb(p) PROVE Goal'
  BY <1>a, <1>2
  DEF PasswordWriteCb, serverVars, WatchedQuery, ChildRunsHeld, NoToolNoQuery,
      WaitersShareTheQuery, NobodyIsForgotten
<1>3. ASSUME NEW p \in Pids, JsonGrabCb(p) PROVE Goal'
  <2>1. p = json_pid
    BY <1>3, <1>a DEF JsonGrabCb, WatchedQuery
  <2>2. /\ json_pid' = NoPid
        /\ waiters' = {}
        /\ exec' = exec
    BY <1>3 DEF JsonGrabCb
  <2>3. WatchedQuery'
    BY <1>3, <1>a, <2>1 DEF JsonGrabCb, WatchedQuery
  <2>4. exec'
    BY <1>3, <1>a, <2>1, <2>2, SentinelsAssumption DEF NoToolNoQuery
  <2>5. NobodyIsForgotten'
    BY <1>3, <1>a, <2>2, AnswerAt DEF JsonGrabCb, NobodyIsForgotten
  <2> QED
    BY <2>2, <2>3, <2>4, <2>5 DEF ChildRunsHeld, NoToolNoQuery, WaitersShareTheQuery
<1>4. ASSUME NEW p \in Pids, ToolFillsPipe(p) PROVE Goal'
  BY <1>a, <1>4
  DEF ToolFillsPipe, serverVars, WatchedQuery, ChildRunsHeld, NoToolNoQuery,
      WaitersShareTheQuery, NobodyIsForgotten
<1>5. ASSUME NEW p \in Pids, NEW o \in Outcomes, ToolExits(p, o) PROVE Goal'
  <2>1. json_pid \in Pids => ranWith'[json_pid] = ranWith[json_pid]
    BY <1>a, <1>5, SentinelsAssumption DEF ToolExits, TypeOK, WatchedQuery
  <2>2. json_pid \in Pids \cup {NoPid}
    BY <1>a DEF TypeOK
  <2> QED
    BY <1>a, <1>5, <2>1, <2>2
    DEF ToolExits, serverVars, WatchedQuery, ChildRunsHeld, NoToolNoQuery,
        WaitersShareTheQuery, NobodyIsForgotten
<1>6. CASE UNCHANGED vars
  BY <1>a, <1>6
  DEF vars, WatchedQuery, ChildRunsHeld, NoToolNoQuery, WaitersShareTheQuery,
      NobodyIsForgotten
<1> QED
  BY <1>1, <1>2, <1>3, <1>4, <1>5, <1>6 DEF Next

LEMMA QueryInvariant == Spec => []QueryInv
BY QueryInitial, QueryStep, PTL DEF Spec

\* uccs_server_unlock, clear_json and json_grab_cb keep the pid, the watch, the
\* streams and the main loop's sources about one and the same child.
THEOREM OneWatchedQuery == Spec => []WatchedQuery
<1>1. QueryInv => WatchedQuery
  BY DEF QueryInv
<1> QED
  BY <1>1, QueryInvariant, PTL

\* Nobody in json_waiters waits for another user's query.
THEOREM WaitersShare == Spec => []WaitersShareTheQuery
<1>1. QueryInv => WaitersShareTheQuery
  BY DEF QueryInv
<1> QED
  BY <1>1, QueryInvariant, PTL

\* With a query tool, the open calls are exactly those in json_waiters.
THEOREM NobodyForgotten == Spec => []NobodyIsForgotten
<1>1. QueryInv => NobodyIsForgotten
  BY DEF QueryInv
<1> QED
  BY <1>1, QueryInvariant, PTL

-----------------------------------------------------------------------------
(***************************************************************************)
(* What a query's answer is worth, from QueryInv.                          *)
(***************************************************************************)
LEMMA EarnedStep ==
    QueryInv /\ [Next]_vars =>
        [\A i \in waiters : verdict'[i] = "granted" =>
            \E p \in sources \ sources' : /\ tool[p] \in {"noList", "list"}
                                         /\ ranWith[p] = i.creds]_vars
<1> SUFFICES ASSUME QueryInv, Next,
                    NEW i \in waiters, verdict'[i] = "granted"
             PROVE  \E p \in sources \ sources' : /\ tool[p] \in {"noList", "list"}
                                                 /\ ranWith[p] = i.creds
  OBVIOUS
<1>a. i \in Calls /\ i.creds = creds /\ ranWith[json_pid] = creds
  BY DEF QueryInv, TypeOK, WaitersShareTheQuery
<1>b. exec /\ verdict[i] = "pending" /\ json_pid # NoPid
  BY DEF QueryInv, NoToolNoQuery, WaitersShareTheQuery, NobodyIsForgotten
<1>1. ASSUME NEW j \in Calls, NEW a \in CacheChoices, Unlock(j, a) PROVE FALSE
  <2>1. j # i
    BY <1>b, <1>1 DEF Unlock
  <2>2. CASE UnlockCached(j, a)
    BY <1>a, <1>b, <2>1, <2>2, AnswerAt DEF UnlockCached
  <2>3. CASE UnlockIgnored(j, a)
    BY <1>b, <2>3 DEF UnlockIgnored
  <2>4. CASE Join(j, a)
    BY <1>a, <1>b, <2>1, <2>4, AnswerAt DEF Join
  <2>5. CASE \E p \in Pids : Start(j, a, p)
    <3> PICK p \in Pids : Start(j, a, p)
      BY <2>5
    <3>1. verdict'[i] = Answer(Flushed(j), "refused")[i]
      BY <1>a, <2>1 DEF Start, Answer
    <3> QED
      BY <1>a, <1>b, <3>1, AnswerAt
  <2>6. CASE StartFails(j, a)
    BY <1>a, <1>b, <2>6, AnswerAt DEF StartFails
  <2> QED
    BY <1>1, <2>2, <2>3, <2>4, <2>5, <2>6 DEF Unlock
<1>2. ASSUME NEW p \in Pids, PasswordWriteCb(p) PROVE FALSE
  BY <1>b, <1>2 DEF PasswordWriteCb
<1>3. ASSUME NEW p \in Pids, JsonGrabCb(p)
      PROVE  /\ p \in sources \ sources'
             /\ tool[p] \in {"noList", "list"}
             /\ ranWith[p] = i.creds
  <2>1. p = json_pid
    BY <1>3 DEF JsonGrabCb, QueryInv, WatchedQuery
  <2>2. Passes(tool[p])
    BY <1>3, <1>a, AnswerAt DEF JsonGrabCb
  <2> QED
    BY <1>3, <1>a, <2>1, <2>2 DEF JsonGrabCb, Passes
<1>4. ASSUME NEW p \in Pids, ToolFillsPipe(p) PROVE FALSE
  BY <1>b, <1>4 DEF ToolFillsPipe
<1>5. ASSUME NEW p \in Pids, NEW o \in Outcomes, ToolExits(p, o) PROVE FALSE
  BY <1>b, <1>5 DEF ToolExits
<1> QED
  BY <1>1, <1>2, <1>3, <1>4, <1>5 DEF Next

\* A call that waited is granted only by the good exit of a query run with its
\* own credentials (json_grab_cb).
THEOREM GrantsEarned == Spec => QueryGrantsAreEarned
BY QueryInvariant, EarnedStep, PTL DEF Spec, QueryGrantsAreEarned

LEMMA FetchedStep ==
    QueryInv /\ [Next]_vars => [subservers' # subservers => subservers' = creds]_vars
<1> SUFFICES ASSUME QueryInv, Next, subservers' # subservers
             PROVE  subservers' = creds
  OBVIOUS
<1>1. ASSUME NEW i \in Calls, NEW a \in CacheChoices, Unlock(i, a) PROVE FALSE
  BY <1>1 DEF Unlock, UnlockCached, UnlockIgnored, Join, Start, StartFails, serverVars
<1>2. ASSUME NEW p \in Pids, JsonGrabCb(p) PROVE subservers' = creds
  BY <1>2 DEF JsonGrabCb, QueryInv, WatchedQuery, ChildRunsHeld
<1>3. ASSUME NEW p \in Pids,
             \/ PasswordWriteCb(p)
             \/ ToolFillsPipe(p)
             \/ \E o \in Outcomes : ToolExits(p, o)
      PROVE  FALSE
  BY <1>3 DEF PasswordWriteCb, ToolFillsPipe, ToolExits, serverVars
<1> QED
  BY <1>1, <1>2, <1>3 DEF Next

\* parse_rds_array only ever installs a list fetched with the credentials held.
THEOREM ListFetched == Spec => ListIsFetchedByTheHolder
BY QueryInvariant, FetchedStep, PTL DEF Spec, ListIsFetchedByTheHolder

-----------------------------------------------------------------------------
(***************************************************************************)
(* Where a call can get stuck.  Every child that waits for its end of file *)
(* has its password write ahead of it, abandoned or not.                   *)
(***************************************************************************)
ReadersAreWritten == \A p \in Pids : tool[p] = "reading" => p \in writing

LEMMA ReadersInitial == Init => ReadersAreWritten
BY DEF Init, ReadersAreWritten

LEMMA ReadersStep == TypeOK /\ ReadersAreWritten /\ [Next]_vars => ReadersAreWritten'
<1> SUFFICES ASSUME TypeOK, ReadersAreWritten, [Next]_vars PROVE ReadersAreWritten'
  OBVIOUS
<1> USE DEF TypeOK, ReadersAreWritten
<1>1. ASSUME NEW i \in Calls, NEW a \in CacheChoices, Unlock(i, a)
      PROVE  ReadersAreWritten'
  <2>1. \A p \in Pids : ToolsLeft(i)[p] = "reading" => tool[p] = "reading"
    BY DEF ToolsLeft
  <2>2. CASE UnlockCached(i, a)
    BY <2>2 DEF UnlockCached
  <2>3. CASE UnlockIgnored(i, a)
    BY <2>3 DEF UnlockIgnored
  <2>4. CASE Join(i, a)
    BY <2>4 DEF Join
  <2>5. CASE \E p \in Pids : Start(i, a, p)
    <3> PICK q \in Pids : Start(i, a, q)
      BY <2>5
    <3>1. ToolsLeft(i) \in [Pids -> Phases \cup Outcomes]
      BY LeftType
    <3>2. \A p \in Pids : tool'[p] = "reading" => p = q \/ ToolsLeft(i)[p] = "reading"
      BY <3>1 DEF Start
    <3>3. writing' = writing \cup {q}
      BY DEF Start
    <3> QED
      BY <2>1, <3>2, <3>3
  <2>6. CASE StartFails(i, a)
    BY <2>1, <2>6 DEF StartFails
  <2> QED
    BY <1>1, <2>2, <2>3, <2>4, <2>5, <2>6 DEF Unlock
<1>2. ASSUME NEW p \in Pids, PasswordWriteCb(p) PROVE ReadersAreWritten'
  BY <1>2 DEF PasswordWriteCb, StdinClosed
<1>3. ASSUME NEW p \in Pids, JsonGrabCb(p) PROVE ReadersAreWritten'
  BY <1>3 DEF JsonGrabCb
<1>4. ASSUME NEW p \in Pids, ToolFillsPipe(p) PROVE ReadersAreWritten'
  BY <1>4 DEF ToolFillsPipe
<1>5. ASSUME NEW p \in Pids, NEW o \in Outcomes, ToolExits(p, o)
      PROVE  ReadersAreWritten'
  BY <1>5 DEF ToolExits, Outcomes
<1>6. CASE UNCHANGED vars
  BY <1>6 DEF vars
<1> QED
  BY <1>1, <1>2, <1>3, <1>4, <1>5, <1>6 DEF Next

\* A call waits for good only without a query tool, or behind a tool that is
\* stuck on its stdout (uccs_server_unlock, json_grab_cb).
THEOREM HangsOnlyAsKnown == Spec => []HangsInTwoWays
<1>1. QueryInv /\ ReadersAreWritten => HangsInTwoWays
  <2> SUFFICES ASSUME QueryInv, ReadersAreWritten, exec,
                      NEW i \in Calls, verdict[i] = "pending"
               PROVE  json_pid \in Pids
                        /\ (Advances(json_pid) \/ tool[json_pid] = "blocked")
    BY DEF HangsInTwoWays, QueryInv, TypeOK
  <2>1. json_pid \in Pids /\ json_pid \in sources
    BY DEF QueryInv, TypeOK, NobodyIsForgotten, WaitersShareTheQuery, WatchedQuery
  <2>2. tool[json_pid] \in {"reading", "answering", "blocked"} \cup Outcomes
    BY <2>1 DEF QueryInv, TypeOK, WatchedChild, Phases
  <2> QED
    BY <2>1, <2>2 DEF Advances, ReadersAreWritten
<1>2. QueryInv => TypeOK
  BY DEF QueryInv
<1> QED
  BY <1>1, <1>2, QueryInvariant, ReadersInitial, ReadersStep, PTL DEF Spec

-----------------------------------------------------------------------------
(***************************************************************************)
(* Clients that never allow the cache.  Then nobody is a lover while a     *)
(* query is out, nor after one failed: NoCacheInv.                         *)
(***************************************************************************)
NobodyLovesYet == creds = NoCreds \/ json_pid # NoPid => lovers = {}

PendingSeeNothing == \A i \in Calls : verdict[i] = "pending" => list[i] = NoCreds

NoCacheInv ==
    /\ QueryInv
    /\ NobodyLovesYet
    /\ PendingSeeNothing
    /\ GrantedIsAccepted
    /\ LoversWereGranted
    /\ RefusedGetsNothing

LEMMA NoCacheInitial == Init => NoCacheInv
BY QueryInitial
DEF Init, NoCacheInv, NobodyLovesYet, PendingSeeNothing, GrantedIsAccepted,
    LoversWereGranted, RefusedGetsNothing

LEMMA ListingAt ==
    ASSUME NEW answered, NEW authorized, NEW held, NEW i \in Calls
    PROVE  Listing(answered, authorized, held)[i] =
           IF i \in answered THEN Shown(i, authorized, held) ELSE list[i]
BY DEF Listing

LEMMA PendingStep == TypeOK /\ PendingSeeNothing /\ [Next]_vars => PendingSeeNothing'
<1> SUFFICES ASSUME TypeOK, PendingSeeNothing, [Next]_vars PROVE PendingSeeNothing'
  OBVIOUS
<1> USE DEF TypeOK, PendingSeeNothing
<1>1. ASSUME NEW i \in Calls, NEW a \in CacheChoices, Unlock(i, a)
      PROVE  PendingSeeNothing'
  <2>1. CASE UnlockCached(i, a)
    BY <2>1, AnswerAt, ListingAt DEF UnlockCached
  <2>2. CASE UnlockIgnored(i, a)
    BY <2>2, AnswerAt DEF UnlockIgnored
  <2>3. CASE Join(i, a)
    BY <2>3, AnswerAt DEF Join
  <2>4. CASE \E p \in Pids : Start(i, a, p)
    BY <2>4, AnswerAt, ListingAt DEF Start, Answer, Listing
  <2>5. CASE StartFails(i, a)
    BY <2>5, AnswerAt, ListingAt DEF StartFails
  <2> QED
    BY <1>1, <2>1, <2>2, <2>3, <2>4, <2>5 DEF Unlock
<1>2. ASSUME NEW p \in Pids, JsonGrabCb(p) PROVE PendingSeeNothing'
  BY <1>2, AnswerAt, ListingAt DEF JsonGrabCb
<1>3. ASSUME NEW p \in Pids,
             \/ PasswordWriteCb(p)
             \/ ToolFillsPipe(p)
             \/ \E o \in Outcomes : ToolExits(p, o)
      PROVE  PendingSeeNothing'
  BY <1>3 DEF PasswordWriteCb, ToolFillsPipe, ToolExits
<1>4. CASE UNCHANGED vars
  BY <1>4 DEF vars
<1> QED
  BY <1>1, <1>2, <1>3, <1>4 DEF Next

LEMMA NoCacheStep ==
    CacheChoices \subseteq {FALSE} /\ NoCacheInv /\ [Next]_vars => NoCacheInv'
<1> SUFFICES ASSUME CacheChoices \subseteq {FALSE}, NoCacheInv, [Next]_vars
             PROVE  (/\ NobodyLovesYet /\ GrantedIsAccepted
                     /\ LoversWereGranted /\ RefusedGetsNothing)'
  BY QueryStep, PendingStep DEF NoCacheInv, QueryInv
<1> DEFINE Goal == /\ NobodyLovesYet /\ GrantedIsAccepted
                   /\ LoversWereGranted /\ RefusedGetsNothing
<1>a. QueryInv /\ TypeOK /\ Goal
  BY DEF NoCacheInv, QueryInv
<1>b. AfterClearHash = {}
  BY <1>a DEF AfterClearHash, NobodyLovesYet
<1>1. ASSUME NEW i \in Calls, NEW a \in CacheChoices, Unlock(i, a) PROVE Goal'
  <2>1. ~CacheHit(i, a)
    BY DEF CacheHit
  <2>2. CASE UnlockIgnored(i, a)
    <3>1. lovers' = {}
      BY <1>a, <2>2
      DEF UnlockIgnored, serverVars, QueryInv, NoToolNoQuery, NobodyLovesYet
    <3>2. GrantedIsAccepted'
      BY <1>a, <2>2, AnswerAt DEF UnlockIgnored, GrantedIsAccepted
    <3>3. RefusedGetsNothing'
      BY <1>a, <2>2, AnswerAt DEF UnlockIgnored, RefusedGetsNothing, TypeOK
    <3> QED
      BY <3>1, <3>2, <3>3 DEF NobodyLovesYet, LoversWereGranted
  <2>3. CASE Join(i, a)
    <3>1. lovers' = {}
      BY <1>b, <2>3 DEF Join
    <3>2. GrantedIsAccepted'
      BY <1>a, <2>3, AnswerAt DEF Join, GrantedIsAccepted
    <3>3. RefusedGetsNothing'
      BY <1>a, <2>3, AnswerAt DEF Join, RefusedGetsNothing, TypeOK
    <3> QED
      BY <3>1, <3>2, <3>3 DEF NobodyLovesYet, LoversWereGranted
  <2>4. CASE \E p \in Pids : Start(i, a, p)
    <3> PICK p \in Pids : Start(i, a, p)
      BY <2>4
    <3>1. lovers' = {}
      BY <1>b DEF Start
    <3>2. \A j \in Calls : verdict'[j] = IF j = i THEN "pending"
                                         ELSE IF j \in Flushed(i) THEN "refused"
                                         ELSE verdict[j]
      BY AnswerAt DEF Start, Answer
    <3>3. \A j \in Calls : list'[j] = IF j = i THEN NoCreds
                                      ELSE IF j \in Flushed(i) THEN NoCreds
                                      ELSE list[j]
      BY <3>1, ListingAt DEF Start, Listing, Shown
    <3>4. GrantedIsAccepted'
      BY <1>a, <3>2 DEF Start, GrantedIsAccepted
    <3>5. RefusedGetsNothing'
      BY <1>a, <3>2, <3>3 DEF RefusedGetsNothing
    <3> QED
      BY <3>1, <3>4, <3>5 DEF NobodyLovesYet, LoversWereGranted
  <2>5. CASE StartFails(i, a)
    <3>1. lovers' = {}
      BY <1>b, <2>5 DEF StartFails
    <3>2. \A j \in Calls : verdict'[j] = IF j \in waiters \cup {i} THEN "refused"
                                         ELSE verdict[j]
      BY <2>5, AnswerAt DEF StartFails
    <3>3. \A j \in Calls : list'[j] = IF j \in waiters \cup {i} THEN NoCreds
                                      ELSE list[j]
      BY <2>5, <3>1, ListingAt DEF StartFails, Shown
    <3>4. GrantedIsAccepted'
      BY <1>a, <2>5, <3>2 DEF StartFails, GrantedIsAccepted
    <3>5. RefusedGetsNothing'
      BY <1>a, <3>2, <3>3 DEF RefusedGetsNothing
    <3> QED
      BY <3>1, <3>4, <3>5 DEF NobodyLovesYet, LoversWereGranted
  <2> QED
    BY <1>1, <2>1, <2>2, <2>3, <2>4, <2>5 DEF Unlock, UnlockCached
<1>2. ASSUME NEW p \in Pids, PasswordWriteCb(p) PROVE Goal'
  BY <1>a, <1>2
  DEF PasswordWriteCb, serverVars, NobodyLovesYet, GrantedIsAccepted,
      LoversWereGranted, RefusedGetsNothing
<1>3. ASSUME NEW p \in Pids, JsonGrabCb(p) PROVE Goal'
  <2>1. /\ p = json_pid
        /\ json_pid # NoPid
        /\ ranWith[p] = creds
        /\ \A i \in waiters : i \in Calls /\ i.creds = creds
        /\ lovers = {}
        /\ creds # NoCreds
    BY <1>3, <1>a, SentinelsAssumption
    DEF JsonGrabCb, QueryInv, WatchedQuery, ChildRunsHeld, WaitersShareTheQuery,
        TypeOK, NobodyLovesYet
  <2>2. \A j \in Calls : verdict'[j] = IF j \in waiters
                                       THEN IF Passes(tool[p]) THEN "granted" ELSE "refused"
                                       ELSE verdict[j]
    BY <1>3, AnswerAt DEF JsonGrabCb
  <2>3. json_pid' = NoPid
    BY <1>3 DEF JsonGrabCb
  <2>4. CASE Passes(tool[p])
    <3>1. /\ creds' = creds
          /\ accepted' = accepted \cup {creds}
          /\ lovers' = {i.sender : i \in waiters}
      BY <1>3, <2>1, <2>4 DEF JsonGrabCb, Passes
    <3>2. GrantedIsAccepted'
      BY <1>a, <2>1, <2>2, <3>1 DEF GrantedIsAccepted
    <3>3. LoversWereGranted'
      BY <2>1, <2>2, <2>4, <3>1 DEF LoversWereGranted
    <3>4. RefusedGetsNothing'
      BY <1>3, <1>a, <2>2, <2>4, ListingAt DEF RefusedGetsNothing, JsonGrabCb
    <3> QED
      BY <2>1, <2>3, <3>1, <3>2, <3>3, <3>4 DEF NobodyLovesYet
  <2>5. CASE ~Passes(tool[p])
    <3>1. accepted' = accepted /\ lovers' = {}
      BY <1>3, <2>1, <2>5 DEF JsonGrabCb
    <3>2. GrantedIsAccepted'
      BY <1>a, <2>2, <2>5, <3>1 DEF GrantedIsAccepted
    <3>3. RefusedGetsNothing'
      BY <1>3, <1>a, <2>2, <3>1, ListingAt DEF RefusedGetsNothing, JsonGrabCb, Shown
    <3> QED
      BY <3>1, <3>2, <3>3 DEF NobodyLovesYet, LoversWereGranted
  <2> QED
    BY <2>4, <2>5
<1>4. ASSUME NEW p \in Pids, ToolFillsPipe(p) PROVE Goal'
  BY <1>a, <1>4
  DEF ToolFillsPipe, serverVars, NobodyLovesYet, GrantedIsAccepted,
      LoversWereGranted, RefusedGetsNothing
<1>5. ASSUME NEW p \in Pids, NEW o \in Outcomes, ToolExits(p, o) PROVE Goal'
  BY <1>a, <1>5
  DEF ToolExits, serverVars, NobodyLovesYet, GrantedIsAccepted,
      LoversWereGranted, RefusedGetsNothing
<1>6. CASE UNCHANGED vars
  BY <1>a, <1>6
  DEF vars, NobodyLovesYet, GrantedIsAccepted, LoversWereGranted, RefusedGetsNothing
<1> QED
  BY <1>1, <1>2, <1>3, <1>4, <1>5, <1>6 DEF Next

LEMMA NoCacheInvariant ==
    ASSUME CacheChoices \subseteq {FALSE} PROVE Spec => []NoCacheInv
<1>1. NoCacheInv /\ [Next]_vars => NoCacheInv'
  BY NoCacheStep
<1> QED
  BY <1>1, NoCacheInitial, PTL DEF Spec

\* Without the cache, loginSuccess is TRUE only for credentials some query
\* came back good for.
THEOREM GrantsAccepted ==
    ASSUME CacheChoices \subseteq {FALSE} PROVE Spec => []GrantedIsAccepted
<1>1. NoCacheInv => GrantedIsAccepted
  BY DEF NoCacheInv
<1> QED
  BY <1>1, NoCacheInvariant, PTL

\* Without the cache, whoever may see the list was granted the credentials it
\* is held under.
THEOREM LoversGranted ==
    ASSUME CacheChoices \subseteq {FALSE} PROVE Spec => []LoversWereGranted
<1>1. NoCacheInv => LoversWereGranted
  BY DEF NoCacheInv
<1> QED
  BY <1>1, NoCacheInvariant, PTL

\* Without the cache, a refusal carries no servers.
THEOREM RefusalsEmpty ==
    ASSUME CacheChoices \subseteq {FALSE} PROVE Spec => []RefusedGetsNothing
<1>1. NoCacheInv => RefusedGetsNothing
  BY DEF NoCacheInv
<1> QED
  BY <1>1, NoCacheInvariant, PTL

LEMMA KeptListStep ==
    CacheChoices \subseteq {FALSE} /\ NoCacheInv /\ [Next]_vars =>
        [\A i \in waiters : list'[i] \notin {NoCreds, i.creds} =>
            \E p \in sources \ sources' : tool[p] = "noList"]_vars
<1> SUFFICES ASSUME CacheChoices \subseteq {FALSE}, NoCacheInv, Next,
                    NEW i \in waiters, list'[i] \notin {NoCreds, i.creds}
             PROVE  \E p \in sources \ sources' : tool[p] = "noList"
  OBVIOUS
<1>a. /\ i \in Calls /\ i.creds = creds /\ ranWith[json_pid] = creds
      /\ exec /\ verdict[i] = "pending" /\ json_pid # NoPid
      /\ lovers = {}
  BY DEF NoCacheInv, QueryInv, TypeOK, WaitersShareTheQuery, NoToolNoQuery,
         NobodyIsForgotten, NobodyLovesYet
<1>1. list[i] = NoCreds
  BY <1>a DEF NoCacheInv, PendingSeeNothing
<1>2. ASSUME NEW j \in Calls, NEW a \in CacheChoices, Unlock(j, a) PROVE FALSE
  <2>1. AfterClearHash = {}
    BY <1>a DEF AfterClearHash
  <2>2. \A answered, held : Listing(answered, {}, held)[i] = NoCreds
    BY <1>a, <1>1, ListingAt DEF Shown
  <2>3. j # i
    BY <1>a, <1>2 DEF Unlock
  <2>4. CASE UnlockCached(j, a)
    BY <2>4 DEF UnlockCached, CacheHit
  <2>5. CASE UnlockIgnored(j, a)
    BY <1>a, <2>5 DEF UnlockIgnored
  <2>6. CASE Join(j, a)
    BY <1>a, <1>1, <2>3, <2>6 DEF Join
  <2>7. CASE \E p \in Pids : Start(j, a, p)
    <3> PICK p \in Pids : Start(j, a, p)
      BY <2>7
    <3>1. list' = [Listing(Flushed(j), {}, subservers) EXCEPT ![j] = NoCreds]
      BY <2>1 DEF Start
    <3> QED
      BY <1>a, <2>2, <2>3, <3>1 DEF Listing
  <2>8. CASE StartFails(j, a)
    BY <2>1, <2>2, <2>8 DEF StartFails
  <2> QED
    BY <1>2, <2>4, <2>5, <2>6, <2>7, <2>8 DEF Unlock
<1>3. ASSUME NEW p \in Pids, JsonGrabCb(p)
      PROVE  p \in sources \ sources' /\ tool[p] = "noList"
  <2>1. p = json_pid
    BY <1>3 DEF JsonGrabCb, NoCacheInv, QueryInv, WatchedQuery
  <2>2. list'[i] = Shown(i, lovers', subservers')
    BY <1>3, <1>a, ListingAt DEF JsonGrabCb
  <2>3. subservers' # creds /\ lovers' # {}
    BY <1>a, <2>2 DEF Shown
  <2>4. Passes(tool[p]) /\ ~Replaces(tool[p])
    BY <1>3, <1>a, <2>1, <2>3 DEF JsonGrabCb
  <2> QED
    BY <1>3, <2>4 DEF JsonGrabCb, Passes, Replaces
<1>4. ASSUME NEW p \in Pids,
             \/ PasswordWriteCb(p)
             \/ ToolFillsPipe(p)
             \/ \E o \in Outcomes : ToolExits(p, o)
      PROVE  FALSE
  BY <1>1, <1>4 DEF PasswordWriteCb, ToolFillsPipe, ToolExits
<1> QED
  BY <1>2, <1>3, <1>4 DEF Next

\* Without the cache, a login is shown a list that somebody else's query
\* fetched only if its own query printed none (parse_json).
THEOREM KeptLists ==
    ASSUME CacheChoices \subseteq {FALSE} PROVE Spec => KeptListOnlyWithoutOwn
<1>1. NoCacheInv /\ [Next]_vars =>
        [\A i \in waiters : list'[i] \notin {NoCreds, i.creds} =>
            \E p \in sources \ sources' : tool[p] = "noList"]_vars
  BY KeptListStep
<1> QED
  BY <1>1, NoCacheInvariant, PTL DEF Spec, KeptListOnlyWithoutOwn

-----------------------------------------------------------------------------
(***************************************************************************)
(* UccsUnlock implements SingleFlight, when the query tool is found.  A    *)
(* login that starts a query is a TakeOff, one that finds it running       *)
(* boards it, json_grab_cb lands it; what the child and the main loop do   *)
(* in between is invisible.                                                *)
(***************************************************************************)
LEMMA SettleIsAnswer ==
    ASSUME NEW answered, NEW v PROVE Flight!Settle(answered, v) = Answer(answered, v)
BY DEF Flight!Settle, Answer

LEMMA FlightInitial == Init => Flight!Init
BY DEF Init, Flight!Init

LEMMA PendingWait == QueryInv /\ exec => Flight!Pending = waiters
BY DEF QueryInv, NobodyIsForgotten, Flight!Pending

LEMMA FlightStep == QueryInv /\ exec /\ [Next]_vars => [Flight!Next]_(Flight!vars)
<1> SUFFICES ASSUME QueryInv, exec, [Next]_vars
             PROVE  Flight!Next \/ UNCHANGED <<creds, json_pid # NoPid, verdict>>
  BY DEF Flight!vars
<1> USE SettleIsAnswer
<1>a. Flight!Pending = waiters
  BY PendingWait
<1>1. ASSUME NEW i \in Calls, NEW a \in CacheChoices, Unlock(i, a)
      PROVE  Flight!Call(i)
  <2>1. CASE UnlockCached(i, a)
    <3>1. Flight!Hit(i)
      BY <2>1 DEF UnlockCached, CacheHit, Flight!Hit
    <3> QED
      BY <1>1, <3>1 DEF Unlock, Flight!Call
  <2>2. CASE UnlockIgnored(i, a)
    BY <2>2 DEF UnlockIgnored
  <2>3. CASE Join(i, a)
    <3>1. Flight!Board(i)
      BY <2>3 DEF Join, Abandons, Flight!Board
    <3> QED
      BY <1>1, <3>1 DEF Unlock, Flight!Call
  <2>4. CASE \E p \in Pids : Start(i, a, p)
    <3> PICK p \in Pids : Start(i, a, p)
      BY <2>4
    <3>1. i.creds # creds \/ json_pid = NoPid
      BY DEF Start, NeedsQuery, Abandons
    <3>2. Flushed(i) = waiters
      BY <3>1, FlushedAll
      DEF Abandons, Flushed, QueryInv, WaitersShareTheQuery
    <3>3. json_pid' # NoPid
      BY SentinelsAssumption DEF Start
    <3>4. Flight!TakeOff(i)
      BY <1>a, <3>1, <3>2, <3>3 DEF Start, Flight!TakeOff
    <3> QED
      BY <1>1, <3>4 DEF Unlock, Flight!Call
  <2>5. CASE StartFails(i, a)
    <3>1. Flight!Abort(i)
      BY <1>a, <2>5 DEF StartFails, NeedsQuery, Abandons, Flight!Abort
    <3> QED
      BY <1>1, <3>1 DEF Unlock, Flight!Call
  <2> QED
    BY <1>1, <2>1, <2>2, <2>3, <2>4, <2>5 DEF Unlock
<1>2. ASSUME NEW p \in Pids, JsonGrabCb(p) PROVE Flight!Land
  <2>1. json_pid # NoPid /\ json_pid' = NoPid
    BY <1>2, SentinelsAssumption DEF JsonGrabCb, QueryInv, WatchedQuery
  <2>2. CASE Passes(tool[p])
    BY <1>2, <1>a, <2>1, <2>2 DEF JsonGrabCb, Passes, Flight!Land
  <2>3. CASE ~Passes(tool[p])
    BY <1>2, <1>a, <2>1, <2>3 DEF JsonGrabCb, Flight!Land
  <2> QED
    BY <2>2, <2>3
<1>3. ASSUME NEW p \in Pids,
             \/ PasswordWriteCb(p)
             \/ ToolFillsPipe(p)
             \/ \E o \in Outcomes : ToolExits(p, o)
      PROVE  UNCHANGED <<creds, json_pid # NoPid, verdict>>
  BY <1>3 DEF PasswordWriteCb, ToolFillsPipe, ToolExits, serverVars
<1>4. CASE UNCHANGED vars
  BY <1>4 DEF vars
<1> QED
  BY <1>1, <1>2, <1>3, <1>4 DEF Next, Flight!Next

\* Every behaviour of the unlocking, with a query tool to run, is one of
\* SingleFlight.
THEOREM FlightImplemented ==
    ASSUME ExecChoices \subseteq {TRUE} PROVE Spec => ImplementsFlight
<1>1. Init => exec
  BY DEF Init
<1>2. exec /\ [Next]_vars => exec'
  BY DEF Next, Unlock, UnlockCached, UnlockIgnored, Join, Start, StartFails,
         PasswordWriteCb, JsonGrabCb, ToolExits, ToolFillsPipe, serverVars, vars
<1> QED
  BY <1>1, <1>2, QueryInvariant, FlightInitial, FlightStep, PTL
  DEF Spec, ImplementsFlight, Flight!Spec
=============================================================================
