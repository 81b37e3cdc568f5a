------------------------- MODULE UccsNetwork_proofs -------------------------
(***************************************************************************)
(* Proofs about UccsNetwork, for any number of servers, however they are   *)
(* configured, and any number of open requests.                            *)
(***************************************************************************)
EXTENDS UccsNetwork, TLAPS

LEMMA Constants ==
    /\ NM_STATE_DISCONNECTED \in NMStates
    /\ NM_STATE_CONNECTED_GLOBAL \in NMStates
    /\ NM_STATE_DISCONNECTED # NM_STATE_CONNECTED_GLOBAL
BY NetworkAssumption DEF NM_STATE_DISCONNECTED, NM_STATE_CONNECTED_GLOBAL

LEMMA ReportedType ==
    ASSUME NEW c, NEW v \in NMStates \cup {Stopped}
    PROVE  Reported(c, v) \in NMStates
BY Constants DEF Reported

LEMMA JudgedType ==
    ASSUME NEW c, NEW network, NEW verified
    PROVE  Judged(c, network, verified) \in {"allgood", "unavailable"}
BY DEF Judged

LEMMA AnnouncedType ==
    ASSUME NEW states, announced \subseteq Servers
    PROVE  Announced(states) \subseteq Servers
BY DEF Announced, Available

\* The broadcast after a change of states names the available servers.
LEMMA AnnouncedIsAvailable ==
    ASSUME NEW states, service = "running", AnnouncedIsCurrent
    PROVE  Announced(states) = Available(states)
BY DEF Announced, AnnouncedIsCurrent

LEMMA NothingType ==
    /\ Nothing.last_network \in [Servers -> NMStates]
    /\ Nothing.verified_server \in [Servers -> BOOLEAN]
    /\ Nothing.state \in [Servers -> {"allgood", "unavailable"}]
    /\ Nothing.heads \in [Heads -> {"none", "queued", "cancelled"}]
BY Constants DEF Nothing

LEMMA NetworkTypeInitial == Init => TypeOK
BY NothingType DEF Init, TypeOK

LEMMA NetworkTypeStep == TypeOK /\ [Next]_vars => TypeOK'
<1> SUFFICES ASSUME TypeOK, [Next]_vars PROVE TypeOK'
  OBVIOUS
<1>1. ASSUME NEW v \in NMStates \cup {Stopped}, NEW next \in [Servers -> Messages],
             NmStateChanged(v, next)
      PROVE  TypeOK'
  <2>1. last_network' \in [Servers -> NMStates]
    BY <1>1, ReportedType DEF NmStateChanged
  <2>2. verified_server' \in [Servers -> BOOLEAN]
    BY <1>1 DEF NmStateChanged, VerifiedAfter, TypeOK
  <2>3. state' \in [Servers -> {"allgood", "unavailable"}]
    BY <1>1, JudgedType DEF NmStateChanged
  <2>4. heads' \in [Heads -> {"none", "queued", "cancelled"}]
    BY <1>1 DEF NmStateChanged, HeadsAfter, TypeOK
  <2>5. outdated' \subseteq Heads
    BY <1>1 DEF NmStateChanged
  <2>6. announced' \subseteq Servers
    BY <1>1, AnnouncedType DEF NmStateChanged, TypeOK
  <2> QED
    BY <1>1, <2>1, <2>2, <2>3, <2>4, <2>5, <2>6 DEF NmStateChanged, TypeOK
<1>2. ASSUME NEW s \in Servers, NEW m \in Messages, NEW ok \in BOOLEAN,
             VerifyServerCb(s, m, ok)
      PROVE  TypeOK'
  <2>1. state' \in [Servers -> {"allgood", "unavailable"}]
    BY <1>2, JudgedType DEF VerifyServerCb, StateAfter, TypeOK
  <2>2. announced' \subseteq Servers
    BY <1>2, AnnouncedType DEF VerifyServerCb, TypeOK
  <2> QED
    BY <1>2, <2>1, <2>2 DEF VerifyServerCb, TypeOK
<1>3. CASE Start
  <2>1. last_network' \in [Servers -> NMStates]
    BY <1>3, ReportedType DEF Start, TypeOK
  <2>2. state' \in [Servers -> {"allgood", "unavailable"}]
    BY <1>3, JudgedType DEF Start
  <2>3. heads' \in [Heads -> {"none", "queued", "cancelled"}]
    BY <1>3 DEF Start
  <2>4. announced' \subseteq Servers
    BY <1>3 DEF Start, Announcement, Available
  <2> QED
    BY <1>3, <2>1, <2>2, <2>3, <2>4, NothingType DEF Start, TypeOK
<1>4. CASE StartUnconfigured
  BY <1>4 DEF StartUnconfigured, TypeOK
<1>5. CASE Stop
  BY <1>5, NothingType DEF Stop, TypeOK
<1>6. ASSUME NEW v \in NMStates \cup {Stopped}, NmUnnoticed(v) PROVE TypeOK'
  BY <1>6 DEF NmUnnoticed, TypeOK
<1>7. CASE UNCHANGED vars
  BY <1>7 DEF vars, TypeOK
<1> QED
  BY <1>1, <1>2, <1>3, <1>4, <1>5, <1>6, <1>7, NetworkAssumption
  DEF Next, HeadCancelled, HeadReplied

\* The servers, their requests and the broadcast keep their types.
THEOREM NetworkTypeCorrect == Spec => []TypeOK
BY NetworkTypeInitial, NetworkTypeStep, PTL DEF Spec

-----------------------------------------------------------------------------
(***************************************************************************)
(* NetworkInv is inductive.  OutdatedAreCancelled is what soup_session_abort *)
(* buys: no request queued before a disconnection is left to be answered.  *)
(***************************************************************************)
OutdatedAreCancelled == \A h \in outdated : heads[h] = "cancelled"

NoClientNoHead ==
    \A h \in Heads : ~config[h[1]].nm_client => heads[h] = "none"

NetworkInv ==
    /\ TypeOK
    /\ StateIsCurrent
    /\ AnnouncedIsCurrent
    /\ CancellationsAreHarmless
    /\ OutdatedAreCancelled
    /\ NoClientNoHead

LEMMA UnconnectedNeverVerifies ==
    ASSUME NEW c, NEW v, NEW verified, ~c.nm_client
    PROVE  ~Verifies(c, v, verified)
BY Constants DEF Verifies, Reported

LEMMA NetworkInitial == Init => NetworkInv
BY NetworkTypeInitial
DEF Init, Nothing, NetworkInv, StateIsCurrent, AnnouncedIsCurrent,
    CancellationsAreHarmless, OutdatedAreCancelled, NoClientNoHead

LEMMA NetworkStep == NetworkInv /\ [Next]_vars => NetworkInv'
<1> SUFFICES ASSUME NetworkInv, [Next]_vars
             PROVE  (/\ StateIsCurrent /\ AnnouncedIsCurrent /\ CancellationsAreHarmless
                     /\ OutdatedAreCancelled /\ NoClientNoHead)'
  BY NetworkTypeStep DEF NetworkInv
<1> DEFINE Goal == /\ StateIsCurrent /\ AnnouncedIsCurrent /\ CancellationsAreHarmless
                   /\ OutdatedAreCancelled /\ NoClientNoHead
<1>a. TypeOK /\ Goal
  BY DEF NetworkInv
<1>1. ASSUME NEW v \in NMStates \cup {Stopped}, NEW next \in [Servers -> Messages],
             NmStateChanged(v, next)
      PROVE  Goal'
  <2>1. /\ config' = config
        /\ heads' = HeadsAfter(v, next)
        /\ verified_server' = VerifiedAfter(v)
    BY <1>1 DEF NmStateChanged
  <2>2. \A h \in Heads : config[h[1]].nm_client /\ heads[h] = "queued"
                         /\ Aborted(config[h[1]], v) => heads'[h] = "cancelled"
    BY <2>1 DEF HeadsAfter
  <2>3. \A h \in Heads : heads[h] = "cancelled" =>
                             config[h[1]].nm_client /\ heads'[h] \in {"cancelled", "queued"}
    BY <1>a, <2>1 DEF HeadsAfter, NoClientNoHead
  <2>4. \A h \in Heads : heads[h] = "cancelled" => heads'[h] = "cancelled"
    <3> SUFFICES ASSUME NEW h \in Heads, heads[h] = "cancelled"
                 PROVE  heads'[h] = "cancelled"
      OBVIOUS
    <3>1. h[1] \in Servers /\ h = <<h[1], h[2]>>
      BY DEF Heads
    <3>2. Verifies(config[h[1]], v, verified_server[h[1]]) => heads[<<h[1], next[h[1]]>>] = "none"
      BY <1>1, <3>1 DEF NmStateChanged
    <3>3. ~(Verifies(config[h[1]], v, verified_server[h[1]]) /\ h[2] = next[h[1]])
      BY <3>1, <3>2
    <3> QED
      BY <1>a, <2>1, <3>3 DEF HeadsAfter, NoClientNoHead
  <2>5. \A h \in Heads : heads'[h] = "cancelled" =>
                             heads[h] = "cancelled" \/ Aborted(config[h[1]], v)
    BY <2>1 DEF HeadsAfter
  <2>6. NoClientNoHead'
    BY <1>a, <2>1 DEF HeadsAfter, NoClientNoHead
  <2>7. CancellationsAreHarmless'
    <3> SUFFICES ASSUME NEW s \in Servers, NEW m \in Messages,
                        heads'[<<s, m>>] = "cancelled"
                 PROVE  ~verified_server'[s]
      BY DEF CancellationsAreHarmless
    <3>1. <<s, m>> \in Heads
      BY DEF Heads
    <3>2. ~verified_server[s] \/ Aborted(config[s], v)
      BY <1>a, <2>5, <3>1 DEF CancellationsAreHarmless
    <3> QED
      BY <2>1, <3>2 DEF VerifiedAfter, Aborted
  <2>8. OutdatedAreCancelled'
    <3> SUFFICES ASSUME NEW h \in outdated' PROVE heads'[h] = "cancelled"
      BY DEF OutdatedAreCancelled
    <3>1. /\ h \in Heads
          /\ heads'[h] # "none"
          /\ h \in outdated \/ Reported(config[h[1]], v) = NM_STATE_DISCONNECTED
      BY <1>1 DEF NmStateChanged
    <3>2. CASE h \in outdated
      BY <1>a, <2>4, <3>1, <3>2 DEF OutdatedAreCancelled
    <3>3. CASE Reported(config[h[1]], v) = NM_STATE_DISCONNECTED
      <4>1. config[h[1]].nm_client
        BY <2>1, <2>6, <3>1 DEF NoClientNoHead
      <4>2. ~Verifies(config[h[1]], v, verified_server[h[1]])
        BY <3>3, Constants DEF Verifies
      <4>3. heads[h] # "none"
        BY <2>1, <3>1, <4>1, <4>2 DEF HeadsAfter
      <4>4. heads[h] \in {"queued", "cancelled"}
        BY <1>a, <3>1, <4>3 DEF TypeOK
      <4> QED
        BY <2>2, <2>4, <3>1, <3>3, <4>1, <4>4 DEF Aborted
    <3> QED
      BY <3>1, <3>2, <3>3
  <2>9. StateIsCurrent'
    BY <1>1 DEF NmStateChanged, StateIsCurrent, Judged
  <2>10. AnnouncedIsCurrent'
    BY <1>1, <1>a, AnnouncedIsAvailable DEF NmStateChanged, AnnouncedIsCurrent
  <2> QED
    BY <2>6, <2>7, <2>8, <2>9, <2>10
<1>2. ASSUME NEW s \in Servers, NEW m \in Messages, NEW ok \in BOOLEAN,
             VerifyServerCb(s, m, ok),
             ok => \A n \in Messages : heads[<<s, n>>] # "cancelled"
      PROVE  Goal'
  <2>1. /\ config' = config
        /\ service' = service
        /\ last_network' = last_network
        /\ verified_server' = [verified_server EXCEPT ![s] = ok]
        /\ heads' = [heads EXCEPT ![<<s, m>>] = "none"]
        /\ outdated' = outdated \ {<<s, m>>}
        /\ state' = StateAfter(s, ok)
    BY <1>2 DEF VerifyServerCb
  <2>2. \A h \in Heads : heads'[h] = IF h = <<s, m>> THEN "none" ELSE heads[h]
    BY <1>a, <2>1 DEF TypeOK
  <2>3. NoClientNoHead'
    BY <1>a, <2>1, <2>2 DEF NoClientNoHead
  <2>4. OutdatedAreCancelled'
    BY <1>a, <2>1, <2>2 DEF OutdatedAreCancelled, TypeOK
  <2>5. CancellationsAreHarmless'
    <3> SUFFICES ASSUME NEW t \in Servers, NEW n \in Messages,
                        heads'[<<t, n>>] = "cancelled"
                 PROVE  ~verified_server'[t]
      BY DEF CancellationsAreHarmless
    <3>1. heads[<<t, n>>] = "cancelled"
      BY <2>2 DEF Heads
    <3> QED
      BY <1>2, <1>a, <2>1, <3>1 DEF CancellationsAreHarmless, TypeOK
  <2>6. StateIsCurrent'
    BY <1>a, <2>1 DEF StateIsCurrent, StateAfter, Judged, TypeOK
  <2>7. AnnouncedIsCurrent'
    BY <1>2, <1>a, AnnouncedIsAvailable DEF VerifyServerCb, AnnouncedIsCurrent
  <2> QED
    BY <2>3, <2>4, <2>5, <2>6, <2>7
<1>3. CASE Start
  <2>1. \A h \in Heads : heads'[h] \in {"none", "queued"}
    BY <1>3 DEF Start
  <2>2. NoClientNoHead'
    BY <1>3, UnconnectedNeverVerifies DEF Start, NoClientNoHead, Heads
  <2>3. CancellationsAreHarmless' /\ OutdatedAreCancelled'
    BY <1>3, <2>1 DEF Start, CancellationsAreHarmless, OutdatedAreCancelled, Heads
  <2>4. StateIsCurrent'
    BY <1>3 DEF Start, StateIsCurrent, Judged, Nothing
  <2>5. AnnouncedIsCurrent'
    BY <1>3 DEF Start, AnnouncedIsCurrent, Announcement, Available
  <2> QED
    BY <2>2, <2>3, <2>4, <2>5
<1>4. CASE Stop
  BY <1>4
  DEF Stop, Nothing, StateIsCurrent, AnnouncedIsCurrent, CancellationsAreHarmless,
      OutdatedAreCancelled, NoClientNoHead, Heads
<1>5. CASE StartUnconfigured \/ \E v \in NMStates \cup {Stopped} : NmUnnoticed(v)
  BY <1>a, <1>5
  DEF StartUnconfigured, NmUnnoticed, StateIsCurrent, AnnouncedIsCurrent,
      CancellationsAreHarmless, OutdatedAreCancelled, NoClientNoHead
<1>6. CASE UNCHANGED vars
  BY <1>a, <1>6
  DEF vars, StateIsCurrent, AnnouncedIsCurrent, CancellationsAreHarmless,
      OutdatedAreCancelled, NoClientNoHead, Judged, Available
<1> QED
  BY <1>1, <1>2, <1>3, <1>4, <1>5, <1>6, NetworkAssumption
  DEF Next, HeadCancelled, HeadReplied

LEMMA NetworkInvariant == Spec => []NetworkInv
BY NetworkInitial, NetworkStep, PTL DEF Spec

\* Neither a handler nor a restart leaves a server's state behind its network or
\* its verification.
THEOREM StateCurrent == Spec => []StateIsCurrent
<1>1. NetworkInv => StateIsCurrent
  BY DEF NetworkInv
<1> QED
  BY <1>1, NetworkInvariant, PTL

\* The last ServersUpdated of a configured service names the servers that are
\* available now, however often the service was restarted.
THEOREM AnnouncedCurrent == Spec => []AnnouncedIsCurrent
<1>1. NetworkInv => AnnouncedIsCurrent
  BY DEF NetworkInv
<1> QED
  BY <1>1, NetworkInvariant, PTL

\* A late cancellation finds its server unverified.
THEOREM CancellationsHarmless == Spec => []CancellationsAreHarmless
<1>1. NetworkInv => CancellationsAreHarmless
  BY DEF NetworkInv
<1> QED
  BY <1>1, NetworkInvariant, PTL

LEMMA VerifiedStep ==
    NetworkInv /\ [Next]_vars =>
        [\A s \in Servers : ~verified_server[s] /\ verified_server'[s] =>
            \E m \in Messages : /\ heads[<<s, m>>] = "queued"
                                /\ heads'[<<s, m>>] = "none"
                                /\ <<s, m>> \notin outdated]_vars
<1> SUFFICES ASSUME NetworkInv, Next,
                    NEW s \in Servers, ~verified_server[s], verified_server'[s]
             PROVE  \E m \in Messages : /\ heads[<<s, m>>] = "queued"
                                        /\ heads'[<<s, m>>] = "none"
                                        /\ <<s, m>> \notin outdated
  OBVIOUS
<1>1. ASSUME NEW v \in NMStates \cup {Stopped}, NEW next \in [Servers -> Messages],
             NmStateChanged(v, next)
      PROVE  FALSE
  BY <1>1 DEF NmStateChanged, VerifiedAfter
<1>2. ASSUME NEW t \in Servers, NEW m \in Messages, HeadCancelled(t, m)
      PROVE  FALSE
  BY <1>2 DEF HeadCancelled, VerifyServerCb, NetworkInv, TypeOK
<1>3. ASSUME NEW t \in Servers, NEW m \in Messages, NEW ok \in Replies,
             HeadReplied(t, m, ok)
      PROVE  /\ heads[<<s, m>>] = "queued"
             /\ heads'[<<s, m>>] = "none"
             /\ <<s, m>> \notin outdated
  <2>1. t = s
    BY <1>3 DEF HeadReplied, VerifyServerCb, NetworkInv, TypeOK
  <2>2. <<s, m>> \in Heads
    BY DEF Heads
  <2>3. heads \in [Heads -> {"none", "queued", "cancelled"}]
    BY DEF NetworkInv, TypeOK
  <2>4. heads'[<<s, m>>] = "none"
    BY <1>3, <2>1, <2>2, <2>3 DEF HeadReplied, VerifyServerCb
  <2> QED
    BY <1>3, <2>1, <2>4 DEF HeadReplied, NetworkInv, OutdatedAreCancelled
<1>4. CASE Start \/ StartUnconfigured \/ Stop
  BY <1>4 DEF Start, StartUnconfigured, Stop, Nothing
<1>5. ASSUME NEW v \in NMStates \cup {Stopped}, NmUnnoticed(v) PROVE FALSE
  BY <1>5 DEF NmUnnoticed
<1> QED
  BY <1>1, <1>2, <1>3, <1>4, <1>5 DEF Next

\* Only a reply to a request sent since the last disconnection verifies a
\* server (nm_state_changed's soup_session_abort).
THEOREM VerifiedOnNetwork == Spec => VerifiedOnThisNetwork
BY NetworkInvariant, VerifiedStep, PTL DEF Spec, VerifiedOnThisNetwork
=============================================================================
