---------------------------- MODULE SingleFlight ----------------------------
(***************************************************************************)
(* What unlocking a UCCS server promises its callers, without the child,   *)
(* its pipes and the main loop: the server holds one pair of credentials,  *)
(* at most one query is in flight and it is for the pair held, everybody   *)
(* who waits waits for that query, and it answers all of them at once.     *)
(* UccsUnlock implements this specification.                               *)
(***************************************************************************)
CONSTANTS Calls,   \* the calls, records with the credentials they present
          Creds, NoCreds

VARIABLES held,     \* the credentials the server vouches for
          inFlight, \* a query for them is out
          verdict   \* what became of each call

vars == <<held, inFlight, verdict>>

TypeOK ==
    /\ held \in Creds \cup {NoCreds}
    /\ inFlight \in BOOLEAN
    /\ verdict \in [Calls -> {"idle", "pending", "granted", "refused"}]

Init ==
    /\ held = NoCreds
    /\ inFlight = FALSE
    /\ verdict = [i \in Calls |-> "idle"]

Pending == {i \in Calls : verdict[i] = "pending"}

Settle(answered, v) ==
    [i \in Calls |-> IF i \in answered THEN v ELSE verdict[i]]

-----------------------------------------------------------------------------
\* Granted from what the server holds.
Hit(i) ==
    /\ i.creds = held
    /\ verdict' = Settle({i}, "granted")
    /\ UNCHANGED <<held, inFlight>>

\* The query the call needs is in flight already.
Board(i) ==
    /\ inFlight
    /\ i.creds = held
    /\ verdict' = Settle({i}, "pending")
    /\ UNCHANGED <<held, inFlight>>

\* A query for the call's credentials takes off.  If that pre-empts the query
\* of other credentials, those who waited for it are refused.
TakeOff(i) ==
    /\ ~inFlight \/ i.creds # held
    /\ held' = i.creds
    /\ inFlight' = TRUE
    /\ verdict' = [Settle(Pending, "refused") EXCEPT ![i] = "pending"]

\* The query cannot be started.
Abort(i) ==
    /\ ~inFlight \/ i.creds # held
    /\ held' = i.creds
    /\ inFlight' = FALSE
    /\ verdict' = Settle(Pending \cup {i}, "refused")

\* The query answers everybody who waits.  A refusal may cost the server its
\* credentials.
Land ==
    /\ inFlight
    /\ inFlight' = FALSE
    /\ \/ /\ verdict' = Settle(Pending, "granted")
          /\ held' = held
       \/ /\ verdict' = Settle(Pending, "refused")
          /\ held' \in {held, NoCreds}

Call(i) ==
    /\ verdict[i] # "pending"
    /\ Hit(i) \/ Board(i) \/ TakeOff(i) \/ Abort(i)

Next == Land \/ \E i \in Calls : Call(i)

Spec == Init /\ [][Next]_vars

\* A query that is not pre-empted lands.
FairSpec == Spec /\ \A c \in Creds : WF_vars(held = c /\ Land)

-----------------------------------------------------------------------------
\* Whoever waits, waits for the query in flight, and that query is for the
\* credentials the waiting call presented.
WaitsForItsOwn ==
    \A i \in Calls : verdict[i] = "pending" => inFlight /\ i.creds = held
=============================================================================
