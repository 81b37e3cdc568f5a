------------------------- MODULE SingleFlight_proofs -------------------------
(* Proofs about SingleFlight: its types, and that nobody waits for a query *)
(* other than his own.                                                     *)
EXTENDS SingleFlight, TLAPS

\* The three variables keep their types (Init and every disjunct of Next).
THEOREM FlightTypeCorrect ==
    ASSUME \A i \in Calls : i.creds \in Creds
    PROVE  Spec => []TypeOK
<1>1. Init => TypeOK
  BY DEF Init, TypeOK
<1>2. TypeOK /\ [Next]_vars => TypeOK'
  <2> SUFFICES ASSUME TypeOK, [Next]_vars
               PROVE  TypeOK'
    OBVIOUS
  <2>1. CASE Land
    BY <2>1 DEF Land, Settle, Pending, TypeOK
  <2>2. ASSUME NEW i \in Calls, Call(i)
        PROVE  TypeOK'
    <3> i.creds \in Creds
      OBVIOUS
    <3>1. CASE Hit(i)
      BY <3>1 DEF Hit, Settle, TypeOK
    <3>2. CASE Board(i)
      BY <3>2 DEF Board, Settle, TypeOK
    <3>3. CASE TakeOff(i)
      BY <3>3 DEF TakeOff, Settle, Pending, TypeOK
    <3>4. CASE Abort(i)
      BY <3>4 DEF Abort, Settle, Pending, TypeOK
    <3> QED
      BY <2>2, <3>1, <3>2, <3>3, <3>4 DEF Call
  <2>3. CASE UNCHANGED vars
    BY <2>3 DEF vars, TypeOK
  <2> QED
    BY <2>1, <2>2, <2>3 DEF Next
<1> QED
  BY <1>1, <1>2, PTL DEF Spec

\* A waiting call always waits for a query in flight with the credentials it
\* presented; what uccs_server_unlock does about the waiters of another pair
\* is what keeps it so.
THEOREM EveryoneWaitsForItsOwn ==
    ASSUME \A i \in Calls : i.creds \in Creds
    PROVE  Spec => []WaitsForItsOwn
<1>1. Init => WaitsForItsOwn
  BY DEF Init, WaitsForItsOwn
<1>2. TypeOK /\ WaitsForItsOwn /\ [Next]_vars => WaitsForItsOwn'
  <2> SUFFICES ASSUME TypeOK, WaitsForItsOwn, [Next]_vars,
                      NEW j \in Calls, verdict'[j] = "pending"
               PROVE  inFlight' /\ j.creds = held'
    BY DEF WaitsForItsOwn
  <2>1. CASE Land
    <3>1. verdict'[j] = verdict[j] /\ j \notin Pending
      BY <2>1 DEF Land, Settle, TypeOK
    <3> QED
      BY <3>1 DEF Pending
  <2>2. ASSUME NEW i \in Calls, Call(i)
        PROVE  inFlight' /\ j.creds = held'
    <3>1. CASE Hit(i)
      BY <3>1 DEF Hit, Settle, TypeOK, WaitsForItsOwn
    <3>2. CASE Board(i)
      BY <3>2 DEF Board, Settle, TypeOK, WaitsForItsOwn
    <3>3. CASE TakeOff(i)
      <4>1. j = i
        BY <3>3 DEF TakeOff, Settle, Pending, TypeOK
      <4> QED
        BY <3>3, <4>1 DEF TakeOff
    <3>4. CASE Abort(i)
      BY <3>4 DEF Abort, Settle, Pending, TypeOK
    <3> QED
      BY <2>2, <3>1, <3>2, <3>3, <3>4 DEF Call
  <2>3. CASE UNCHANGED vars
    BY <2>3 DEF vars, WaitsForItsOwn
  <2> QED
    BY <2>1, <2>2, <2>3 DEF Next
<1> QED
  BY <1>1, <1>2, FlightTypeCorrect, PTL DEF Spec
=============================================================================
