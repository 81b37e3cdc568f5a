---------------------------- MODULE MCRemoteLogon ----------------------------
(* RemoteLogon for TLC.                                                    *)
EXTENDS RemoteLogon, TLC

MCNMStates == {NM_STATE_ASLEEP, NM_STATE_DISCONNECTED, NM_STATE_CONNECTED_SITE,
               NM_STATE_CONNECTED_GLOBAL}

Symmetry == Permutations(Servers) \cup Permutations(Messages) \cup Permutations(Clients)
=============================================================================
