---------------------------- MODULE MCUccsNetwork ----------------------------
(* UccsNetwork for TLC, without clients.                                   *)
EXTENDS UccsNetwork

MCNMStates == {NM_STATE_ASLEEP, NM_STATE_DISCONNECTED, NM_STATE_CONNECTED_SITE,
               NM_STATE_CONNECTED_GLOBAL}
=============================================================================
