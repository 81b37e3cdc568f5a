---------------------------- MODULE MCUccsUnlock ----------------------------
(* UccsUnlock for TLC: model values for the clients, the credentials and   *)
(* the children, the calls they make, and the symmetry between them for    *)
(* the safety runs.                                                        *)
EXTENDS UccsUnlock, TLC

\* Every client may make every call.
EveryCall == [sender : Callers, creds : Creds, serial : Serials]

\* One pair is presented under every serial, the others under one of them.
OnePairRepeats ==
    LET repeated == CHOOSE c \in Creds : TRUE
        once == CHOOSE n \in Serials : TRUE
    IN  {i \in EveryCall : i.creds = repeated \/ i.serial = once}

Symmetry == Permutations(Callers) \cup Permutations(Creds) \cup Permutations(Pids)
=============================================================================
