------------------------------- MODULE MCService -------------------------------
(***************************************************************************)
(* Two settings of MasterService for TLC: workers that interleave over      *)
(* every kind of request, and workers that answer one request at a time,    *)
(* on more keys and larger pools.                                          *)
(***************************************************************************)
EXTENDS MCMaster

VARIABLE setting

Settings == [concurrent |-> ServiceRequests, sequential |-> SequentialRequests]

MCRequests == ServiceRequests \cup SequentialRequests

MCInit == Init /\ setting \in DOMAIN Settings

(* A worker takes a request of the setting; in the second setting only when *)
(* the others have none.                                                   *)
Admitted(t) ==
    pc[t] = "idle" =>
        /\ request'[t] \in Settings[setting]
        /\ setting = "sequential" => \A w \in Threads \ {t} : pc[w] = "idle"

MCNext ==
    /\ UNCHANGED setting
    /\ Next
    /\ \A t \in Threads : request'[t] # request[t] => Admitted(t)

MCSpec == MCInit /\ [][MCNext]_<<vars, setting>>
=============================================================================
