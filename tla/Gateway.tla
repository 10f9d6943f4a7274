------------------------------ MODULE Gateway -------------------------------
(***************************************************************************)
(* The parts of the gateway side by side.  A behaviour is one of a rate    *)
(* limiter, of a key cache, of the requests between them, or of the        *)
(* checks of backups: they share nothing but the clock, so interleaving     *)
(* their steps would show nothing that each does not show alone.           *)
(***************************************************************************)
EXTENDS RateFlow, KeyCache, McpGateway, BackupStatus

VARIABLE part

vars == <<part, now, flowVars, keyVars, gateVars, statusVars>>

Init ==
    /\ now = 0 /\ FlowInit /\ KeyInit /\ GateInit /\ StatusInit
    /\ part \in {"rates", "keys", "requests", "status"}
    /\ part # "keys" => published = Kids
    /\ part # "requests" => mode = "local"
    /\ part # "status" => ~wired

Next ==
    \/ part = "rates" /\ FlowNext /\ UNCHANGED <<part, keyVars, gateVars, statusVars>>
    \/ part = "keys" /\ KeyNext /\ UNCHANGED <<part, flowVars, gateVars, statusVars>>
    \/ part = "requests" /\ GateNext /\ UNCHANGED <<part, flowVars, keyVars, statusVars>>
    \/ part = "status" /\ StatusNext /\ UNCHANGED <<part, flowVars, keyVars, gateVars>>

Spec == Init /\ [][Next]_vars
=============================================================================
