------------------------------- MODULE MCParts -------------------------------
(* An instance, for TLC, of the parts that share nothing with the rest: the *)
(* limiter watched over a stretch of time, hostname labels, token lists.    *)
(* A behaviour is one of the part it has chosen.                            *)
EXTENDS LimiterWindow, HostnameLabel, ServiceTokens

VARIABLE part

PartsInit ==
    /\ WindowInit /\ NameInit /\ ListInit
    /\ part \in {"limiter", "label", "tokens"}

PartsNext ==
    /\ UNCHANGED part
    /\ \/ part = "limiter" /\ WindowNext /\ UNCHANGED <<nameVars, listVars>>
       \/ part = "label" /\ NameNext /\ UNCHANGED <<windowVars, listVars>>
       \/ part = "tokens" /\ ListNext /\ UNCHANGED <<windowVars, nameVars>>

PartsSpec == PartsInit /\ [][PartsNext]_<<windowVars, nameVars, listVars, part>>
=============================================================================
