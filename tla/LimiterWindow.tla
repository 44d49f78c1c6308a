---------------------------- MODULE LimiterWindow ----------------------------
(***************************************************************************)
(* How many calls of PluginGetParams get past the limiter in a stretch of  *)
(* time.  An observer, who may look away and start afresh at any moment,   *)
(* counts the calls admitted, the seconds and the restarts of the process: *)
(* what holds of these counts holds of every stretch.                      *)
(***************************************************************************)
EXTENDS PluginLimiter

CONSTANTS
    MaxElapsed,     \* bound: the longest stretch of an instance
    MaxRestarts     \* bound: restarts in a stretch of an instance

ASSUME WindowAssumption == MaxElapsed \in Nat /\ MaxRestarts \in Nat

VARIABLES
    admitted,   \* calls admitted since the observer started to look
    elapsed,    \* seconds since then
    restarts    \* restarts of the process since then

windowVars == <<credit, admitted, elapsed, restarts>>

WindowInit ==
    /\ credit = NewLimiter
    /\ admitted = 0 /\ elapsed = 0 /\ restarts = 0

\* pluginLimiter.Allow(), whatever token the call carries.
Call ==
    /\ Spend
    /\ admitted' = IF Allows THEN admitted + 1 ELSE admitted
    /\ UNCHANGED <<elapsed, restarts>>

Second ==
    /\ elapsed < MaxElapsed
    /\ credit' = Refilled
    /\ elapsed' = elapsed + 1
    /\ UNCHANGED <<admitted, restarts>>

\* The limiter is in the memory of the process.
Restart ==
    /\ restarts < MaxRestarts
    /\ credit' = NewLimiter
    /\ restarts' = restarts + 1
    /\ UNCHANGED <<admitted, elapsed>>

LookAgain ==
    /\ admitted' = 0 /\ elapsed' = 0 /\ restarts' = 0
    /\ UNCHANGED credit

WindowNext == Call \/ Second \/ Restart \/ LookAgain

WindowSpec == WindowInit /\ [][WindowNext]_windowVars
-----------------------------------------------------------------------------
\* In any stretch of time no more calls reach the check of the token than a
\* full bucket for the process, one for each restart, and what the seconds
\* earned (webapp.go: pluginRateLimit, pluginRateBurst, PluginGetParams).
RateIsBounded ==
    PluginRateSeconds * admitted <= FullCredit * (1 + restarts) + elapsed
=============================================================================
