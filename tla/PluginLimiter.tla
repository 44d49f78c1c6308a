---------------------------- MODULE PluginLimiter ----------------------------
(***************************************************************************)
(* pluginLimiter, the token bucket in front of PluginGetParams: a          *)
(* rate.Limiter (golang.org/x/time/rate, external) that admits             *)
(* PluginRateBurst calls at once and one more every PluginRateSeconds.     *)
(* Its fractional tokens are counted in credit: a second earns one, a call *)
(* costs PluginRateSeconds, and a call refused costs nothing.              *)
(***************************************************************************)
EXTENDS Naturals

CONSTANTS
    PluginRateSeconds,  \* the interval of pluginRateLimit, in seconds
    PluginRateBurst     \* pluginRateBurst

ASSUME RateAssumption ==
    /\ PluginRateSeconds \in Nat \ {0}
    /\ PluginRateBurst \in Nat \ {0}

VARIABLE credit

FullCredit == PluginRateSeconds * PluginRateBurst

LimiterTypeOK == credit \in 0..FullCredit

\* rate.NewLimiter: the bucket of a new process is full.
NewLimiter == FullCredit

\* Mutant: any credit will do.
AllowsEarly == credit > 0

Allows == credit >= PluginRateSeconds

Spend == credit' = IF Allows THEN credit - PluginRateSeconds ELSE credit

\* Mutant: what was spent is not earned back.
NeverRefilled == credit

\* Mutant: the bucket has no limit.
Overfilled == credit + 1

Refilled == IF credit < FullCredit THEN credit + 1 ELSE credit
=============================================================================
