--------------------------- MODULE MCLifecycleTimes ---------------------------
(* Instances of LifecycleTimes for TLC. *)
EXTENDS LifecycleTimes, TLC

\* Requests are interchangeable: no action or invariant names one.
TimedSymmetry == Permutations(Requests)
=============================================================================
