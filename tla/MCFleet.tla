------------------------------- MODULE MCFleet -------------------------------
(* Instances of Fleet for TLC. *)
EXTENDS Fleet, TLC

\* Requests, listings, appliances, groups and labels are interchangeable.
FleetSymmetry ==
    Permutations(Requests) \cup Permutations(Listings) \cup Permutations(Appliances)
        \cup Permutations(Groups) \cup Permutations(Labels)
=============================================================================
