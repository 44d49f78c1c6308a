----------------------------- MODULE MCCloudLogin -----------------------------
(* Instances of CloudLogin for TLC. *)
EXTENDS CloudLogin, Functions, TLC

\* Logins and users are interchangeable.
LoginSymmetry == Permutations(Logins) \cup Permutations(Users)

\* The requests that registered the appliances, those that claimed them, and
\* the labels they got: any would do.
creator == CHOOSE f \in Injection(Appliances, Requests) : TRUE

claimer ==
    CHOOSE f \in Injection(Appliances, Requests) : Range(f) \cap Range(creator) = {}

label == CHOOSE f \in Injection(Appliances, Labels) : TRUE

\* The state once every appliance has been registered and then claimed: where
\* cloud login begins.
EnrolledInit ==
    \E owner \in [Appliances -> Groups] :
        LET created(r) == {a \in Appliances : creator[a] = r}
            claimed(r) == {a \in Appliances : claimer[a] = r}
        IN
        /\ now = 0
        /\ status = [a \in Appliances |-> "active"]
        /\ groupId = owner
        /\ hostnameLabel = label
        /\ claimedAt = [a \in Appliances |-> 0]
        /\ secretHash = [a \in Appliances |-> Hash(GenerateApplianceSecret(claimer[a]))]
        /\ claimTokens = [a \in Appliances |-> NULL]
        /\ exchangeCodes = [a \in Appliances |-> NULL]
        /\ k8s = [a \in Appliances |->
                    IF InCluster THEN GenerateApplianceSecret(claimer[a]) ELSE NULL]
        /\ pc = [r \in Requests |-> IF created(r) \cup claimed(r) # {} THEN "200" ELSE "idle"]
        /\ op = [r \in Requests |-> IF created(r) # {} THEN "Register"
                                    ELSE IF claimed(r) # {} THEN "Claim" ELSE NULL]
        /\ target = [r \in Requests |-> IF created(r) \cup claimed(r) # {}
                        THEN CHOOSE a \in created(r) \cup claimed(r) : TRUE ELSE NULL]
        /\ bearer = [r \in Requests |->
                        IF created(r) # {} THEN UseToken(owner[CHOOSE a \in created(r) : TRUE])
                        ELSE IF claimed(r) # {}
                        THEN GenerateClaimToken(creator[CHOOSE a \in claimed(r) : TRUE])
                        ELSE NULL]
        /\ seen = [r \in Requests |-> NULL]
        /\ attempt = [r \in Requests |-> 0]
        /\ before = [r \in Requests |-> IF claimed(r) # {} THEN Range(creator) ELSE {}]
        /\ NoLogins

EnrolledSpec == EnrolledInit /\ [][LoginNext]_lvars

FairEnrolledSpec == EnrolledSpec /\ LoginFairness
=============================================================================
