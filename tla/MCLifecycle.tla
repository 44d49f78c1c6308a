----------------------------- MODULE MCLifecycle -----------------------------
(* Instances of Lifecycle for TLC. *)
EXTENDS LifecyclePromises, LifecycleStates, Functions, TLC

\* Requests are interchangeable: no action or invariant names one.
RequestSymmetry == Permutations(Requests)

\* Nor do they name an appliance, a group or a label.
EntitySymmetry ==
    RequestSymmetry \cup Permutations(Appliances)
        \cup Permutations(Groups) \cup Permutations(Labels)

\* The requests, the appliances, their owners and labels of NeighboursInit:
\* any would do.
past == CHOOSE f \in Injection(1..4, Requests) : TRUE
neighbour == CHOOSE f \in Injection(1..2, Appliances) : TRUE
owner == CHOOSE f \in Injection(1..2, Groups) : TRUE
label == CHOOSE f \in Injection(1..2, Labels) : TRUE

\* The values of the two neighbours, and of the past requests.
Pair(other, x, y) ==
    [a \in Appliances |-> CASE a = neighbour[1] -> x [] a = neighbour[2] -> y [] OTHER -> other]

Past(other, w, x, y, z) ==
    [r \in Requests |-> CASE r = past[1] -> w [] r = past[2] -> x [] r = past[3] -> y
                          [] r = past[4] -> z [] OTHER -> other]

\* Two groups with an appliance each: one registered and claimed, then the
\* other registered or enrolled.  Either the clock stands still and two
\* requests are to come; or it goes on, so that what the other was answered
\* expires, and one is: of the other a revocation failed at its first call.
NeighboursInit ==
    \E o \in Creators, expires \in BOOLEAN :
        LET time == IF expires THEN 0 ELSE MaxTime
            token == GenerateClaimToken(past[3])
            code == GenerateExchangeCode(past[3])
            Failed(none, x) == IF expires THEN x ELSE none
        IN
        /\ now = time
        /\ status = Pair("absent", "active", "pending")
        /\ groupId = Pair(NULL, owner[1], owner[2])
        /\ hostnameLabel = Pair(NULL, label[1], label[2])
        /\ claimedAt = Pair(NULL, Timestamp(time), NULL)
        /\ secretHash = Pair(NULL, Hash(GenerateApplianceSecret(past[2])), NULL)
        /\ claimTokens = Pair(NULL, NULL,
                [tokenHash |-> Hash(token), expiresAt |-> Timestamp(time + ClaimTokenExpiry)])
        /\ exchangeCodes = Pair(NULL, NULL,
                IF o = "Register" THEN NULL
                ELSE [codeHash |-> Hash(code), claimTokenHash |-> Hash(token),
                      expiresAt |-> Timestamp(time + ExchangeCodeExpiry)])
        /\ k8s = Pair(NULL, IF InCluster THEN GenerateApplianceSecret(past[2]) ELSE NULL, NULL)
        /\ pc = Past("idle", "200", "200", "200", Failed("idle", "aborted"))
        /\ op = Past(NULL, "Register", "Claim", o, Failed(NULL, "Revoke"))
        /\ target = Past(NULL, neighbour[1], neighbour[1], neighbour[2], Failed(NULL, neighbour[2]))
        /\ bearer = Past(NULL, UseToken(owner[1]), GenerateClaimToken(past[1]), UseToken(owner[2]),
                         Failed(NULL, UseToken(owner[2])))
        /\ seen = Past(NULL, NULL, NULL, NULL, NULL)
        /\ attempt = Past(0, 0, 0, 0, 0)
        /\ before = Past({}, {}, {past[1]}, {past[1], past[2]},
                         Failed({}, {past[1], past[2], past[3]}))

FairNeighboursSpec ==
    NeighboursInit /\ [][Next]_vars /\ \A r \in Requests : WF_vars(Serve(r))
=============================================================================
