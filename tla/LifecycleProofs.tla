--------------------------- MODULE LifecycleProofs ---------------------------
(***************************************************************************)
(* Proofs that the handlers of Lifecycle keep its invariants, for every    *)
(* number of requests, appliances, groups and labels, every bound and both *)
(* kinds of SecretWriter.                                                  *)
(***************************************************************************)
EXTENDS Lifecycle, TLAPS

\* Which endpoints a request at a given call can have been sent to, and what
\* it carries.
Shape ==
    \A r \in Requests :
        /\ op[r] = NULL <=> pc[r] = "idle"
        /\ op[r] \in OwnerOps => bearer[r] \in UseTokens
        /\ op[r] \in Writers => target[r] \in Appliances
        /\ pc[r] \in CreatorSteps => op[r] \in Creators
        /\ pc[r] \in WriteSteps => op[r] \in Issuers
        /\ pc[r] \in {"getClaimToken", "deleteExpiredToken"} => op[r] = "Claim"
        /\ pc[r] \in {"getExchangeCode", "deleteExpiredCode", "checkPin", "deleteExchangeCode"}
            => op[r] = "EnrollRedeem"
        /\ pc[r] \in {"getAppliance", "markClaimed"} => op[r] \in Claimers
        /\ pc[r] \in {"setStatusRevoked", "deleteSecret", "clearSecretHash"} => op[r] = "Revoke"
        /\ pc[r] = "deleteClaimToken" => op[r] \in Claimers \cup {"Revoke"}
        /\ pc[r] = "requireOwningGroup" => op[r] \in {"Revoke", "RotateSecret"}
        /\ pc[r] \in {"checkSecretHash", "checkActive"} => op[r] = "RotateOwnSecret"

\* Only requests that have ended are before another.
BeforeEnded ==
    \A r \in Requests :
        /\ pc[r] = "idle" => before[r] = {}
        /\ \A q \in before[r] : pc[q] \in Ended

LEMMA CredentialFacts ==
    /\ NULL \notin Credentials /\ NULL \notin Hashes /\ NULL \notin Nat
    /\ \A r \in Requests : /\ GenerateApplianceSecret(r) \in Credentials
                           /\ GenerateClaimToken(r) \in Credentials
                           /\ GenerateExchangeCode(r) \in Credentials
                           /\ GenerateApplianceSecret(r) \in ApplianceSecrets
    /\ \A c \in Credentials : Hash(c) \in Hashes
    /\ UseTokens \subseteq Credentials /\ ApplianceSecrets \subseteq Credentials
    /\ \A t \in UseTokens : GroupOf(t) \in Groups
<1>1. NULL \notin Credentials /\ NULL \notin Hashes /\ NULL \notin Nat
  BY NullAssumption, TimeAssumption
<1>2. \A r \in Requests : /\ GenerateApplianceSecret(r) \in Credentials
                          /\ GenerateClaimToken(r) \in Credentials
                          /\ GenerateExchangeCode(r) \in Credentials
                          /\ GenerateApplianceSecret(r) \in ApplianceSecrets
  BY DEF Credentials, ApplianceSecrets
<1>3. \A c \in Credentials : Hash(c) \in Hashes
  BY DEF Hashes
<1>4. UseTokens \subseteq Credentials /\ ApplianceSecrets \subseteq Credentials
  BY DEF Credentials
<1>5. \A t \in UseTokens : GroupOf(t) \in Groups
  BY DEF UseTokens, UseToken, GroupOf
<1> QED
  BY <1>1, <1>2, <1>3, <1>4, <1>5

\* Two requests draw different secrets, and their hashes differ.
LEMMA SecretsAreFresh ==
    \A q, r \in Requests :
        q # r => /\ GenerateApplianceSecret(q) # GenerateApplianceSecret(r)
                 /\ Hash(GenerateApplianceSecret(q)) # Hash(GenerateApplianceSecret(r))
  BY DEF GenerateApplianceSecret, Hash

\* The multiples of k are at least k apart.
LEMMA Multiples ==
    ASSUME NEW k \in Nat, NEW a \in Nat, NEW b \in Nat, a >= b + 1
    PROVE  k * a >= k * b + k
<1>1. PICK d \in Nat : a = b + 1 + d
  <2>1. a - (b + 1) \in Nat /\ a = b + 1 + (a - (b + 1))
    OBVIOUS
  <2> QED
    BY <2>1
<1>2. k * d \in Nat
  OBVIOUS
<1>3. k * a = k * b + k + k * d
  BY <1>1
<1> QED
  BY <1>2, <1>3

\* What a TIMESTAMP column is left with: a time, no later than the one stored,
\* and in the order of those stored.
LEMMA TimestampFacts ==
    /\ \A t \in Nat : Timestamp(t) \in Nat /\ Timestamp(t) <= t
    /\ \A s, t \in Nat : s <= t => Timestamp(s) <= Timestamp(t)
<1> DEFINE k == TicksPerSecond
<1>1. \A t \in Nat : Timestamp(t) \in Nat /\ Timestamp(t) <= t
  BY TimeAssumption DEF Timestamp
<1>2. \A t \in Nat : /\ t = k * (t \div k) + (t % k)
                    /\ t % k \in 0..(k - 1) /\ t \div k \in Nat
  BY TimeAssumption
<1>3. ASSUME NEW s \in Nat, NEW t \in Nat, s <= t PROVE Timestamp(s) <= Timestamp(t)
  <2> DEFINE a == s \div k
             b == t \div k
  <2>1. /\ a \in Nat /\ s = k * a + (s % k) /\ s % k \in 0..(k - 1)
        /\ b \in Nat /\ t = k * b + (t % k) /\ t % k \in 0..(k - 1)
    BY <1>2
  <2>2. Timestamp(s) = k * a /\ Timestamp(t) = k * b
    BY <2>1, TimeAssumption DEF Timestamp
  <2> HIDE DEF a, b
  <2>3. CASE a >= b + 1
    BY <1>3, <2>1, <2>2, <2>3, TimeAssumption, Multiples
  <2>4. CASE b >= a + 1
    BY <2>1, <2>2, <2>4, TimeAssumption, Multiples
  <2>5. CASE a = b
    BY <2>1, <2>2, <2>5, TimeAssumption
  <2> QED
    BY <2>1, <2>3, <2>4, <2>5
<1> QED
  BY <1>1, <1>3

TypeInv == TypeOK /\ Shape /\ BeforeEnded

LEMMA TypeInvStep == TypeInv /\ [Next]_vars => TypeInv'
<1> SUFFICES ASSUME TypeInv, [Next]_vars PROVE TypeInv'
  OBVIOUS
<1> USE CredentialFacts DEF TypeInv, TypeOK, PersistenceTypeOK, Statuses, Shape, BeforeEnded,
        Steps, InFlight, Ended, CreatorSteps, ClaimerSteps, RotatorSteps,
        WriteSteps, RevokeSteps, Endpoints, Creators, Claimers, Rotators,
        Issuers, Writers, OwnerOps, At, Goto, KeepRequest, dbVars, applianceVars, tokenVars
<1>1. ASSUME NEW r \in Requests, NEW o \in Ops, NEW b \in Presentable(o),
             NEW a \in Appliances \cup {NULL}, Begin(r, o, a, b)
      PROVE  TypeInv'
  BY <1>1, LifecycleAssumption DEF Begin, Presentable, Answer, FirstCall, OK
<1>2. ASSUME NEW r \in Requests, InsertAppliance(r) PROVE TypeInv'
  BY <1>2 DEF InsertAppliance, CreateAppliance
<1>3. ASSUME NEW r \in Requests, InsertCollides(r) PROVE TypeInv'
  <2>1. TypeOK'
    BY <1>3, LifecycleAssumption DEF InsertCollides, MayRetry, NextAttempt
  <2>2. Shape'
    BY <1>3 DEF InsertCollides
  <2>3. BeforeEnded'
    BY <1>3 DEF InsertCollides
  <2> QED
    BY <2>1, <2>2, <2>3
<1>4. ASSUME NEW r \in Requests, IssueClaimToken(r) PROVE TypeInv'
  <2>1. TypeOK'
    <3>1. [tokenHash |-> Hash(GenerateClaimToken(r)), expiresAt |-> Timestamp(now + ClaimTokenExpiry)]
            \in ClaimTokenRows
      BY TimeAssumption, TimestampFacts DEF ClaimTokenRows
    <3>2. claimTokens' \in [Appliances -> ClaimTokenRows \cup {NULL}]
      BY <1>4, <3>1 DEF IssueClaimToken, SaveClaimToken
    <3> QED
      BY <1>4, <3>2 DEF IssueClaimToken, SaveClaimToken
  <2>2. Shape'
    BY <1>4, TimeAssumption DEF IssueClaimToken
  <2>3. BeforeEnded'
    BY <1>4, TimeAssumption DEF IssueClaimToken
  <2> QED
    BY <2>1, <2>2, <2>3
<1>5. ASSUME NEW r \in Requests, IssueExchangeCode(r) PROVE TypeInv'
  <2>1. TypeOK'
    <3>1. [codeHash |-> Hash(GenerateExchangeCode(r)),
         claimTokenHash |-> Hash(GenerateClaimToken(r)),
         expiresAt |-> Timestamp(now + ExchangeCodeExpiry)]
            \in ExchangeCodeRows
      BY TimeAssumption, TimestampFacts DEF ExchangeCodeRows
    <3>2. exchangeCodes' \in [Appliances -> ExchangeCodeRows \cup {NULL}]
      BY <1>5, <3>1 DEF IssueExchangeCode, SaveEnrollExchangeCode
    <3> QED
      BY <1>5, <3>2 DEF IssueExchangeCode, SaveEnrollExchangeCode
  <2>2. Shape'
    BY <1>5, TimeAssumption DEF IssueExchangeCode
  <2>3. BeforeEnded'
    BY <1>5, TimeAssumption DEF IssueExchangeCode
  <2> QED
    BY <2>1, <2>2, <2>3
<1>6. ASSUME NEW r \in Requests, GetClaimToken(r) PROVE TypeInv'
  BY <1>6 DEF GetClaimToken
<1>7. ASSUME NEW r \in Requests, DeleteExpiredToken(r) PROVE TypeInv'
  BY <1>7 DEF DeleteExpiredToken, IgnoringError, DeleteClaimToken
<1>8. ASSUME NEW r \in Requests, GetExchangeCode(r) PROVE TypeInv'
  BY <1>8 DEF GetExchangeCode, ExchangeCodeRows
<1>9. ASSUME NEW r \in Requests, DeleteExpiredCode(r) PROVE TypeInv'
  BY <1>9 DEF DeleteExpiredCode, IgnoringError, DeleteEnrollExchangeCode
<1>10. ASSUME NEW r \in Requests, CheckPin(r) PROVE TypeInv'
  BY <1>10 DEF CheckPin
<1>11. ASSUME NEW r \in Requests, RequireOwningGroup(r) PROVE TypeInv'
  BY <1>11 DEF RequireOwningGroup
<1>12. ASSUME NEW r \in Requests, CheckSecretHash(r) PROVE TypeInv'
  BY <1>12 DEF CheckSecretHash
<1>13. ASSUME NEW r \in Requests, CheckActive(r) PROVE TypeInv'
  BY <1>13 DEF CheckActive
<1>14. ASSUME NEW r \in Requests, GetAppliance(r) PROVE TypeInv'
  BY <1>14 DEF GetAppliance
<1>15. ASSUME NEW r \in Requests, CreateK8sSecret(r) PROVE TypeInv'
  <2>1. TypeOK'
    BY <1>15 DEF CreateK8sSecret, CreateSecret
  <2>2. Shape'
    BY <1>15 DEF CreateK8sSecret
  <2>3. BeforeEnded'
    BY <1>15 DEF CreateK8sSecret
  <2> QED
    BY <2>1, <2>2, <2>3
<1>16. ASSUME NEW r \in Requests, GetK8sSecret(r) PROVE TypeInv'
  BY <1>16 DEF GetK8sSecret
<1>17. ASSUME NEW r \in Requests, UpdateK8sSecret(r) PROVE TypeInv'
  <2>1. TypeOK'
    <3>1. k8s' \in [Appliances -> ApplianceSecrets \cup {NULL}]
      BY <1>17 DEF UpdateK8sSecret, UpdateSecret
    <3>2. pc' \in [Requests -> Steps]
      BY <1>17 DEF UpdateK8sSecret
    <3> QED
      BY <1>17, <3>1, <3>2 DEF UpdateK8sSecret
  <2>2. Shape'
    BY <1>17 DEF UpdateK8sSecret
  <2>3. BeforeEnded'
    BY <1>17 DEF UpdateK8sSecret
  <2> QED
    BY <2>1, <2>2, <2>3
<1>18. ASSUME NEW r \in Requests, StoreSecretHash(r) PROVE TypeInv'
  BY <1>18 DEF StoreSecretHash, SetApplianceSecretHash, AfterSecretHash
<1>19. ASSUME NEW r \in Requests, MarkClaimed(r) PROVE TypeInv'
  <2>1. TypeOK'
    <3>1. status' \in [Appliances -> Statuses]
      <4>1. status' = [status EXCEPT ![target[r]] = "active"] \/ status' = status
        BY <1>19 DEF MarkClaimed, MarkApplianceClaimed
      <4> QED
        BY <4>1
    <3>2. claimedAt' \in [Appliances -> Nat \cup {NULL}]
      <4>1. claimedAt' = [claimedAt EXCEPT ![target[r]] = Timestamp(now)] \/ claimedAt' = claimedAt
        BY <1>19 DEF MarkClaimed, MarkApplianceClaimed
      <4> QED
        BY <4>1, TimestampFacts
    <3>3. pc' \in [Requests -> Steps]
      BY <1>19 DEF MarkClaimed
    <3> QED
      BY <1>19, <3>1, <3>2, <3>3 DEF MarkClaimed, MarkApplianceClaimed
  <2>2. Shape'
    BY <1>19 DEF MarkClaimed
  <2>3. BeforeEnded'
    BY <1>19 DEF MarkClaimed
  <2> QED
    BY <2>1, <2>2, <2>3
<1>20. ASSUME NEW r \in Requests, DropClaimToken(r) PROVE TypeInv'
  BY <1>20 DEF DropClaimToken, IgnoringError, DeleteClaimToken
<1>21. ASSUME NEW r \in Requests, DropExchangeCode(r) PROVE TypeInv'
  BY <1>21 DEF DropExchangeCode, IgnoringError, DeleteEnrollExchangeCode
<1>22. ASSUME NEW r \in Requests, SetStatusRevoked(r) PROVE TypeInv'
  <2>1. TypeOK'
    <3>1. status' \in [Appliances -> Statuses]
      <4>1. status' = [status EXCEPT ![target[r]] = "revoked"] \/ status' = status
        BY <1>22 DEF SetStatusRevoked, SetApplianceStatus
      <4> QED
        BY <4>1
    <3>2. pc' \in [Requests -> Steps]
      BY <1>22 DEF SetStatusRevoked
    <3> QED
      BY <1>22, <3>1, <3>2 DEF SetStatusRevoked, SetApplianceStatus
  <2>2. Shape'
    BY <1>22 DEF SetStatusRevoked
  <2>3. BeforeEnded'
    BY <1>22 DEF SetStatusRevoked
  <2> QED
    BY <2>1, <2>2, <2>3
<1>23. ASSUME NEW r \in Requests, DeleteK8sSecret(r) PROVE TypeInv'
  BY <1>23 DEF DeleteK8sSecret, DeleteApplianceSecret
<1>24. ASSUME NEW r \in Requests, ClearSecretHash(r) PROVE TypeInv'
  BY <1>24 DEF ClearSecretHash, SetApplianceSecretHash
<1>25. ASSUME NEW r \in Requests, Respond(r) PROVE TypeInv'
  BY <1>25 DEF Respond
<1>26. ASSUME NEW r \in Requests, Abort(r) PROVE TypeInv'
  BY <1>26 DEF Abort
<1>27. CASE Tick
  BY <1>27, TimeAssumption DEF Tick, requestVars
<1>28. CASE UNCHANGED vars
  BY <1>28 DEF vars, requestVars
<1> QED
  BY <1>1, <1>2, <1>3, <1>4, <1>5, <1>6, <1>7, <1>8, <1>9, <1>10, <1>11, <1>12, <1>13, <1>14, <1>15, <1>16, <1>17, <1>18, <1>19, <1>20, <1>21, <1>22, <1>23, <1>24, <1>25, <1>26, <1>27, <1>28
     DEF Next, Serve, Create, CheckCredential, Issue, Withdraw

-----------------------------------------------------------------------------
\* The calls after the one that stored, or deleted, the Secret and the hash.
SecretStored ==
    {"storeSecretHash", "markClaimed", "clearSecretHash", "deleteClaimToken",
     "deleteExchangeCode", "respond", "200"}
HashStored ==
    {"markClaimed", "deleteClaimToken", "deleteExchangeCode", "respond", "200"}

\* SupersededSecretIsDead from the moment a request has made its call, not
\* only once it is answered: a request that is still to write was not before
\* anyone, so no write brings an earlier secret back.
SupersededInv ==
    /\ ~InCluster => \A a \in Appliances : k8s[a] = NULL
    /\ \A r \in Requests : pc[r] \in {"getSecret", "updateSecret"} => InCluster
    /\ \A v, q \in Requests :
        op[v] \in Writers /\ q \in before[v]
            => /\ pc[v] \in SecretStored
                    => k8s[target[v]] # GenerateApplianceSecret(q)
               /\ pc[v] \in HashStored
                    => secretHash[target[v]] # Hash(GenerateApplianceSecret(q))

LEMMA SupersededStep ==
    TypeInv /\ SupersededInv /\ [Next]_vars => SupersededInv'
<1> SUFFICES ASSUME TypeInv, SupersededInv, [Next]_vars PROVE SupersededInv'
  OBVIOUS
<1> USE CredentialFacts, SecretsAreFresh
    DEF TypeInv, TypeOK, PersistenceTypeOK, Shape, BeforeEnded, SupersededInv,
        SecretStored, HashStored, Ended,
        CreatorSteps, WriteSteps, Creators, Claimers, Rotators, Issuers, Writers,
        At, Goto, KeepRequest, dbVars, applianceVars, tokenVars
<1>1. ASSUME NEW r \in Requests, NEW o \in Ops, NEW b \in Presentable(o),
             NEW a \in Appliances \cup {NULL}, Begin(r, o, a, b)
      PROVE  SupersededInv'
  BY <1>1 DEF Begin, FirstCall
<1>2. ASSUME NEW r \in Requests, Create(r) PROVE SupersededInv'
  BY <1>2 DEF Create, InsertAppliance, InsertCollides, IssueClaimToken, IssueExchangeCode,
              CreateAppliance, SaveClaimToken, SaveEnrollExchangeCode
<1>3. ASSUME NEW r \in Requests, CheckCredential(r) PROVE SupersededInv'
  BY <1>3 DEF CheckCredential, GetClaimToken, DeleteExpiredToken, GetExchangeCode,
              DeleteExpiredCode, CheckPin, RequireOwningGroup, CheckSecretHash, CheckActive,
              IgnoringError, DeleteClaimToken, DeleteEnrollExchangeCode
<1>4. ASSUME NEW r \in Requests, GetAppliance(r) PROVE SupersededInv'
  BY <1>4 DEF GetAppliance
<1>5. ASSUME NEW r \in Requests, CreateK8sSecret(r) PROVE SupersededInv'
  <2>1. CASE CreateConflicts(target[r])
    BY <1>5, <2>1 DEF CreateK8sSecret, CreateConflicts
  <2>2. CASE ~CreateConflicts(target[r])
    <3>1. /\ pc' = [pc EXCEPT ![r] = "storeSecretHash"]
          /\ k8s' = IF InCluster THEN [k8s EXCEPT ![target[r]] = GenerateApplianceSecret(r)] ELSE k8s
          /\ UNCHANGED <<op, target, before, secretHash>>
          /\ pc[r] = "createSecret"
      BY <1>5, <2>2 DEF CreateK8sSecret, CreateSecret
    <3>2. ~InCluster => \A a \in Appliances : k8s'[a] = NULL
      BY <3>1
    <3>3. \A q \in Requests : pc'[q] \in {"getSecret", "updateSecret"} => InCluster
      BY <3>1
    <3>4. ASSUME NEW v \in Requests, NEW q \in Requests, op[v] \in Writers, q \in before[v]
          PROVE  /\ pc'[v] \in SecretStored => k8s'[target[v]] # GenerateApplianceSecret(q)
                 /\ pc'[v] \in HashStored => secretHash[target[v]] # Hash(GenerateApplianceSecret(q))
      <4>1. q # r /\ pc'[r] = "storeSecretHash" /\ (v # r => pc'[v] = pc[v])
        BY <3>1, <3>4
      <4>2. pc'[v] \in HashStored => v # r
        BY <4>1
      <4>3. pc'[v] \in HashStored => secretHash[target[v]] # Hash(GenerateApplianceSecret(q))
        BY <3>4, <4>1, <4>2
      <4>4. CASE InCluster /\ target[v] = target[r]
        <5>1. k8s'[target[v]] = GenerateApplianceSecret(r)
          BY <3>1, <4>4
        <5> QED
          BY <4>1, <4>3, <5>1
      <4>5. CASE ~(InCluster /\ target[v] = target[r])
        <5>1. k8s'[target[v]] = k8s[target[v]]
          BY <3>1, <3>4, <4>5
        <5>2. v = r => ~InCluster /\ k8s[target[v]] = NULL
          BY <3>1, <3>4, <4>5
        <5>3. CASE v = r
          BY <4>3, <5>1, <5>2, <5>3
        <5>4. CASE v # r
          BY <3>4, <4>1, <4>3, <5>1, <5>4
        <5> QED
          BY <5>3, <5>4
      <4> QED
        BY <4>4, <4>5
    <3> QED
      BY <3>1, <3>2, <3>3, <3>4
  <2> QED
    BY <2>1, <2>2
<1>6. ASSUME NEW r \in Requests, GetK8sSecret(r) PROVE SupersededInv'
  BY <1>6 DEF GetK8sSecret
<1>7. ASSUME NEW r \in Requests, UpdateK8sSecret(r) PROVE SupersededInv'
  <2>1. CASE UpdateConflicts(target[r], seen[r])
    BY <1>7, <2>1 DEF UpdateK8sSecret
  <2>2. CASE ~UpdateConflicts(target[r], seen[r])
    <3>1. /\ pc' = [pc EXCEPT ![r] = "storeSecretHash"]
          /\ k8s' = [k8s EXCEPT ![target[r]] = GenerateApplianceSecret(r)]
          /\ UNCHANGED <<op, target, before, secretHash>>
          /\ pc[r] = "updateSecret"
      BY <1>7, <2>2 DEF UpdateK8sSecret, UpdateSecret
    <3>2. InCluster /\ \A q \in Requests : pc'[q] \in {"getSecret", "updateSecret"} => InCluster
      BY <3>1
    <3>3. ASSUME NEW v \in Requests, NEW q \in Requests, op[v] \in Writers, q \in before[v]
          PROVE  /\ pc'[v] \in SecretStored => k8s'[target[v]] # GenerateApplianceSecret(q)
                 /\ pc'[v] \in HashStored => secretHash[target[v]] # Hash(GenerateApplianceSecret(q))
      <4>1. q # r /\ pc'[r] = "storeSecretHash" /\ (v # r => pc'[v] = pc[v])
        BY <3>1, <3>3
      <4>2. pc'[v] \in HashStored => v # r
        BY <4>1
      <4>3. pc'[v] \in HashStored => secretHash[target[v]] # Hash(GenerateApplianceSecret(q))
        BY <3>3, <4>1, <4>2
      <4>4. CASE target[v] = target[r]
        <5>1. k8s'[target[v]] = GenerateApplianceSecret(r)
          BY <3>1, <4>4
        <5> QED
          BY <4>1, <4>3, <5>1
      <4>5. CASE target[v] # target[r]
        <5>1. k8s'[target[v]] = k8s[target[v]] /\ v # r
          BY <3>1, <3>3, <4>5
        <5> QED
          BY <3>3, <4>1, <4>3, <5>1
      <4> QED
        BY <4>4, <4>5
    <3> QED
      BY <3>1, <3>2, <3>3
  <2> QED
    BY <2>1, <2>2
<1>8. ASSUME NEW r \in Requests, StoreSecretHash(r) PROVE SupersededInv'
  <2>1. /\ pc[r] = "storeSecretHash" /\ pc' = [pc EXCEPT ![r] = AfterSecretHash(r)]
        /\ secretHash' = [secretHash EXCEPT ![target[r]] = Hash(GenerateApplianceSecret(r))]
        /\ UNCHANGED <<op, target, before, k8s>>
    BY <1>8 DEF StoreSecretHash, SetApplianceSecretHash
  <2>2. AfterSecretHash(r) \in {"markClaimed", "respond"}
    BY DEF AfterSecretHash
  <2>3. ASSUME NEW v \in Requests, NEW q \in Requests, op[v] \in Writers, q \in before[v]
        PROVE  /\ pc'[v] \in SecretStored => k8s[target[v]] # GenerateApplianceSecret(q)
               /\ pc'[v] \in HashStored => secretHash'[target[v]] # Hash(GenerateApplianceSecret(q))
    <3>1. q # r /\ pc'[r] \in {"markClaimed", "respond"} /\ (v # r => pc'[v] = pc[v])
      BY <2>1, <2>2, <2>3
    <3>2. pc'[v] \in SecretStored => pc[v] \in SecretStored
      BY <2>1, <3>1
    <3>3. pc'[v] \in SecretStored => k8s[target[v]] # GenerateApplianceSecret(q)
      BY <2>3, <3>2
    <3>4. CASE target[v] = target[r]
      <4>1. secretHash'[target[v]] = Hash(GenerateApplianceSecret(r))
        BY <2>1, <3>4
      <4> QED
        BY <3>1, <3>3, <4>1
    <3>5. CASE target[v] # target[r]
      <4>1. secretHash'[target[v]] = secretHash[target[v]] /\ v # r
        BY <2>1, <2>3, <3>5
      <4> QED
        BY <2>3, <3>1, <3>3, <4>1
    <3> QED
      BY <3>4, <3>5
  <2> QED
    BY <2>1, <2>2, <2>3
<1>9. ASSUME NEW r \in Requests, MarkClaimed(r) PROVE SupersededInv'
  BY <1>9 DEF MarkClaimed, MarkApplianceClaimed
<1>10. ASSUME NEW r \in Requests, DropClaimToken(r) \/ DropExchangeCode(r)
       PROVE  SupersededInv'
  BY <1>10 DEF DropClaimToken, DropExchangeCode, IgnoringError,
               DeleteClaimToken, DeleteEnrollExchangeCode
<1>11. ASSUME NEW r \in Requests, SetStatusRevoked(r) PROVE SupersededInv'
  BY <1>11 DEF SetStatusRevoked, SetApplianceStatus
<1>12. ASSUME NEW r \in Requests, DeleteK8sSecret(r) PROVE SupersededInv'
  BY <1>12 DEF DeleteK8sSecret, DeleteApplianceSecret
<1>13. ASSUME NEW r \in Requests, ClearSecretHash(r) PROVE SupersededInv'
  BY <1>13 DEF ClearSecretHash, SetApplianceSecretHash
<1>14. ASSUME NEW r \in Requests, Respond(r) \/ Abort(r) PROVE SupersededInv'
  BY <1>14 DEF Respond, Abort
<1>15. CASE Tick \/ UNCHANGED vars
  BY <1>15 DEF Tick, vars, requestVars
<1> QED
  BY <1>1, <1>2, <1>3, <1>4, <1>5, <1>6, <1>7, <1>8, <1>9, <1>10, <1>11, <1>12,
     <1>13, <1>14, <1>15
     DEF Next, Serve, Issue, Withdraw

-----------------------------------------------------------------------------
\* What every step of a handler leaves alone: the other requests, and what the
\* request was sent with.
Moves(r) ==
    /\ pc[r] \in InFlight
    /\ pc' = [pc EXCEPT ![r] = pc'[r]]
    /\ UNCHANGED <<op, bearer, before>>
    /\ \A q \in Requests : q # r \/ pc[r] # "createAppliance" => target'[q] = target[q]

LEMMA ServeMoves ==
    ASSUME TypeInv, NEW r \in Requests, Serve(r) \/ Abort(r)
    PROVE  Moves(r)
<1> USE DEF TypeInv, TypeOK, Moves, InFlight, CreatorSteps, ClaimerSteps, RotatorSteps,
        WriteSteps, RevokeSteps, At, Goto, KeepRequest
<1>1. CASE Create(r)
  BY <1>1 DEF Create, InsertAppliance, InsertCollides, IssueClaimToken, IssueExchangeCode
<1>2. CASE CheckCredential(r)
  BY <1>2 DEF CheckCredential, GetClaimToken, DeleteExpiredToken, GetExchangeCode,
              DeleteExpiredCode, CheckPin, RequireOwningGroup, CheckSecretHash, CheckActive
<1>3. CASE Issue(r)
  BY <1>3 DEF Issue, GetAppliance, CreateK8sSecret, GetK8sSecret, UpdateK8sSecret,
              StoreSecretHash, MarkClaimed, DropClaimToken, DropExchangeCode
<1>4. CASE Withdraw(r)
  BY <1>4 DEF Withdraw, SetStatusRevoked, DeleteK8sSecret, ClearSecretHash
<1>5. CASE Respond(r) \/ Abort(r)
  BY <1>5 DEF Respond, Abort
<1> QED
  BY <1>1, <1>2, <1>3, <1>4, <1>5 DEF Serve

\* An ended request is over.
LEMMA EndedStays ==
    ASSUME TypeInv, [Next]_vars, NEW v \in Requests, pc[v] \in Ended
    PROVE  UNCHANGED <<pc[v], op[v], target[v], before[v]>>
<1> USE DEF TypeInv, TypeOK, Ended
<1>1. ASSUME NEW r \in Requests, NEW o \in Ops, NEW b \in Presentable(o),
             NEW a \in Appliances \cup {NULL}, Begin(r, o, a, b)
      PROVE  UNCHANGED <<pc[v], op[v], target[v], before[v]>>
  BY <1>1 DEF Begin, At, Goto
<1>2. ASSUME NEW r \in Requests, Serve(r) \/ Abort(r)
      PROVE  UNCHANGED <<pc[v], op[v], target[v], before[v]>>
  BY <1>2, ServeMoves DEF Moves, InFlight, CreatorSteps, ClaimerSteps, RotatorSteps,
     WriteSteps, RevokeSteps
<1>3. CASE Tick \/ UNCHANGED vars
  BY <1>3 DEF Tick, vars, requestVars
<1> QED
  BY <1>1, <1>2, <1>3 DEF Next

\* Whatever overlapped an ended request still did.
LEMMA OverlapStays ==
    ASSUME TypeInv, [Next]_vars, NEW c \in Requests, NEW v \in Requests, pc[v] \in Ended,
           op[c] \in Claimers, Overlap(c, v)
    PROVE  op'[c] = op[c] /\ target'[c] = target[c] /\ Overlap(c, v)'
<1> USE DEF TypeInv, TypeOK, Shape, Overlap, Claimers
<1>1. ASSUME NEW r \in Requests, NEW o \in Ops, NEW b \in Presentable(o),
             NEW a \in Appliances \cup {NULL}, Begin(r, o, a, b)
      PROVE  op'[c] = op[c] /\ target'[c] = target[c] /\ Overlap(c, v)'
  BY <1>1, LifecycleAssumption DEF Begin, At, Goto, Endpoints, Issuers, Ended
<1>2. ASSUME NEW r \in Requests, Serve(r) \/ Abort(r)
      PROVE  op'[c] = op[c] /\ target'[c] = target[c] /\ Overlap(c, v)'
  <2>1. pc[c] # "createAppliance"
    BY DEF CreatorSteps, Creators
  <2> QED
    BY <1>2, <2>1, ServeMoves DEF Moves
<1>3. CASE Tick \/ UNCHANGED vars
  BY <1>3 DEF Tick, vars, requestVars
<1> QED
  BY <1>1, <1>2, <1>3 DEF Next

LEMMA RejectsStep ==
    TypeInv /\ SupersededInv /\ RejectsSupersededSecret /\ [Next]_vars
        => RejectsSupersededSecret'
<1> SUFFICES ASSUME TypeInv, SupersededInv, RejectsSupersededSecret, [Next]_vars
             PROVE  RejectsSupersededSecret'
  OBVIOUS
<1> USE DEF RejectsSupersededSecret
<1>1. ASSUME NEW r \in Requests, NEW o \in Ops, NEW b \in Presentable(o),
             NEW a \in Appliances \cup {NULL}, Begin(r, o, a, b)
      PROVE  RejectsSupersededSecret'
  BY <1>1, LifecycleAssumption
     DEF Begin, FirstCall, At, Goto, OK, TypeInv, TypeOK, Shape, BeforeEnded,
         Ended, Creators, Writers, Issuers, Claimers, Rotators
<1>2. ASSUME NEW r \in Requests, Serve(r) \/ Abort(r)
      PROVE  RejectsSupersededSecret'
  <2> SUFFICES ASSUME NEW u \in Requests, NEW v \in Requests, NEW q \in Requests,
                      OK(v)', op[v]' \in Writers, q \in before[v]', v \in before[u]',
                      op[u]' = "RotateOwnSecret", target[u]' = target[v]',
                      bearer[u]' = GenerateApplianceSecret(q)
               PROVE  pc[u]' \in {"checkSecretHash", "401", "aborted"}
    OBVIOUS
  <2>1. Moves(r)
    BY <1>2, ServeMoves
  <2>2. pc[v] \in Ended /\ v # r /\ OK(v)
    <3>1. v \in before[u] /\ pc[v] \in Ended
      BY <2>1 DEF Moves, TypeInv, BeforeEnded
    <3>2. v # r
      BY <2>1, <3>1 DEF Moves, Ended, InFlight, CreatorSteps, ClaimerSteps, RotatorSteps,
                        WriteSteps, RevokeSteps
    <3> QED
      BY <2>1, <3>1, <3>2 DEF Moves, TypeInv, TypeOK, OK
  <2>3. target[v]' = target[v] /\ target[u]' = target[u]
    BY <2>1, <2>2 DEF Moves, TypeInv, Shape, CreatorSteps, Creators
  <2>4. pc[u] \in {"checkSecretHash", "401", "aborted"}
    BY <2>1, <2>2, <2>3 DEF Moves
  <2>5. CASE u # r
    BY <2>1, <2>4, <2>5 DEF Moves, TypeInv, TypeOK
  <2>6. CASE u = r
    <3>1. pc[r] = "checkSecretHash"
      BY <2>1, <2>4, <2>6 DEF Moves, InFlight, CreatorSteps, ClaimerSteps, RotatorSteps,
                              WriteSteps, RevokeSteps
    <3>2. ~Matches(secretHash[target[r]], bearer[r])
      BY <2>1, <2>2, <2>3, <2>6 DEF Moves, SupersededInv, HashStored, OK, Matches
    <3>3. CASE Abort(r)
      BY <2>6, <3>3 DEF Abort, Goto, TypeInv, TypeOK
    <3>4. CASE Serve(r)
      <4>1. CheckSecretHash(r)
        BY <3>1, <3>4
           DEF Serve, Create, CheckCredential, Issue, Withdraw, Respond, At,
               InsertAppliance, InsertCollides, IssueClaimToken, IssueExchangeCode,
               GetClaimToken, DeleteExpiredToken, GetExchangeCode, DeleteExpiredCode,
               CheckPin, RequireOwningGroup, CheckActive, GetAppliance,
               CreateK8sSecret, GetK8sSecret, UpdateK8sSecret, StoreSecretHash,
               MarkClaimed, DropClaimToken, DropExchangeCode, SetStatusRevoked,
               DeleteK8sSecret, ClearSecretHash
      <4> QED
        BY <2>6, <3>2, <4>1 DEF CheckSecretHash, Goto, TypeInv, TypeOK
    <3> QED
      BY <1>2, <3>3, <3>4
  <2> QED
    BY <2>5, <2>6
<1>3. CASE Tick \/ UNCHANGED vars
  BY <1>3 DEF Tick, vars, requestVars, OK
<1> QED
  BY <1>1, <1>2, <1>3 DEF Next

-----------------------------------------------------------------------------
\* The calls of a claim after it read the status, after it wrote it, and of a
\* revocation after it wrote it.
StatusRead ==
    {"createSecret", "getSecret", "updateSecret", "storeSecretHash", "markClaimed",
     "deleteClaimToken", "deleteExchangeCode", "respond", "200"}
StatusSet == {"deleteClaimToken", "deleteExchangeCode", "respond", "200"}
StatusRevoked == {"deleteSecret", "clearSecretHash", "deleteClaimToken", "respond", "200"}

Marks(r) == op[r] \in Claimers /\ pc[r] \in StatusSet
Revokes(r) == op[r] = "Revoke" /\ pc[r] \in StatusRevoked

\* An appliance that was claimed or revoked once is never pending again, so a
\* claim that has read "pending" began before every claim and revocation of
\* the appliance had ended.
SettledInv ==
    /\ \A r \in Requests :
        Marks(r) \/ Revokes(r) => status[target[r]] \in {"active", "revoked"}
    /\ \A c \in Requests, d \in Requests :
        ( /\ op[c] \in Claimers /\ pc[c] \in StatusRead
          /\ OK(d) /\ op[d] \in Claimers \cup {"Revoke"} /\ target[d] = target[c] )
            => d \notin before[c]

\* RevocationStands from the moment the revocation has set the status.
RevokedInv ==
    \A v \in Requests :
        Revokes(v) /\ status[target[v]] # "revoked"
            => \E c \in Requests :
                op[c] \in Claimers /\ target[c] = target[v] /\ Overlap(c, v)

\* How a handler's step changes the status of an appliance.
StatusMoves(r) ==
    \/ status' = status
    \/ /\ op[r] \in Creators
       /\ \E a \in Appliances :
            status[a] = "absent" /\ status' = [status EXCEPT ![a] = "pending"]
    \/ pc[r] = "markClaimed" /\ status' = [status EXCEPT ![target[r]] = "active"]
    \/ pc[r] = "setStatusRevoked" /\ status' = [status EXCEPT ![target[r]] = "revoked"]

LEMMA ServeStatus ==
    ASSUME TypeInv, NEW r \in Requests, Serve(r) \/ Abort(r)
    PROVE  StatusMoves(r)
<1> USE DEF StatusMoves, dbVars, applianceVars
<1>1. CASE Create(r)
  BY <1>1 DEF Create, InsertAppliance, InsertCollides, IssueClaimToken, IssueExchangeCode,
              CreateAppliance, SaveClaimToken, SaveEnrollExchangeCode,
              At, TypeInv, Shape, CreatorSteps
<1>2. CASE CheckCredential(r)
  BY <1>2 DEF CheckCredential, GetClaimToken, DeleteExpiredToken, GetExchangeCode,
              DeleteExpiredCode, CheckPin, RequireOwningGroup, CheckSecretHash, CheckActive,
              IgnoringError, DeleteClaimToken, DeleteEnrollExchangeCode
<1>3. CASE Issue(r)
  BY <1>3 DEF Issue, GetAppliance, CreateK8sSecret, GetK8sSecret, UpdateK8sSecret,
              StoreSecretHash, MarkClaimed, DropClaimToken, DropExchangeCode,
              SetApplianceSecretHash, MarkApplianceClaimed,
              IgnoringError, DeleteClaimToken, DeleteEnrollExchangeCode, At
<1>4. CASE Withdraw(r)
  BY <1>4 DEF Withdraw, SetStatusRevoked, DeleteK8sSecret, ClearSecretHash,
              SetApplianceStatus, SetApplianceSecretHash, At
<1>5. CASE Respond(r) \/ Abort(r)
  BY <1>5 DEF Respond, Abort
<1> QED
  BY <1>1, <1>2, <1>3, <1>4, <1>5 DEF Serve

\* How a handler gets past the calls that read and write the status.
StatusFlow(r) ==
    /\ op[r] \in Claimers /\ pc'[r] \in StatusRead
        => pc[r] \in StatusRead \/ status[target[r]] = "pending"
    /\ op[r] \in Claimers /\ pc'[r] \in StatusSet
        => pc[r] \in StatusSet \/ status'[target[r]] = "active"
    /\ op[r] = "Revoke" /\ pc'[r] \in StatusRevoked
        => pc[r] \in StatusRevoked \/ status'[target[r]] = "revoked"

LEMMA ServeFlow ==
    ASSUME TypeInv, NEW r \in Requests, Serve(r) \/ Abort(r)
    PROVE  StatusFlow(r)
<1> USE DEF StatusFlow, StatusRead, StatusSet, StatusRevoked, TypeInv, TypeOK,
        PersistenceTypeOK, Shape, At, Goto, Claimers, Rotators, Issuers, Writers
<1>1. CASE Create(r)
  BY <1>1 DEF Create, InsertAppliance, InsertCollides, IssueClaimToken, IssueExchangeCode,
              Creators, CreatorSteps
<1>2. CASE CheckCredential(r)
  BY <1>2 DEF CheckCredential, GetClaimToken, DeleteExpiredToken, GetExchangeCode,
              DeleteExpiredCode, CheckPin, RequireOwningGroup, CheckSecretHash, CheckActive
<1>3. CASE GetAppliance(r)
  BY <1>3 DEF GetAppliance, Claimable
<1>4. CASE CreateK8sSecret(r) \/ GetK8sSecret(r) \/ UpdateK8sSecret(r) \/ StoreSecretHash(r)
  BY <1>4 DEF CreateK8sSecret, GetK8sSecret, UpdateK8sSecret, StoreSecretHash,
              AfterSecretHash, WriteSteps
<1>5. CASE MarkClaimed(r)
  BY <1>5 DEF MarkClaimed, MarkApplianceClaimed
<1>6. CASE DropClaimToken(r) \/ DropExchangeCode(r)
  BY <1>6 DEF DropClaimToken, DropExchangeCode
<1>7. CASE SetStatusRevoked(r)
  BY <1>7 DEF SetStatusRevoked, SetApplianceStatus
<1>8. CASE DeleteK8sSecret(r) \/ ClearSecretHash(r)
  BY <1>8 DEF DeleteK8sSecret, ClearSecretHash
<1>9. CASE Respond(r) \/ Abort(r)
  BY <1>9 DEF Respond, Abort
<1> QED
  BY <1>1, <1>2, <1>3, <1>4, <1>5, <1>6, <1>7, <1>8, <1>9 DEF Serve, Issue, Withdraw

LEMMA SettledStep == TypeInv /\ SettledInv /\ [Next]_vars => SettledInv'
<1> SUFFICES ASSUME TypeInv, SettledInv, [Next]_vars PROVE SettledInv'
  OBVIOUS
<1>1. ASSUME NEW r \in Requests, NEW o \in Ops, NEW b \in Presentable(o),
             NEW a \in Appliances \cup {NULL}, Begin(r, o, a, b)
      PROVE  SettledInv'
  BY <1>1
     DEF Begin, FirstCall, At, Goto, OK, TypeInv, TypeOK, BeforeEnded, SettledInv,
         Marks, Revokes, StatusRead, StatusSet, StatusRevoked,
         dbVars, applianceVars, Creators, Claimers
<1>2. ASSUME NEW r \in Requests, Serve(r) \/ Abort(r)
      PROVE  SettledInv'
  <2>1. Moves(r)
    BY <1>2, ServeMoves
  <2>2. \A a \in Appliances :
            status[a] \in {"active", "revoked"} => status'[a] \in {"active", "revoked"}
    BY <1>2, ServeStatus DEF StatusMoves, TypeInv, TypeOK, PersistenceTypeOK
  <2>3. StatusFlow(r)
    BY <1>2, ServeFlow
  <2>4. ASSUME NEW v \in Requests, (Marks(v) \/ Revokes(v))'
        PROVE  status'[target'[v]] \in {"active", "revoked"}
    <3>1. target'[v] = target[v] /\ target[v] \in Appliances
      BY <2>1, <2>4 DEF Moves, Marks, Revokes, TypeInv, Shape, CreatorSteps, Creators,
                        Claimers, Writers, Issuers
    <3>2. CASE v # r
      BY <2>1, <2>2, <2>4, <3>1, <3>2 DEF Moves, Marks, Revokes, SettledInv, TypeInv, TypeOK
    <3>3. CASE v = r
      BY <2>1, <2>2, <2>3, <2>4, <3>1, <3>3 DEF Moves, Marks, Revokes, SettledInv, StatusFlow
    <3> QED
      BY <3>2, <3>3
  <2>5. ASSUME NEW c \in Requests, NEW d \in Requests,
               op[c]' \in Claimers, pc[c]' \in StatusRead,
               OK(d)', op[d]' \in Claimers \cup {"Revoke"}, target[d]' = target[c]',
               d \in before[c]'
        PROVE  FALSE
    <3>1. pc[d] \in Ended /\ d # r /\ OK(d) /\ d \in before[c]
      BY <2>1, <2>5 DEF Moves, TypeInv, TypeOK, BeforeEnded, Ended, InFlight, CreatorSteps,
                  ClaimerSteps, RotatorSteps, WriteSteps, RevokeSteps, OK
    <3>2. target[d] = target[c] /\ op[c] \in Claimers /\ op[d] \in Claimers \cup {"Revoke"}
      BY <2>1, <2>5, <3>1 DEF Moves, TypeInv, Shape, CreatorSteps, Creators, Claimers
    <3>3. status[target[d]] \in {"active", "revoked"}
      BY <3>1, <3>2 DEF SettledInv, Marks, Revokes, StatusSet, StatusRevoked, OK
    <3>4. pc[c] \notin StatusRead
      BY <3>1, <3>2 DEF SettledInv
    <3>5. c = r
      BY <2>1, <2>5, <3>4 DEF Moves, TypeInv, TypeOK
    <3> QED
      BY <2>3, <2>5, <3>2, <3>3, <3>4, <3>5 DEF StatusFlow
  <2> QED
    BY <2>4, <2>5 DEF SettledInv
<1>3. CASE Tick \/ UNCHANGED vars
  BY <1>3 DEF Tick, vars, requestVars, OK, SettledInv, Marks, Revokes,
              dbVars, applianceVars
<1> QED
  BY <1>1, <1>2, <1>3 DEF Next

LEMMA RevokedStep ==
    TypeInv /\ SettledInv /\ RevokedInv /\ [Next]_vars => RevokedInv'
<1> SUFFICES ASSUME TypeInv, SettledInv, RevokedInv, [Next]_vars PROVE RevokedInv'
  OBVIOUS
<1>1. ASSUME NEW r \in Requests, NEW o \in Ops, NEW b \in Presentable(o),
             NEW a \in Appliances \cup {NULL}, Begin(r, o, a, b)
      PROVE  RevokedInv'
  <2> SUFFICES ASSUME NEW v \in Requests, Revokes(v)', status'[target'[v]] # "revoked"
               PROVE  \E c \in Requests :
                        op'[c] \in Claimers /\ target'[c] = target'[v] /\ Overlap(c, v)'
    BY DEF RevokedInv
  <2>1. v # r /\ Revokes(v) /\ target'[v] = target[v] /\ status[target[v]] # "revoked"
    BY <1>1 DEF Begin, FirstCall, At, Goto, TypeInv, TypeOK, Revokes, StatusRevoked,
                dbVars, applianceVars, Creators
  <2>2. PICK c \in Requests :
            op[c] \in Claimers /\ target[c] = target[v] /\ Overlap(c, v)
    BY <2>1 DEF RevokedInv
  <2>3. c # r
    BY <1>1, <2>2, LifecycleAssumption
       DEF Begin, At, TypeInv, Shape, Claimers, Issuers, Endpoints
  <2>4. op'[c] \in Claimers /\ target'[c] = target'[v] /\ Overlap(c, v)'
    BY <1>1, <2>1, <2>2, <2>3 DEF Begin, TypeInv, TypeOK, Overlap
  <2> QED
    BY <2>4
<1>2. ASSUME NEW r \in Requests, Serve(r) \/ Abort(r)
      PROVE  RevokedInv'
  <2> SUFFICES ASSUME NEW v \in Requests, Revokes(v)', status'[target'[v]] # "revoked"
               PROVE  \E c \in Requests :
                        op'[c] \in Claimers /\ target'[c] = target'[v] /\ Overlap(c, v)'
    BY DEF RevokedInv
  <2>1. Moves(r) /\ StatusMoves(r) /\ StatusFlow(r)
    BY <1>2, ServeMoves, ServeStatus, ServeFlow
  <2>2. Revokes(v)
    BY <2>1 DEF Moves, StatusFlow, Revokes, TypeInv, TypeOK, Shape, CreatorSteps, Creators
  <2>3. \A c \in Requests : op[c] \notin Creators => target'[c] = target[c]
    BY <2>1 DEF Moves, TypeInv, Shape, CreatorSteps
  <2>4. target'[v] = target[v] /\ target[v] \in Appliances
    BY <2>2, <2>3 DEF Revokes, TypeInv, Shape, Creators, Writers
  <2>5. CASE status[target[v]] # "revoked"
    <3>1. PICK c \in Requests :
              op[c] \in Claimers /\ target[c] = target[v] /\ Overlap(c, v)
      BY <2>2, <2>5 DEF RevokedInv
    <3> QED
      BY <2>1, <2>3, <2>4, <3>1 DEF Moves, Overlap, Claimers, Creators
  <2>6. CASE status[target[v]] = "revoked"
    <3>1. pc[r] = "markClaimed" /\ target[r] = target[v]
      BY <2>1, <2>4, <2>6 DEF StatusMoves, TypeInv, TypeOK, PersistenceTypeOK
    <3>2. op[r] \in Claimers /\ r # v
      BY <2>2, <3>1 DEF TypeInv, Shape, Revokes, StatusRevoked
    <3>3. r \notin before[v]
      BY <3>1 DEF TypeInv, BeforeEnded, Ended
    <3>4. v \notin before[r]
      BY <2>2, <3>1, <3>2
         DEF SettledInv, StatusRead, Revokes, StatusRevoked, OK, TypeInv, BeforeEnded, Ended
    <3> QED
      BY <2>1, <2>3, <2>4, <3>1, <3>2, <3>3, <3>4 DEF Moves, Overlap, Claimers, Creators
  <2> QED
    BY <2>5, <2>6
<1>3. CASE Tick \/ UNCHANGED vars
  BY <1>3 DEF Tick, vars, requestVars, RevokedInv, Revokes, Overlap,
              dbVars, applianceVars
<1> QED
  BY <1>1, <1>2, <1>3 DEF Next

-----------------------------------------------------------------------------
(* The theorems. *)

IInv == TypeInv /\ SupersededInv /\ RejectsSupersededSecret /\ SettledInv /\ RevokedInv

LEMMA InitIInv == Init => IInv
<1> SUFFICES ASSUME Init PROVE IInv
  OBVIOUS
<1> USE DEF Init, PersistenceInit
<1>1. TypeOK
  BY LifecycleAssumption
     DEF TypeOK, PersistenceTypeOK, Statuses, Steps, Endpoints
<1>2. Shape /\ BeforeEnded
  BY LifecycleAssumption
     DEF Shape, BeforeEnded, Endpoints, OwnerOps, Creators, Writers, Issuers, Claimers,
         Rotators, CreatorSteps, WriteSteps
<1>3. SupersededInv /\ RejectsSupersededSecret
  BY DEF SupersededInv, SecretStored, HashStored, RejectsSupersededSecret
<1>4. SettledInv /\ RevokedInv
  BY DEF SettledInv, RevokedInv, Marks, Revokes, StatusRead, StatusSet, StatusRevoked
<1> QED
  BY <1>1, <1>2, <1>3, <1>4 DEF IInv, TypeInv

LEMMA SpecIInv == Spec => []IInv
<1>1. IInv /\ [Next]_vars => IInv'
  BY TypeInvStep, SupersededStep, RejectsStep, SettledStep, RevokedStep DEF IInv
<1> QED
  BY InitIInv, <1>1, PTL DEF Spec

\* Every variable keeps its type: in particular createApplianceWithRetry never
\* counts as far as maxHostnameLabelAttempts.
THEOREM TypeCorrect == Spec => []TypeOK
<1>1. IInv => TypeOK
  BY DEF IInv, TypeInv
<1> QED
  BY SpecIInv, <1>1, PTL

\* A superseded secret is dead, for any number of concurrent requests.
THEOREM SupersededIsDead == Spec => []SupersededSecretIsDead
<1>1. IInv => SupersededSecretIsDead
  BY DEF IInv, SupersededInv, SupersededSecretIsDead, OK, SecretStored, HashStored
<1> QED
  BY SpecIInv, <1>1, PTL

\* An appliance cannot rotate with a superseded secret.
THEOREM SupersededIsRejected == Spec => []RejectsSupersededSecret
<1>1. IInv => RejectsSupersededSecret
  BY DEF IInv
<1> QED
  BY SpecIInv, <1>1, PTL

\* Two claims of one appliance that succeed have overlapped.
THEOREM ClaimsOverlap == Spec => []ClaimSucceedsOnceInOrder
<1>1. IInv => ClaimSucceedsOnceInOrder
  BY DEF IInv, SettledInv, ClaimSucceedsOnceInOrder, Overlap, StatusRead, OK
<1> QED
  BY SpecIInv, <1>1, PTL

\* A revocation answered 200 stands, but for a claim that was running.
THEOREM RevocationHolds == Spec => []RevocationStands
<1>1. IInv => RevocationStands
  BY DEF IInv, RevokedInv, RevocationStands, Revokes, StatusRevoked, OK
<1> QED
  BY SpecIInv, <1>1, PTL
=============================================================================
