----------------------------- MODULE SecretProofs -----------------------------
(***************************************************************************)
(* Proofs about the two ends of the tunnel in Lifecycle, for every number  *)
(* of requests and appliances and both kinds of SecretWriter: the secret   *)
(* answered last is live on both, and an active appliance has one.         *)
(***************************************************************************)
EXTENDS LifecycleProofs, LifecyclePromises, LifecycleStates, FiniteSetTheorems

\* How a handler's step changes the Secrets and the hashes.
SecretMoves(r) ==
    /\ \A a \in Appliances :
        \/ k8s'[a] = k8s[a]
        \/ a = target[r] /\ pc[r] \in {"createSecret", "updateSecret"}
        \/ a = target[r] /\ pc[r] = "deleteSecret"
    /\ pc[r] \in {"createSecret", "updateSecret"} =>
        \A a \in Appliances : k8s'[a] # k8s[a] => k8s'[a] = GenerateApplianceSecret(r)
    /\ \A a \in Appliances :
        \/ secretHash'[a] = secretHash[a]
        \/ a = target[r] /\ pc[r] \in {"storeSecretHash", "clearSecretHash"}
    /\ pc[r] = "storeSecretHash" =>
        \A a \in Appliances :
            secretHash'[a] # secretHash[a] => secretHash'[a] = Hash(GenerateApplianceSecret(r))

LEMMA ServeSecrets ==
    ASSUME TypeInv, NEW r \in Requests, Serve(r) \/ Abort(r)
    PROVE  SecretMoves(r)
<1> USE DEF SecretMoves, TypeInv, TypeOK, PersistenceTypeOK, dbVars, applianceVars, At
<1>1. CASE Create(r)
  BY <1>1 DEF Create, InsertAppliance, InsertCollides, IssueClaimToken, IssueExchangeCode,
              CreateAppliance, SaveClaimToken, SaveEnrollExchangeCode
<1>2. CASE CheckCredential(r)
  BY <1>2 DEF CheckCredential, GetClaimToken, DeleteExpiredToken, GetExchangeCode,
              DeleteExpiredCode, CheckPin, RequireOwningGroup, CheckSecretHash, CheckActive,
              IgnoringError, DeleteClaimToken, DeleteEnrollExchangeCode
<1>3. CASE CreateK8sSecret(r) \/ UpdateK8sSecret(r)
  BY <1>3 DEF CreateK8sSecret, UpdateK8sSecret, CreateSecret, UpdateSecret
<1>4. CASE StoreSecretHash(r)
  BY <1>4 DEF StoreSecretHash, SetApplianceSecretHash
<1>5. CASE GetAppliance(r) \/ GetK8sSecret(r) \/ MarkClaimed(r) \/ DropClaimToken(r) \/ DropExchangeCode(r)
  BY <1>5 DEF GetAppliance, GetK8sSecret, MarkClaimed, DropClaimToken, DropExchangeCode,
              MarkApplianceClaimed, IgnoringError, DeleteClaimToken, DeleteEnrollExchangeCode
<1>6. CASE Withdraw(r)
  BY <1>6 DEF Withdraw, SetStatusRevoked, DeleteK8sSecret, ClearSecretHash,
              DeleteApplianceSecret, SetApplianceStatus, SetApplianceSecretHash
<1>7. CASE Respond(r) \/ Abort(r)
  BY <1>7 DEF Respond, Abort
<1> QED
  BY <1>1, <1>2, <1>3, <1>4, <1>5, <1>6, <1>7 DEF Serve, Issue

\* How an issuer gets past its writes.
SecretFlow(r) ==
    /\ pc'[r] \in SecretStored /\ pc[r] \notin SecretStored /\ op[r] \in Issuers =>
        (InCluster => k8s'[target[r]] = GenerateApplianceSecret(r))
    /\ pc'[r] \in HashStored /\ pc[r] \notin HashStored /\ op[r] \in Issuers =>
        secretHash'[target[r]] = Hash(GenerateApplianceSecret(r))

LEMMA ServeSecretFlow ==
    ASSUME TypeInv, NEW r \in Requests, Serve(r) \/ Abort(r)
    PROVE  SecretFlow(r)
<1> USE DEF SecretFlow, SecretStored, HashStored, TypeInv, TypeOK, PersistenceTypeOK,
        Shape, At, Goto, Writers
<1>1. CASE Create(r)
  BY <1>1 DEF Create, InsertAppliance, InsertCollides, IssueClaimToken, IssueExchangeCode,
              CreatorSteps, Creators, Issuers, Claimers, Rotators
<1>2. CASE CheckCredential(r)
  BY <1>2 DEF CheckCredential, GetClaimToken, DeleteExpiredToken, GetExchangeCode,
              DeleteExpiredCode, CheckPin, RequireOwningGroup, CheckSecretHash, CheckActive,
              Issuers, Claimers, Rotators
<1>3. CASE CreateK8sSecret(r)
  BY <1>3 DEF CreateK8sSecret, CreateSecret, CreateConflicts
<1>4. CASE UpdateK8sSecret(r)
  BY <1>4 DEF UpdateK8sSecret, UpdateSecret
<1>5. CASE StoreSecretHash(r)
  BY <1>5 DEF StoreSecretHash, SetApplianceSecretHash, AfterSecretHash
<1>6. CASE GetAppliance(r) \/ GetK8sSecret(r) \/ MarkClaimed(r) \/ DropClaimToken(r) \/ DropExchangeCode(r)
  BY <1>6 DEF GetAppliance, GetK8sSecret, MarkClaimed, DropClaimToken, DropExchangeCode
<1>7. CASE Withdraw(r)
  BY <1>7 DEF Withdraw, SetStatusRevoked, DeleteK8sSecret, ClearSecretHash,
              Issuers, Claimers, Rotators
<1>8. CASE Respond(r) \/ Abort(r)
  BY <1>8 DEF Respond, Abort
<1> QED
  BY <1>1, <1>2, <1>3, <1>4, <1>5, <1>6, <1>7, <1>8 DEF Serve, Issue

-----------------------------------------------------------------------------
\* The calls a request makes before any that changes the status, the Secret
\* or the hash, and the answers given then.
Harmless(q) ==
    pc[q] \in {"getClaimToken", "deleteExpiredToken", "getExchangeCode", "deleteExpiredCode",
               "checkPin", "getAppliance", "requireOwningGroup", "checkSecretHash",
               "checkActive", "401", "404", "409"}

\* RunsLast, before it is known whether the others will be refused.
Undisturbed(r) ==
    \A q \in Requests :
        q # r /\ target[q] = target[r] /\ op[q] \in Writers => q \in before[r] \/ Harmless(q)

RotatorActive == WriteSteps \cup {"respond", "200"}

\* LatestIssueIsLive from the moment each write is made.
LatestInv ==
    \A r \in Requests :
        op[r] \in Issuers /\ Undisturbed(r) =>
            /\ pc[r] \in SecretStored /\ InCluster => k8s[target[r]] = GenerateApplianceSecret(r)
            /\ pc[r] \in HashStored => secretHash[target[r]] = Hash(GenerateApplianceSecret(r))
            /\ op[r] \in Claimers /\ pc[r] \in StatusSet => status[target[r]] = "active"
            /\ op[r] \in Rotators /\ pc[r] \in RotatorActive => status[target[r]] = "active"

\* No handler goes back to where it is harmless, and a rotation reads the
\* status before it writes.
HarmFlow(r) ==
    /\ Harmless(r)' => Harmless(r) \/ op[r] \in Creators
    /\ op[r] \in Rotators /\ pc'[r] \in RotatorActive =>
        pc[r] \in RotatorActive \/ (status[target[r]] = "active" /\ status' = status)

LEMMA ServeHarm ==
    ASSUME TypeInv, NEW r \in Requests, Serve(r) \/ Abort(r)
    PROVE  HarmFlow(r)
<1> USE DEF HarmFlow, Harmless, RotatorActive, WriteSteps, TypeInv, TypeOK, Shape, At, Goto,
        dbVars, applianceVars
<1>1. CASE Create(r)
  BY <1>1 DEF Create, InsertAppliance, InsertCollides, IssueClaimToken, IssueExchangeCode,
              CreatorSteps, Creators, Rotators
<1>2. CASE CheckCredential(r)
  BY <1>2 DEF CheckCredential, GetClaimToken, DeleteExpiredToken, GetExchangeCode,
              DeleteExpiredCode, CheckPin, RequireOwningGroup, CheckSecretHash, CheckActive,
              Rotatable, Rotators
<1>3. CASE GetAppliance(r) \/ CreateK8sSecret(r) \/ GetK8sSecret(r) \/ UpdateK8sSecret(r) \/ StoreSecretHash(r)
  BY <1>3 DEF GetAppliance, CreateK8sSecret, GetK8sSecret, UpdateK8sSecret, StoreSecretHash,
              AfterSecretHash, Claimers, Rotators
<1>4. CASE MarkClaimed(r) \/ DropClaimToken(r) \/ DropExchangeCode(r)
  BY <1>4 DEF MarkClaimed, DropClaimToken, DropExchangeCode, Claimers, Rotators
<1>5. CASE Withdraw(r) \/ Respond(r) \/ Abort(r)
  BY <1>5 DEF Withdraw, SetStatusRevoked, DeleteK8sSecret, ClearSecretHash, Respond, Abort, Rotators
<1> QED
  BY <1>1, <1>2, <1>3, <1>4, <1>5 DEF Serve, Issue

LEMMA LatestStep == TypeInv /\ LatestInv /\ [Next]_vars => LatestInv'
<1> SUFFICES ASSUME TypeInv, LatestInv, [Next]_vars PROVE LatestInv'
  OBVIOUS
<1>1. ASSUME NEW r \in Requests, NEW o \in Ops, NEW b \in Presentable(o),
             NEW a \in Appliances \cup {NULL}, Begin(r, o, a, b)
      PROVE  LatestInv'
  <2>1. /\ pc[r] = "idle" /\ pc' = [pc EXCEPT ![r] = FirstCall(o)]
        /\ op' = [op EXCEPT ![r] = o] /\ target' = [target EXCEPT ![r] = a]
        /\ before' = [before EXCEPT ![r] = {q \in Requests : pc[q] \in Ended}]
        /\ UNCHANGED <<status, secretHash, k8s>>
    BY <1>1 DEF Begin, At, Goto, dbVars, applianceVars
  <2> SUFFICES ASSUME NEW u \in Requests, op'[u] \in Issuers, Undisturbed(u)'
      PROVE  /\ pc'[u] \in SecretStored /\ InCluster => k8s'[target'[u]] = GenerateApplianceSecret(u)
             /\ pc'[u] \in HashStored => secretHash'[target'[u]] = Hash(GenerateApplianceSecret(u))
             /\ op'[u] \in Claimers /\ pc'[u] \in StatusSet => status'[target'[u]] = "active"
             /\ op'[u] \in Rotators /\ pc'[u] \in RotatorActive => status'[target'[u]] = "active"
    BY DEF LatestInv
  <2>2. CASE u = r
    BY <2>1, <2>2 DEF FirstCall, SecretStored, HashStored, StatusSet, RotatorActive, WriteSteps,
                      TypeInv, TypeOK
  <2>3. CASE u # r
    <3>1. \A q \in Requests : q # r =>
            pc'[q] = pc[q] /\ op'[q] = op[q] /\ target'[q] = target[q] /\ before'[q] = before[q]
      BY <2>1 DEF TypeInv, TypeOK
    <3>2. op[r] = NULL /\ NULL \notin Writers
      BY <2>1, LifecycleAssumption DEF TypeInv, Shape, Writers, Endpoints
    <3>3. Undisturbed(u)
      BY <2>3, <3>1, <3>2 DEF Undisturbed, Harmless
    <3> QED
      BY <2>1, <2>3, <3>1, <3>3 DEF LatestInv
  <2> QED
    BY <2>2, <2>3
<1>2. ASSUME NEW r \in Requests, Serve(r) \/ Abort(r)
      PROVE  LatestInv'
  <2>1. /\ Moves(r) /\ StatusMoves(r) /\ StatusFlow(r)
        /\ SecretMoves(r) /\ SecretFlow(r) /\ HarmFlow(r)
    BY <1>2, ServeMoves, ServeStatus, ServeFlow, ServeSecrets, ServeSecretFlow, ServeHarm
  <2> SUFFICES ASSUME NEW u \in Requests, op'[u] \in Issuers, Undisturbed(u)'
      PROVE  /\ pc'[u] \in SecretStored /\ InCluster => k8s'[target'[u]] = GenerateApplianceSecret(u)
             /\ pc'[u] \in HashStored => secretHash'[target'[u]] = Hash(GenerateApplianceSecret(u))
             /\ op'[u] \in Claimers /\ pc'[u] \in StatusSet => status'[target'[u]] = "active"
             /\ op'[u] \in Rotators /\ pc'[u] \in RotatorActive => status'[target'[u]] = "active"
    BY DEF LatestInv
  <2>2. \A q \in Requests :
            /\ op'[q] = op[q] /\ before'[q] = before[q]
            /\ op[q] \in Writers => target'[q] = target[q] /\ target[q] \in Appliances
            /\ q # r => pc'[q] = pc[q]
    BY <2>1 DEF Moves, TypeInv, TypeOK, Shape, CreatorSteps, Creators, Writers, Issuers,
                Claimers, Rotators
  <2>3. op[u] \in Issuers /\ target'[u] = target[u] /\ target[u] \in Appliances
    BY <2>2 DEF Writers
  <2>4. Undisturbed(u)
    <3>1. \A q \in Requests : op[q] \in Writers /\ Harmless(q)' => Harmless(q)
      BY <2>1, <2>2 DEF HarmFlow, Harmless, Writers, Issuers, Claimers, Rotators, Creators
    <3> QED
      BY <2>2, <2>3, <3>1 DEF Undisturbed
  <2>5. CASE u # r
    <3>1. /\ pc[u] \in SecretStored /\ InCluster => k8s[target[u]] = GenerateApplianceSecret(u)
          /\ pc[u] \in HashStored => secretHash[target[u]] = Hash(GenerateApplianceSecret(u))
          /\ op[u] \in Claimers /\ pc[u] \in StatusSet => status[target[u]] = "active"
          /\ op[u] \in Rotators /\ pc[u] \in RotatorActive => status[target[u]] = "active"
      BY <2>3, <2>4 DEF LatestInv
    <3>2. target[r] = target[u] /\ op[r] \in Writers => Harmless(r)
      BY <2>1, <2>4, <2>5 DEF Undisturbed, Moves, TypeInv, BeforeEnded, Ended, InFlight,
            CreatorSteps, ClaimerSteps, RotatorSteps, WriteSteps, RevokeSteps
    <3>3. target[r] = target[u] =>
            pc[r] \notin {"createSecret", "updateSecret", "deleteSecret", "storeSecretHash",
                          "clearSecretHash", "setStatusRevoked", "markClaimed"}
      BY <3>2 DEF Harmless, TypeInv, Shape, WriteSteps, Writers, Issuers
    <3>4. k8s'[target[u]] = k8s[target[u]] /\ secretHash'[target[u]] = secretHash[target[u]]
      BY <2>1, <2>3, <3>3 DEF SecretMoves
    <3>5. status[target[u]] = "active" => status'[target[u]] = "active"
      BY <2>1, <2>3, <3>3 DEF StatusMoves, TypeInv, TypeOK, PersistenceTypeOK
    <3> QED
      BY <2>2, <2>3, <2>5, <3>1, <3>4, <3>5
  <2>6. CASE u = r
    <3>1. op[r] \in Issuers =>
            /\ pc[r] \in SecretStored =>
                    pc[r] \notin {"createSecret", "updateSecret", "deleteSecret"}
            /\ pc[r] \in HashStored => pc[r] \notin {"storeSecretHash", "clearSecretHash"}
            /\ pc[r] \notin {"setStatusRevoked", "clearSecretHash"}
            /\ op[r] \notin Creators
      BY DEF SecretStored, HashStored, TypeInv, Shape, Issuers, Claimers, Rotators, Creators
    <3>2. pc'[r] \in SecretStored /\ InCluster => k8s'[target[r]] = GenerateApplianceSecret(r)
      BY <2>1, <2>3, <2>4, <2>6, <3>1 DEF SecretFlow, SecretMoves, LatestInv
    <3>3. pc'[r] \in HashStored => secretHash'[target[r]] = Hash(GenerateApplianceSecret(r))
      BY <2>1, <2>3, <2>4, <2>6, <3>1 DEF SecretFlow, SecretMoves, LatestInv
    <3>4. status[target[r]] = "active" => status'[target[r]] = "active"
      BY <2>1, <2>3, <2>6, <3>1 DEF StatusMoves, TypeInv, TypeOK, PersistenceTypeOK
    <3>5. op[r] \in Claimers /\ pc'[r] \in StatusSet => status'[target[r]] = "active"
      BY <2>1, <2>3, <2>4, <2>6, <3>4 DEF StatusFlow, LatestInv
    <3>6. op[r] \in Rotators /\ pc'[r] \in RotatorActive => status'[target[r]] = "active"
      BY <2>1, <2>3, <2>4, <2>6, <3>4 DEF HarmFlow, LatestInv
    <3> QED
      BY <2>2, <2>3, <2>6, <3>2, <3>3, <3>5, <3>6
  <2> QED
    BY <2>5, <2>6
<1>3. CASE Tick \/ UNCHANGED vars
  BY <1>3 DEF Tick, vars, requestVars, dbVars, applianceVars, LatestInv, Undisturbed, Harmless
<1> QED
  BY <1>1, <1>2, <1>3 DEF Next

-----------------------------------------------------------------------------
\* A claim and a revocation of appliance a have overlapped.
Crossed(c, v) ==
    op[c] \in Claimers /\ op[v] = "Revoke" /\ target[c] = target[v] /\ Overlap(c, v)

\* What a claim has written is there until it marks the appliance active,
\* unless a revocation has crossed it.
SecretInv ==
    /\ \A c \in Requests :
        op[c] \in Claimers =>
            /\ pc[c] \in {"storeSecretHash", "markClaimed"} /\ InCluster /\ k8s[target[c]] = NULL
                => \E v \in Requests : Crossed(c, v)
            /\ pc[c] = "markClaimed" /\ secretHash[target[c]] = NULL
                => \E v \in Requests : Crossed(c, v)
    /\ ActiveHasSecret

LEMMA SecretStep == TypeInv /\ RevokedInv /\ SecretInv /\ [Next]_vars => SecretInv'
<1> SUFFICES ASSUME TypeInv, RevokedInv, SecretInv, [Next]_vars PROVE SecretInv'
  OBVIOUS
<1>1. ASSUME NEW r \in Requests, NEW o \in Ops, NEW b \in Presentable(o),
             NEW a \in Appliances \cup {NULL}, Begin(r, o, a, b)
      PROVE  SecretInv'
  <2>1. /\ pc[r] = "idle" /\ pc' = [pc EXCEPT ![r] = FirstCall(o)]
        /\ op' = [op EXCEPT ![r] = o] /\ target' = [target EXCEPT ![r] = a]
        /\ before' = [before EXCEPT ![r] = {q \in Requests : pc[q] \in Ended}]
        /\ UNCHANGED <<status, secretHash, k8s>>
    BY <1>1 DEF Begin, At, Goto, dbVars, applianceVars
  <2>2. \A q \in Requests : q # r =>
            pc'[q] = pc[q] /\ op'[q] = op[q] /\ target'[q] = target[q] /\ before'[q] = before[q]
    BY <2>1 DEF TypeInv, TypeOK
  <2>3. op[r] = NULL /\ NULL \notin Writers
    BY <2>1, LifecycleAssumption DEF TypeInv, Shape, Writers, Endpoints
  <2>4. \A c, v \in Requests : Crossed(c, v) => Crossed(c, v)' /\ c # r /\ v # r
    BY <2>2, <2>3 DEF Crossed, Overlap, Writers, Issuers
  <2>5. pc'[r] \notin {"storeSecretHash", "markClaimed"}
    BY <2>1 DEF FirstCall, TypeInv, TypeOK
  <2>6. ActiveHasSecret'
    BY <2>1, <2>2, <2>4 DEF SecretInv, ActiveHasSecret, Crossed
  <2> QED
    BY <2>1, <2>2, <2>4, <2>5, <2>6 DEF SecretInv
<1>2. ASSUME NEW r \in Requests, Serve(r) \/ Abort(r)
      PROVE  SecretInv'
  <2>1. Moves(r) /\ StatusMoves(r) /\ SecretMoves(r) /\ SecretFlow(r)
    BY <1>2, ServeMoves, ServeStatus, ServeSecrets, ServeSecretFlow
  <2>2. \A q \in Requests :
            /\ op'[q] = op[q] /\ before'[q] = before[q]
            /\ op[q] \in Writers => target'[q] = target[q] /\ target[q] \in Appliances
            /\ q # r => pc'[q] = pc[q]
    BY <2>1 DEF Moves, TypeInv, TypeOK, Shape, CreatorSteps, Creators, Writers, Issuers,
                Claimers, Rotators
  <2>3. \A c, v \in Requests : Crossed(c, v) => Crossed(c, v)'
    BY <2>2 DEF Crossed, Overlap, Writers, Issuers
  <2>4. \A a \in Appliances : k8s'[a] = NULL => k8s[a] = NULL \/ (pc[r] = "deleteSecret" /\ a = target[r])
    BY <2>1, CredentialFacts DEF SecretMoves
  <2>5. \A a \in Appliances :
            secretHash'[a] = NULL => secretHash[a] = NULL \/ (pc[r] = "clearSecretHash" /\ a = target[r])
    BY <2>1, CredentialFacts DEF SecretMoves
  <2>6. pc[r] \in {"deleteSecret", "clearSecretHash"} =>
            op[r] = "Revoke" /\ Revokes(r) /\ op[r] \in Writers
    BY DEF TypeInv, Shape, Revokes, StatusRevoked, Writers
  <2>7. ASSUME NEW c \in Requests, op[c] \in Claimers, pc[c] \in {"storeSecretHash", "markClaimed"},
               pc[r] \in {"deleteSecret", "clearSecretHash"}, target[c] = target[r]
        PROVE  Crossed(c, r)
    BY <2>6, <2>7 DEF Crossed, Overlap, TypeInv, BeforeEnded, Ended, Claimers
  <2>8. ASSUME NEW c \in Requests, op'[c] \in Claimers
        PROVE  /\ pc'[c] \in {"storeSecretHash", "markClaimed"} /\ InCluster /\ k8s'[target'[c]] = NULL
                    => \E v \in Requests : Crossed(c, v)'
               /\ pc'[c] = "markClaimed" /\ secretHash'[target'[c]] = NULL
                    => \E v \in Requests : Crossed(c, v)'
    <3>1. op[c] \in Claimers /\ op[c] \in Issuers /\ target'[c] = target[c] /\ target[c] \in Appliances
      BY <2>2, <2>8 DEF Writers, Issuers
    <3>2. CASE c # r
      <4>1. pc'[c] = pc[c]
        BY <2>2, <3>2
      <4>2. ASSUME pc[c] \in {"storeSecretHash", "markClaimed"}, InCluster, k8s'[target[c]] = NULL
            PROVE  \E v \in Requests : Crossed(c, v)'
        <5>1. CASE k8s[target[c]] = NULL
          BY <2>3, <3>1, <4>2, <5>1 DEF SecretInv
        <5>2. CASE pc[r] = "deleteSecret" /\ target[c] = target[r]
          BY <2>3, <2>7, <3>1, <4>2, <5>2
        <5> QED
          BY <2>4, <3>1, <4>2, <5>1, <5>2
      <4>3. ASSUME pc[c] = "markClaimed", secretHash'[target[c]] = NULL
            PROVE  \E v \in Requests : Crossed(c, v)'
        <5>1. CASE secretHash[target[c]] = NULL
          BY <2>3, <3>1, <4>3, <5>1 DEF SecretInv
        <5>2. CASE pc[r] = "clearSecretHash" /\ target[c] = target[r]
          BY <2>3, <2>7, <3>1, <4>3, <5>2
        <5> QED
          BY <2>5, <3>1, <4>3, <5>1, <5>2
      <4> QED
        BY <3>1, <4>1, <4>2, <4>3
    <3>3. CASE c = r
      <4>1. pc[r] \notin {"deleteSecret", "clearSecretHash"}
        BY <2>6, <3>1, <3>3 DEF Claimers
      <4>2. ASSUME pc'[r] \in {"storeSecretHash", "markClaimed"}, InCluster, k8s'[target[r]] = NULL
            PROVE  \E v \in Requests : Crossed(r, v)'
        <5>1. pc[r] \in SecretStored /\ k8s[target[r]] = NULL
          BY <2>1, <2>4, <3>1, <3>3, <4>1, <4>2, CredentialFacts DEF SecretFlow, SecretStored
        <5>2. pc[r] \in {"storeSecretHash", "markClaimed"}
          BY <1>2, <4>2, <5>1, <3>1, <3>3
             DEF SecretStored, Serve, Create, CheckCredential, Issue, Withdraw, Respond, Abort, At, Goto,
                 InsertAppliance, InsertCollides, IssueClaimToken, IssueExchangeCode,
                 GetClaimToken, DeleteExpiredToken, GetExchangeCode, DeleteExpiredCode,
                 CheckPin, RequireOwningGroup, CheckSecretHash, CheckActive, GetAppliance,
                 CreateK8sSecret, GetK8sSecret, UpdateK8sSecret, StoreSecretHash,
                 MarkClaimed, DropClaimToken, DropExchangeCode, SetStatusRevoked,
                 DeleteK8sSecret, ClearSecretHash, TypeInv, TypeOK
        <5> QED
          BY <2>3, <3>1, <3>3, <4>2, <5>1, <5>2 DEF SecretInv
      <4>3. ASSUME pc'[r] = "markClaimed", secretHash'[target[r]] = NULL
            PROVE  \E v \in Requests : Crossed(r, v)'
        <5>1. pc[r] \in HashStored /\ secretHash[target[r]] = NULL
          BY <2>1, <2>5, <3>1, <3>3, <4>1, <4>3, CredentialFacts DEF SecretFlow, HashStored
        <5>2. pc[r] = "markClaimed"
          BY <1>2, <4>3, <5>1, <3>1, <3>3
             DEF HashStored, Serve, Create, CheckCredential, Issue, Withdraw, Respond, Abort, At, Goto,
                 InsertAppliance, InsertCollides, IssueClaimToken, IssueExchangeCode,
                 GetClaimToken, DeleteExpiredToken, GetExchangeCode, DeleteExpiredCode,
                 CheckPin, RequireOwningGroup, CheckSecretHash, CheckActive, GetAppliance,
                 CreateK8sSecret, GetK8sSecret, UpdateK8sSecret, StoreSecretHash,
                 MarkClaimed, DropClaimToken, DropExchangeCode, SetStatusRevoked,
                 DeleteK8sSecret, ClearSecretHash, TypeInv, TypeOK
        <5> QED
          BY <2>3, <3>1, <3>3, <4>3, <5>1, <5>2 DEF SecretInv
      <4> QED
        BY <3>1, <3>3, <4>2, <4>3
    <3> QED
      BY <3>2, <3>3
  <2>9. ASSUME NEW a \in Appliances, status'[a] = "active",
               secretHash'[a] = NULL \/ (InCluster /\ k8s'[a] = NULL)
        PROVE  \E c, v \in Requests : Crossed(c, v)' /\ target'[c] = a
    <3>1. CASE pc[r] \in {"deleteSecret", "clearSecretHash"} /\ a = target[r]
      <4>1. status[a] = "active"
        BY <2>1, <2>6, <2>9, <3>1
           DEF StatusMoves, TypeInv, TypeOK, PersistenceTypeOK, Shape, Creators
      <4>2. PICK c \in Requests : op[c] \in Claimers /\ target[c] = target[r] /\ Overlap(c, r)
        BY <2>6, <3>1, <4>1 DEF RevokedInv
      <4>3. Crossed(c, r)
        BY <2>6, <3>1, <4>2 DEF Crossed
      <4> QED
        BY <2>2, <2>3, <2>6, <3>1, <4>2, <4>3 DEF Writers, Issuers
    <3>2. CASE ~(pc[r] \in {"deleteSecret", "clearSecretHash"} /\ a = target[r])
      <4>1. secretHash[a] = NULL \/ (InCluster /\ k8s[a] = NULL)
        BY <2>4, <2>5, <2>9, <3>2
      <4>2. CASE status[a] = "active"
        <5>1. PICK c, v \in Requests :
                /\ op[c] \in Claimers /\ op[v] = "Revoke"
                /\ target[c] = a /\ target[v] = a /\ Overlap(c, v)
          BY <4>1, <4>2 DEF SecretInv, ActiveHasSecret
        <5> QED
          BY <2>2, <2>3, <5>1 DEF Crossed, Writers, Issuers
      <4>3. CASE status[a] # "active"
        <5>1. pc[r] = "markClaimed" /\ a = target[r]
          BY <2>1, <2>9, <4>3 DEF StatusMoves, TypeInv, TypeOK, PersistenceTypeOK
        <5>2. op[r] \in Claimers
          BY <5>1 DEF TypeInv, Shape
        <5>3. PICK v \in Requests : Crossed(r, v)
          BY <4>1, <5>1, <5>2 DEF SecretInv
        <5> QED
          BY <2>2, <2>3, <5>1, <5>2, <5>3 DEF Writers, Issuers
      <4> QED
        BY <4>2, <4>3
    <3> QED
      BY <3>1, <3>2
  <2>10. ActiveHasSecret'
    BY <2>9 DEF ActiveHasSecret, Crossed
  <2> QED
    BY <2>8, <2>10 DEF SecretInv
<1>3. CASE Tick \/ UNCHANGED vars
  BY <1>3 DEF Tick, vars, requestVars, dbVars, applianceVars, SecretInv, ActiveHasSecret,
              Crossed, Overlap
<1> QED
  BY <1>1, <1>2, <1>3 DEF Next

-----------------------------------------------------------------------------
\* A claim or rotation has run beside revocation v.
Beside(v) == \E c \in Requests : op[c] \in Issuers /\ target[c] = target[v] /\ Overlap(c, v)

\* RevokedHasNoSecret from the moment each end has been emptied.  A rotation
\* that was let in after the answer found an active appliance: a claim beside
\* the revocation had set the status again.
EmptiedInv ==
    /\ \A v \in Requests :
        op[v] = "Revoke" =>
            /\ pc[v] \in SecretStored /\ k8s[target[v]] # NULL => Beside(v)
            /\ pc[v] \in HashStored /\ secretHash[target[v]] # NULL => Beside(v)
    /\ \A c, v \in Requests :
        ( /\ op[c] \in Rotators /\ pc[c] \in RotatorActive
          /\ OK(v) /\ op[v] = "Revoke" /\ target[v] = target[c] /\ v \in before[c] )
            => Beside(v)

\* How a revocation gets past the calls that empty both ends.
EmptyFlow(r) ==
    op[r] = "Revoke" =>
        /\ pc'[r] \in SecretStored /\ pc[r] \notin SecretStored =>
            (InCluster => k8s'[target[r]] = NULL)
        /\ pc'[r] \in HashStored /\ pc[r] \notin HashStored => secretHash'[target[r]] = NULL

LEMMA ServeEmpties ==
    ASSUME TypeInv, NEW r \in Requests, Serve(r) \/ Abort(r)
    PROVE  EmptyFlow(r)
<1> USE DEF EmptyFlow, SecretStored, HashStored, TypeInv, TypeOK, PersistenceTypeOK,
        Shape, At, Goto, Writers, Issuers, Claimers, Rotators, Creators
<1>1. CASE Create(r)
  BY <1>1 DEF Create, InsertAppliance, InsertCollides, IssueClaimToken, IssueExchangeCode,
              CreatorSteps
<1>2. CASE CheckCredential(r)
  BY <1>2 DEF CheckCredential, GetClaimToken, DeleteExpiredToken, GetExchangeCode,
              DeleteExpiredCode, CheckPin, RequireOwningGroup, CheckSecretHash, CheckActive
<1>3. CASE Issue(r)
  BY <1>3 DEF Issue, GetAppliance, CreateK8sSecret, GetK8sSecret, UpdateK8sSecret,
              StoreSecretHash, MarkClaimed, DropClaimToken, DropExchangeCode, WriteSteps
<1>4. CASE SetStatusRevoked(r)
  BY <1>4 DEF SetStatusRevoked
<1>5. CASE DeleteK8sSecret(r)
  BY <1>5 DEF DeleteK8sSecret, DeleteApplianceSecret
<1>6. CASE ClearSecretHash(r)
  BY <1>6 DEF ClearSecretHash, SetApplianceSecretHash
<1>7. CASE Respond(r) \/ Abort(r)
  BY <1>7 DEF Respond, Abort
<1> QED
  BY <1>1, <1>2, <1>3, <1>4, <1>5, <1>6, <1>7 DEF Serve, Withdraw

\* Whoever writes a secret where a revocation has been has run beside it, or
\* somebody else has.
LEMMA WriterBeside ==
    ASSUME TypeInv, SettledInv, EmptiedInv,
           NEW r \in Requests, op[r] \in Issuers, pc[r] \in WriteSteps,
           NEW v \in Requests, op[v] = "Revoke", pc[v] \in SecretStored, target[v] = target[r]
    PROVE  Beside(v)
<1>1. r # v /\ r \notin before[v]
  BY DEF TypeInv, BeforeEnded, WriteSteps, Ended, Issuers, Claimers, Rotators
<1>2. CASE v \notin before[r]
  BY <1>1, <1>2 DEF Beside, Overlap
<1>3. CASE v \in before[r]
  <2>1. OK(v)
    BY <1>3 DEF TypeInv, BeforeEnded, Ended, SecretStored, OK
  <2>2. op[r] \notin Claimers
    BY <1>3, <2>1 DEF SettledInv, StatusRead, WriteSteps
  <2>3. op[r] \in Rotators /\ pc[r] \in RotatorActive
    BY <2>2 DEF Issuers, RotatorActive
  <2> QED
    BY <1>3, <2>1, <2>3 DEF EmptiedInv
<1> QED
  BY <1>2, <1>3

LEMMA EmptiedStep ==
    ASSUME TypeInv, SupersededInv, SettledInv, RevokedInv, EmptiedInv, [Next]_vars
    PROVE  EmptiedInv'
<1>1. ASSUME NEW r \in Requests, NEW o \in Ops, NEW b \in Presentable(o),
             NEW a \in Appliances \cup {NULL}, Begin(r, o, a, b)
      PROVE  EmptiedInv'
  <2>1. /\ pc[r] = "idle" /\ pc' = [pc EXCEPT ![r] = FirstCall(o)]
        /\ op' = [op EXCEPT ![r] = o] /\ target' = [target EXCEPT ![r] = a]
        /\ before' = [before EXCEPT ![r] = {q \in Requests : pc[q] \in Ended}]
        /\ UNCHANGED <<status, secretHash, k8s>>
    BY <1>1 DEF Begin, At, Goto, dbVars, applianceVars
  <2>2. \A q \in Requests : q # r =>
            pc'[q] = pc[q] /\ op'[q] = op[q] /\ target'[q] = target[q] /\ before'[q] = before[q]
    BY <2>1 DEF TypeInv, TypeOK
  <2>3. op[r] = NULL /\ NULL \notin Writers
    BY <2>1, LifecycleAssumption DEF TypeInv, Shape, Writers, Endpoints
  <2>4. \A v \in Requests : op[v] = "Revoke" /\ Beside(v) => v # r /\ Beside(v)'
    BY <2>2, <2>3 DEF Beside, Overlap, Writers
  <2>5. pc'[r] = FirstCall(o)
    BY <2>1 DEF TypeInv, TypeOK
  <2>6. pc'[r] \notin SecretStored \cup HashStored \cup RotatorActive /\ ~OK(r)'
    BY <2>5 DEF FirstCall, SecretStored, HashStored, RotatorActive, WriteSteps, OK
  <2>7. ASSUME NEW v \in Requests, op'[v] = "Revoke"
        PROVE  /\ pc'[v] \in SecretStored /\ k8s'[target'[v]] # NULL => Beside(v)'
               /\ pc'[v] \in HashStored /\ secretHash'[target'[v]] # NULL => Beside(v)'
    BY <2>1, <2>2, <2>4, <2>6, <2>7 DEF EmptiedInv
  <2>8. ASSUME NEW c \in Requests, NEW v \in Requests,
               op'[c] \in Rotators, pc'[c] \in RotatorActive,
               OK(v)', op'[v] = "Revoke", target'[v] = target'[c], v \in before'[c]
        PROVE  Beside(v)'
    <3>1. c # r /\ v # r
      BY <2>6, <2>8
    <3> QED
      BY <2>2, <2>4, <2>8, <3>1 DEF EmptiedInv, OK
  <2> QED
    BY <2>7, <2>8 DEF EmptiedInv
<1>2. ASSUME NEW r \in Requests, Serve(r) \/ Abort(r) PROVE EmptiedInv'
  <2>1. Moves(r) /\ SecretMoves(r) /\ HarmFlow(r) /\ EmptyFlow(r)
    BY <1>2, ServeMoves, ServeSecrets, ServeHarm, ServeEmpties
  <2>2. \A q \in Requests :
            /\ op'[q] = op[q] /\ before'[q] = before[q]
            /\ op[q] \in Writers => target'[q] = target[q] /\ target[q] \in Appliances
            /\ q # r => pc'[q] = pc[q]
    BY <2>1 DEF Moves, TypeInv, TypeOK, Shape, CreatorSteps, Creators, Writers, Issuers,
                Claimers, Rotators
  <2>3. \A v \in Requests : op[v] = "Revoke" /\ Beside(v) => Beside(v)'
    BY <2>2 DEF Beside, Overlap, Writers
  <2>4. /\ pc[r] \in {"createSecret", "updateSecret", "storeSecretHash"} =>
            op[r] \in Issuers /\ pc[r] \in WriteSteps
        /\ pc[r] \in {"deleteSecret", "clearSecretHash"} => op[r] = "Revoke"
    BY DEF TypeInv, Shape, WriteSteps
  <2>5. HashStored \subseteq SecretStored
    BY DEF HashStored, SecretStored
  <2>6. ASSUME NEW v \in Requests, op[v] = "Revoke", v # r
        PROVE  /\ pc[v] \in SecretStored /\ k8s'[target[v]] # NULL => Beside(v)
               /\ pc[v] \in HashStored /\ secretHash'[target[v]] # NULL => Beside(v)
    <3>1. target[v] \in Appliances
      BY <2>2, <2>6 DEF Writers
    <3>2. ASSUME pc[v] \in SecretStored, k8s'[target[v]] # NULL, k8s[target[v]] = NULL
          PROVE  Beside(v)
      <4>1. target[r] = target[v] /\ pc[r] \in {"createSecret", "updateSecret", "deleteSecret"}
        BY <2>1, <3>1, <3>2 DEF SecretMoves
      <4>2. pc[r] # "deleteSecret"
        <5>1. pc[r] = "deleteSecret" => k8s'[target[r]] \in {NULL, k8s[target[r]]}
          BY <1>2, <4>1, <3>1
             DEF Serve, Create, CheckCredential, Issue, Withdraw, Respond, Abort, At,
                 InsertAppliance, InsertCollides, IssueClaimToken, IssueExchangeCode,
                 GetClaimToken, DeleteExpiredToken, GetExchangeCode, DeleteExpiredCode,
                 CheckPin, RequireOwningGroup, CheckSecretHash, CheckActive, GetAppliance,
                 CreateK8sSecret, GetK8sSecret, UpdateK8sSecret, StoreSecretHash,
                 MarkClaimed, DropClaimToken, DropExchangeCode, SetStatusRevoked,
                 DeleteK8sSecret, ClearSecretHash, DeleteApplianceSecret, TypeInv, TypeOK
        <5> QED
          BY <3>2, <4>1, <5>1
      <4> QED
        BY <2>4, <2>6, <3>2, <4>1, <4>2, WriterBeside
    <3>3. ASSUME pc[v] \in HashStored, secretHash'[target[v]] # NULL, secretHash[target[v]] = NULL
          PROVE  Beside(v)
      <4>1. target[r] = target[v] /\ pc[r] \in {"storeSecretHash", "clearSecretHash"}
        BY <2>1, <3>1, <3>3 DEF SecretMoves
      <4>2. pc[r] # "clearSecretHash"
        <5>1. pc[r] = "clearSecretHash" => secretHash'[target[r]] \in {NULL, secretHash[target[r]]}
          BY <1>2, <4>1, <3>1
             DEF Serve, Create, CheckCredential, Issue, Withdraw, Respond, Abort, At,
                 InsertAppliance, InsertCollides, IssueClaimToken, IssueExchangeCode,
                 GetClaimToken, DeleteExpiredToken, GetExchangeCode, DeleteExpiredCode,
                 CheckPin, RequireOwningGroup, CheckSecretHash, CheckActive, GetAppliance,
                 CreateK8sSecret, GetK8sSecret, UpdateK8sSecret, StoreSecretHash,
                 MarkClaimed, DropClaimToken, DropExchangeCode, SetStatusRevoked,
                 DeleteK8sSecret, ClearSecretHash, SetApplianceSecretHash, dbVars, applianceVars,
                 TypeInv, TypeOK, PersistenceTypeOK
        <5> QED
          BY <3>3, <4>1, <5>1
      <4> QED
        BY <2>4, <2>5, <2>6, <3>3, <4>1, <4>2, WriterBeside
    <3> QED
      BY <2>6, <3>2, <3>3 DEF EmptiedInv
  <2>7. ASSUME op[r] = "Revoke"
        PROVE  /\ pc'[r] \in SecretStored /\ k8s'[target[r]] # NULL => Beside(r)
               /\ pc'[r] \in HashStored /\ secretHash'[target[r]] # NULL => Beside(r)
    <3>1. target[r] \in Appliances
      BY <2>2, <2>7 DEF Writers
    <3>2. /\ pc[r] \notin {"createSecret", "updateSecret", "storeSecretHash"}
          /\ pc[r] \in SecretStored => pc[r] # "deleteSecret"
          /\ pc[r] \in HashStored => pc[r] # "clearSecretHash"
      BY <2>4, <2>7 DEF SecretStored, HashStored, Issuers, Claimers, Rotators
    <3>3. pc'[r] \in SecretStored /\ k8s'[target[r]] # NULL => Beside(r)
      <4>1. CASE pc[r] \in SecretStored
        BY <2>1, <2>7, <3>1, <3>2, <4>1 DEF SecretMoves, EmptiedInv
      <4>2. CASE pc[r] \notin SecretStored /\ InCluster
        BY <2>1, <2>7, <4>2 DEF EmptyFlow
      <4>3. CASE ~InCluster
        <5>1. k8s'[target[r]] = k8s[target[r]]
          BY <1>2, <2>1, <3>1, <3>2, <4>3
             DEF SecretMoves, Serve, Create, CheckCredential, Issue, Withdraw, Respond, Abort, At,
                 InsertAppliance, InsertCollides, IssueClaimToken, IssueExchangeCode,
                 GetClaimToken, DeleteExpiredToken, GetExchangeCode, DeleteExpiredCode,
                 CheckPin, RequireOwningGroup, CheckSecretHash, CheckActive, GetAppliance,
                 CreateK8sSecret, GetK8sSecret, UpdateK8sSecret, StoreSecretHash,
                 MarkClaimed, DropClaimToken, DropExchangeCode, SetStatusRevoked,
                 DeleteK8sSecret, ClearSecretHash, DeleteApplianceSecret
        <5> QED
          BY <3>1, <4>3, <5>1 DEF SupersededInv
      <4> QED
        BY <4>1, <4>2, <4>3
    <3>4. pc'[r] \in HashStored /\ secretHash'[target[r]] # NULL => Beside(r)
      BY <2>1, <2>7, <3>1, <3>2 DEF EmptyFlow, SecretMoves, EmptiedInv
    <3> QED
      BY <3>3, <3>4
  <2>8. ASSUME NEW c \in Requests, NEW v \in Requests,
               op'[c] \in Rotators, pc'[c] \in RotatorActive,
               OK(v)', op'[v] = "Revoke", target'[v] = target'[c], v \in before'[c]
        PROVE  Beside(v)
    <3>1. op[c] \in Rotators /\ op[v] = "Revoke" /\ v \in before[c] /\ target[v] = target[c]
      BY <2>2, <2>8 DEF Writers, Issuers
    <3>2. v # r /\ OK(v)
      BY <2>1, <2>2, <2>8, <3>1
         DEF Moves, TypeInv, BeforeEnded, Ended, InFlight, CreatorSteps, ClaimerSteps,
             RotatorSteps, WriteSteps, RevokeSteps, OK
    <3>3. CASE pc[c] \in RotatorActive
      BY <3>1, <3>2, <3>3 DEF EmptiedInv
    <3>4. CASE pc[c] \notin RotatorActive
      <4>1. c = r
        BY <2>2, <2>8, <3>4
      <4>2. status[target[v]] = "active"
        BY <2>1, <2>8, <3>1, <3>4, <4>1 DEF HarmFlow
      <4>3. \E d \in Requests : op[d] \in Claimers /\ target[d] = target[v] /\ Overlap(d, v)
        BY <3>1, <3>2, <4>2 DEF RevokedInv, Revokes, StatusRevoked, OK
      <4> QED
        BY <4>3 DEF Beside, Issuers
    <3> QED
      BY <3>3, <3>4
  <2>9. ASSUME NEW v \in Requests, op'[v] = "Revoke"
        PROVE  /\ pc'[v] \in SecretStored /\ k8s'[target'[v]] # NULL => Beside(v)'
               /\ pc'[v] \in HashStored /\ secretHash'[target'[v]] # NULL => Beside(v)'
    <3>1. op[v] = "Revoke" /\ target'[v] = target[v]
      BY <2>2, <2>9 DEF Writers
    <3>2. CASE v = r
      BY <2>3, <2>7, <3>1, <3>2
    <3>3. CASE v # r
      BY <2>2, <2>3, <2>6, <3>1, <3>3
    <3> QED
      BY <3>2, <3>3
  <2>10. ASSUME NEW c \in Requests, NEW v \in Requests,
                op'[c] \in Rotators, pc'[c] \in RotatorActive,
                OK(v)', op'[v] = "Revoke", target'[v] = target'[c], v \in before'[c]
         PROVE  Beside(v)'
    BY <2>2, <2>3, <2>8, <2>10
  <2> QED
    BY <2>9, <2>10 DEF EmptiedInv
<1>3. CASE Tick \/ UNCHANGED vars
  BY <1>3 DEF Tick, vars, requestVars, dbVars, applianceVars, EmptiedInv, Beside, Overlap, OK
<1> QED
  BY <1>1, <1>2, <1>3 DEF Next

-----------------------------------------------------------------------------
LEMMA SpecSecrets == Spec => [](LatestInv /\ SecretInv /\ EmptiedInv)
<1>1. Init => LatestInv /\ SecretInv /\ EmptiedInv
  BY DEF Init, PersistenceInit, LatestInv, SecretInv, ActiveHasSecret, EmptiedInv, SecretStored,
         HashStored, StatusSet, RotatorActive, WriteSteps
<1>2. IInv => TypeInv /\ SupersededInv /\ SettledInv /\ RevokedInv
  BY DEF IInv
<1>3. /\ TypeInv /\ RevokedInv /\ LatestInv /\ SecretInv /\ [Next]_vars => (LatestInv /\ SecretInv)'
      /\ TypeInv /\ SupersededInv /\ SettledInv /\ RevokedInv /\ EmptiedInv /\ [Next]_vars => EmptiedInv'
  BY LatestStep, SecretStep, EmptiedStep
<1> QED
  BY <1>1, <1>2, <1>3, SpecIInv, PTL DEF Spec

\* The secret answered last is live on both ends, whatever failed before it.
THEOREM LatestIsLive == Spec => []LatestIssueIsLive
<1>1. LatestInv => LatestIssueIsLive
  <2> SUFFICES ASSUME LatestInv, NEW r \in Requests, OK(r), op[r] \in Issuers, RunsLast(r)
               PROVE  /\ status[target[r]] = "active"
                      /\ secretHash[target[r]] = Hash(GenerateApplianceSecret(r))
                      /\ InCluster => k8s[target[r]] = GenerateApplianceSecret(r)
    BY DEF LatestIssueIsLive
  <2>1. Undisturbed(r)
    BY DEF RunsLast, Refused, Undisturbed, Harmless
  <2> QED
    BY <2>1 DEF LatestInv, OK, SecretStored, HashStored, StatusSet, RotatorActive, Issuers
<1> QED
  BY SpecSecrets, <1>1, PTL

\* An active appliance has its Secret and its hash, unless a claim of it
\* overlapped a revocation.
THEOREM ActiveIsEquipped == Spec => []ActiveHasSecret
<1>1. SecretInv => ActiveHasSecret
  BY DEF SecretInv
<1> QED
  BY SpecSecrets, <1>1, PTL

\* A revoked appliance has no secret on either end, unless a claim or rotation
\* ran beside its revocation.
THEOREM RevokedIsEmptied == Spec => []RevokedHasNoSecret
<1>1. EmptiedInv => RevokedHasNoSecret
  BY DEF EmptiedInv, RevokedHasNoSecret, Beside, OK, SecretStored, HashStored
<1> QED
  BY SpecSecrets, <1>1, PTL

-----------------------------------------------------------------------------
\* One request at a time: whoever has begun is before whoever began later.
InTurn ==
    /\ \A q, r \in Requests : pc[q] \in InFlight /\ pc[r] \in InFlight => q = r
    /\ \A q, r \in Requests :
        q # r /\ pc[q] # "idle" /\ pc[r] # "idle" => q \in before[r] \/ r \in before[q]

LEMMA TurnStep ==
    ASSUME MaxInFlight = 1, TypeInv, InTurn, [Next]_vars
    PROVE  InTurn'
<1>1. ASSUME NEW r \in Requests, NEW o \in Ops, NEW b \in Presentable(o),
             NEW a \in Appliances \cup {NULL}, Begin(r, o, a, b)
      PROVE  InTurn'
  <2> DEFINE served == {q \in Requests : pc[q] \in InFlight}
  <2>1. served = {}
    <3>1. Cardinality(served) < 1
      BY <1>1 DEF Begin
    <3>2. ASSUME NEW x \in served PROVE FALSE
      <4>1. served = {x}
        BY DEF InTurn
      <4>2. Cardinality({x}) = 1
        BY FS_Singleton
      <4> QED
        BY <3>1, <4>1, <4>2
    <3> QED
      BY <3>2
  <2>2. \A q \in Requests : pc[q] \in Ended \cup {"idle"}
    BY <2>1 DEF TypeInv, TypeOK, Steps
  <2>3. /\ pc' = [pc EXCEPT ![r] = FirstCall(o)] /\ pc[r] = "idle"
        /\ before' = [before EXCEPT ![r] = {q \in Requests : pc[q] \in Ended}]
    BY <1>1 DEF Begin, At, Goto
  <2>4. \A q \in Requests : q # r => pc'[q] = pc[q] /\ before'[q] = before[q] /\ pc'[q] \notin InFlight
    BY <2>1, <2>3 DEF TypeInv, TypeOK
  <2>5. \A q \in Requests : q # r /\ pc[q] # "idle" => q \in before'[r]
    BY <2>2, <2>3 DEF TypeInv, TypeOK
  <2> QED
    BY <2>4, <2>5 DEF InTurn
<1>2. ASSUME NEW r \in Requests, Serve(r) \/ Abort(r) PROVE InTurn'
  <2>1. Moves(r)
    BY <1>2, ServeMoves
  <2>2. \A q \in Requests : /\ before'[q] = before[q] /\ (q # r => pc'[q] = pc[q])
                            /\ pc'[q] # "idle" => pc[q] # "idle"
                            /\ pc'[q] \in InFlight => pc[q] \in InFlight
    BY <2>1 DEF Moves, TypeInv, TypeOK, InFlight, CreatorSteps, ClaimerSteps, RotatorSteps,
                WriteSteps, RevokeSteps
  <2> QED
    BY <2>2 DEF InTurn
<1>3. CASE Tick \/ UNCHANGED vars
  BY <1>3 DEF Tick, vars, requestVars, InTurn
<1> QED
  BY <1>1, <1>2, <1>3 DEF Next

\* Served one after another, requests keep what the documentation promises:
\* a claim succeeds once (README, "Claiming"), and an appliance whose
\* revocation was answered 200 is revoked and has no secret on either end
\* (README, "Revocation / rotation").  Only overlapping requests break it.
THEOREM OneAtATime ==
    ASSUME MaxInFlight = 1
    PROVE  Spec => [](ClaimSucceedsOnce /\ RevocationIsFinal)
<1>1. Init => InTurn
  BY DEF Init, InTurn, InFlight, CreatorSteps, ClaimerSteps, RotatorSteps, WriteSteps, RevokeSteps
<1>2. IInv /\ InTurn /\ [Next]_vars => InTurn'
  BY TurnStep DEF IInv
<1>3. InTurn /\ ClaimSucceedsOnceInOrder => ClaimSucceedsOnce
  BY DEF InTurn, ClaimSucceedsOnceInOrder, ClaimSucceedsOnce, Overlap, OK
<1>4. IInv /\ InTurn /\ RevocationStands /\ RevokedHasNoSecret => RevocationIsFinal
  <2> SUFFICES ASSUME IInv, InTurn, RevocationStands, RevokedHasNoSecret,
                      NEW v \in Requests, OK(v), op[v] = "Revoke"
               PROVE  /\ status[target[v]] = "revoked"
                      /\ k8s[target[v]] = NULL /\ secretHash[target[v]] = NULL
    BY DEF RevocationIsFinal
  <2>1. ASSUME NEW c \in Requests, op[c] \in Issuers, Overlap(c, v) PROVE FALSE
    <3>1. pc[c] # "idle" /\ pc[v] # "idle"
      BY <2>1, LifecycleAssumption DEF IInv, TypeInv, Shape, OK, Endpoints
    <3> QED
      BY <2>1, <3>1 DEF InTurn, Overlap
  <2> QED
    BY <2>1 DEF RevocationStands, RevokedHasNoSecret, Issuers
<1> QED
  BY <1>1, <1>2, <1>3, <1>4, SpecIInv, ClaimsOverlap, RevocationHolds, RevokedIsEmptied, PTL DEF Spec

-----------------------------------------------------------------------------
(* Lifecycle implements ApplianceStates.                                   *)

\* A revocation that has been let in found a row with an owner.
RowInv ==
    /\ \A a \in Appliances : status[a] = "absent" => groupId[a] = NULL
    /\ \A r \in Requests : pc[r] = "setStatusRevoked" => status[target[r]] # "absent"

LEMMA RowStep == TypeInv /\ RowInv /\ [Next]_vars => RowInv'
<1> SUFFICES ASSUME TypeInv, RowInv, [Next]_vars PROVE RowInv'
  OBVIOUS
<1>1. ASSUME NEW r \in Requests, NEW o \in Ops, NEW b \in Presentable(o),
             NEW a \in Appliances \cup {NULL}, Begin(r, o, a, b)
      PROVE  RowInv'
  BY <1>1 DEF Begin, Goto, FirstCall, RowInv, TypeInv, TypeOK, dbVars, applianceVars
<1>2. ASSUME NEW r \in Requests, Serve(r) \/ Abort(r) PROVE RowInv'
  <2>1. Moves(r) /\ StatusMoves(r)
    BY <1>2, ServeMoves, ServeStatus
  <2>2. \A a \in Appliances : status'[a] = "absent" => status[a] = "absent" /\ groupId'[a] = groupId[a]
    <3>1. CASE InsertAppliance(r)
      BY <3>1 DEF InsertAppliance, CreateAppliance, TypeInv, TypeOK, PersistenceTypeOK
    <3>2. CASE ~InsertAppliance(r)
      <4>1. groupId' = groupId
        BY <1>2, <3>2
           DEF Serve, Create, CheckCredential, Issue, Withdraw, Respond, Abort,
               InsertCollides, IssueClaimToken, IssueExchangeCode, SaveClaimToken,
               SaveEnrollExchangeCode, GetClaimToken, DeleteExpiredToken, GetExchangeCode,
               DeleteExpiredCode, CheckPin, RequireOwningGroup, CheckSecretHash, CheckActive,
               GetAppliance, CreateK8sSecret, GetK8sSecret, UpdateK8sSecret, StoreSecretHash,
               MarkClaimed, DropClaimToken, DropExchangeCode, SetStatusRevoked, DeleteK8sSecret,
               ClearSecretHash, SetApplianceSecretHash, MarkApplianceClaimed, SetApplianceStatus,
               IgnoringError, DeleteClaimToken, DeleteEnrollExchangeCode, dbVars, applianceVars
      <4> QED
        BY <2>1, <4>1 DEF StatusMoves, TypeInv, TypeOK, PersistenceTypeOK
    <3> QED
      BY <3>1, <3>2
  <2>3. ASSUME pc'[r] = "setStatusRevoked"
        PROVE  status[target[r]] # "absent" /\ target' = target /\ target[r] \in Appliances
    <3>1. RequireOwningGroup(r)
      BY <1>2, <2>3
         DEF Serve, Create, CheckCredential, Issue, Withdraw, Respond, Abort, At, Goto,
             InsertAppliance, InsertCollides, IssueClaimToken, IssueExchangeCode,
             GetClaimToken, DeleteExpiredToken, GetExchangeCode, DeleteExpiredCode,
             CheckPin, CheckSecretHash, CheckActive, GetAppliance,
             CreateK8sSecret, GetK8sSecret, UpdateK8sSecret, StoreSecretHash, AfterSecretHash,
             MarkClaimed, DropClaimToken, DropExchangeCode, SetStatusRevoked,
             DeleteK8sSecret, ClearSecretHash, TypeInv, TypeOK
    <3>2. op[r] \in OwnerOps /\ target[r] \in Appliances /\ target' = target
      BY <3>1 DEF RequireOwningGroup, KeepRequest, At, TypeInv, Shape, OwnerOps, Writers, Issuers, Rotators
    <3>3. groupId[target[r]] \in Groups
      BY <2>3, <3>1, <3>2, CredentialFacts
         DEF RequireOwningGroup, Owns, Goto, TypeInv, TypeOK, Shape
    <3> QED
      BY <3>2, <3>3, NullAssumption DEF RowInv
  <2>4. ASSUME NEW q \in Requests, pc'[q] = "setStatusRevoked"
        PROVE  status'[target'[q]] # "absent"
    <3>1. CASE q = r
      BY <2>2, <2>3, <2>4, <3>1
    <3>2. CASE q # r
      <4>1. pc[q] = "setStatusRevoked" /\ target'[q] = target[q]
        BY <2>1, <2>4, <3>2 DEF Moves, TypeInv, TypeOK
      <4>2. target[q] \in Appliances
        BY <4>1 DEF TypeInv, Shape, Writers
      <4> QED
        BY <2>2, <4>1, <4>2 DEF RowInv
    <3> QED
      BY <3>1, <3>2
  <2> QED
    BY <2>2, <2>4 DEF RowInv
<1>3. CASE Tick \/ UNCHANGED vars
  BY <1>3 DEF Tick, vars, requestVars, dbVars, applianceVars, RowInv
<1> QED
  BY <1>1, <1>2, <1>3 DEF Next

\* When a request's call changes the set of changes: it is its own change.
LEMMA ChangesMove ==
    ASSUME TypeInv, NEW r \in Requests, Moves(r)
    PROVE  /\ pc[r] \in Writing /\ pc'[r] \in Writing =>
                changes' = (changes \ {Change(r)}) \cup {[Change(r) EXCEPT !.next = NextWrite(r)']}
           /\ pc[r] \in Writing /\ pc'[r] \notin Writing => changes' = changes \ {Change(r)}
           /\ pc[r] \notin Writing /\ pc'[r] \in Writing => changes' = changes \cup {Change(r)'}
           /\ pc[r] \notin Writing /\ pc'[r] \notin Writing => changes' = changes
           /\ pc[r] \notin Writing => \A c \in changes : c.by # r
           /\ pc[r] \in Writing => Change(r) \in changes
<1> DEFINE W == {q \in Requests : pc[q] \in Writing}
           W2 == {q \in Requests : pc'[q] \in Writing}
<1>1. changes = {Change(q) : q \in W} /\ changes' = {Change(q)' : q \in W2}
  BY DEF changes
<1>2. \A q \in Requests : q # r => (q \in W <=> q \in W2) /\ Change(q)' = Change(q)
  BY DEF Moves, Change, NextWrite, TypeInv, TypeOK
<1>3. \A q \in Requests : Change(q).by = q
  BY DEF Change
<1>4. pc[r] \in Writing => Change(r)' = [Change(r) EXCEPT !.next = NextWrite(r)']
  BY DEF Change, Moves, TypeInv, TypeOK, Writing
<1>5. r \in W <=> pc[r] \in Writing
  OBVIOUS
<1>6. r \in W2 <=> pc'[r] \in Writing
  OBVIOUS
<1> DEFINE old == Change(r)
           new == Change(r)'
<1>7. W \subseteq Requests /\ W2 \subseteq Requests
  OBVIOUS
<1>8. old \notin {Change(q) : q \in W \ {r}}
  BY <1>3
<1>9. {Change(q)' : q \in W2 \ {r}} = {Change(q) : q \in W \ {r}}
  BY <1>2, <1>7
<1>10. changes = {Change(q) : q \in W \ {r}} \cup (IF r \in W THEN {old} ELSE {})
  BY <1>1
<1>11. changes' = {Change(q)' : q \in W2 \ {r}} \cup (IF r \in W2 THEN {new} ELSE {})
  BY <1>1
<1> DEFINE others == {Change(q) : q \in W \ {r}}
<1>12. \A c \in others : c.by # r
  BY <1>3, <1>7
<1> HIDE DEF W, W2, others
<1>13. /\ changes = others \cup (IF pc[r] \in Writing THEN {old} ELSE {})
       /\ changes' = others \cup (IF pc'[r] \in Writing THEN {new} ELSE {})
       /\ old \notin others
  BY <1>5, <1>6, <1>8, <1>9, <1>10, <1>11 DEF others
<1> QED
  BY <1>4, <1>12, <1>13

LEMMA TunnelMoves ==
    ASSUME TypeInv, NEW a \in Appliances, NEW r \in Requests
    PROVE  /\ k8s' = k8s => tunnelSecrets' = tunnelSecrets
           /\ k8s' = [k8s EXCEPT ![a] = NULL] => tunnelSecrets' = [tunnelSecrets EXCEPT ![a] = NULL]
           /\ k8s' = [k8s EXCEPT ![a] = GenerateApplianceSecret(r)]
                => tunnelSecrets' = [tunnelSecrets EXCEPT ![a] = r]
<1>1. GenerateApplianceSecret(r) # NULL /\ DrawnBy(GenerateApplianceSecret(r)) = r
  BY CredentialFacts DEF DrawnBy, GenerateApplianceSecret
<1> QED
  BY <1>1 DEF tunnelSecrets, TypeInv, TypeOK

LEMMA AcceptedMoves ==
    ASSUME TypeInv, NEW a \in Appliances, NEW r \in Requests
    PROVE  /\ secretHash' = secretHash => acceptedSecrets' = acceptedSecrets
           /\ secretHash' = [secretHash EXCEPT ![a] = NULL]
                => acceptedSecrets' = [acceptedSecrets EXCEPT ![a] = NULL]
           /\ secretHash' = [secretHash EXCEPT ![a] = Hash(GenerateApplianceSecret(r))]
                => acceptedSecrets' = [acceptedSecrets EXCEPT ![a] = r]
<1>1. Hash(GenerateApplianceSecret(r)) # NULL /\ DrawnBy(Hash(GenerateApplianceSecret(r))[2]) = r
  BY CredentialFacts DEF DrawnBy, GenerateApplianceSecret, Hash
<1> QED
  BY <1>1 DEF acceptedSecrets, TypeInv, TypeOK, PersistenceTypeOK

Still == UNCHANGED <<status, changes, tunnelSecrets, acceptedSecrets>>

\* The steps that let a request in.
LEMMA EntriesMap ==
    ASSUME TypeInv, RowInv, NEW r \in Requests,
           GetAppliance(r) \/ RequireOwningGroup(r) \/ CheckActive(r) \/ SetStatusRevoked(r)
    PROVE  States!Next \/ Still
<1>1. Moves(r) /\ pc[r] \notin Writing /\ op[r] \in Writers /\ target[r] \in Appliances
  BY ServeMoves
     DEF Serve, CheckCredential, Issue, Withdraw, GetAppliance, RequireOwningGroup, CheckActive,
         SetStatusRevoked, At, Writing, TypeInv, Shape, Writers, Issuers, Claimers, Rotators
<1>2. op' = op /\ target' = target /\ k8s' = k8s /\ secretHash' = secretHash
  BY DEF GetAppliance, RequireOwningGroup, CheckActive, SetStatusRevoked, SetApplianceStatus,
         KeepRequest, dbVars, applianceVars
<1>3. tunnelSecrets' = tunnelSecrets /\ acceptedSecrets' = acceptedSecrets
  BY <1>1, <1>2, TunnelMoves, AcceptedMoves
<1>4. CASE pc'[r] \in Writing
  <2>1. (\A c \in changes : c.by # r) /\ changes' = changes \cup {Change(r)'}
    BY <1>1, <1>4, ChangesMove
  <2>2. CASE GetAppliance(r)
    <3>1. /\ status[target[r]] = "pending" /\ status' = status
          /\ pc'[r] = "createSecret" /\ op[r] \in Claimers
      BY <1>4, <2>2 DEF GetAppliance, Claimable, At, Goto, Writing, dbVars, applianceVars,
                        TypeInv, TypeOK, Shape
    <3>2. Change(r)' = [by |-> r, as |-> "claim", to |-> target[r], next |-> "tunnel"]
      BY <1>2, <3>1 DEF Change, NextWrite
    <3>3. States!Claim(r, target[r])
      BY <1>3, <2>1, <3>1, <3>2 DEF States!Claim, States!LetIn
    <3> QED
      BY <1>1, <3>3 DEF States!Next
  <2>3. CASE RequireOwningGroup(r) \/ CheckActive(r)
    <3>1. /\ status[target[r]] = "active" /\ status' = status
          /\ pc'[r] = "createSecret" /\ op[r] \in Rotators /\ op[r] \notin Claimers
      BY <1>4, <2>3
         DEF RequireOwningGroup, CheckActive, Rotatable, At, Goto, Writing, dbVars, applianceVars,
             TypeInv, TypeOK, Shape, Rotators, Claimers
    <3>2. Change(r)' = [by |-> r, as |-> "rotation", to |-> target[r], next |-> "tunnel"]
      BY <1>2, <3>1 DEF Change, NextWrite
    <3>3. States!Rotate(r, target[r])
      BY <1>3, <2>1, <3>1, <3>2 DEF States!Rotate, States!LetIn
    <3> QED
      BY <1>1, <3>3 DEF States!Next
  <2>4. CASE SetStatusRevoked(r)
    <3>1. /\ status' = [status EXCEPT ![target[r]] = "revoked"]
          /\ status[target[r]] \in {"pending", "active"}
          /\ pc'[r] = "deleteSecret" /\ op[r] \notin Claimers \cup Rotators
      BY <1>1, <1>4, <2>4
         DEF SetStatusRevoked, SetApplianceStatus, SetApplianceStatusAffects, RowInv, Statuses,
             At, Goto, Writing, TypeInv, TypeOK, PersistenceTypeOK, Shape, Claimers, Rotators
    <3>2. Change(r)' = [by |-> r, as |-> "revocation", to |-> target[r], next |-> "tunnel"]
      BY <1>2, <3>1 DEF Change, NextWrite
    <3>3. States!Revoke(r, target[r])
      BY <1>3, <2>1, <3>1, <3>2 DEF States!Revoke, States!LetIn
    <3> QED
      BY <1>1, <3>3 DEF States!Next
  <2> QED
    BY <2>2, <2>3, <2>4
<1>5. CASE pc'[r] \notin Writing
  <2>1. changes' = changes
    BY <1>1, <1>5, ChangesMove
  <2>2. status' = status
    BY <1>5 DEF GetAppliance, RequireOwningGroup, CheckActive, SetStatusRevoked, Goto, Writing,
                dbVars, applianceVars, TypeInv, TypeOK
  <2> QED
    BY <1>3, <2>1, <2>2 DEF Still
<1> QED
  BY <1>4, <1>5

\* The steps between being let in and the last write.
LEMMA WritesMap ==
    ASSUME TypeInv, SupersededInv, NEW r \in Requests, pc[r] \in Writing, Serve(r) \/ Abort(r)
    PROVE  States!Next \/ Still
<1> DEFINE c == Change(r)
<1>1. Moves(r) /\ op[r] \in Writers /\ target[r] \in Appliances /\ c \in changes
  BY ServeMoves, ChangesMove
     DEF Writing, WriteSteps, TypeInv, Shape, Writers, Issuers
<1>2. /\ c.by = r /\ c.to = target[r] /\ c.next = NextWrite(r)
      /\ op[r] \in Claimers => c.as = "claim"
      /\ op[r] \in Rotators => c.as = "rotation"
      /\ op[r] = "Revoke" => c.as = "revocation"
  BY DEF Change, Claimers, Rotators
<1>3. /\ pc'[r] \in Writing => changes' = (changes \ {c}) \cup {[c EXCEPT !.next = NextWrite(r)']}
      /\ pc'[r] \notin Writing => changes' = changes \ {c}
  BY <1>1, ChangesMove
<1> HIDE DEF c
<1>4. CASE Abort(r) \/ GetK8sSecret(r)
  <2>1. tunnelSecrets' = tunnelSecrets /\ acceptedSecrets' = acceptedSecrets /\ status' = status
    BY <1>1, <1>4, TunnelMoves, AcceptedMoves DEF Abort, GetK8sSecret, dbVars, applianceVars
  <2>2. CASE pc'[r] \in Writing
    <3>1. NextWrite(r)' = NextWrite(r)
      BY <1>4, <2>2 DEF Abort, GetK8sSecret, At, Goto, NextWrite, Writing, TypeInv, TypeOK
    <3>2. [c EXCEPT !.next = NextWrite(r)'] = c
      BY <1>2, <3>1 DEF c, Change
    <3> QED
      BY <1>1, <1>3, <2>1, <2>2, <3>2 DEF Still
  <2>3. CASE pc'[r] \notin Writing
    BY <1>1, <1>3, <2>1, <2>3 DEF States!Next, States!GiveUp, States!Ends
  <2> QED
    BY <2>2, <2>3
<1>5. CASE CreateK8sSecret(r) \/ UpdateK8sSecret(r)
  <2>1. /\ acceptedSecrets' = acceptedSecrets /\ status' = status /\ NextWrite(r) = "tunnel"
        /\ op[r] \in Issuers /\ op' = op
    BY <1>1, <1>5, AcceptedMoves
       DEF CreateK8sSecret, UpdateK8sSecret, dbVars, applianceVars, NextWrite, At, TypeInv, Shape,
           WriteSteps, KeepRequest
  <2>2. CASE pc'[r] = "storeSecretHash"
    <3>1. k8s' = IF InCluster THEN [k8s EXCEPT ![target[r]] = GenerateApplianceSecret(r)] ELSE k8s
      BY <1>5, <2>2
         DEF CreateK8sSecret, UpdateK8sSecret, CreateSecret, UpdateSecret, At, Goto, SupersededInv,
             TypeInv, TypeOK
    <3>2. tunnelSecrets' = IF InCluster THEN [tunnelSecrets EXCEPT ![target[r]] = r] ELSE tunnelSecrets
      BY <1>1, <3>1, TunnelMoves
    <3>3. NextWrite(r)' = "accepted" /\ pc'[r] \in Writing
      BY <2>2 DEF NextWrite, Writing
    <3>4. States!Secret(c) = r
      BY <1>2, <2>1 DEF States!Secret, Issuers
    <3>5. States!WriteTunnel(c)
      BY <1>2, <1>3, <2>1, <3>2, <3>3, <3>4 DEF States!WriteTunnel, States!GoesOn
    <3> QED
      BY <1>1, <3>5 DEF States!Next
  <2>3. CASE pc'[r] # "storeSecretHash"
    <3>1. k8s' = k8s /\ pc'[r] \in {"getSecret", "500"}
      BY <1>5, <2>3
         DEF CreateK8sSecret, UpdateK8sSecret, At, Goto, TypeInv, TypeOK
    <3>2. tunnelSecrets' = tunnelSecrets
      BY <1>1, <3>1, TunnelMoves
    <3>3. CASE pc'[r] = "getSecret"
      <4>1. NextWrite(r)' = NextWrite(r) /\ pc'[r] \in Writing
        BY <2>1, <3>3 DEF NextWrite, Writing
      <4>2. [c EXCEPT !.next = NextWrite(r)'] = c
        BY <1>2, <4>1 DEF c, Change
      <4> QED
        BY <1>1, <1>3, <2>1, <3>2, <4>1, <4>2 DEF Still
    <3>4. CASE pc'[r] = "500"
      <4>1. changes' = changes \ {c}
        BY <1>3, <3>4 DEF Writing
      <4> QED
        BY <1>1, <2>1, <3>2, <4>1 DEF States!Next, States!GiveUp, States!Ends
    <3> QED
      BY <3>1, <3>3, <3>4
  <2> QED
    BY <2>2, <2>3
<1>6. CASE StoreSecretHash(r)
  <2>1. /\ status' = status /\ k8s' = k8s /\ NextWrite(r) = "accepted" /\ op[r] \in Issuers
        /\ secretHash' = [secretHash EXCEPT ![target[r]] = Hash(GenerateApplianceSecret(r))]
    BY <1>6 DEF StoreSecretHash, SetApplianceSecretHash, NextWrite, At, TypeInv, Shape, WriteSteps
  <2>2. tunnelSecrets' = tunnelSecrets /\ acceptedSecrets' = [acceptedSecrets EXCEPT ![target[r]] = r]
    BY <1>1, <2>1, TunnelMoves, AcceptedMoves
  <2>3. IF c.as = "claim" THEN changes' = (changes \ {c}) \cup {[c EXCEPT !.next = "status"]}
        ELSE changes' = changes \ {c}
    <3>1. CASE op[r] \in Claimers
      <4>1. pc'[r] = "markClaimed"
        BY <1>6, <3>1 DEF StoreSecretHash, AfterSecretHash, Goto, TypeInv, TypeOK
      <4> QED
        BY <1>2, <1>3, <3>1, <4>1 DEF NextWrite, Writing
    <3>2. CASE op[r] \notin Claimers
      <4>1. pc'[r] = "respond" /\ op[r] \in Rotators
        BY <1>6, <2>1, <3>2 DEF StoreSecretHash, AfterSecretHash, Goto, TypeInv, TypeOK, Issuers
      <4> QED
        BY <1>2, <1>3, <4>1 DEF Writing
    <3> QED
      BY <3>1, <3>2
  <2>4. States!Secret(c) = r
    BY <1>2, <2>1 DEF States!Secret, Issuers
  <2>5. States!WriteAccepted(c)
    BY <1>2, <2>1, <2>2, <2>3, <2>4 DEF States!WriteAccepted, States!GoesOn, States!Ends
  <2> QED
    BY <1>1, <2>5 DEF States!Next
<1>7. CASE MarkClaimed(r)
  <2>1. /\ k8s' = k8s /\ secretHash' = secretHash /\ NextWrite(r) = "status"
        /\ pc'[r] \in {"deleteClaimToken", "500"}
        /\ pc'[r] = "500" => status' = status
        /\ pc'[r] # "500" => status' = [status EXCEPT ![target[r]] = "active"]
    BY <1>7 DEF MarkClaimed, MarkApplianceClaimed, NextWrite, At, Goto, dbVars, applianceVars,
                TypeInv, TypeOK
  <2>2. tunnelSecrets' = tunnelSecrets /\ acceptedSecrets' = acceptedSecrets
    BY <1>1, <2>1, TunnelMoves, AcceptedMoves
  <2>3. changes' = changes \ {c}
    BY <1>3, <2>1 DEF Writing
  <2>4. States!Activate(c) \/ States!GiveUp(c)
    BY <1>2, <2>1, <2>2, <2>3 DEF States!Activate, States!GiveUp, States!Ends
  <2> QED
    BY <1>1, <2>4 DEF States!Next
<1>8. CASE DeleteK8sSecret(r)
  <2>1. /\ status' = status /\ secretHash' = secretHash /\ NextWrite(r) = "tunnel" /\ op[r] = "Revoke"
        /\ k8s' = IF InCluster THEN [k8s EXCEPT ![target[r]] = NULL] ELSE k8s
        /\ pc'[r] = "clearSecretHash"
    BY <1>8 DEF DeleteK8sSecret, DeleteApplianceSecret, NextWrite, At, Goto, dbVars, applianceVars,
                TypeInv, TypeOK, Shape
  <2>2. /\ tunnelSecrets' = IF InCluster THEN [tunnelSecrets EXCEPT ![target[r]] = NULL] ELSE tunnelSecrets
        /\ acceptedSecrets' = acceptedSecrets
    BY <1>1, <2>1, TunnelMoves, AcceptedMoves
  <2>3. changes' = (changes \ {c}) \cup {[c EXCEPT !.next = "accepted"]}
    BY <1>3, <2>1 DEF NextWrite, Writing
  <2>4. States!WriteTunnel(c)
    BY <1>2, <2>1, <2>2, <2>3 DEF States!WriteTunnel, States!GoesOn, States!Secret
  <2> QED
    BY <1>1, <2>4 DEF States!Next
<1>9. CASE ClearSecretHash(r)
  <2>1. /\ status' = status /\ k8s' = k8s /\ NextWrite(r) = "accepted" /\ op[r] = "Revoke"
        /\ secretHash' = [secretHash EXCEPT ![target[r]] = NULL]
        /\ pc'[r] = "deleteClaimToken"
    BY <1>9 DEF ClearSecretHash, SetApplianceSecretHash, NextWrite, At, Goto, TypeInv, TypeOK, Shape
  <2>2. tunnelSecrets' = tunnelSecrets /\ acceptedSecrets' = [acceptedSecrets EXCEPT ![target[r]] = NULL]
    BY <1>1, <2>1, TunnelMoves, AcceptedMoves
  <2>3. changes' = changes \ {c}
    BY <1>3, <2>1 DEF Writing
  <2>4. States!WriteAccepted(c)
    BY <1>2, <2>1, <2>2, <2>3 DEF States!WriteAccepted, States!Ends, States!Secret
  <2> QED
    BY <1>1, <2>4 DEF States!Next
<1>10. pc[r] \in Writing =>
          ~(Create(r) \/ CheckCredential(r) \/ GetAppliance(r) \/ DropClaimToken(r)
            \/ DropExchangeCode(r) \/ SetStatusRevoked(r) \/ Respond(r))
  BY DEF Create, CheckCredential, GetAppliance, DropClaimToken, DropExchangeCode, SetStatusRevoked,
         Respond, InsertAppliance, InsertCollides, IssueClaimToken, IssueExchangeCode,
         GetClaimToken, DeleteExpiredToken, GetExchangeCode, DeleteExpiredCode, CheckPin,
         RequireOwningGroup, CheckSecretHash, CheckActive, At, Writing
<1> QED
  BY <1>4, <1>5, <1>6, <1>7, <1>8, <1>9, <1>10 DEF Serve, Issue, Withdraw

\* Every step of Lifecycle is one of ApplianceStates, or none.
LEMMA StatesStep ==
    ASSUME TypeInv, SupersededInv, RowInv, [Next]_vars
    PROVE  States!Next \/ Still
<1>1. ASSUME NEW r \in Requests, NEW o \in Ops, NEW b \in Presentable(o),
             NEW a \in Appliances \cup {NULL}, Begin(r, o, a, b)
      PROVE  Still
  <2>1. /\ pc[r] = "idle" /\ pc'[r] = FirstCall(o) /\ UNCHANGED <<status, k8s, secretHash>>
        /\ \A q \in Requests : q # r => UNCHANGED <<pc[q], op[q], target[q]>>
    BY <1>1 DEF Begin, At, Goto, dbVars, applianceVars, TypeInv, TypeOK
  <2>2. pc[r] \notin Writing /\ pc'[r] \notin Writing
    BY <2>1 DEF FirstCall, Writing
  <2>3. \A q \in Requests : (pc'[q] \in Writing <=> pc[q] \in Writing)
                            /\ (pc[q] \in Writing => Change(q)' = Change(q))
    BY <2>1, <2>2 DEF Change, NextWrite
  <2>4. changes' = changes
    BY <2>3 DEF changes
  <2> QED
    BY <2>1, <2>4 DEF Still, tunnelSecrets, acceptedSecrets
<1>2. ASSUME NEW r \in Requests, Serve(r) \/ Abort(r), pc[r] \notin Writing
      PROVE  States!Next \/ Still
  <2>1. Moves(r)
    BY <1>2, ServeMoves
  <2>2. CASE GetAppliance(r) \/ RequireOwningGroup(r) \/ CheckActive(r) \/ SetStatusRevoked(r)
    BY <2>2, EntriesMap
  <2>3. CASE InsertAppliance(r)
    <3>1. PICK a \in Appliances : status[a] = "absent" /\ status' = [status EXCEPT ![a] = "pending"]
      BY <2>3 DEF InsertAppliance, CreateAppliance
    <3>2. k8s' = k8s /\ secretHash' = secretHash /\ pc'[r] \notin Writing
      BY <2>3 DEF InsertAppliance, CreateAppliance, Goto, Writing, TypeInv, TypeOK
    <3>3. changes' = changes
      BY <1>2, <2>1, <3>2, ChangesMove
    <3>4. tunnelSecrets' = tunnelSecrets /\ acceptedSecrets' = acceptedSecrets
      BY <3>2 DEF tunnelSecrets, acceptedSecrets
    <3>5. States!Register(a)
      BY <3>1, <3>3, <3>4 DEF States!Register
    <3> QED
      BY <3>5 DEF States!Next
  <2>4. CASE \/ InsertCollides(r) \/ IssueClaimToken(r) \/ IssueExchangeCode(r)
             \/ GetClaimToken(r) \/ DeleteExpiredToken(r) \/ GetExchangeCode(r)
             \/ DeleteExpiredCode(r) \/ CheckPin(r) \/ CheckSecretHash(r)
             \/ DropClaimToken(r) \/ DropExchangeCode(r) \/ Respond(r) \/ Abort(r)
    <3>1. UNCHANGED <<status, k8s, secretHash>> /\ pc'[r] \notin Writing
      BY <1>2, <2>4
         DEF InsertCollides, IssueClaimToken, IssueExchangeCode, GetClaimToken, DeleteExpiredToken,
             GetExchangeCode, DeleteExpiredCode, CheckPin, CheckSecretHash, DropClaimToken,
             DropExchangeCode, Respond, Abort, SaveClaimToken, SaveEnrollExchangeCode,
             IgnoringError, DeleteClaimToken, DeleteEnrollExchangeCode, dbVars, applianceVars,
             Goto, Writing, TypeInv, TypeOK
    <3>2. changes' = changes
      BY <1>2, <2>1, <3>1, ChangesMove
    <3> QED
      BY <3>1, <3>2 DEF Still, tunnelSecrets, acceptedSecrets
  <2>5. ~(CreateK8sSecret(r) \/ GetK8sSecret(r) \/ UpdateK8sSecret(r) \/ StoreSecretHash(r)
          \/ MarkClaimed(r) \/ DeleteK8sSecret(r) \/ ClearSecretHash(r))
    BY <1>2 DEF CreateK8sSecret, GetK8sSecret, UpdateK8sSecret, StoreSecretHash, MarkClaimed,
                DeleteK8sSecret, ClearSecretHash, At, Writing
  <2> QED
    BY <1>2, <2>2, <2>3, <2>4, <2>5 DEF Serve, Create, CheckCredential, Issue, Withdraw
<1>3. ASSUME NEW r \in Requests, Serve(r) \/ Abort(r), pc[r] \in Writing
      PROVE  States!Next \/ Still
  BY <1>3, WritesMap
<1>4. CASE Tick \/ UNCHANGED vars
  BY <1>4 DEF Tick, vars, requestVars, dbVars, applianceVars, Still, changes, Change, NextWrite,
              tunnelSecrets, acceptedSecrets
<1> QED
  BY <1>1, <1>2, <1>3, <1>4 DEF Next

\* The handlers, with everything that can come between two of their calls,
\* implement the states of an appliance (webapp.go: Claim, EnrollRedeem,
\* issueNewSecret, Revoke).
THEOREM LifecycleImplementsStates == Spec => ChangesFollowStates
<1>1. Init => States!Init
  BY DEF Init, PersistenceInit, States!Init, changes, Writing, tunnelSecrets, acceptedSecrets
<1>2. Init => RowInv
  BY DEF Init, PersistenceInit, RowInv
<1>3. IInv /\ RowInv /\ [Next]_vars => RowInv'
  BY RowStep DEF IInv
<1>4. IInv /\ RowInv /\ [Next]_vars => [States!Next]_<<status, changes, tunnelSecrets, acceptedSecrets>>
  BY StatesStep DEF IInv, Still
<1> QED
  BY <1>1, <1>2, <1>3, <1>4, SpecIInv, PTL
     DEF Spec, ChangesFollowStates, States!Spec, States!stateVars
=============================================================================
