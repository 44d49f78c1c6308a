--------------------------- MODULE CredentialProofs ---------------------------
(***************************************************************************)
(* Proofs about the credentials of Lifecycle, for every number of          *)
(* requests, appliances and groups: a request that changed an appliance    *)
(* was entitled to (from every stored hash back to the request that drew   *)
(* the credential, and from there to the client it was answered to), and   *)
(* the credentials of a pending appliance are there until they expire.     *)
(***************************************************************************)
EXTENDS LifecycleProofs

\* Request q is one to appliance a, and will stay so.
Placed(q, a) == target[q] = a /\ pc[q] \notin {"idle", "createAppliance"}

\* Every hash in the database is that of a credential drawn by a request to
\* the very appliance it is stored for.
ProvenanceInv ==
    \A a \in Appliances :
        /\ claimTokens[a] # NULL => \E q \in Requests :
                /\ Placed(q, a)
                /\ claimTokens[a].tokenHash = Hash(GenerateClaimToken(q))
        /\ exchangeCodes[a] # NULL => \E q \in Requests :
                /\ Placed(q, a)
                /\ exchangeCodes[a].codeHash = Hash(GenerateExchangeCode(q))
        /\ secretHash[a] # NULL => \E q \in Requests :
                /\ Placed(q, a)
                /\ secretHash[a] = Hash(GenerateApplianceSecret(q))

\* A credential that is no use token was answered to somebody before.
PresentedInv ==
    \A r \in Requests :
        op[r] \in Writers \ OwnerOps =>
            \E q \in before[r] : OK(q) /\ op[q] # "Revoke" /\ bearer[r] = Answer(q)

\* Only a row that was inserted has an owner.
OwnedInv == \A a \in Appliances : status[a] = "absent" => groupId[a] = NULL

\* The calls after the comparison of the credential, or of the group.
Checked ==
    {"checkPin", "getAppliance", "checkActive", "markClaimed", "deleteClaimToken",
     "deleteExchangeCode", "setStatusRevoked", "deleteSecret", "clearSecretHash",
     "respond", "200"} \cup WriteSteps

ByOwner(r) ==
    /\ op[r] \in {"Revoke", "RotateSecret"}
    /\ groupId[target[r]] \in Groups
    /\ bearer[r] = UseToken(groupId[target[r]])

ByAnswer(r) ==
    \E q \in before[r] :
        /\ OK(q) /\ target[q] = target[r] /\ bearer[r] = Answer(q)
        /\ \/ op[r] = "Claim" /\ op[q] = "Register"
           \/ op[r] = "EnrollRedeem" /\ op[q] = "Enroll"
           \/ op[r] = "RotateOwnSecret" /\ op[q] \in Issuers

\* ChangesAreEntitled from the moment the credential was compared.
EntitledInv ==
    \A r \in Requests :
        op[r] \in Writers /\ pc[r] \in Checked => ByOwner(r) \/ ByAnswer(r)

EntInv == ProvenanceInv /\ PresentedInv /\ OwnedInv /\ EntitledInv

-----------------------------------------------------------------------------
\* A credential tells its kind and who drew it.
LEMMA AnswerTells ==
    ASSUME NEW q \in Requests, NEW x \in Requests, op[q] \in Endpoints \ {"Revoke"}
    PROVE  /\ Answer(q) = GenerateClaimToken(x) => q = x /\ op[q] = "Register"
           /\ Answer(q) = GenerateExchangeCode(x) => q = x /\ op[q] = "Enroll"
           /\ Answer(q) = GenerateApplianceSecret(x) => q = x /\ op[q] \in Issuers
  BY DEF Answer, GenerateClaimToken, GenerateExchangeCode, GenerateApplianceSecret,
         Endpoints, Creators, Issuers, Claimers, Rotators

\* How a handler's step changes the tables that hold hashes and owners.
TableMoves(r) ==
    /\ \A a \in Appliances :
        \/ claimTokens'[a] = claimTokens[a]
        \/ /\ a = target[r] /\ claimTokens'[a] = NULL
           /\ pc[r] \in {"deleteExpiredToken", "deleteClaimToken"}
        \/ /\ a = target[r] /\ pc[r] = "saveClaimToken" /\ pc'[r] # "saveClaimToken"
           /\ claimTokens'[a].tokenHash = Hash(GenerateClaimToken(r))
    /\ \A a \in Appliances :
        \/ exchangeCodes'[a] = exchangeCodes[a]
        \/ /\ a = target[r] /\ exchangeCodes'[a] = NULL
           /\ pc[r] \in {"deleteExpiredCode", "deleteExchangeCode"}
        \/ /\ a = target[r] /\ pc[r] = "saveExchangeCode" /\ pc'[r] = "respond"
           /\ exchangeCodes'[a].codeHash = Hash(GenerateExchangeCode(r))
    /\ \/ \A a \in Appliances : secretHash'[a] \in {secretHash[a], NULL}
       \/ /\ pc[r] = "storeSecretHash"
          /\ \A a \in Appliances :
                \/ secretHash'[a] = secretHash[a]
                \/ a = target[r] /\ secretHash'[a] = Hash(GenerateApplianceSecret(r))
    /\ \A a \in Appliances :
        \/ groupId'[a] = groupId[a]
        \/ status[a] = "absent" /\ status'[a] = "pending"

LEMMA ServeTables ==
    ASSUME TypeInv, NEW r \in Requests, Serve(r) \/ Abort(r)
    PROVE  TableMoves(r)
<1> USE DEF TableMoves, TypeInv, TypeOK, PersistenceTypeOK, Shape, dbVars, applianceVars,
        tokenVars, CreatorSteps, At, Goto
<1>1. CASE InsertAppliance(r) \/ InsertCollides(r)
  BY <1>1 DEF InsertAppliance, InsertCollides, CreateAppliance, At
<1>2. CASE IssueClaimToken(r)
  BY <1>2 DEF IssueClaimToken, SaveClaimToken, At
<1>3. CASE IssueExchangeCode(r)
  BY <1>3 DEF IssueExchangeCode, SaveEnrollExchangeCode, At
<1>4. CASE CheckCredential(r)
  BY <1>4 DEF CheckCredential, GetClaimToken, DeleteExpiredToken, GetExchangeCode,
              DeleteExpiredCode, CheckPin, RequireOwningGroup, CheckSecretHash, CheckActive,
              IgnoringError, DeleteClaimToken, DeleteEnrollExchangeCode, At
<1>5. CASE StoreSecretHash(r)
  BY <1>5 DEF StoreSecretHash, SetApplianceSecretHash, At
<1>6. CASE GetAppliance(r) \/ CreateK8sSecret(r) \/ GetK8sSecret(r) \/ UpdateK8sSecret(r)
  BY <1>6 DEF GetAppliance, CreateK8sSecret, GetK8sSecret, UpdateK8sSecret, At
<1>7. CASE MarkClaimed(r) \/ DropClaimToken(r) \/ DropExchangeCode(r)
  BY <1>7 DEF MarkClaimed, DropClaimToken, DropExchangeCode, MarkApplianceClaimed,
              IgnoringError, DeleteClaimToken, DeleteEnrollExchangeCode, At
<1>8. CASE Withdraw(r)
  BY <1>8 DEF Withdraw, SetStatusRevoked, DeleteK8sSecret, ClearSecretHash,
              SetApplianceStatus, SetApplianceSecretHash, At
<1>9. CASE Respond(r) \/ Abort(r)
  BY <1>9 DEF Respond, Abort, At
<1> QED
  BY <1>1, <1>2, <1>3, <1>4, <1>5, <1>6, <1>7, <1>8, <1>9 DEF Serve, Create, Issue

\* How a handler gets past the comparison.
CheckFlow(r) ==
    op[r] \in Writers /\ pc'[r] \in Checked /\ pc[r] \notin Checked =>
        \/ /\ op[r] = "Claim" /\ claimTokens[target[r]] # NULL
           /\ claimTokens[target[r]].tokenHash = Hash(bearer[r])
        \/ /\ op[r] = "EnrollRedeem" /\ exchangeCodes[target[r]] # NULL
           /\ exchangeCodes[target[r]].codeHash = Hash(bearer[r])
        \/ op[r] = "RotateOwnSecret" /\ secretHash[target[r]] = Hash(bearer[r])
        \/ op[r] \in {"Revoke", "RotateSecret"} /\ Owns(r)

LEMMA ServeChecks ==
    ASSUME TypeInv, NEW r \in Requests, Serve(r) \/ Abort(r)
    PROVE  CheckFlow(r)
<1> USE DEF CheckFlow, Checked, TypeInv, TypeOK, Shape, At, Goto, WriteSteps
<1>1. CASE Create(r)
  BY <1>1 DEF Create, InsertAppliance, InsertCollides, IssueClaimToken, IssueExchangeCode,
              CreatorSteps, Creators, Writers, Issuers, Claimers, Rotators
<1>2. CASE GetClaimToken(r) \/ DeleteExpiredToken(r)
  BY <1>2 DEF GetClaimToken, DeleteExpiredToken, Matches
<1>3. CASE GetExchangeCode(r) \/ DeleteExpiredCode(r) \/ CheckPin(r)
  BY <1>3 DEF GetExchangeCode, DeleteExpiredCode, CheckPin, Matches
<1>4. CASE RequireOwningGroup(r) \/ CheckSecretHash(r) \/ CheckActive(r)
  BY <1>4 DEF RequireOwningGroup, CheckSecretHash, CheckActive, Matches
<1>5. CASE Issue(r)
  BY <1>5 DEF Issue, GetAppliance, CreateK8sSecret, GetK8sSecret, UpdateK8sSecret,
              StoreSecretHash, MarkClaimed, DropClaimToken, DropExchangeCode
<1>6. CASE Withdraw(r) \/ Respond(r) \/ Abort(r)
  BY <1>6 DEF Withdraw, SetStatusRevoked, DeleteK8sSecret, ClearSecretHash, Respond, Abort
<1> QED
  BY <1>1, <1>2, <1>3, <1>4, <1>5, <1>6 DEF Serve, CheckCredential

-----------------------------------------------------------------------------
LEMMA ProvenanceStep ==
    ASSUME TypeInv, ProvenanceInv, NEW r \in Requests, Serve(r) \/ Abort(r)
    PROVE  ProvenanceInv'
<1>1. Moves(r) /\ TableMoves(r)
  BY ServeMoves, ServeTables
<1>2. \A q \in Requests, a \in Appliances : Placed(q, a) => Placed(q, a)'
  <2>1. pc'[r] # "idle" /\ (pc[r] # "createAppliance" => pc'[r] # "createAppliance")
    BY DEF TypeInv, TypeOK, Serve, Create, CheckCredential, Issue, Withdraw, Respond, Abort, At, Goto,
           InsertAppliance, InsertCollides, IssueClaimToken, IssueExchangeCode,
           GetClaimToken, DeleteExpiredToken, GetExchangeCode, DeleteExpiredCode,
           CheckPin, RequireOwningGroup, CheckSecretHash, CheckActive, GetAppliance,
           CreateK8sSecret, GetK8sSecret, UpdateK8sSecret, StoreSecretHash, AfterSecretHash,
           MarkClaimed, DropClaimToken, DropExchangeCode, SetStatusRevoked,
           DeleteK8sSecret, ClearSecretHash
  <2> QED
    BY <1>1, <2>1 DEF Moves, TypeInv, TypeOK, Placed
<1>3. pc[r] \in {"saveClaimToken", "saveExchangeCode", "storeSecretHash"} =>
        \A a \in Appliances : a = target[r] => Placed(r, a)'
  BY <1>1, <1>2 DEF Placed
<1> SUFFICES ASSUME NEW a \in Appliances
    PROVE  /\ claimTokens'[a] # NULL => \E q \in Requests :
                /\ Placed(q, a)'
                /\ claimTokens'[a].tokenHash = Hash(GenerateClaimToken(q))
           /\ exchangeCodes'[a] # NULL => \E q \in Requests :
                /\ Placed(q, a)'
                /\ exchangeCodes'[a].codeHash = Hash(GenerateExchangeCode(q))
           /\ secretHash'[a] # NULL => \E q \in Requests :
                /\ Placed(q, a)'
                /\ secretHash'[a] = Hash(GenerateApplianceSecret(q))
  BY DEF ProvenanceInv
<1>4. ASSUME claimTokens'[a] # NULL
      PROVE  \E q \in Requests : /\ Placed(q, a)'
                                 /\ claimTokens'[a].tokenHash = Hash(GenerateClaimToken(q))
  BY <1>1, <1>2, <1>3, <1>4 DEF TableMoves, ProvenanceInv
<1>5. ASSUME exchangeCodes'[a] # NULL
      PROVE  \E q \in Requests : /\ Placed(q, a)'
                                 /\ exchangeCodes'[a].codeHash = Hash(GenerateExchangeCode(q))
  BY <1>1, <1>2, <1>3, <1>5 DEF TableMoves, ProvenanceInv
<1>6. ASSUME secretHash'[a] # NULL
      PROVE  \E q \in Requests : /\ Placed(q, a)'
                                 /\ secretHash'[a] = Hash(GenerateApplianceSecret(q))
  BY <1>1, <1>2, <1>3, <1>6 DEF TableMoves, ProvenanceInv
<1> QED
  BY <1>4, <1>5, <1>6

\* A request that has ended stays as it was answered.
LEMMA AnswersStand ==
    ASSUME TypeInv, NEW r \in Requests, Serve(r) \/ Abort(r),
           NEW q \in Requests, pc[q] \in Ended
    PROVE  /\ q # r /\ pc'[q] = pc[q] /\ op'[q] = op[q] /\ target'[q] = target[q]
           /\ OK(q)' = OK(q) /\ Answer(q)' = Answer(q)
<1>1. Moves(r)
  BY ServeMoves
<1>2. q # r
  BY <1>1 DEF Moves, Ended, InFlight, CreatorSteps, ClaimerSteps, RotatorSteps,
              WriteSteps, RevokeSteps
<1> QED
  BY <1>1, <1>2 DEF Moves, TypeInv, TypeOK, OK, Answer

LEMMA PresentedStep ==
    ASSUME TypeInv, PresentedInv, NEW r \in Requests, Serve(r) \/ Abort(r)
    PROVE  PresentedInv'
<1>1. Moves(r)
  BY ServeMoves
<1> SUFFICES ASSUME NEW u \in Requests, op'[u] \in Writers \ OwnerOps
             PROVE  \E q \in before'[u] : OK(q)' /\ op'[q] # "Revoke" /\ bearer'[u] = Answer(q)'
  BY DEF PresentedInv
<1>2. PICK q \in before[u] : OK(q) /\ op[q] # "Revoke" /\ bearer[u] = Answer(q)
  BY <1>1 DEF Moves, PresentedInv
<1>3. q \in Requests /\ pc[q] \in Ended
  BY DEF TypeInv, TypeOK, BeforeEnded
<1>4. OK(q)' /\ op'[q] = op[q] /\ Answer(q)' = Answer(q)
  BY <1>2, <1>3, AnswersStand
<1> QED
  BY <1>1, <1>2, <1>4 DEF Moves

LEMMA OwnedStep ==
    ASSUME TypeInv, OwnedInv, NEW r \in Requests, Serve(r) \/ Abort(r)
    PROVE  OwnedInv'
<1>1. TableMoves(r) /\ StatusMoves(r)
  BY ServeTables, ServeStatus
<1>2. \A a \in Appliances : status'[a] = "absent" => status[a] = "absent"
  BY <1>1 DEF StatusMoves, TypeInv, TypeOK, PersistenceTypeOK
<1> QED
  BY <1>1, <1>2 DEF TableMoves, OwnedInv

LEMMA EntitledStep ==
    ASSUME TypeInv, EntInv, NEW r \in Requests, Serve(r) \/ Abort(r)
    PROVE  EntitledInv'
<1>1. Moves(r) /\ TableMoves(r) /\ CheckFlow(r)
  BY ServeMoves, ServeTables, ServeChecks
<1> SUFFICES ASSUME NEW u \in Requests, op'[u] \in Writers, pc'[u] \in Checked
             PROVE  ByOwner(u)' \/ ByAnswer(u)'
  BY DEF EntitledInv
<1>2. /\ op'[u] = op[u] /\ bearer'[u] = bearer[u] /\ before'[u] = before[u]
      /\ target'[u] = target[u] /\ target[u] \in Appliances
  BY <1>1 DEF Moves, TypeInv, Shape, CreatorSteps, Creators, Writers, Issuers, Claimers, Rotators
<1>3. ByOwner(u) \/ ByAnswer(u)
  <2>1. CASE pc[u] \in Checked
    BY <1>2, <2>1 DEF EntInv, EntitledInv
  <2>2. CASE pc[u] \notin Checked
    <3>1. u = r
      BY <1>1, <2>2 DEF Moves, TypeInv, TypeOK
    <3> DEFINE a == target[r]
    <3>2. CASE op[r] \in {"Revoke", "RotateSecret"} /\ Owns(r)
      <4>1. bearer[r] \in UseTokens
        BY <3>2 DEF TypeInv, Shape, OwnerOps
      <4>2. PICK g \in Groups : bearer[r] = UseToken(g)
        BY <4>1 DEF UseTokens
      <4> QED
        BY <3>1, <3>2, <4>2 DEF Owns, GroupOf, UseToken, ByOwner
    <3>3. ASSUME op[r] \in {"Claim", "EnrollRedeem", "RotateOwnSecret"}
          PROVE  \E q \in before[r] :
                    /\ q \in Requests /\ OK(q) /\ bearer[r] = Answer(q)
                    /\ op[q] \in Endpoints \ {"Revoke"}
      <4>1. PICK q \in before[r] : OK(q) /\ op[q] # "Revoke" /\ bearer[r] = Answer(q)
        BY <3>3 DEF EntInv, PresentedInv, Writers, Issuers, Claimers, Rotators, OwnerOps, Creators
      <4>2. q \in Requests /\ op[q] \in Endpoints
        BY <4>1 DEF TypeInv, TypeOK, Shape, OK
      <4> QED
        BY <4>1, <4>2
    <3>4. CASE op[r] = "Claim" /\ claimTokens[a] # NULL /\ claimTokens[a].tokenHash = Hash(bearer[r])
      <4>1. PICK q \in before[r] : /\ q \in Requests /\ OK(q) /\ bearer[r] = Answer(q)
                                   /\ op[q] \in Endpoints \ {"Revoke"}
        BY <3>3, <3>4
      <4>2. PICK x \in Requests : Placed(x, a) /\ claimTokens[a].tokenHash = Hash(GenerateClaimToken(x))
        BY <1>2, <3>1, <3>4 DEF EntInv, ProvenanceInv
      <4>3. bearer[r] = GenerateClaimToken(x)
        BY <3>4, <4>2 DEF Hash
      <4>4. q = x /\ op[q] = "Register"
        BY <4>1, <4>3, AnswerTells
      <4> QED
        BY <3>1, <3>4, <4>1, <4>2, <4>4 DEF ByAnswer, Placed
    <3>5. CASE /\ op[r] = "EnrollRedeem" /\ exchangeCodes[a] # NULL
               /\ exchangeCodes[a].codeHash = Hash(bearer[r])
      <4>1. PICK q \in before[r] : /\ q \in Requests /\ OK(q) /\ bearer[r] = Answer(q)
                                   /\ op[q] \in Endpoints \ {"Revoke"}
        BY <3>3, <3>5
      <4>2. PICK x \in Requests :
                Placed(x, a) /\ exchangeCodes[a].codeHash = Hash(GenerateExchangeCode(x))
        BY <1>2, <3>1, <3>5 DEF EntInv, ProvenanceInv
      <4>3. bearer[r] = GenerateExchangeCode(x)
        BY <3>5, <4>2 DEF Hash
      <4>4. q = x /\ op[q] = "Enroll"
        BY <4>1, <4>3, AnswerTells
      <4> QED
        BY <3>1, <3>5, <4>1, <4>2, <4>4 DEF ByAnswer, Placed
    <3>6. CASE op[r] = "RotateOwnSecret" /\ secretHash[a] = Hash(bearer[r])
      <4>1. PICK q \in before[r] : /\ q \in Requests /\ OK(q) /\ bearer[r] = Answer(q)
                                   /\ op[q] \in Endpoints \ {"Revoke"}
        BY <3>3, <3>6
      <4>2. bearer[r] \in Credentials
        BY <4>1, CredentialFacts DEF Answer, Endpoints, Creators, Issuers
      <4>3. PICK x \in Requests : Placed(x, a) /\ secretHash[a] = Hash(GenerateApplianceSecret(x))
        BY <1>2, <3>1, <3>6, <4>2, CredentialFacts DEF EntInv, ProvenanceInv
      <4>4. bearer[r] = GenerateApplianceSecret(x)
        BY <3>6, <4>3 DEF Hash
      <4>5. q = x /\ op[q] \in Issuers
        BY <4>1, <4>4, AnswerTells
      <4> QED
        BY <3>1, <3>6, <4>1, <4>3, <4>5 DEF ByAnswer, Placed
    <3> QED
      BY <1>1, <1>2, <2>2, <3>1, <3>2, <3>4, <3>5, <3>6 DEF CheckFlow
  <2> QED
    BY <2>1, <2>2
<1>4. CASE ByOwner(u)
  <2>1. groupId'[target[u]] = groupId[target[u]]
    BY <1>1, <1>2, <1>4, NullAssumption DEF TableMoves, EntInv, OwnedInv, ByOwner
  <2> QED
    BY <1>2, <1>4, <2>1 DEF ByOwner
<1>5. CASE ByAnswer(u)
  <2>1. PICK q \in before[u] :
            /\ OK(q) /\ target[q] = target[u] /\ bearer[u] = Answer(q)
            /\ \/ op[u] = "Claim" /\ op[q] = "Register"
               \/ op[u] = "EnrollRedeem" /\ op[q] = "Enroll"
               \/ op[u] = "RotateOwnSecret" /\ op[q] \in Issuers
    BY <1>5 DEF ByAnswer
  <2>2. q \in Requests /\ pc[q] \in Ended
    BY DEF TypeInv, TypeOK, BeforeEnded
  <2>3. OK(q)' /\ op'[q] = op[q] /\ target'[q] = target[q] /\ Answer(q)' = Answer(q)
    BY <2>1, <2>2, AnswersStand
  <2> QED
    BY <1>2, <2>1, <2>3 DEF ByAnswer
<1> QED
  BY <1>3, <1>4, <1>5

\* A request that begins changes no table and no request but itself, and what
\* it presents was answered by a request that has ended.
LEMMA BeginEntitled ==
    ASSUME TypeInv, EntInv, NEW r \in Requests, NEW o \in Ops, NEW b \in Presentable(o),
           NEW a \in Appliances \cup {NULL}, Begin(r, o, a, b)
    PROVE  EntInv'
<1>1. /\ pc[r] = "idle" /\ pc' = [pc EXCEPT ![r] = FirstCall(o)]
      /\ op' = [op EXCEPT ![r] = o] /\ target' = [target EXCEPT ![r] = a]
      /\ bearer' = [bearer EXCEPT ![r] = b]
      /\ before' = [before EXCEPT ![r] = {q \in Requests : pc[q] \in Ended}]
      /\ UNCHANGED <<status, groupId, secretHash, claimTokens, exchangeCodes>>
  BY DEF Begin, At, Goto, dbVars, applianceVars, tokenVars
<1>2. \A q \in Requests : pc[q] \in Ended =>
        /\ q # r /\ op'[q] = op[q] /\ target'[q] = target[q]
        /\ OK(q)' = OK(q) /\ Answer(q)' = Answer(q)
  BY <1>1 DEF Ended, OK, Answer, TypeInv, TypeOK
<1>3. ProvenanceInv'
  <2>1. \A q \in Requests, c \in Appliances : Placed(q, c) => Placed(q, c)'
    BY <1>1 DEF Placed, TypeInv, TypeOK
  <2> QED
    BY <1>1, <2>1 DEF EntInv, ProvenanceInv
<1>4. PresentedInv'
  <2> SUFFICES ASSUME NEW u \in Requests, op'[u] \in Writers \ OwnerOps
               PROVE  \E q \in before'[u] : OK(q)' /\ op'[q] # "Revoke" /\ bearer'[u] = Answer(q)'
    BY DEF PresentedInv
  <2>1. CASE u = r
    <3>1. op'[u] = o /\ bearer'[u] = b /\ before'[u] = {q \in Requests : pc[q] \in Ended}
      BY <1>1, <2>1 DEF TypeInv, TypeOK
    <3>2. PICK q \in Requests : OK(q) /\ op[q] # "Revoke" /\ b = Answer(q)
      BY <3>1 DEF Presentable
    <3> QED
      BY <1>2, <3>1, <3>2 DEF OK, Ended
  <2>2. CASE u # r
    <3>1. op'[u] = op[u] /\ bearer'[u] = bearer[u] /\ before'[u] = before[u]
      BY <1>1, <2>2 DEF TypeInv, TypeOK
    <3>2. PICK q \in before[u] : OK(q) /\ op[q] # "Revoke" /\ bearer[u] = Answer(q)
      BY <3>1 DEF EntInv, PresentedInv
    <3>3. q \in Requests /\ pc[q] \in Ended
      BY DEF TypeInv, TypeOK, BeforeEnded
    <3> QED
      BY <1>2, <3>1, <3>2, <3>3
  <2> QED
    BY <2>1, <2>2
<1>5. OwnedInv'
  BY <1>1 DEF EntInv, OwnedInv
<1>6. EntitledInv'
  <2> SUFFICES ASSUME NEW u \in Requests, op'[u] \in Writers, pc'[u] \in Checked
               PROVE  ByOwner(u)' \/ ByAnswer(u)'
    BY DEF EntitledInv
  <2>1. u # r
    BY <1>1 DEF FirstCall, Checked, WriteSteps, TypeInv, TypeOK
  <2>2. /\ op'[u] = op[u] /\ bearer'[u] = bearer[u] /\ before'[u] = before[u]
        /\ target'[u] = target[u] /\ pc'[u] = pc[u]
    BY <1>1, <2>1 DEF TypeInv, TypeOK
  <2>3. CASE ByOwner(u)
    BY <1>1, <2>2, <2>3 DEF ByOwner
  <2>4. CASE ByAnswer(u)
    BY <1>2, <2>2, <2>4 DEF ByAnswer, TypeInv, TypeOK, BeforeEnded
  <2> QED
    BY <2>2, <2>3, <2>4 DEF EntInv, EntitledInv
<1> QED
  BY <1>3, <1>4, <1>5, <1>6 DEF EntInv

LEMMA SpecEntInv == Spec => []EntInv
<1>1. Init => EntInv
  <2> SUFFICES ASSUME Init PROVE EntInv
    OBVIOUS
  <2> USE DEF Init, PersistenceInit
  <2>1. ProvenanceInv /\ OwnedInv
    BY DEF ProvenanceInv, OwnedInv
  <2>2. PresentedInv /\ EntitledInv
    BY LifecycleAssumption DEF PresentedInv, EntitledInv, Endpoints, Writers
  <2> QED
    BY <2>1, <2>2 DEF EntInv
<1>2. TypeInv /\ EntInv /\ [Next]_vars => EntInv'
  <2> SUFFICES ASSUME TypeInv, EntInv, [Next]_vars PROVE EntInv'
    OBVIOUS
  <2>1. ASSUME NEW r \in Requests, NEW o \in Ops, NEW b \in Presentable(o),
               NEW a \in Appliances \cup {NULL}, Begin(r, o, a, b)
        PROVE  EntInv'
    BY <2>1, BeginEntitled
  <2>2. ASSUME NEW r \in Requests, Serve(r) \/ Abort(r)
        PROVE  EntInv'
    BY <2>2, ProvenanceStep, PresentedStep, OwnedStep, EntitledStep DEF EntInv
  <2>3. CASE Tick \/ UNCHANGED vars
    BY <2>3 DEF Tick, vars, requestVars, dbVars, applianceVars, tokenVars, EntInv, ProvenanceInv,
                Placed, PresentedInv, OwnedInv, EntitledInv, ByOwner, ByAnswer, OK, Answer
  <2> QED
    BY <2>1, <2>2, <2>3 DEF Next
<1>3. IInv => TypeInv
  BY DEF IInv
<1> QED
  BY <1>1, <1>2, <1>3, SpecIInv, PTL DEF Spec

-----------------------------------------------------------------------------
\* An appliance keeps its owner.
LEMMA OwnerStays ==
    ASSUME TypeInv, OwnedInv, [Next]_vars, NEW a \in Appliances, groupId[a] \in Groups
    PROVE  groupId'[a] = groupId[a]
<1>1. ASSUME NEW r \in Requests, NEW o \in Ops, NEW b \in Presentable(o),
             NEW x \in Appliances \cup {NULL}, Begin(r, o, x, b)
      PROVE  groupId'[a] = groupId[a]
  BY <1>1 DEF Begin, dbVars, applianceVars
<1>2. ASSUME NEW r \in Requests, Serve(r) \/ Abort(r)
      PROVE  groupId'[a] = groupId[a]
  <2>1. TableMoves(r)
    BY <1>2, ServeTables
  <2> QED
    BY <2>1, NullAssumption DEF TableMoves, OwnedInv
<1>3. CASE Tick \/ UNCHANGED vars
  BY <1>3 DEF Tick, vars, dbVars, applianceVars
<1> QED
  BY <1>1, <1>2, <1>3 DEF Next

\* An appliance somebody was answered about has an owner.
ExistingInv ==
    \A r \in Requests :
        /\ op[r] \in Creators /\ pc[r] \in {"saveClaimToken", "saveExchangeCode", "respond", "200"}
            => target[r] \in Appliances /\ groupId[target[r]] \in Groups
        /\ op[r] \in Issuers /\ pc[r] = "200" => groupId[target[r]] \in Groups

\* How a creator gets to have a row, and an issuer to an answer.
ExistingFlow(r) ==
    /\ op[r] \in Creators /\ pc'[r] \in {"saveClaimToken", "saveExchangeCode", "respond", "200"}
        => \/ /\ pc[r] \in {"saveClaimToken", "saveExchangeCode", "respond"}
              /\ target' = target
           \/ target'[r] \in Appliances /\ groupId'[target'[r]] \in Groups
    /\ op[r] \in Issuers /\ pc'[r] = "200" => pc[r] = "respond" /\ target' = target

LEMMA ServeExisting ==
    ASSUME TypeInv, NEW r \in Requests, Serve(r) \/ Abort(r)
    PROVE  ExistingFlow(r)
<1> USE DEF ExistingFlow, TypeInv, TypeOK, Shape, At, Goto, KeepRequest, CreatorSteps,
        Creators, Claimers, Rotators, Issuers
<1>1. CASE InsertAppliance(r)
  <2>1. PICK a \in Appliances : target' = [target EXCEPT ![r] = a]
                                /\ groupId' = [groupId EXCEPT ![a] = GroupOf(bearer[r])]
    BY <1>1 DEF InsertAppliance, CreateAppliance
  <2>2. op[r] \in Creators
    BY <1>1 DEF InsertAppliance
  <2>3. GroupOf(bearer[r]) \in Groups
    BY <2>2, CredentialFacts DEF OwnerOps
  <2>4. target'[r] = a /\ groupId'[a] = GroupOf(bearer[r])
    BY <2>1 DEF PersistenceTypeOK
  <2> QED
    BY <2>2, <2>3, <2>4
<1>2. CASE InsertCollides(r) \/ IssueClaimToken(r) \/ IssueExchangeCode(r)
  BY <1>2 DEF InsertCollides, IssueClaimToken, IssueExchangeCode
<1>3. CASE CheckCredential(r)
  BY <1>3 DEF CheckCredential, GetClaimToken, DeleteExpiredToken, GetExchangeCode,
              DeleteExpiredCode, CheckPin, RequireOwningGroup, CheckSecretHash, CheckActive
<1>4. CASE GetAppliance(r) \/ CreateK8sSecret(r) \/ GetK8sSecret(r) \/ UpdateK8sSecret(r)
  BY <1>4 DEF GetAppliance, CreateK8sSecret, GetK8sSecret, UpdateK8sSecret, WriteSteps
<1>5. CASE StoreSecretHash(r) \/ MarkClaimed(r)
  BY <1>5 DEF StoreSecretHash, MarkClaimed, AfterSecretHash, WriteSteps
<1>6. CASE DropClaimToken(r) \/ DropExchangeCode(r) \/ Withdraw(r)
  BY <1>6 DEF DropClaimToken, DropExchangeCode, Withdraw, SetStatusRevoked, DeleteK8sSecret,
              ClearSecretHash
<1>7. CASE Respond(r) \/ Abort(r)
  BY <1>7 DEF Respond, Abort
<1> QED
  BY <1>1, <1>2, <1>3, <1>4, <1>5, <1>6, <1>7 DEF Serve, Create, Issue

LEMMA ExistingStep ==
    ASSUME TypeInv, EntInv, ExistingInv, [Next]_vars
    PROVE  ExistingInv'
<1>1. \A a \in Appliances : groupId[a] \in Groups => groupId'[a] \in Groups
  BY OwnerStays DEF EntInv
<1>2. \A r \in Requests : op[r] \in Issuers => target[r] \in Appliances
  BY DEF TypeInv, Shape, Writers
<1>3. ASSUME NEW r \in Requests, NEW o \in Ops, NEW b \in Presentable(o),
             NEW x \in Appliances \cup {NULL}, Begin(r, o, x, b)
      PROVE  ExistingInv'
  <2>1. pc'[r] \notin {"saveClaimToken", "saveExchangeCode", "respond", "200"}
    BY <1>3 DEF Begin, Goto, FirstCall, TypeInv, TypeOK
  <2>2. \A q \in Requests : q # r => UNCHANGED <<pc[q], op[q], target[q]>>
    BY <1>3 DEF Begin, Goto
  <2>3. UNCHANGED <<Creators, Issuers>>
    BY DEF Creators, Issuers, Claimers, Rotators
  <2> QED
    BY <1>1, <1>2, <2>1, <2>2, <2>3 DEF ExistingInv
<1>4. ASSUME NEW r \in Requests, Serve(r) \/ Abort(r) PROVE ExistingInv'
  <2>1. Moves(r) /\ ExistingFlow(r)
    BY <1>4, ServeMoves, ServeExisting
  <2>2. op[r] \in Issuers /\ pc[r] = "respond" => groupId[target[r]] \in Groups
    <3> SUFFICES ASSUME op[r] \in Issuers, pc[r] = "respond" PROVE groupId[target[r]] \in Groups
      OBVIOUS
    <3>1. ByOwner(r) \/ ByAnswer(r)
      BY DEF EntInv, EntitledInv, Writers, Checked
    <3>2. CASE ByOwner(r)
      BY <3>2 DEF ByOwner
    <3>3. CASE ByAnswer(r)
      <4>1. PICK q \in before[r] : /\ OK(q) /\ target[q] = target[r]
                                   /\ op[q] \in Creators \cup Issuers
        BY <3>3 DEF ByAnswer, Creators
      <4> QED
        BY <4>1 DEF ExistingInv, OK, TypeInv, TypeOK
    <3> QED
      BY <3>1, <3>2, <3>3
  <2>3. \A q \in Requests : q # r => UNCHANGED <<pc[q], op[q], target[q]>>
    BY <2>1 DEF Moves, TypeInv, TypeOK
  <2>4. op'[r] = op[r] /\ UNCHANGED <<Creators, Issuers>>
    BY <2>1 DEF Moves, Creators, Issuers, Claimers, Rotators
  <2>5. op[r] \in Creators /\ pc'[r] \in {"saveClaimToken", "saveExchangeCode", "respond", "200"}
            => target'[r] \in Appliances /\ groupId'[target'[r]] \in Groups
    BY <1>1, <2>1 DEF ExistingFlow, ExistingInv
  <2>6. op[r] \in Issuers /\ pc'[r] = "200" => groupId'[target'[r]] \in Groups
    BY <1>1, <1>2, <2>1, <2>2 DEF ExistingFlow
  <2> SUFFICES ASSUME NEW q \in Requests
      PROVE  /\ op'[q] \in Creators
                /\ pc'[q] \in {"saveClaimToken", "saveExchangeCode", "respond", "200"}
                    => target'[q] \in Appliances /\ groupId'[target'[q]] \in Groups
             /\ op'[q] \in Issuers /\ pc'[q] = "200" => groupId'[target'[q]] \in Groups
    BY <2>4 DEF ExistingInv
  <2>7. CASE q = r
    BY <2>4, <2>5, <2>6, <2>7
  <2>8. CASE q # r
    BY <1>1, <1>2, <2>3, <2>8 DEF ExistingInv
  <2> QED
    BY <2>7, <2>8
<1>5. CASE Tick \/ UNCHANGED vars
  BY <1>5 DEF Tick, vars, requestVars, dbVars, applianceVars, ExistingInv, Creators, Issuers,
              Claimers, Rotators
<1> QED
  BY <1>3, <1>4, <1>5 DEF Next

LEMMA SpecExisting == Spec => []ExistingInv
<1>1. Init => ExistingInv
  BY DEF Init, ExistingInv
<1>2. IInv => TypeInv
  BY DEF IInv
<1>3. TypeInv /\ EntInv /\ ExistingInv /\ [Next]_vars => ExistingInv'
  BY ExistingStep
<1> QED
  BY <1>1, <1>2, <1>3, SpecIInv, SpecEntInv, PTL DEF Spec

\* Whoever changed an appliance presented its claim token, its exchange code,
\* one of its secrets or its owner's use token, for any number of tenants.
THEOREM ChangesEntitled == Spec => []ChangesAreEntitled
<1>1. EntInv => ChangesAreEntitled
  BY DEF EntInv, EntitledInv, ChangesAreEntitled, ByOwner, ByAnswer, Checked, OK
<1> QED
  BY SpecEntInv, <1>1, PTL

-----------------------------------------------------------------------------
\* Requests between their INSERT and the last row they still insert.
Inserting(c) == pc[c] \in {"saveClaimToken", "saveExchangeCode"}

\* An appliance has one creator, whose rows are not there before it has
\* inserted them; and a row found to be expired stays so, or goes.
PendingInv ==
    /\ \A a \in Appliances :
        status[a] = "absent" => claimTokens[a] = NULL /\ exchangeCodes[a] = NULL
    /\ \A c \in Requests :
        Inserting(c) =>
            /\ target[c] \in Appliances /\ status[target[c]] # "absent"
            /\ exchangeCodes[target[c]] = NULL
            /\ pc[c] = "saveClaimToken" => claimTokens[target[c]] = NULL
    /\ \A c, d \in Requests :
        Inserting(c) /\ Inserting(d) /\ target[c] = target[d] => c = d
    /\ \A r \in Requests :
        pc[r] = "deleteExpiredToken" =>
            /\ status[target[r]] # "absent"
            /\ claimTokens[target[r]] = NULL \/ Expired(claimTokens[target[r]])
            /\ \A c \in Requests : pc[c] = "saveClaimToken" => target[c] # target[r]
    /\ \A r \in Requests :
        pc[r] = "deleteExpiredCode" =>
            /\ status[target[r]] # "absent"
            /\ exchangeCodes[target[r]] = NULL \/ Expired(exchangeCodes[target[r]])
            /\ \A c \in Requests : Inserting(c) => target[c] # target[r]

\* How a handler gets to the calls that insert, or delete, a credential.
RowFlow(r) ==
    /\ pc'[r] = "saveClaimToken" =>
        /\ pc[r] = "createAppliance"
        /\ \E a \in Appliances :
            status[a] = "absent" /\ status'[a] # "absent" /\ target' = [target EXCEPT ![r] = a]
    /\ pc'[r] = "saveExchangeCode" => pc[r] = "saveClaimToken"
    /\ pc[r] = "createAppliance" => UNCHANGED tokenVars
    /\ pc'[r] = "deleteExpiredToken" =>
        UNCHANGED tokenVars /\ op[r] = "Claim" /\ Expired(claimTokens[target[r]])
    /\ pc'[r] = "deleteExpiredCode" =>
        UNCHANGED tokenVars /\ op[r] = "EnrollRedeem" /\ Expired(exchangeCodes[target[r]])
    /\ UNCHANGED now

LEMMA ServeRows ==
    ASSUME TypeInv, NEW r \in Requests, Serve(r) \/ Abort(r)
    PROVE  RowFlow(r)
<1> USE DEF RowFlow, TypeInv, TypeOK, PersistenceTypeOK, Shape, At, Goto, KeepRequest,
        dbVars, tokenVars
<1>1. CASE InsertAppliance(r) \/ InsertCollides(r)
  BY <1>1 DEF InsertAppliance, InsertCollides, CreateAppliance
<1>2. CASE IssueClaimToken(r) \/ IssueExchangeCode(r)
  BY <1>2 DEF IssueClaimToken, IssueExchangeCode
<1>3. CASE CheckCredential(r)
  BY <1>3 DEF CheckCredential, GetClaimToken, DeleteExpiredToken, GetExchangeCode,
              DeleteExpiredCode, CheckPin, RequireOwningGroup, CheckSecretHash, CheckActive
<1>4. CASE Issue(r)
  BY <1>4 DEF Issue, GetAppliance, CreateK8sSecret, GetK8sSecret, UpdateK8sSecret,
              StoreSecretHash, AfterSecretHash, MarkClaimed, DropClaimToken, DropExchangeCode
<1>5. CASE Withdraw(r) \/ Respond(r) \/ Abort(r)
  BY <1>5 DEF Withdraw, SetStatusRevoked, DeleteK8sSecret, ClearSecretHash, Respond, Abort
<1> QED
  BY <1>1, <1>2, <1>3, <1>4, <1>5 DEF Serve, Create

LEMMA PendingServe ==
    ASSUME TypeInv, PendingInv, NEW r \in Requests, Serve(r) \/ Abort(r)
    PROVE  PendingInv'
<1>1. Moves(r) /\ TableMoves(r) /\ RowFlow(r) /\ StatusMoves(r)
  BY ServeMoves, ServeTables, ServeRows, ServeStatus
<1>2. \A a \in Appliances : status'[a] = "absent" => status[a] = "absent"
  BY <1>1 DEF StatusMoves, TypeInv, TypeOK, PersistenceTypeOK
<1>3. \A q \in Requests :
        /\ q # r => pc'[q] = pc[q] /\ target'[q] = target[q]
        /\ pc[q] # "createAppliance" => target'[q] = target[q]
  BY <1>1 DEF Moves, TypeInv, TypeOK
<1>4. \A q \in Requests :
        op[q] \in Writers => target[q] \in Appliances /\ target'[q] = target[q]
  BY <1>3 DEF TypeInv, Shape, CreatorSteps, Creators, Writers, Issuers, Claimers, Rotators
<1>5. /\ \A a \in Appliances :
            claimTokens'[a] \in {claimTokens[a], NULL} \/ (pc[r] = "saveClaimToken" /\ a = target[r])
      /\ \A a \in Appliances :
            \/ exchangeCodes'[a] \in {exchangeCodes[a], NULL}
            \/ pc[r] = "saveExchangeCode" /\ pc'[r] = "respond" /\ a = target[r]
  BY <1>1 DEF TableMoves
<1>6. ASSUME NEW a \in Appliances, status'[a] = "absent"
      PROVE  claimTokens'[a] = NULL /\ exchangeCodes'[a] = NULL
  BY <1>2, <1>5, <1>6 DEF PendingInv, Inserting
<1>7. ASSUME NEW c \in Requests, Inserting(c)'
      PROVE  /\ target'[c] \in Appliances /\ status'[target'[c]] # "absent"
             /\ exchangeCodes'[target'[c]] = NULL
             /\ pc'[c] = "saveClaimToken" => claimTokens'[target'[c]] = NULL
  <2>1. CASE c # r
    <3>1. Inserting(c) /\ target'[c] = target[c] /\ pc'[c] = pc[c]
      BY <1>3, <1>7, <2>1 DEF Inserting
    <3>2. Inserting(r) => target[r] # target[c]
      BY <2>1, <3>1 DEF PendingInv
    <3> QED
      BY <1>2, <1>5, <3>1, <3>2 DEF PendingInv, Inserting
  <2>2. CASE c = r /\ pc'[r] = "saveClaimToken"
    BY <1>1, <2>2 DEF RowFlow, PendingInv, TypeInv, TypeOK, tokenVars
  <2>3. CASE c = r /\ pc'[r] = "saveExchangeCode"
    <3>1. pc[r] = "saveClaimToken" /\ target'[r] = target[r]
      BY <1>1, <1>3, <2>3 DEF RowFlow
    <3> QED
      BY <1>2, <1>5, <2>3, <3>1 DEF PendingInv, Inserting
  <2> QED
    BY <1>7, <2>1, <2>2, <2>3 DEF Inserting
<1>8. ASSUME NEW c \in Requests, NEW d \in Requests,
             Inserting(c)', Inserting(d)', target'[c] = target'[d]
      PROVE  c = d
  <2>1. ASSUME NEW x \in Requests, NEW y \in Requests, Inserting(x)', Inserting(y)',
               target'[x] = target'[y], y # r
        PROVE  x = y
    <3>1. Inserting(y) /\ target'[y] = target[y] /\ status[target[y]] # "absent"
      BY <1>3, <2>1 DEF Inserting, PendingInv
    <3>2. Inserting(x) /\ target'[x] = target[x]
      <4>1. CASE x # r
        BY <1>3, <2>1, <4>1 DEF Inserting
      <4>2. CASE x = r
        BY <1>1, <1>3, <2>1, <3>1, <4>2 DEF Inserting, RowFlow, TypeInv, TypeOK
      <4> QED
        BY <4>1, <4>2
    <3> QED
      BY <2>1, <3>1, <3>2 DEF PendingInv
  <2> QED
    BY <1>8, <2>1
<1>9. ASSUME NEW q \in Requests, pc'[q] = "deleteExpiredToken"
      PROVE  /\ status'[target'[q]] # "absent"
             /\ claimTokens'[target'[q]] = NULL \/ Expired(claimTokens[target[q]])'
             /\ \A c \in Requests : pc'[c] = "saveClaimToken" => target'[c] # target'[q]
  <2>1. op[q] = "Claim" /\ target[q] \in Appliances /\ target'[q] = target[q]
    <3>1. op[q] = "Claim"
      BY <1>1, <1>3, <1>9 DEF RowFlow, TypeInv, Shape
    <3> QED
      BY <1>4, <3>1 DEF Writers, Issuers, Claimers
  <2>2. /\ status[target[q]] # "absent"
        /\ claimTokens[target[q]] = NULL \/ Expired(claimTokens[target[q]])
        /\ \A c \in Requests : pc[c] = "saveClaimToken" => target[c] # target[q]
    <3>1. CASE q # r
      BY <1>3, <1>9, <3>1 DEF PendingInv
    <3>2. CASE q = r
      <4>1. Expired(claimTokens[target[q]]) /\ claimTokens[target[q]] # NULL
        BY <1>1, <1>9, <3>2 DEF RowFlow, Expired
      <4> QED
        BY <2>1, <4>1 DEF PendingInv, Inserting
    <3> QED
      BY <3>1, <3>2
  <2>3. status'[target'[q]] # "absent"
    BY <1>2, <2>1, <2>2
  <2>4. claimTokens'[target[q]] \in {claimTokens[target[q]], NULL}
    BY <1>5, <2>1, <2>2
  <2>5. claimTokens'[target'[q]] = NULL \/ Expired(claimTokens[target[q]])'
    BY <1>1, <2>1, <2>2, <2>4 DEF RowFlow, Expired
  <2>6. ASSUME NEW c \in Requests, pc'[c] = "saveClaimToken", target'[c] = target'[q]
        PROVE  FALSE
    <3>1. CASE c # r
      BY <1>3, <2>1, <2>2, <2>6, <3>1
    <3>2. CASE c = r
      BY <1>1, <2>1, <2>2, <2>6, <3>2 DEF RowFlow, TypeInv, TypeOK
    <3> QED
      BY <3>1, <3>2
  <2> QED
    BY <2>3, <2>5, <2>6
<1>10. ASSUME NEW q \in Requests, pc'[q] = "deleteExpiredCode"
       PROVE  /\ status'[target'[q]] # "absent"
              /\ exchangeCodes'[target'[q]] = NULL \/ Expired(exchangeCodes[target[q]])'
              /\ \A c \in Requests : Inserting(c)' => target'[c] # target'[q]
  <2>1. op[q] = "EnrollRedeem" /\ target[q] \in Appliances /\ target'[q] = target[q]
    <3>1. op[q] = "EnrollRedeem"
      BY <1>1, <1>3, <1>10 DEF RowFlow, TypeInv, Shape
    <3> QED
      BY <1>4, <3>1 DEF Writers, Issuers, Claimers
  <2>2. /\ status[target[q]] # "absent"
        /\ exchangeCodes[target[q]] = NULL \/ Expired(exchangeCodes[target[q]])
        /\ \A c \in Requests : Inserting(c) => target[c] # target[q]
    <3>1. CASE q # r
      BY <1>3, <1>10, <3>1 DEF PendingInv
    <3>2. CASE q = r
      <4>1. Expired(exchangeCodes[target[q]]) /\ exchangeCodes[target[q]] # NULL
        BY <1>1, <1>10, <3>2 DEF RowFlow, Expired
      <4> QED
        BY <2>1, <4>1 DEF PendingInv
    <3> QED
      BY <3>1, <3>2
  <2>3. status'[target'[q]] # "absent"
    BY <1>2, <2>1, <2>2
  <2>4. exchangeCodes'[target[q]] \in {exchangeCodes[target[q]], NULL}
    BY <1>5, <2>1, <2>2 DEF Inserting
  <2>5. exchangeCodes'[target'[q]] = NULL \/ Expired(exchangeCodes[target[q]])'
    BY <1>1, <2>1, <2>2, <2>4 DEF RowFlow, Expired
  <2>6. ASSUME NEW c \in Requests, Inserting(c)', target'[c] = target'[q]
        PROVE  FALSE
    <3>1. CASE c # r
      BY <1>3, <2>1, <2>2, <2>6, <3>1 DEF Inserting
    <3>2. CASE c = r /\ pc'[r] = "saveClaimToken"
      BY <1>1, <2>1, <2>2, <2>6, <3>2 DEF RowFlow, TypeInv, TypeOK
    <3>3. CASE c = r /\ pc'[r] = "saveExchangeCode"
      BY <1>1, <1>3, <2>1, <2>2, <2>6, <3>3 DEF RowFlow, Inserting
    <3> QED
      BY <2>6, <3>1, <3>2, <3>3 DEF Inserting
  <2> QED
    BY <2>3, <2>5, <2>6
<1> QED
  BY <1>6, <1>7, <1>8, <1>9, <1>10 DEF PendingInv

LEMMA PendingStep == TypeInv /\ PendingInv /\ [Next]_vars => PendingInv'
<1> SUFFICES ASSUME TypeInv, PendingInv, [Next]_vars PROVE PendingInv'
  OBVIOUS
<1>1. ASSUME NEW r \in Requests, NEW o \in Ops, NEW b \in Presentable(o),
             NEW a \in Appliances \cup {NULL}, Begin(r, o, a, b)
      PROVE  PendingInv'
  <2>1. /\ pc[r] = "idle" /\ pc' = [pc EXCEPT ![r] = FirstCall(o)]
        /\ target' = [target EXCEPT ![r] = a]
        /\ UNCHANGED <<now, status, claimTokens, exchangeCodes>>
    BY <1>1 DEF Begin, At, Goto, dbVars, applianceVars, tokenVars
  <2>2. pc'[r] \notin {"saveClaimToken", "saveExchangeCode", "deleteExpiredToken", "deleteExpiredCode"}
    BY <2>1 DEF FirstCall, TypeInv, TypeOK
  <2>3. \A q \in Requests : q # r => pc'[q] = pc[q] /\ target'[q] = target[q]
    BY <2>1 DEF TypeInv, TypeOK
  <2> QED
    BY <2>1, <2>2, <2>3 DEF PendingInv, Inserting, Expired
<1>2. ASSUME NEW r \in Requests, Serve(r) \/ Abort(r)
      PROVE  PendingInv'
  BY <1>2, PendingServe
<1>3. CASE Tick
  <2>1. \A row : row \in ClaimTokenRows \cup ExchangeCodeRows /\ Expired(row) => Expired(row)'
    BY <1>3 DEF Tick, Expired, ClaimTokenRows, ExchangeCodeRows, TypeInv, TypeOK, PersistenceTypeOK
  <2>2. \A r \in Requests :
            pc[r] \in {"deleteExpiredToken", "deleteExpiredCode"} => target[r] \in Appliances
    BY DEF TypeInv, Shape, Writers, Issuers, Claimers
  <2>3. UNCHANGED <<pc, target, status, claimTokens, exchangeCodes>>
    BY <1>3 DEF Tick, requestVars, dbVars, applianceVars, tokenVars
  <2>4. \A a \in Appliances :
            /\ claimTokens[a] \in ClaimTokenRows \cup {NULL}
            /\ exchangeCodes[a] \in ExchangeCodeRows \cup {NULL}
    BY DEF TypeInv, TypeOK, PersistenceTypeOK
  <2>5. \A a \in Appliances :
            /\ Expired(claimTokens[a]) => Expired(claimTokens[a])'
            /\ Expired(exchangeCodes[a]) => Expired(exchangeCodes[a])'
    BY <1>3, <2>3, <2>4
       DEF Tick, Expired, ClaimTokenRows, ExchangeCodeRows, TypeInv, TypeOK, PersistenceTypeOK
  <2> QED
    BY <2>2, <2>3, <2>5 DEF PendingInv, Inserting
<1>4. CASE UNCHANGED vars
  BY <1>4 DEF vars, requestVars, dbVars, applianceVars, tokenVars, PendingInv, Inserting, Expired
<1> QED
  BY <1>1, <1>2, <1>3, <1>4 DEF Next

LEMMA SpecPending == Spec => []PendingInv
<1>1. Init => PendingInv
  BY DEF Init, PersistenceInit, PendingInv, Inserting
<1>2. IInv => TypeInv
  BY DEF IInv
<1> QED
  BY <1>1, <1>2, SpecIInv, PendingStep, PTL DEF Spec

\* Rows that are not expired are deleted only after the status has left
\* "pending", for good.
LEMMA PendingKept ==
    TypeInv /\ SettledInv /\ PendingInv /\ [Next]_vars =>
        [\A a \in Appliances :
            status[a] = "pending"
                => /\ claimTokens[a] # NULL /\ claimTokens'[a] # claimTokens[a]
                        => Expired(claimTokens[a])
                   /\ exchangeCodes[a] # NULL /\ exchangeCodes'[a] # exchangeCodes[a]
                        => Expired(exchangeCodes[a])]_vars
<1> SUFFICES ASSUME TypeInv, SettledInv, PendingInv, Next, NEW a \in Appliances, status[a] = "pending"
             PROVE  /\ claimTokens[a] # NULL /\ claimTokens'[a] # claimTokens[a]
                        => Expired(claimTokens[a])
                    /\ exchangeCodes[a] # NULL /\ exchangeCodes'[a] # exchangeCodes[a]
                        => Expired(exchangeCodes[a])
  OBVIOUS
<1>1. ASSUME NEW r \in Requests, Serve(r) \/ Abort(r)
      PROVE  /\ claimTokens[a] # NULL /\ claimTokens'[a] # claimTokens[a]
                        => Expired(claimTokens[a])
             /\ exchangeCodes[a] # NULL /\ exchangeCodes'[a] # exchangeCodes[a]
                        => Expired(exchangeCodes[a])
  <2>1. TableMoves(r)
    BY <1>1, ServeTables
  <2>2. pc[r] \in {"deleteClaimToken", "deleteExchangeCode"} => target[r] # a
    BY DEF SettledInv, Marks, Revokes, StatusSet, StatusRevoked, TypeInv, Shape, Claimers
  <2> QED
    BY <2>1, <2>2 DEF TableMoves, PendingInv, Inserting
<1>2. CASE UNCHANGED <<claimTokens, exchangeCodes>>
  BY <1>2
<1> QED
  BY <1>1, <1>2 DEF Next, Begin, Tick, dbVars, tokenVars

\* The claim token and the exchange code of a pending appliance are there
\* until they expire, whatever is refused, fails or overlaps.
THEOREM PendingKeeps == Spec => PendingKeepsCredentials
<1>1. IInv => TypeInv /\ SettledInv
  BY DEF IInv
<1> QED
  BY <1>1, SpecIInv, SpecPending, PendingKept, PTL DEF Spec, PendingKeepsCredentials
=============================================================================
