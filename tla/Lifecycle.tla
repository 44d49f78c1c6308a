------------------------------ MODULE Lifecycle ------------------------------
(***************************************************************************)
(* The handlers of src/internal/appliancewebapp that change an appliance:  *)
(* Register, Enroll, Claim, EnrollRedeem, Revoke, RotateSecret and         *)
(* RotateOwnSecret.  Requests are served concurrently, by any number of    *)
(* replicas, and share nothing but the database and the Kubernetes         *)
(* Secrets; a handler is the sequence of its calls to them, one action per *)
(* call, together with the checks made on what the call returned.          *)
(***************************************************************************)
EXTENDS Persistence, SecretStore, FiniteSets

CONSTANTS
    Ops,                        \* the endpoints called in an instance
    MaxInFlight,                \* bound: requests served at the same time
    MaxHostnameLabelAttempts    \* maxHostnameLabelAttempts

Creators == {"Register", "Enroll"}
Claimers == {"Claim", "EnrollRedeem"}
Rotators == {"RotateSecret", "RotateOwnSecret"}
Issuers == Claimers \cup Rotators
Endpoints == Creators \cup Issuers \cup {"Revoke"}

ASSUME LifecycleAssumption ==
    /\ Ops \subseteq Endpoints
    /\ NULL \notin Endpoints \cup Appliances
    /\ MaxInFlight \in Nat
    /\ MaxHostnameLabelAttempts \in Nat \ {0}

VARIABLES
    pc,         \* the call a request makes next, or how it ended
    op,         \* the endpoint it was sent to
    target,     \* the appliance in its path, or the one it created
    bearer,     \* the credential in its Authorization header
    seen,       \* what a call returned that a later call still uses
    attempt,    \* the loop counter of createApplianceWithRetry
    before      \* history: the requests that had ended when it began

requestVars == <<pc, op, target, bearer, seen, attempt, before>>

vars == <<now, dbVars, k8s, requestVars>>

\* The calls of the handlers, named after the method called.
CreatorSteps == {"createAppliance", "saveClaimToken", "saveExchangeCode"}
ClaimerSteps ==
    {"getClaimToken", "deleteExpiredToken", "getExchangeCode",
     "deleteExpiredCode", "checkPin", "getAppliance", "markClaimed",
     "deleteClaimToken", "deleteExchangeCode"}
RotatorSteps == {"requireOwningGroup", "checkSecretHash", "checkActive"}
WriteSteps == {"createSecret", "getSecret", "updateSecret", "storeSecretHash"}
RevokeSteps == {"requireOwningGroup", "setStatusRevoked", "deleteSecret",
                "clearSecretHash", "deleteClaimToken"}

InFlight == CreatorSteps \cup ClaimerSteps \cup RotatorSteps
            \cup WriteSteps \cup RevokeSteps \cup {"respond"}

\* The status answered.  "aborted" is a request whose call failed, whose
\* client went away or whose server crashed: Abort below.
Ended == {"200", "401", "404", "409", "500", "aborted"}

Steps == {"idle"} \cup InFlight \cup Ended

TypeOK ==
    /\ PersistenceTypeOK
    /\ k8s \in [Appliances -> ApplianceSecrets \cup {NULL}]
    /\ pc \in [Requests -> Steps]
    /\ op \in [Requests -> Endpoints \cup {NULL}]
    /\ target \in [Requests -> Appliances \cup {NULL}]
    /\ bearer \in [Requests -> Credentials \cup {NULL}]
    /\ seen \in [Requests -> Hashes \cup ApplianceSecrets \cup {NULL}]
    /\ attempt \in [Requests -> 0..MaxHostnameLabelAttempts - 1]
    /\ before \in [Requests -> SUBSET Requests]

Init ==
    /\ PersistenceInit
    /\ k8s = [a \in Appliances |-> NULL]
    /\ pc = [r \in Requests |-> "idle"]
    /\ op = [r \in Requests |-> NULL]
    /\ target = [r \in Requests |-> NULL]
    /\ bearer = [r \in Requests |-> NULL]
    /\ seen = [r \in Requests |-> NULL]
    /\ attempt = [r \in Requests |-> 0]
    /\ before = [r \in Requests |-> {}]

-----------------------------------------------------------------------------
\* Requests and their answers.

OK(r) == pc[r] = "200"

\* The credential in the body of a request's 200 answer.
Answer(r) ==
    CASE op[r] = "Register" -> GenerateClaimToken(r)
      [] op[r] = "Enroll" -> GenerateExchangeCode(r)
      [] op[r] \in Issuers -> GenerateApplianceSecret(r)
      [] OTHER -> NULL

\* The bearer credentials that get a request past its header.  The endpoints
\* of an owner take a use token that verifies (cloudtoken.FromAuthHeader).
\* The others take any bearer string (bearerToken) and compare its hash later:
\* here every credential some client was answered with, whatever its kind and
\* appliance.  Enroll's claim token is in no answer.  Any other string fares
\* like a credential of another kind: it matches no hash.
OwnerOps == Creators \cup {"Revoke", "RotateSecret"}

Presentable(o) ==
    IF o \in OwnerOps
    THEN UseTokens
    ELSE {Answer(q) : q \in {r \in Requests : OK(r) /\ op[r] # "Revoke"}}

At(r, step) == pc[r] = step

Goto(r, step) == pc' = [pc EXCEPT ![r] = step]

\* The rest of a request's local state, unless an action says otherwise.
KeepRequest == UNCHANGED <<op, target, bearer, seen, attempt, before>>

\* The handler's first call.
FirstCall(o) ==
    CASE o \in Creators -> "createAppliance"
      [] o = "Claim" -> "getClaimToken"
      [] o = "EnrollRedeem" -> "getExchangeCode"
      [] o = "RotateOwnSecret" -> "checkSecretHash"
      [] OTHER -> "requireOwningGroup"

\* Bound: every creating request finds an id that is still free.
IdsLeft == Cardinality({r \in Requests : op[r] \in Creators}) < Cardinality(Appliances)

\* A request whose header is refused is answered 401 before any call: such a
\* request is a stuttering step.
Begin(r, o, a, b) ==
    /\ At(r, "idle")
    /\ Cardinality({q \in Requests : pc[q] \in InFlight}) < MaxInFlight
    /\ IF o \in Creators THEN IdsLeft /\ a = NULL ELSE a \in Appliances
    /\ op' = [op EXCEPT ![r] = o]
    /\ target' = [target EXCEPT ![r] = a]
    /\ bearer' = [bearer EXCEPT ![r] = b]
    /\ before' = [before EXCEPT ![r] = {q \in Requests : pc[q] \in Ended}]
    /\ Goto(r, FirstCall(o))
    /\ UNCHANGED <<now, dbVars, k8s, seen, attempt>>

Respond(r) ==
    /\ At(r, "respond")
    /\ Goto(r, "200")
    /\ KeepRequest /\ UNCHANGED <<now, dbVars, k8s>>

\* A call returns an error, the client's context is cancelled or the process
\* dies.  The handler stops where it is and undoes nothing.  A call that took
\* effect and still returned an error is that call followed by this action.
Abort(r) ==
    /\ pc[r] \in InFlight
    /\ Goto(r, "aborted")
    /\ KeepRequest /\ UNCHANGED <<now, dbVars, k8s>>

Tick ==
    /\ now < MaxTime
    /\ now' = now + 1
    /\ UNCHANGED <<dbVars, k8s, requestVars>>
-----------------------------------------------------------------------------
\* Register and Enroll: createApplianceWithRetry, then issueClaimToken.

\* Mutant: one attempt too many.
MayRetryOnceMore(r) == attempt[r] <= MaxHostnameLabelAttempts - 1

MayRetry(r) == attempt[r] < MaxHostnameLabelAttempts - 1

\* Mutant: continue without counting.
SameAttempt(n) == n

NextAttempt(n) == n + 1

\* GenerateLabel draws a label; the INSERT fails when an appliance holds it.
InsertAppliance(r) ==
    /\ At(r, "createAppliance")
    /\ \E l \in Labels, a \in Appliances :
        /\ ~LabelTaken(l)
        /\ CreateAppliance(a, l, GroupOf(bearer[r]))
        /\ target' = [target EXCEPT ![r] = a]
    /\ Goto(r, "saveClaimToken")
    /\ UNCHANGED <<now, k8s, op, bearer, seen, attempt, before>>

InsertCollides(r) ==
    /\ At(r, "createAppliance")
    /\ \E l \in Labels : LabelTaken(l)
    /\ \/ /\ MayRetry(r)
          /\ attempt' = [attempt EXCEPT ![r] = NextAttempt(@)]
          /\ UNCHANGED pc
       \/ /\ ~MayRetry(r)
          /\ Goto(r, "500")
          /\ UNCHANGED attempt
    /\ UNCHANGED <<now, dbVars, k8s, op, target, bearer, seen, before>>

IssueClaimToken(r) ==
    /\ At(r, "saveClaimToken")
    /\ SaveClaimToken(target[r], Hash(GenerateClaimToken(r)))
    /\ Goto(r, IF op[r] = "Enroll" THEN "saveExchangeCode" ELSE "respond")
    /\ KeepRequest /\ UNCHANGED <<now, k8s>>

IssueExchangeCode(r) ==
    /\ At(r, "saveExchangeCode")
    /\ SaveEnrollExchangeCode(target[r], Hash(GenerateExchangeCode(r)),
                              Hash(GenerateClaimToken(r)))
    /\ Goto(r, "respond")
    /\ KeepRequest /\ UNCHANGED <<now, k8s>>

-----------------------------------------------------------------------------
\* Claim and EnrollRedeem.

\* An error of this DELETE is logged or dropped and the handler goes on.
IgnoringError(delete) == delete \/ UNCHANGED dbVars

\* Mutant: only the presence of a stored hash is checked.
MatchesAnything(hash, raw) == hash # NULL

Matches(hash, raw) == hash = Hash(raw)

GetClaimToken(r) ==
    LET row == claimTokens[target[r]] IN
    /\ At(r, "getClaimToken")
    /\ Goto(r, IF Expired(row) THEN "deleteExpiredToken"
               ELSE IF row # NULL /\ Matches(row.tokenHash, bearer[r]) THEN "getAppliance"
               ELSE "401")
    /\ KeepRequest /\ UNCHANGED <<now, dbVars, k8s>>

DeleteExpiredToken(r) ==
    /\ At(r, "deleteExpiredToken")
    /\ IgnoringError(DeleteClaimToken(target[r]))
    /\ Goto(r, "401")
    /\ KeepRequest /\ UNCHANGED <<now, k8s>>

GetExchangeCode(r) ==
    LET row == exchangeCodes[target[r]]
        found == row # NULL /\ ~Expired(row) /\ Matches(row.codeHash, bearer[r])
    IN
    /\ At(r, "getExchangeCode")
    /\ Goto(r, IF Expired(row) THEN "deleteExpiredCode"
               ELSE IF found THEN "checkPin" ELSE "401")
    /\ seen' = [seen EXCEPT ![r] = IF found THEN row.claimTokenHash ELSE @]
    /\ UNCHANGED <<now, dbVars, k8s, op, target, bearer, attempt, before>>

DeleteExpiredCode(r) ==
    /\ At(r, "deleteExpiredCode")
    /\ IgnoringError(DeleteEnrollExchangeCode(target[r]))
    /\ Goto(r, "401")
    /\ KeepRequest /\ UNCHANGED <<now, k8s>>

\* The code's pinned claim token must still be the appliance's.  Unlike
\* Claim, EnrollRedeem does not ask whether that token has expired.
PinHolds(r) ==
    LET row == claimTokens[target[r]] IN row # NULL /\ row.tokenHash = seen[r]

CheckPin(r) ==
    /\ At(r, "checkPin")
    /\ Goto(r, IF PinHolds(r) THEN "getAppliance" ELSE "401")
    /\ KeepRequest /\ UNCHANGED <<now, dbVars, k8s>>

\* Mutant: only an active appliance counts as claimed.
ClaimableUnlessActive(a) == status[a] # "active"

\* Mutant: only a revoked appliance is refused.
ClaimableUnlessRevoked(a) == status[a] # "revoked"

\* The foreign keys of both tables rule out the 404 of a missing row.
Claimable(a) == status[a] = "pending"

\* Mutant: the appliance is marked claimed before its secret is written.
MarkBeforeSecret(r) ==
    /\ At(r, "getAppliance")
    /\ Goto(r, IF Claimable(target[r]) THEN "markClaimed" ELSE "409")
    /\ KeepRequest /\ UNCHANGED <<now, dbVars, k8s>>

GetAppliance(r) ==
    /\ At(r, "getAppliance")
    /\ Goto(r, IF Claimable(target[r]) THEN "createSecret" ELSE "409")
    /\ KeepRequest /\ UNCHANGED <<now, dbVars, k8s>>

MarkClaimed(r) ==
    /\ At(r, "markClaimed")
    /\ IF MarkApplianceClaimedAffects(target[r])
       THEN MarkApplianceClaimed(target[r]) /\ Goto(r, "deleteClaimToken")
       ELSE UNCHANGED dbVars /\ Goto(r, "500")
    /\ KeepRequest /\ UNCHANGED <<now, k8s>>

\* Also the last call of Revoke.
DropClaimToken(r) ==
    /\ At(r, "deleteClaimToken")
    /\ IgnoringError(DeleteClaimToken(target[r]))
    /\ Goto(r, IF op[r] = "EnrollRedeem" THEN "deleteExchangeCode" ELSE "respond")
    /\ KeepRequest /\ UNCHANGED <<now, k8s>>

DropExchangeCode(r) ==
    /\ At(r, "deleteExchangeCode")
    /\ IgnoringError(DeleteEnrollExchangeCode(target[r]))
    /\ Goto(r, "respond")
    /\ KeepRequest /\ UNCHANGED <<now, k8s>>

-----------------------------------------------------------------------------
\* WriteApplianceSecret and storeSecretHash, shared by every issuer.

CreateK8sSecret(r) ==
    /\ At(r, "createSecret")
    /\ IF CreateConflicts(target[r])
       THEN Goto(r, "getSecret") /\ UNCHANGED k8s
       ELSE /\ CreateSecret(target[r], GenerateApplianceSecret(r))
            /\ Goto(r, "storeSecretHash")
    /\ KeepRequest /\ UNCHANGED <<now, dbVars>>

GetK8sSecret(r) ==
    /\ At(r, "getSecret")
    /\ Goto(r, IF k8s[target[r]] = NULL THEN "500" ELSE "updateSecret")
    /\ seen' = [seen EXCEPT ![r] = k8s[target[r]]]
    /\ UNCHANGED <<now, dbVars, k8s, op, target, bearer, attempt, before>>

UpdateK8sSecret(r) ==
    /\ At(r, "updateSecret")
    /\ IF UpdateConflicts(target[r], seen[r])
       THEN Goto(r, "500") /\ UNCHANGED k8s
       ELSE /\ UpdateSecret(target[r], GenerateApplianceSecret(r))
            /\ Goto(r, "storeSecretHash")
    /\ KeepRequest /\ UNCHANGED <<now, dbVars>>

\* Mutant: MarkApplianceClaimed is forgotten.
SkipMarkClaimed(r) == IF op[r] \in Claimers THEN "deleteClaimToken" ELSE "respond"

AfterSecretHash(r) == IF op[r] \in Claimers THEN "markClaimed" ELSE "respond"

StoreSecretHash(r) ==
    /\ At(r, "storeSecretHash")
    /\ SetApplianceSecretHash(target[r], Hash(GenerateApplianceSecret(r)))
    /\ Goto(r, AfterSecretHash(r))
    /\ KeepRequest /\ UNCHANGED <<now, k8s>>

-----------------------------------------------------------------------------
\* Revoke, RotateSecret and RotateOwnSecret.

\* Mutant: the appliance only has to exist.
OwnedBySomeone(r) == groupId[target[r]] # NULL

Owns(r) == groupId[target[r]] = GroupOf(bearer[r])

\* Mutant: a revoked appliance may rotate.
RotatableUnlessPending(a) == status[a] # "pending"

Rotatable(a) == status[a] = "active"

\* RotateSecret goes on to look at the status of the row it has read.
RequireOwningGroup(r) ==
    /\ At(r, "requireOwningGroup")
    /\ Goto(r, IF ~Owns(r) THEN "404"
               ELSE IF op[r] = "Revoke" THEN "setStatusRevoked"
               ELSE IF Rotatable(target[r]) THEN "createSecret" ELSE "409")
    /\ KeepRequest /\ UNCHANGED <<now, dbVars, k8s>>

\* ErrNoRows when the UPDATE changed nothing is a 500 like any other error.
SetStatusRevoked(r) ==
    /\ At(r, "setStatusRevoked")
    /\ IF SetApplianceStatusAffects(target[r], "revoked")
       THEN SetApplianceStatus(target[r], "revoked") /\ Goto(r, "deleteSecret")
       ELSE UNCHANGED dbVars /\ Goto(r, "500")
    /\ KeepRequest /\ UNCHANGED <<now, k8s>>

DeleteK8sSecret(r) ==
    /\ At(r, "deleteSecret")
    /\ DeleteApplianceSecret(target[r])
    /\ Goto(r, "clearSecretHash")
    /\ KeepRequest /\ UNCHANGED <<now, dbVars>>

ClearSecretHash(r) ==
    /\ At(r, "clearSecretHash")
    /\ SetApplianceSecretHash(target[r], NULL)
    /\ Goto(r, "deleteClaimToken")
    /\ KeepRequest /\ UNCHANGED <<now, k8s>>

\* authenticateAppliance, its two reads.
CheckSecretHash(r) ==
    /\ At(r, "checkSecretHash")
    /\ Goto(r, IF Matches(secretHash[target[r]], bearer[r]) THEN "checkActive" ELSE "401")
    /\ KeepRequest /\ UNCHANGED <<now, dbVars, k8s>>

CheckActive(r) ==
    /\ At(r, "checkActive")
    /\ Goto(r, IF Rotatable(target[r]) THEN "createSecret" ELSE "401")
    /\ KeepRequest /\ UNCHANGED <<now, dbVars, k8s>>

-----------------------------------------------------------------------------
Create(r) == InsertAppliance(r) \/ InsertCollides(r) \/ IssueClaimToken(r) \/ IssueExchangeCode(r)

CheckCredential(r) ==
    \/ GetClaimToken(r) \/ DeleteExpiredToken(r)
    \/ GetExchangeCode(r) \/ DeleteExpiredCode(r) \/ CheckPin(r)
    \/ RequireOwningGroup(r) \/ CheckSecretHash(r) \/ CheckActive(r)

Issue(r) ==
    \/ GetAppliance(r) \/ CreateK8sSecret(r) \/ GetK8sSecret(r) \/ UpdateK8sSecret(r)
    \/ StoreSecretHash(r) \/ MarkClaimed(r) \/ DropClaimToken(r) \/ DropExchangeCode(r)

Withdraw(r) == SetStatusRevoked(r) \/ DeleteK8sSecret(r) \/ ClearSecretHash(r)

\* A handler's own progress.
Serve(r) == Create(r) \/ CheckCredential(r) \/ Issue(r) \/ Withdraw(r) \/ Respond(r)

Next ==
    \/ \E r \in Requests :
        \/ \E o \in Ops : \E b \in Presentable(o), a \in Appliances \cup {NULL} : Begin(r, o, a, b)
        \/ Serve(r)
        \/ Abort(r)
    \/ Tick

Spec == Init /\ [][Next]_vars

\* Every call a handler makes returns, with a result or an error.
FairSpec == Spec /\ \A r \in Requests : WF_vars(Serve(r))
-----------------------------------------------------------------------------
(* Properties.  q \in before[r] is the real-time order: q had ended before *)
(* r began.  Requests that neither precede nor follow one another overlap.  *)

Writers == Issuers \cup {"Revoke"}

Overlap(q, r) == q # r /\ q \notin before[r] /\ r \notin before[q]

\* An answer given before any call that changes something.
Refused(r) == pc[r] \in {"401", "404", "409"}

\* r is the last word on its appliance: every other request to it had ended
\* when r began, or has been refused.
RunsLast(r) ==
    \A q \in Requests :
        q # r /\ target[q] = target[r] /\ op[q] \in Writers
            => q \in before[r] \/ Refused(q)

\* Once a claim, rotation or revocation has been answered 200, a secret
\* generated by a request that had ended before it began is neither the one
\* the appliance authenticates with nor the one the tunnel end reads, and it
\* never is again, however later requests interleave or fail (webapp.go:
\* issueNewSecret, Revoke).
SupersededSecretIsDead ==
    \A v, q \in Requests :
        OK(v) /\ op[v] \in Writers /\ q \in before[v]
            => /\ secretHash[target[v]] # Hash(GenerateApplianceSecret(q))
               /\ k8s[target[v]] # GenerateApplianceSecret(q)

\* A RotateOwnSecret sent after such an answer with the superseded secret
\* does not get past the comparison with the stored hash (webapp.go:
\* authenticateAppliance).
RejectsSupersededSecret ==
    \A u, v, q \in Requests :
        ( /\ OK(v) /\ op[v] \in Writers /\ q \in before[v] /\ v \in before[u]
          /\ op[u] = "RotateOwnSecret" /\ target[u] = target[v]
          /\ bearer[u] = GenerateApplianceSecret(q) )
            => pc[u] \in {"checkSecretHash", "401", "aborted"}

\* An appliance whose revocation was answered 200 leaves the revoked status
\* only through a claim that was already running (webapp.go: Revoke, Claim).
RevocationStands ==
    \A v \in Requests :
        OK(v) /\ op[v] = "Revoke" /\ status[target[v]] # "revoked"
            => \E c \in Requests :
                op[c] \in Claimers /\ target[c] = target[v] /\ Overlap(c, v)

\* An appliance whose revocation was answered 200 has no secret on either end
\* unless a claim or rotation was running beside the revocation: whatever
\* failed before it, nothing that comes after it brings one back (webapp.go:
\* Revoke, authenticateAppliance, RotateSecret).
RevokedHasNoSecret ==
    \A v \in Requests :
        OK(v) /\ op[v] = "Revoke" /\ (k8s[target[v]] # NULL \/ secretHash[target[v]] # NULL)
            => \E c \in Requests :
                op[c] \in Issuers /\ target[c] = target[v] /\ Overlap(c, v)

\* Of two claims of an appliance that both succeeded neither began after the
\* other had ended, even when deleting the claim token or the exchange code
\* failed (webapp.go: Claim's and EnrollRedeem's comments on that failure).
ClaimSucceedsOnceInOrder ==
    \A c, d \in Requests :
        ( /\ OK(c) /\ op[c] \in Claimers /\ OK(d) /\ op[d] \in Claimers
          /\ c # d /\ target[c] = target[d] )
            => Overlap(c, d)

\* The secret a claim or rotation answered with is live on both ends of the
\* tunnel, and the appliance active, as long as every other request to the
\* appliance had ended before it began or has been refused.  This holds
\* whatever failed before it (webapp.go: issueNewSecret; "the operation can
\* simply be retried").
LatestIssueIsLive ==
    \A r \in Requests :
        OK(r) /\ op[r] \in Issuers /\ RunsLast(r)
            => /\ status[target[r]] = "active"
               /\ secretHash[target[r]] = Hash(GenerateApplianceSecret(r))
               /\ InCluster => k8s[target[r]] = GenerateApplianceSecret(r)

\* An active appliance has its Secret and its hash, unless a claim of it
\* overlapped a revocation (webapp.go: the order of the calls in Claim and in
\* Revoke).
ActiveHasSecret ==
    \A a \in Appliances :
        status[a] = "active" /\ (secretHash[a] = NULL \/ (InCluster /\ k8s[a] = NULL))
            => \E c, v \in Requests :
                /\ op[c] \in Claimers /\ op[v] = "Revoke"
                /\ target[c] = a /\ target[v] = a /\ Overlap(c, v)

\* While an appliance is pending, its claim token and its exchange code go
\* away only once they have expired: no failed, refused or overlapping request
\* uses up the credential its creator was answered with (webapp.go: the place
\* of the deletes in Claim, EnrollRedeem and Revoke).
PendingKeepsCredentials ==
    [][\A a \in Appliances :
        status[a] = "pending"
            => /\ claimTokens[a] # NULL /\ claimTokens'[a] # claimTokens[a]
                    => Expired(claimTokens[a])
               /\ exchangeCodes[a] # NULL /\ exchangeCodes'[a] # exchangeCodes[a]
                    => Expired(exchangeCodes[a])]_vars

\* A request that changed an appliance was entitled to: it presented the claim
\* token or exchange code answered by the request that created that very
\* appliance, a secret answered for that very appliance, or a use token of
\* the group that owns it (webapp.go: Claim, EnrollRedeem,
\* authenticateAppliance, requireOwningGroup).
ChangesAreEntitled ==
    \A r \in Requests :
        OK(r) /\ op[r] \in Writers
            => \/ /\ op[r] \in {"Revoke", "RotateSecret"}
                  /\ bearer[r] = UseToken(groupId[target[r]])
               \/ \E q \in before[r] :
                    /\ OK(q) /\ target[q] = target[r] /\ bearer[r] = Answer(q)
                    /\ \/ op[r] = "Claim" /\ op[q] = "Register"
                       \/ op[r] = "EnrollRedeem" /\ op[q] = "Enroll"
                       \/ op[r] = "RotateOwnSecret" /\ op[q] \in Issuers

\* Every request is answered or aborted: the retry loop of
\* createApplianceWithRetry ends, and no handler waits for another, whichever
\* endpoints are called and overlap (webapp.go: every handler of this module).
EveryRequestAnswered ==
    \A r \in Requests : []<>(pc[r] \notin InFlight)
=============================================================================
