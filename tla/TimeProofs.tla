------------------------------ MODULE TimeProofs ------------------------------
(***************************************************************************)
(* Proofs about the times of LifecycleTimes, for any expiry and any number *)
(* of requests, and whatever part of a second a tick is: how long an       *)
(* answer can be claimed with, that it can be for as long as it lives, and *)
(* what two claims within one second do.                                   *)
(***************************************************************************)
EXTENDS LifecycleTimes, CredentialProofs

LEMMA Stamped ==
    ASSUME TimedNext, NEW r \in Requests
    PROVE  /\ began'[r] = IF Begins(r) THEN now ELSE began[r]
           /\ stored'[r] = IF Stores(r) THEN now ELSE stored[r]
           /\ answered'[r] = IF Answers(r) THEN now ELSE answered[r]
           /\ marked'[r] = IF MarksClaimed(r) THEN now ELSE marked[r]
  BY DEF TimedNext, Stamp

LEMMA TimesLeaveLifecycle == TimedSpec => Spec
<1>1. TimedInit => Init
  BY DEF TimedInit
<1>2. [TimedNext]_timedVars => [Next]_vars
  BY DEF TimedNext, timedVars
<1> QED
  BY <1>1, <1>2, PTL DEF TimedSpec, Spec

-----------------------------------------------------------------------------
(* How long an answer can be claimed with.                                 *)

\* The times a claim is compared with are there, and past.
BeganInv ==
    /\ \A c \in Requests : op[c] \in Claimers => began[c] \in Nat /\ began[c] <= now
    /\ \A q \in Requests : OK(q) /\ op[q] \in Creators => answered[q] \in Nat

\* A row expires no later than its lifetime after now and, once its creator
\* has answered, after the answer.
LifetimeInv ==
    \A a \in Appliances, q \in Requests :
        /\ claimTokens[a] # NULL /\ claimTokens[a].tokenHash = Hash(GenerateClaimToken(q)) =>
            /\ claimTokens[a].expiresAt <= now + ClaimTokenExpiry
            /\ OK(q) /\ op[q] \in Creators =>
                claimTokens[a].expiresAt <= answered[q] + ClaimTokenExpiry
        /\ exchangeCodes[a] # NULL /\ exchangeCodes[a].codeHash = Hash(GenerateExchangeCode(q)) =>
            /\ exchangeCodes[a].expiresAt <= now + ExchangeCodeExpiry
            /\ OK(q) /\ op[q] \in Creators =>
                exchangeCodes[a].expiresAt <= answered[q] + ExchangeCodeExpiry

\* LateClaimFails from the moment the credential was compared.
InTimeInv ==
    \A q, c \in Requests :
        ( /\ OK(q) /\ op[q] \in Creators
          /\ op[c] \in Claimers /\ pc[c] \in Checked /\ bearer[c] = Answer(q) )
            => began[c] <= answered[q] + Lifetime(q)

\* How a handler's step changes the rows that expire, and gets to its answer
\* and past their expiry.
ExpiryFlow(r) ==
    /\ now' = now
    /\ \A a \in Appliances :
        \/ claimTokens'[a] \in {claimTokens[a], NULL}
        \/ /\ pc[r] = "saveClaimToken"
           /\ claimTokens'[a] = [tokenHash |-> Hash(GenerateClaimToken(r)),
                                 expiresAt |-> Timestamp(now + ClaimTokenExpiry)]
    /\ \A a \in Appliances :
        \/ exchangeCodes'[a] \in {exchangeCodes[a], NULL}
        \/ /\ pc[r] = "saveExchangeCode"
           /\ exchangeCodes'[a].codeHash = Hash(GenerateExchangeCode(r))
           /\ exchangeCodes'[a].expiresAt = Timestamp(now + ExchangeCodeExpiry)
    /\ pc'[r] = "200" => pc[r] = "respond"
    /\ op[r] \in Claimers /\ pc'[r] \in Checked /\ pc[r] \notin Checked =>
        \/ /\ op[r] = "Claim" /\ claimTokens[target[r]] # NULL
           /\ claimTokens[target[r]].tokenHash = Hash(bearer[r])
           /\ ~Expired(claimTokens[target[r]])
        \/ /\ op[r] = "EnrollRedeem" /\ exchangeCodes[target[r]] # NULL
           /\ exchangeCodes[target[r]].codeHash = Hash(bearer[r])
           /\ ~Expired(exchangeCodes[target[r]])

LEMMA ServeExpiry ==
    ASSUME TypeInv, NEW r \in Requests, Serve(r) \/ Abort(r)
    PROVE  ExpiryFlow(r)
<1> USE DEF ExpiryFlow, Checked, WriteSteps, TypeInv, TypeOK, PersistenceTypeOK, Shape, At, Goto,
        KeepRequest, dbVars, tokenVars, applianceVars, CreatorSteps, Creators, Claimers
<1>1. CASE InsertAppliance(r) \/ InsertCollides(r)
  BY <1>1 DEF InsertAppliance, InsertCollides, CreateAppliance
<1>2. CASE IssueClaimToken(r)
  BY <1>2 DEF IssueClaimToken, SaveClaimToken
<1>3. CASE IssueExchangeCode(r)
  BY <1>3 DEF IssueExchangeCode, SaveEnrollExchangeCode
<1>4. CASE GetClaimToken(r) \/ DeleteExpiredToken(r)
  BY <1>4 DEF GetClaimToken, DeleteExpiredToken, IgnoringError, DeleteClaimToken, Matches
<1>5. CASE GetExchangeCode(r) \/ DeleteExpiredCode(r) \/ CheckPin(r)
  BY <1>5 DEF GetExchangeCode, DeleteExpiredCode, IgnoringError, DeleteEnrollExchangeCode,
              CheckPin, Matches
<1>6. CASE RequireOwningGroup(r) \/ CheckSecretHash(r) \/ CheckActive(r)
  BY <1>6 DEF RequireOwningGroup, CheckSecretHash, CheckActive
<1>7. CASE GetAppliance(r) \/ CreateK8sSecret(r) \/ GetK8sSecret(r) \/ UpdateK8sSecret(r)
  BY <1>7 DEF GetAppliance, CreateK8sSecret, GetK8sSecret, UpdateK8sSecret
<1>8. CASE StoreSecretHash(r) \/ MarkClaimed(r)
  BY <1>8 DEF StoreSecretHash, AfterSecretHash, MarkClaimed, SetApplianceSecretHash,
              MarkApplianceClaimed
<1>9. CASE DropClaimToken(r) \/ DropExchangeCode(r)
  BY <1>9 DEF DropClaimToken, DropExchangeCode, IgnoringError, DeleteClaimToken,
              DeleteEnrollExchangeCode
<1>10. CASE Withdraw(r)
  BY <1>10 DEF Withdraw, SetStatusRevoked, DeleteK8sSecret, ClearSecretHash,
               SetApplianceStatus, SetApplianceSecretHash
<1>11. CASE Respond(r) \/ Abort(r)
  BY <1>11 DEF Respond, Abort
<1> QED
  BY <1>1, <1>2, <1>3, <1>4, <1>5, <1>6, <1>7, <1>8, <1>9, <1>10, <1>11
     DEF Serve, Create, CheckCredential, Issue

LEMMA NowGrows ==
    ASSUME TypeInv, Next
    PROVE  now' \in Nat /\ now <= now'
<1> USE TimeAssumption DEF TypeInv, TypeOK, PersistenceTypeOK
<1>1. ASSUME NEW r \in Requests, Serve(r) \/ Abort(r) PROVE now' = now
  BY <1>1, ServeExpiry DEF ExpiryFlow
<1>2. ASSUME NEW r \in Requests, NEW o \in Ops, NEW b \in Presentable(o),
             NEW a \in Appliances \cup {NULL}, Begin(r, o, a, b)
      PROVE  now' = now
  BY <1>2 DEF Begin
<1>3. CASE Tick
  BY <1>3 DEF Tick
<1> QED
  BY <1>1, <1>2, <1>3 DEF Next

\* An answer is stamped once: when it is given.
LEMMA AnswerStamped ==
    ASSUME TypeInv, TimedNext, NEW q \in Requests, OK(q)', op'[q] \in Creators
    PROVE  \/ OK(q) /\ op[q] \in Creators /\ answered'[q] = answered[q]
           \/ answered'[q] = now /\ now' = now /\ pc[q] = "respond"
<1>1. Next
  BY DEF TimedNext
<1>2. CASE pc[q] = "200"
  <2>1. op'[q] = op[q]
    BY <1>1, <1>2, EndedStays DEF Ended
  <2> QED
    BY <1>2, <2>1, Stamped DEF Answers, OK, Creators
<1>3. CASE pc[q] # "200"
  <2>1. PICK r \in Requests : Serve(r) \/ Abort(r)
    <3>1. ASSUME NEW r \in Requests, NEW o \in Ops, NEW b \in Presentable(o),
                 NEW a \in Appliances \cup {NULL}, Begin(r, o, a, b)
          PROVE  FALSE
      <4>1. pc' = [pc EXCEPT ![r] = FirstCall(o)] /\ FirstCall(o) # "200"
        BY <3>1 DEF Begin, Goto, FirstCall
      <4> QED
        BY <1>3, <4>1 DEF OK, TypeInv, TypeOK
    <3>2. ~Tick
      BY <1>3 DEF Tick, requestVars, OK
    <3> QED
      BY <1>1, <3>1, <3>2 DEF Next
  <2>2. q = r /\ op'[q] = op[q] /\ pc[q] = "respond" /\ now' = now
    <3>1. Moves(r) /\ ExpiryFlow(r)
      BY <2>1, ServeMoves, ServeExpiry
    <3>2. q = r
      BY <1>3, <3>1 DEF Moves, OK, TypeInv, TypeOK
    <3>3. now' = now
      BY <3>1 DEF ExpiryFlow
    <3>4. op'[q] = op[q]
      BY <3>1, <3>2 DEF Moves
    <3>5. pc[q] = "respond"
      BY <1>3, <3>1, <3>2 DEF ExpiryFlow, OK
    <3> QED
      BY <3>2, <3>3, <3>4, <3>5
  <2> QED
    BY <2>2, Stamped DEF Answers, OK, Creators
<1> QED
  BY <1>2, <1>3

\* No step stamps a claim that has begun.
LEMMA BeganStep ==
    ASSUME TypeInv, BeganInv, TimedNext
    PROVE  BeganInv'
<1> USE DEF BeganInv, TypeInv, TypeOK, PersistenceTypeOK
<1>1. Next
  BY DEF TimedNext
<1>2. now \in Nat /\ now' \in Nat /\ now <= now'
  BY <1>1, NowGrows
<1>3. ASSUME NEW c \in Requests, op'[c] \in Claimers
      PROVE  began'[c] \in Nat /\ began'[c] <= now'
  <2>1. CASE pc[c] = "idle"
    BY <1>2, <1>3, <2>1, Stamped DEF Begins, TimedNext
  <2>2. CASE pc[c] # "idle"
    <3>1. began'[c] = began[c]
      BY <2>2, Stamped DEF Begins
    <3>2. op'[c] = op[c]
      BY <1>1, <2>2, ServeMoves DEF Moves, Next, Begin, At, Tick, requestVars
    <3> QED
      BY <1>2, <1>3, <3>1, <3>2 DEF Claimers
  <2> QED
    BY <2>1, <2>2
<1>4. ASSUME NEW q \in Requests, OK(q)', op'[q] \in Creators
      PROVE  answered'[q] \in Nat
  BY <1>2, <1>4, AnswerStamped
<1> QED
  BY <1>3, <1>4 DEF Claimers, Creators

LEMMA LifetimeStep ==
    ASSUME TypeInv, BeganInv, LifetimeInv, TimedNext
    PROVE  LifetimeInv'
<1> USE TimeAssumption DEF TypeInv, TypeOK, PersistenceTypeOK
<1>1. Next /\ now \in Nat /\ now' \in Nat /\ now <= now'
  BY NowGrows DEF TimedNext
<1> SUFFICES ASSUME NEW a \in Appliances, NEW q \in Requests
             PROVE  /\ claimTokens'[a] # NULL
                       /\ claimTokens'[a].tokenHash = Hash(GenerateClaimToken(q)) =>
                        /\ claimTokens'[a].expiresAt <= now' + ClaimTokenExpiry
                        /\ OK(q)' /\ op'[q] \in Creators =>
                            claimTokens'[a].expiresAt <= answered'[q] + ClaimTokenExpiry
                    /\ exchangeCodes'[a] # NULL
                       /\ exchangeCodes'[a].codeHash = Hash(GenerateExchangeCode(q)) =>
                        /\ exchangeCodes'[a].expiresAt <= now' + ExchangeCodeExpiry
                        /\ OK(q)' /\ op'[q] \in Creators =>
                            exchangeCodes'[a].expiresAt <= answered'[q] + ExchangeCodeExpiry
  BY DEF LifetimeInv, Creators
<1>2. OK(q)' /\ op'[q] \in Creators =>
        \/ OK(q) /\ op[q] \in Creators /\ answered'[q] = answered[q] /\ answered[q] \in Nat
        \/ answered'[q] = now /\ pc[q] = "respond"
  BY AnswerStamped DEF BeganInv
<1>3. ASSUME claimTokens'[a] # NULL, claimTokens'[a].tokenHash = Hash(GenerateClaimToken(q))
      PROVE  /\ claimTokens'[a].expiresAt <= now' + ClaimTokenExpiry
             /\ OK(q)' /\ op'[q] \in Creators =>
                claimTokens'[a].expiresAt <= answered'[q] + ClaimTokenExpiry
  <2>1. CASE claimTokens'[a] = claimTokens[a]
    <3>1. claimTokens[a].expiresAt \in Nat
      BY <1>3, <2>1 DEF ClaimTokenRows
    <3> QED
      BY <1>1, <1>2, <1>3, <2>1, <3>1 DEF LifetimeInv
  <2>2. CASE claimTokens'[a] # claimTokens[a]
    <3>1. PICK r \in Requests : Serve(r) \/ Abort(r)
      BY <1>1, <2>2 DEF Next, Begin, Tick, dbVars, tokenVars
    <3>2. /\ pc[r] = "saveClaimToken" /\ now' = now
          /\ claimTokens'[a] = [tokenHash |-> Hash(GenerateClaimToken(r)),
                                expiresAt |-> Timestamp(now + ClaimTokenExpiry)]
      BY <1>3, <2>2, <3>1, ServeExpiry DEF ExpiryFlow
    <3>3. /\ pc[r] = "saveClaimToken" /\ claimTokens'[a].tokenHash = Hash(GenerateClaimToken(r))
          /\ claimTokens'[a].expiresAt = Timestamp(now + ClaimTokenExpiry) /\ now' = now
      BY <3>2
    <3>4. q = r
      BY <1>3, <3>3 DEF Hash, GenerateClaimToken
    <3>5. ~OK(q)'
      BY <3>1, <3>3, <3>4, ServeExpiry DEF ExpiryFlow, OK
    <3>6. Timestamp(now + ClaimTokenExpiry) <= now + ClaimTokenExpiry
      BY <1>1, TimestampFacts
    <3> QED
      BY <1>1, <3>3, <3>5, <3>6
  <2> QED
    BY <2>1, <2>2
<1>4. ASSUME exchangeCodes'[a] # NULL,
             exchangeCodes'[a].codeHash = Hash(GenerateExchangeCode(q))
      PROVE  /\ exchangeCodes'[a].expiresAt <= now' + ExchangeCodeExpiry
             /\ OK(q)' /\ op'[q] \in Creators =>
                exchangeCodes'[a].expiresAt <= answered'[q] + ExchangeCodeExpiry
  <2>1. CASE exchangeCodes'[a] = exchangeCodes[a]
    <3>1. exchangeCodes[a].expiresAt \in Nat
      BY <1>4, <2>1 DEF ExchangeCodeRows
    <3> QED
      BY <1>1, <1>2, <1>4, <2>1, <3>1 DEF LifetimeInv
  <2>2. CASE exchangeCodes'[a] # exchangeCodes[a]
    <3>1. PICK r \in Requests : Serve(r) \/ Abort(r)
      BY <1>1, <2>2 DEF Next, Begin, Tick, dbVars, tokenVars
    <3>2. /\ pc[r] = "saveExchangeCode"
          /\ exchangeCodes'[a].codeHash = Hash(GenerateExchangeCode(r))
          /\ exchangeCodes'[a].expiresAt = Timestamp(now + ExchangeCodeExpiry) /\ now' = now
      BY <1>4, <2>2, <3>1, ServeExpiry DEF ExpiryFlow
    <3>3. q = r
      BY <1>4, <3>2 DEF Hash, GenerateExchangeCode
    <3>4. ~OK(q)'
      BY <3>1, <3>2, <3>3, ServeExpiry DEF ExpiryFlow, OK
    <3>5. Timestamp(now + ExchangeCodeExpiry) <= now + ExchangeCodeExpiry
      BY <1>1, TimestampFacts
    <3> QED
      BY <1>1, <3>2, <3>4, <3>5
  <2> QED
    BY <2>1, <2>2
<1> QED
  BY <1>3, <1>4

LEMMA InTimeStep ==
    ASSUME TypeInv, EntInv, BeganInv, LifetimeInv, InTimeInv, TimedNext
    PROVE  InTimeInv'
<1> SUFFICES ASSUME NEW q \in Requests, NEW c \in Requests,
                    OK(q)', op'[q] \in Creators,
                    op'[c] \in Claimers, pc'[c] \in Checked, bearer'[c] = Answer(q)'
             PROVE  began'[c] <= answered'[q] + Lifetime(q)'
  BY DEF InTimeInv, Creators, Claimers, Checked, WriteSteps
<1>1. Next
  BY DEF TimedNext
<1>2. /\ pc[c] # "idle" /\ op'[c] = op[c] /\ bearer'[c] = bearer[c]
      /\ began'[c] = began[c] /\ (pc[c] \notin Checked => Serve(c) \/ Abort(c))
  <2>1. ASSUME NEW r \in Requests, NEW o \in Ops, NEW b \in Presentable(o),
               NEW a \in Appliances \cup {NULL}, Begin(r, o, a, b)
        PROVE  /\ pc[c] # "idle" /\ op'[c] = op[c] /\ bearer'[c] = bearer[c]
               /\ pc[c] \in Checked
    <3>1. FirstCall(o) \notin Checked
      BY DEF FirstCall, Checked, WriteSteps
    <3>2. c # r
      BY <2>1, <3>1 DEF Begin, Goto, TypeInv, TypeOK
    <3> QED
      BY <2>1, <3>2 DEF Begin, Goto, TypeInv, TypeOK, Checked, WriteSteps
  <2>2. ASSUME NEW r \in Requests, Serve(r) \/ Abort(r)
        PROVE  /\ pc[c] # "idle" /\ op'[c] = op[c] /\ bearer'[c] = bearer[c]
               /\ pc[c] \notin Checked => c = r
    BY <2>2, ServeMoves
       DEF Moves, TypeInv, TypeOK, Checked, WriteSteps, InFlight, CreatorSteps, ClaimerSteps,
           RotatorSteps, RevokeSteps
  <2>3. pc[c] # "idle" => began'[c] = began[c]
    BY Stamped DEF Begins
  <2>4. CASE Tick
    BY <2>4, <2>3 DEF Tick, requestVars, Checked, WriteSteps
  <2> QED
    BY <1>1, <2>1, <2>2, <2>3, <2>4 DEF Next
<1>3. OK(q) /\ op[q] \in Creators /\ op'[q] = op[q] /\ answered'[q] = answered[q]
  <2>1. op[c] \in Writers \ OwnerOps
    BY <1>2 DEF Writers, Issuers, Claimers, OwnerOps, Creators
  <2>2. PICK p \in before[c] : OK(p) /\ op[p] # "Revoke" /\ bearer[c] = Answer(p)
    BY <2>1 DEF EntInv, PresentedInv
  <2>3. p \in Requests /\ op[p] \in Endpoints \ {"Revoke"}
    BY <2>2 DEF TypeInv, TypeOK, Shape, OK
  <2>4. Answer(q)' = GenerateClaimToken(q) \/ Answer(q)' = GenerateExchangeCode(q)
    BY DEF Answer, Creators, Issuers, Claimers, Rotators
  <2>5. p = q
    BY <1>2, <2>2, <2>3, <2>4, AnswerTells
  <2>6. OK(q) /\ pc[q] # "respond" /\ op'[q] = op[q]
    BY <1>1, <2>2, <2>5, EndedStays DEF OK, Ended
  <2> QED
    BY <2>6, AnswerStamped
<1>4. Answer(q)' = Answer(q) /\ Lifetime(q)' = Lifetime(q)
  BY <1>3 DEF Answer, Lifetime, Issuers, Claimers, Rotators
<1>5. CASE pc[c] \in Checked
  BY <1>2, <1>3, <1>4, <1>5 DEF InTimeInv
<1>6. CASE pc[c] \notin Checked
  <2> DEFINE a == target[c]
  <2>1. ExpiryFlow(c)
    BY <1>2, <1>6, ServeExpiry
  <2>2. op[c] \in Claimers /\ a \in Appliances /\ bearer[c] = Answer(q)
    BY <1>2, <1>4 DEF TypeInv, Shape, Writers, Issuers
  <2>3. /\ now \in Nat /\ began[c] \in Nat /\ began[c] <= now /\ answered[q] \in Nat
    BY <1>3, <2>2 DEF BeganInv, TypeInv, TypeOK, PersistenceTypeOK
  <2>4. CASE /\ op[c] = "Claim" /\ claimTokens[a] # NULL
             /\ claimTokens[a].tokenHash = Hash(bearer[c]) /\ ~Expired(claimTokens[a])
    <3>1. PICK x \in Requests : claimTokens[a].tokenHash = Hash(GenerateClaimToken(x))
      BY <2>2, <2>4 DEF EntInv, ProvenanceInv
    <3>2. Answer(q) = GenerateClaimToken(x)
      BY <2>2, <2>4, <3>1 DEF Hash
    <3>3. q = x /\ op[q] = "Register"
      BY <1>3, <3>2, AnswerTells DEF Endpoints, Creators
    <3>4. claimTokens[a].expiresAt \in Nat /\ now <= claimTokens[a].expiresAt
      BY <2>2, <2>3, <2>4 DEF Expired, TypeInv, TypeOK, PersistenceTypeOK, ClaimTokenRows
    <3>5. claimTokens[a].expiresAt <= answered[q] + ClaimTokenExpiry
      BY <1>3, <2>2, <2>4, <3>1, <3>3 DEF LifetimeInv
    <3> QED
      BY <1>2, <1>3, <1>4, <2>3, <3>3, <3>4, <3>5, TimeAssumption DEF Lifetime
  <2>5. CASE /\ op[c] = "EnrollRedeem" /\ exchangeCodes[a] # NULL
             /\ exchangeCodes[a].codeHash = Hash(bearer[c]) /\ ~Expired(exchangeCodes[a])
    <3>1. PICK x \in Requests : exchangeCodes[a].codeHash = Hash(GenerateExchangeCode(x))
      BY <2>2, <2>5 DEF EntInv, ProvenanceInv
    <3>2. Answer(q) = GenerateExchangeCode(x)
      BY <2>2, <2>5, <3>1 DEF Hash
    <3>3. q = x /\ op[q] = "Enroll"
      BY <1>3, <3>2, AnswerTells DEF Endpoints, Creators
    <3>4. exchangeCodes[a].expiresAt \in Nat /\ now <= exchangeCodes[a].expiresAt
      BY <2>2, <2>3, <2>5 DEF Expired, TypeInv, TypeOK, PersistenceTypeOK, ExchangeCodeRows
    <3>5. exchangeCodes[a].expiresAt <= answered[q] + ExchangeCodeExpiry
      BY <1>3, <2>2, <2>5, <3>1, <3>3 DEF LifetimeInv
    <3> QED
      BY <1>2, <1>3, <1>4, <2>3, <3>3, <3>4, <3>5, TimeAssumption DEF Lifetime
  <2> QED
    BY <1>6, <2>1, <2>2, <2>4, <2>5 DEF ExpiryFlow
<1> QED
  BY <1>5, <1>6

-----------------------------------------------------------------------------
(* What two claims within one second do.                                   *)

\* A revocation of a that no claim of a past the check of the status can have
\* found ended.
RevokedSinceRead(a) ==
    \E v \in Requests :
        /\ op[v] = "Revoke" /\ target[v] = a
        /\ \A d \in Requests :
            op[d] \in Claimers /\ target[d] = a /\ pc[d] \in StatusRead => v \notin before[d]

\* Claim c marked its appliance before now; since then the appliance has been
\* active, and was marked no earlier, unless it was revoked.
MarkedInv ==
    /\ \A a \in Appliances :
        claimedAt[a] # NULL => claimedAt[a] \in Nat /\ claimedAt[a] <= Timestamp(now)
    /\ \A c \in Requests : Marks(c) =>
        /\ marked[c] \in Nat /\ marked[c] <= now
        /\ \/ /\ status[target[c]] = "active"
              /\ claimedAt[target[c]] \in Nat /\ Timestamp(marked[c]) <= claimedAt[target[c]]
           \/ RevokedSinceRead(target[c])

\* SameSecondClaimsExclude from the moment both claims have marked.
ExcludeInv ==
    \A c, d \in Requests :
        Marks(c) /\ Marks(d) /\ c # d /\ target[c] = target[d] =>
            \/ Timestamp(marked[c]) # Timestamp(marked[d])
            \/ \E v \in Requests :
                /\ op[v] = "Revoke" /\ target[v] = target[c]
                /\ Overlap(v, c) \/ Overlap(v, d)

\* How a handler's step marks an appliance claimed, or revoked.
MarkFlow(r) ==
    /\ now' = now
    /\ pc'[r] = "deleteClaimToken" /\ pc[r] = "markClaimed" =>
        /\ MarkApplianceClaimedAffects(target[r])
        /\ status'[target[r]] = "active"
        /\ claimedAt' = [claimedAt EXCEPT ![target[r]] = Timestamp(now)]
    /\ op[r] \in Claimers /\ pc'[r] \in StatusSet /\ pc[r] \notin StatusSet =>
        pc'[r] = "deleteClaimToken" /\ pc[r] = "markClaimed"
    /\ claimedAt' # claimedAt => pc'[r] = "deleteClaimToken" /\ pc[r] = "markClaimed"

LEMMA ServeMark ==
    ASSUME TypeInv, NEW r \in Requests, Serve(r) \/ Abort(r)
    PROVE  MarkFlow(r)
<1> USE DEF MarkFlow, StatusSet, TypeInv, TypeOK, PersistenceTypeOK, Shape, At, Goto,
        dbVars, applianceVars, Claimers
<1>1. CASE Create(r)
  BY <1>1 DEF Create, InsertAppliance, InsertCollides, IssueClaimToken, IssueExchangeCode,
              CreateAppliance, SaveClaimToken, SaveEnrollExchangeCode, Creators, CreatorSteps
<1>2. CASE CheckCredential(r)
  BY <1>2 DEF CheckCredential, GetClaimToken, DeleteExpiredToken, GetExchangeCode,
              DeleteExpiredCode, CheckPin, RequireOwningGroup, CheckSecretHash, CheckActive,
              IgnoringError, DeleteClaimToken, DeleteEnrollExchangeCode
<1>3. CASE GetAppliance(r) \/ CreateK8sSecret(r) \/ GetK8sSecret(r) \/ UpdateK8sSecret(r)
  BY <1>3 DEF GetAppliance, CreateK8sSecret, GetK8sSecret, UpdateK8sSecret
<1>4. CASE StoreSecretHash(r)
  BY <1>4 DEF StoreSecretHash, AfterSecretHash, SetApplianceSecretHash, WriteSteps
<1>5. CASE MarkClaimed(r)
  BY <1>5 DEF MarkClaimed, MarkApplianceClaimed, Writers, Issuers
<1>6. CASE DropClaimToken(r) \/ DropExchangeCode(r)
  BY <1>6 DEF DropClaimToken, DropExchangeCode, IgnoringError, DeleteClaimToken,
              DeleteEnrollExchangeCode
<1>7. CASE Withdraw(r)
  BY <1>7 DEF Withdraw, SetStatusRevoked, DeleteK8sSecret, ClearSecretHash,
              SetApplianceStatus, SetApplianceSecretHash
<1>8. CASE Respond(r) \/ Abort(r)
  BY <1>8 DEF Respond, Abort
<1> QED
  BY <1>1, <1>2, <1>3, <1>4, <1>5, <1>6, <1>7, <1>8 DEF Serve, Issue

\* A request that has begun keeps what it was sent with, and who was before it.
LEMMA WriterKeeps ==
    ASSUME TypeInv, Next, NEW v \in Requests, op[v] \in Claimers \cup {"Revoke"}
    PROVE  op'[v] = op[v] /\ target'[v] = target[v] /\ before'[v] = before[v]
<1>1. pc[v] \notin {"idle", "createAppliance"}
  BY LifecycleAssumption
     DEF TypeInv, Shape, CreatorSteps, Creators, Claimers, Endpoints, Issuers
<1>2. ASSUME NEW r \in Requests, Serve(r) \/ Abort(r)
      PROVE  op'[v] = op[v] /\ target'[v] = target[v] /\ before'[v] = before[v]
  BY <1>1, <1>2, ServeMoves DEF Moves
<1>3. ASSUME NEW r \in Requests, NEW o \in Ops, NEW b \in Presentable(o),
             NEW a \in Appliances \cup {NULL}, Begin(r, o, a, b)
      PROVE  op'[v] = op[v] /\ target'[v] = target[v] /\ before'[v] = before[v]
  BY <1>1, <1>3 DEF Begin, At, TypeInv, TypeOK
<1>4. CASE Tick
  BY <1>4 DEF Tick, requestVars
<1> QED
  BY <1>2, <1>3, <1>4 DEF Next

\* A claim gets past the check of the status only while it is "pending".
LEMMA ReadsPending ==
    ASSUME TypeInv, Next, NEW d \in Requests, op'[d] \in Claimers, pc'[d] \in StatusRead
    PROVE  /\ op[d] \in Claimers /\ target'[d] = target[d] /\ before'[d] = before[d]
           /\ target[d] \in Appliances
           /\ pc[d] \in StatusRead \/ status[target[d]] = "pending"
<1>1. op[d] \in Claimers /\ (pc[d] \in StatusRead \/ status[target[d]] = "pending")
  <2>1. ASSUME NEW r \in Requests, Serve(r) \/ Abort(r)
        PROVE  op[d] \in Claimers /\ (pc[d] \in StatusRead \/ status[target[d]] = "pending")
    BY <2>1, ServeMoves, ServeFlow DEF Moves, StatusFlow, TypeInv, TypeOK, Claimers
  <2>2. ASSUME NEW r \in Requests, NEW o \in Ops, NEW b \in Presentable(o),
               NEW a \in Appliances \cup {NULL}, Begin(r, o, a, b)
        PROVE  op[d] \in Claimers /\ pc[d] \in StatusRead
    <3>1. FirstCall(o) \notin StatusRead
      BY DEF FirstCall, StatusRead
    <3>2. d # r
      BY <2>2, <3>1 DEF Begin, Goto, TypeInv, TypeOK
    <3> QED
      BY <2>2, <3>2 DEF Begin, Goto, TypeInv, TypeOK, Claimers, StatusRead
  <2>3. CASE Tick
    BY <2>3 DEF Tick, requestVars, Claimers, StatusRead
  <2> QED
    BY <2>1, <2>2, <2>3 DEF Next
<1> QED
  BY <1>1, WriterKeeps DEF TypeInv, Shape, Writers, Issuers

\* A mark is stamped once: when it is made.
LEMMA MarkStamped ==
    ASSUME TypeInv, TimedNext, NEW c \in Requests, Marks(c)'
    PROVE  /\ op[c] \in Claimers /\ target'[c] = target[c] /\ before'[c] = before[c]
           /\ target[c] \in Appliances
           /\ \/ Marks(c) /\ marked'[c] = marked[c]
              \/ /\ Serve(c) \/ Abort(c)
                 /\ pc[c] = "markClaimed" /\ pc'[c] = "deleteClaimToken" /\ marked'[c] = now
<1>1. Next
  BY DEF TimedNext
<1>2. /\ op[c] \in Claimers /\ target'[c] = target[c] /\ before'[c] = before[c]
      /\ target[c] \in Appliances /\ pc'[c] \in StatusSet
  BY <1>1, ReadsPending DEF Marks, StatusRead, StatusSet, Claimers
<1>3. CASE pc[c] \in StatusSet
  BY <1>2, <1>3, Stamped DEF MarksClaimed, Marks, StatusSet
<1>4. CASE pc[c] \notin StatusSet
  <2>1. ASSUME NEW r \in Requests, NEW o \in Ops, NEW b \in Presentable(o),
               NEW a \in Appliances \cup {NULL}, Begin(r, o, a, b)
        PROVE  FALSE
    <3>1. FirstCall(o) \notin StatusSet
      BY DEF FirstCall, StatusSet
    <3> QED
      BY <1>2, <1>4, <2>1, <3>1 DEF Begin, Goto, TypeInv, TypeOK
  <2>2. ASSUME NEW r \in Requests, Serve(r) \/ Abort(r)
        PROVE  c = r /\ pc'[c] = "deleteClaimToken" /\ pc[c] = "markClaimed"
    <3>1. c = r
      BY <1>2, <1>4, <2>2, ServeMoves DEF Moves, TypeInv, TypeOK
    <3> QED
      BY <1>2, <1>4, <2>2, <3>1, ServeMark DEF MarkFlow
  <2>3. ~Tick
    BY <1>2, <1>4 DEF Tick, requestVars
  <2>4. (Serve(c) \/ Abort(c)) /\ pc'[c] = "deleteClaimToken" /\ pc[c] = "markClaimed"
    BY <1>1, <2>1, <2>2, <2>3 DEF Next
  <2> QED
    BY <1>2, <2>4, Stamped DEF MarksClaimed
<1> QED
  BY <1>3, <1>4

LEMMA MarkedStep ==
    ASSUME TypeInv, SettledInv, MarkedInv, TimedNext
    PROVE  MarkedInv'
<1>1. Next /\ now \in Nat /\ now' \in Nat /\ now <= now'
  BY NowGrows DEF TimedNext, TypeInv, TypeOK, PersistenceTypeOK
<1>2. /\ Timestamp(now) \in Nat /\ Timestamp(now') \in Nat /\ Timestamp(now) <= Timestamp(now')
  BY <1>1, TimestampFacts
<1>3. ASSUME NEW a \in Appliances, claimedAt'[a] # NULL
      PROVE  claimedAt'[a] \in Nat /\ claimedAt'[a] <= Timestamp(now')
  <2>1. CASE claimedAt'[a] = claimedAt[a]
    BY <1>2, <1>3, <2>1 DEF MarkedInv
  <2>2. CASE claimedAt'[a] # claimedAt[a]
    <3>1. PICK r \in Requests : Serve(r) \/ Abort(r)
      BY <1>1, <2>2 DEF Next, Begin, Tick, dbVars, applianceVars
    <3>2. claimedAt'[a] = Timestamp(now)
      BY <2>2, <3>1, ServeMark DEF MarkFlow, TypeInv, TypeOK, PersistenceTypeOK
    <3> QED
      BY <1>2, <3>2
  <2> QED
    BY <2>1, <2>2
<1>4. ASSUME NEW a \in Appliances, RevokedSinceRead(a), status[a] # "pending"
      PROVE  RevokedSinceRead(a)'
  <2>1. PICK v \in Requests :
            /\ op[v] = "Revoke" /\ target[v] = a
            /\ \A d \in Requests :
                op[d] \in Claimers /\ target[d] = a /\ pc[d] \in StatusRead => v \notin before[d]
    BY <1>4 DEF RevokedSinceRead
  <2>2. op'[v] = "Revoke" /\ target'[v] = a
    BY <1>1, <2>1, WriterKeeps
  <2>3. ASSUME NEW d \in Requests, op'[d] \in Claimers, target'[d] = a, pc'[d] \in StatusRead
        PROVE  v \notin before'[d]
    BY <1>1, <1>4, <2>1, <2>3, ReadsPending
  <2> QED
    BY <2>2, <2>3 DEF RevokedSinceRead, Claimers, StatusRead
<1>5. ASSUME NEW c \in Requests, Marks(c)'
      PROVE  /\ marked'[c] \in Nat /\ marked'[c] <= now'
             /\ \/ /\ status'[target'[c]] = "active"
                   /\ claimedAt'[target'[c]] \in Nat
                   /\ Timestamp(marked'[c]) <= claimedAt'[target'[c]]
                \/ RevokedSinceRead(target[c])'
  <2>1. /\ target'[c] = target[c] /\ target[c] \in Appliances
        /\ \/ Marks(c) /\ marked'[c] = marked[c]
           \/ /\ Serve(c) \/ Abort(c)
              /\ pc[c] = "markClaimed" /\ pc'[c] = "deleteClaimToken" /\ marked'[c] = now
    BY <1>5, MarkStamped
  <2>2. CASE ~Marks(c)
    <3>1. status'[target[c]] = "active" /\ claimedAt'[target[c]] = Timestamp(now)
      BY <2>1, <2>2, ServeMark DEF MarkFlow, TypeInv, TypeOK, PersistenceTypeOK
    <3> QED
      BY <1>1, <1>2, <2>1, <2>2, <3>1
  <2>3. CASE Marks(c)
    <3>1. marked'[c] = marked[c] /\ marked[c] \in Nat /\ marked[c] <= now
      BY <2>1, <2>3 DEF MarkedInv, Marks, StatusSet
    <3>2. status[target[c]] \in {"active", "revoked"}
      BY <2>3 DEF SettledInv
    <3>3. CASE RevokedSinceRead(target[c])
      <4>1. RevokedSinceRead(target[c])'
        BY <1>4, <2>1, <3>2, <3>3
      <4> QED
        BY <1>1, <3>1, <4>1
    <3>4. CASE ~RevokedSinceRead(target[c])
      <4>1. /\ status[target[c]] = "active"
            /\ claimedAt[target[c]] \in Nat /\ Timestamp(marked[c]) <= claimedAt[target[c]]
            /\ claimedAt[target[c]] <= Timestamp(now)
        BY <2>1, <2>3, <3>4, NullAssumption, TimeAssumption DEF MarkedInv
      <4>2. CASE UNCHANGED <<status, claimedAt>>
        BY <1>1, <2>1, <3>1, <4>1, <4>2
      <4>3. CASE ~UNCHANGED <<status, claimedAt>>
        <5>1. PICK r \in Requests : Serve(r) \/ Abort(r)
          BY <1>1, <4>3 DEF Next, Begin, Tick, dbVars, applianceVars
        <5>2. StatusMoves(r) /\ MarkFlow(r) /\ Moves(r)
          BY <5>1, ServeStatus, ServeMark, ServeMoves
        <5>3. claimedAt'[target[c]] \in {claimedAt[target[c]], Timestamp(now)}
          BY <2>1, <5>2 DEF MarkFlow, TypeInv, TypeOK, PersistenceTypeOK
        <5>4. CASE status'[target[c]] = "active"
          <6>1. Timestamp(marked[c]) \in Nat
            BY <3>1, TimestampFacts
          <6> QED
            BY <1>1, <1>2, <2>1, <3>1, <4>1, <5>3, <5>4, <6>1
        <5>5. CASE status'[target[c]] # "active"
          <6>1. pc[r] = "setStatusRevoked" /\ target[r] = target[c]
            BY <2>1, <4>1, <5>2, <5>5 DEF StatusMoves, TypeInv, TypeOK, PersistenceTypeOK
          <6>2. op[r] = "Revoke" /\ \A d \in Requests : r \notin before[d]
            BY <6>1 DEF TypeInv, Shape, BeforeEnded, Ended
          <6>3. RevokedSinceRead(target[c])
            BY <6>1, <6>2 DEF RevokedSinceRead
          <6> QED
            BY <3>4, <6>3
        <5> QED
          BY <5>4, <5>5
      <4> QED
        BY <4>2, <4>3
    <3> QED
      BY <3>3, <3>4
  <2> QED
    BY <2>2, <2>3
<1> QED
  BY <1>3, <1>5 DEF MarkedInv

LEMMA ExcludeStep ==
    ASSUME TypeInv, SettledInv, MarkedInv, ExcludeInv, TimedNext
    PROVE  ExcludeInv'
<1>1. Next
  BY DEF TimedNext
<1>2. ASSUME NEW c \in Requests, Marks(c)'
      PROVE  /\ op[c] \in Claimers /\ target'[c] = target[c] /\ before'[c] = before[c]
             /\ target[c] \in Appliances
             /\ \/ Marks(c) /\ marked'[c] = marked[c]
                \/ /\ Serve(c) \/ Abort(c)
                   /\ pc[c] = "markClaimed" /\ pc'[c] = "deleteClaimToken" /\ marked'[c] = now
  BY <1>2, MarkStamped
\* The claim d marks now, c had marked before.
<1>3. ASSUME NEW c \in Requests, NEW d \in Requests, c # d, target[c] = target[d],
             op[d] \in Claimers, Marks(c), Serve(d) \/ Abort(d),
             pc[d] = "markClaimed", pc'[d] = "deleteClaimToken",
             Timestamp(marked[c]) = Timestamp(now)
      PROVE  \E v \in Requests : op[v] = "Revoke" /\ target[v] = target[c] /\ Overlap(v, d)
  <2>1. MarkApplianceClaimedAffects(target[d]) /\ target[d] \in Appliances
    BY <1>3, ServeMark DEF MarkFlow, TypeInv, Shape, Writers, Issuers
  <2>2. RevokedSinceRead(target[c])
    <3> SUFFICES ASSUME status[target[c]] = "active", claimedAt[target[c]] \in Nat,
                        Timestamp(now) <= claimedAt[target[c]],
                        claimedAt[target[c]] <= Timestamp(now)
                 PROVE  FALSE
      BY <1>3, <2>1, TimeAssumption DEF MarkedInv
    <3>1. now \in Nat
      BY DEF TypeInv, TypeOK, PersistenceTypeOK
    <3>2. Timestamp(now) \in Nat
      BY <3>1, TimestampFacts
    <3>3. claimedAt[target[c]] = Timestamp(now)
      BY <3>2
    <3> QED
      BY <1>3, <2>1, <3>3 DEF MarkApplianceClaimedAffects
  <2>3. PICK v \in Requests :
            /\ op[v] = "Revoke" /\ target[v] = target[c]
            /\ \A e \in Requests :
                op[e] \in Claimers /\ target[e] = target[c] /\ pc[e] \in StatusRead
                    => v \notin before[e]
    BY <2>2 DEF RevokedSinceRead
  <2>4. v \notin before[d]
    BY <1>3, <2>3 DEF StatusRead
  <2>5. d \notin before[v]
    BY <1>3 DEF TypeInv, BeforeEnded, Ended
  <2>6. v # d
    BY <1>3, <2>3 DEF Claimers
  <2> QED
    BY <2>3, <2>4, <2>5, <2>6 DEF Overlap
<1>4. ASSUME NEW c \in Requests, NEW d \in Requests, Marks(c)', Marks(d)', c # d,
             target'[c] = target'[d], Timestamp(marked'[c]) = Timestamp(marked'[d])
      PROVE  \E v \in Requests :
                /\ op[v] = "Revoke" /\ target[v] = target[c]
                /\ Overlap(v, c) \/ Overlap(v, d)
  <2>1. ASSUME ~Marks(c), ~Marks(d) PROVE FALSE
    <3>1. (Serve(c) \/ Abort(c)) /\ pc[d] = "markClaimed" /\ pc'[d] = "deleteClaimToken"
      BY <1>2, <1>4, <2>1
    <3> QED
      BY <1>4, <3>1, ServeMoves DEF Moves, TypeInv, TypeOK
  <2>2. CASE Marks(c) /\ Marks(d)
    BY <1>2, <1>4, <2>2 DEF ExcludeInv, Marks, StatusSet
  <2>3. CASE Marks(c) /\ ~Marks(d)
    BY <1>2, <1>3, <1>4, <2>3 DEF Marks, StatusSet
  <2>4. CASE ~Marks(c) /\ Marks(d)
    BY <1>2, <1>3, <1>4, <2>4 DEF Marks, StatusSet
  <2> QED
    BY <2>1, <2>2, <2>3, <2>4
<1>5. ASSUME NEW c \in Requests, NEW d \in Requests, Marks(c)', Marks(d)', c # d,
             target'[c] = target'[d], Timestamp(marked'[c]) = Timestamp(marked'[d])
      PROVE  \E v \in Requests :
                /\ op'[v] = "Revoke" /\ target'[v] = target'[c]
                /\ Overlap(v, c)' \/ Overlap(v, d)'
  <2>1. PICK v \in Requests :
            /\ op[v] = "Revoke" /\ target[v] = target[c]
            /\ Overlap(v, c) \/ Overlap(v, d)
    BY <1>4, <1>5
  <2>2. op'[v] = "Revoke" /\ target'[v] = target[v] /\ before'[v] = before[v]
    BY <1>1, <2>1, WriterKeeps
  <2>3. target'[c] = target[c] /\ before'[c] = before[c] /\ before'[d] = before[d]
    BY <1>2, <1>5
  <2>4. Overlap(v, c)' \/ Overlap(v, d)'
    BY <2>1, <2>2, <2>3 DEF Overlap
  <2> QED
    BY <2>1, <2>2, <2>3, <2>4
<1> QED
  BY <1>5 DEF ExcludeInv

-----------------------------------------------------------------------------
(* What an answer can be claimed with stays there.                         *)

\* Creators whose claim token, and whose exchange code, has been inserted.
HasStored(q) == op[q] \in Creators /\ pc[q] \in {"saveExchangeCode", "respond", "200"}

HasStoredCode(q) == op[q] = "Enroll" /\ pc[q] \in {"respond", "200"}

TokenKept(q) ==
    /\ claimTokens[target[q]] # NULL
    /\ claimTokens[target[q]].tokenHash = Hash(GenerateClaimToken(q))
    /\ claimTokens[target[q]].expiresAt = Timestamp(stored[q] + ClaimTokenExpiry)

CodeKept(q) ==
    /\ exchangeCodes[target[q]] # NULL
    /\ exchangeCodes[target[q]].codeHash = Hash(GenerateExchangeCode(q))
    /\ exchangeCodes[target[q]].claimTokenHash = Hash(GenerateClaimToken(q))
    /\ exchangeCodes[target[q]].expiresAt \in Nat
    /\ exchangeCodes[target[q]].expiresAt >= Timestamp(stored[q] + ExchangeCodeExpiry)

\* While the appliance is pending, each row is the creator's until it expires.
StoredInv ==
    \A q \in Requests : HasStored(q) =>
        /\ target[q] \in Appliances /\ status[target[q]] # "absent"
        /\ stored[q] \in Nat /\ stored[q] <= now
        /\ status[target[q]] = "pending" =>
            /\ now <= Timestamp(stored[q] + ClaimTokenExpiry) => TokenKept(q)
            /\ HasStoredCode(q) /\ now <= Timestamp(stored[q] + ExchangeCodeExpiry) => CodeKept(q)

\* How a handler's step gets a creator past its inserts.
StoreFlow(r) ==
    /\ now' = now
    /\ op[r] \in Creators /\ pc'[r] \in {"saveExchangeCode", "respond"} =>
        /\ target[r] \in Appliances /\ target'[r] = target[r] /\ status' = status
        /\ \/ /\ pc[r] = "saveClaimToken" /\ (pc'[r] = "saveExchangeCode" <=> op[r] = "Enroll")
              /\ claimTokens'[target[r]] = [tokenHash |-> Hash(GenerateClaimToken(r)),
                                            expiresAt |-> Timestamp(now + ClaimTokenExpiry)]
           \/ /\ pc[r] = "saveExchangeCode" /\ pc'[r] = "respond"
              /\ exchangeCodes'[target[r]] =
                    [codeHash |-> Hash(GenerateExchangeCode(r)),
                     claimTokenHash |-> Hash(GenerateClaimToken(r)),
                     expiresAt |-> Timestamp(now + ExchangeCodeExpiry)]
    /\ op[r] \in Creators /\ pc'[r] = "200" => pc[r] = "respond"

LEMMA ServeStores ==
    ASSUME TypeInv, PendingInv, NEW r \in Requests, Serve(r) \/ Abort(r)
    PROVE  StoreFlow(r)
<1> USE DEF StoreFlow, TypeInv, TypeOK, PersistenceTypeOK, Shape, At, Goto, KeepRequest,
        dbVars, tokenVars, applianceVars, CreatorSteps, Creators, Claimers
<1>1. CASE InsertAppliance(r) \/ InsertCollides(r)
  BY <1>1 DEF InsertAppliance, InsertCollides
<1>2. CASE IssueClaimToken(r)
  BY <1>2 DEF IssueClaimToken, SaveClaimToken, PendingInv, Inserting
<1>3. CASE IssueExchangeCode(r)
  BY <1>3 DEF IssueExchangeCode, SaveEnrollExchangeCode, PendingInv, Inserting
<1>4. CASE CheckCredential(r)
  BY <1>4 DEF CheckCredential, GetClaimToken, DeleteExpiredToken, GetExchangeCode,
              DeleteExpiredCode, CheckPin, RequireOwningGroup, CheckSecretHash, CheckActive
<1>5. CASE Issue(r)
  <2>1. op[r] \notin Creators
    BY <1>5 DEF Issue, GetAppliance, CreateK8sSecret, GetK8sSecret, UpdateK8sSecret,
                StoreSecretHash, MarkClaimed, DropClaimToken, DropExchangeCode, WriteSteps,
                Issuers, Rotators
  <2>2. now' = now
    BY <1>5, ServeExpiry DEF ExpiryFlow, Serve
  <2> QED
    BY <2>1, <2>2
<1>6. CASE Withdraw(r)
  BY <1>6 DEF Withdraw, SetStatusRevoked, DeleteK8sSecret, ClearSecretHash
<1>7. CASE Respond(r) \/ Abort(r)
  BY <1>7 DEF Respond, Abort
<1> QED
  BY <1>1, <1>2, <1>3, <1>4, <1>5, <1>6, <1>7 DEF Serve, Create

LEMMA StatusBack ==
    ASSUME TypeInv, Next, NEW a \in Appliances, status[a] # "absent"
    PROVE  status'[a] # "absent" /\ (status'[a] = "pending" => status[a] = "pending")
<1> USE DEF TypeInv, TypeOK, PersistenceTypeOK
<1>1. ASSUME NEW r \in Requests, Serve(r) \/ Abort(r)
      PROVE  status'[a] # "absent" /\ (status'[a] = "pending" => status[a] = "pending")
  BY <1>1, ServeStatus DEF StatusMoves
<1> QED
  BY <1>1 DEF Next, Begin, Tick, dbVars, applianceVars

\* A creator past its first insert got there in this step, or keeps what it
\* was sent with and when it stored it.
LEMMA StoredFrom ==
    ASSUME TypeInv, PendingInv, TimedNext, NEW q \in Requests, HasStored(q)'
    PROVE  /\ op'[q] = op[q] /\ op[q] \in Creators
           /\ \/ /\ HasStored(q) /\ target'[q] = target[q] /\ stored'[q] = stored[q]
                 /\ \/ pc'[q] = "saveExchangeCode" \/ HasStoredCode(q) \/ op[q] # "Enroll"
                    \/ pc[q] = "saveExchangeCode" /\ StoreFlow(q) /\ pc'[q] = "respond"
              \/ /\ pc[q] = "saveClaimToken" /\ StoreFlow(q)
                 /\ pc'[q] \in {"saveExchangeCode", "respond"} /\ stored'[q] = now
<1> USE DEF TypeInv, TypeOK, HasStored
<1>1. Next
  BY DEF TimedNext
<1>2. stored'[q] = IF Stores(q) THEN now ELSE stored[q]
  BY Stamped
<1>3. ASSUME NEW r \in Requests, NEW o \in Ops, NEW b \in Presentable(o),
             NEW a \in Appliances \cup {NULL}, Begin(r, o, a, b)
      PROVE  UNCHANGED <<pc[q], op[q], target[q]>>
  <2>1. FirstCall(o) \notin {"saveExchangeCode", "respond", "200"}
    BY DEF FirstCall
  <2> QED
    BY <1>3, <2>1 DEF Begin, Goto
<1>4. CASE UNCHANGED <<pc[q], op[q], target[q]>>
  BY <1>2, <1>4 DEF Stores, HasStoredCode
<1>5. ASSUME NEW r \in Requests, Serve(r) \/ Abort(r), q # r
      PROVE  UNCHANGED <<pc[q], op[q], target[q]>>
  BY <1>5, ServeMoves DEF Moves
<1>6. CASE Serve(q) \/ Abort(q)
  <2>1. StoreFlow(q) /\ Moves(q) /\ op'[q] = op[q] /\ op[q] \in Creators
    BY <1>6, ServeStores, ServeMoves DEF Moves
  <2>2. CASE pc'[q] = "200"
    BY <1>2, <2>1, <2>2 DEF StoreFlow, Moves, Stores, HasStoredCode
  <2>3. CASE pc'[q] \in {"saveExchangeCode", "respond"}
    BY <1>2, <2>1, <2>3 DEF StoreFlow, Moves, Stores, HasStoredCode
  <2> QED
    BY <2>2, <2>3
<1>7. CASE Tick
  BY <1>4, <1>7 DEF Tick, requestVars
<1> QED
  BY <1>1, <1>3, <1>4, <1>5, <1>6, <1>7 DEF Next

LEMMA StoredStep ==
    ASSUME TypeInv, SettledInv, PendingInv, StoredInv, TimedNext
    PROVE  StoredInv'
<1> USE TimeAssumption
<1> SUFFICES ASSUME NEW q \in Requests, HasStored(q)'
             PROVE  /\ target'[q] \in Appliances /\ status'[target'[q]] # "absent"
                    /\ stored'[q] \in Nat /\ stored'[q] <= now'
                    /\ status'[target'[q]] = "pending" =>
                        /\ now' <= Timestamp(stored'[q] + ClaimTokenExpiry) => TokenKept(q)'
                        /\ HasStoredCode(q)' /\ now' <= Timestamp(stored'[q] + ExchangeCodeExpiry)
                            => CodeKept(q)'
  BY DEF StoredInv
<1>1. Next /\ now \in Nat /\ now' \in Nat /\ now <= now'
  BY NowGrows DEF TimedNext, TypeInv, TypeOK, PersistenceTypeOK
<1>2. op'[q] = op[q] /\ op[q] \in Creators
  BY StoredFrom
\* A row the creator has stored.
<1>3. ASSUME HasStored(q), target'[q] = target[q], stored'[q] = stored[q]
      PROVE  /\ target[q] \in Appliances /\ status'[target[q]] # "absent"
             /\ stored[q] \in Nat /\ stored[q] <= now'
             /\ status'[target[q]] = "pending" =>
                 /\ now' <= Timestamp(stored[q] + ClaimTokenExpiry) => TokenKept(q)'
                 /\ HasStoredCode(q) /\ now' <= Timestamp(stored[q] + ExchangeCodeExpiry)
                      => CodeKept(q)'
  <2>1. /\ target[q] \in Appliances /\ status[target[q]] # "absent"
        /\ stored[q] \in Nat /\ stored[q] <= now
        /\ status[target[q]] = "pending" =>
            /\ now <= Timestamp(stored[q] + ClaimTokenExpiry) => TokenKept(q)
            /\ HasStoredCode(q) /\ now <= Timestamp(stored[q] + ExchangeCodeExpiry) => CodeKept(q)
    BY <1>3 DEF StoredInv
  <2>2. status'[target[q]] # "absent" /\ (status'[target[q]] = "pending" => status[target[q]] = "pending")
    BY <1>1, <2>1, StatusBack
  <2>3. /\ Timestamp(stored[q] + ClaimTokenExpiry) \in Nat
        /\ Timestamp(stored[q] + ExchangeCodeExpiry) \in Nat
    BY <2>1, TimestampFacts
  <2>4. ASSUME status[target[q]] = "pending"
        PROVE  /\ claimTokens[target[q]] # NULL /\ ~Expired(claimTokens[target[q]])
                    => claimTokens'[target[q]] = claimTokens[target[q]]
               /\ exchangeCodes[target[q]] # NULL /\ ~Expired(exchangeCodes[target[q]])
                    => exchangeCodes'[target[q]] = exchangeCodes[target[q]]
    BY <1>1, <2>1, <2>4, PendingKept DEF vars, dbVars, tokenVars
  <2>5. ASSUME status'[target[q]] = "pending", now' <= Timestamp(stored[q] + ClaimTokenExpiry)
        PROVE  TokenKept(q)'
    <3>1. TokenKept(q)
      BY <1>1, <2>1, <2>2, <2>3, <2>5
    <3>2. ~Expired(claimTokens[target[q]])
      BY <1>1, <2>3, <2>5, <3>1 DEF Expired, TokenKept
    <3> QED
      BY <1>3, <2>2, <2>4, <2>5, <3>1, <3>2 DEF TokenKept
  <2>6. ASSUME status'[target[q]] = "pending", HasStoredCode(q),
               now' <= Timestamp(stored[q] + ExchangeCodeExpiry)
        PROVE  CodeKept(q)'
    <3>1. CodeKept(q)
      BY <1>1, <2>1, <2>2, <2>3, <2>6
    <3>2. ~Expired(exchangeCodes[target[q]])
      BY <1>1, <2>3, <2>6, <3>1 DEF Expired, CodeKept
    <3> QED
      BY <1>3, <2>2, <2>4, <2>6, <3>1, <3>2 DEF CodeKept
  <2> QED
    BY <1>1, <2>1, <2>2, <2>5, <2>6
\* The code inserted by this step, no earlier than the token.
<1>4. ASSUME HasStored(q), target'[q] = target[q], stored'[q] = stored[q],
             pc[q] = "saveExchangeCode", StoreFlow(q), pc'[q] = "respond"
      PROVE  CodeKept(q)'
  <2>1. exchangeCodes'[target'[q]] = [codeHash |-> Hash(GenerateExchangeCode(q)),
                                      claimTokenHash |-> Hash(GenerateClaimToken(q)),
                                      expiresAt |-> Timestamp(now + ExchangeCodeExpiry)]
    BY <1>2, <1>4 DEF StoreFlow
  <2>2. stored[q] \in Nat /\ stored[q] <= now
    BY <1>4 DEF StoredInv
  <2>3. /\ Timestamp(now + ExchangeCodeExpiry) \in Nat
        /\ Timestamp(now + ExchangeCodeExpiry) >= Timestamp(stored[q] + ExchangeCodeExpiry)
    BY <1>1, <2>2, TimestampFacts
  <2>4. Hash(GenerateExchangeCode(q)) \in Hashes /\ Hash(GenerateClaimToken(q)) \in Hashes
    BY CredentialFacts
  <2>5. exchangeCodes'[target'[q]] # NULL
    BY <2>1, <2>3, <2>4, RowAssumption DEF ExchangeCodeRows
  <2> QED
    BY <1>4, <2>1, <2>3, <2>5 DEF CodeKept
\* The token inserted by this step.
<1>5. ASSUME pc[q] = "saveClaimToken", StoreFlow(q), pc'[q] \in {"saveExchangeCode", "respond"},
             stored'[q] = now
      PROVE  /\ target'[q] \in Appliances /\ status'[target'[q]] # "absent"
             /\ stored'[q] <= now' /\ TokenKept(q)' /\ ~HasStoredCode(q)'
  <2>1. /\ target[q] \in Appliances /\ target'[q] = target[q] /\ status' = status /\ now' = now
        /\ claimTokens'[target[q]] = [tokenHash |-> Hash(GenerateClaimToken(q)),
                                      expiresAt |-> Timestamp(now + ClaimTokenExpiry)]
        /\ pc'[q] = "saveExchangeCode" <=> op[q] = "Enroll"
    BY <1>2, <1>5 DEF StoreFlow
  <2>2. status[target[q]] # "absent"
    BY <1>5 DEF PendingInv, Inserting
  <2>3. Timestamp(now + ClaimTokenExpiry) \in Nat /\ Hash(GenerateClaimToken(q)) \in Hashes
    BY <1>1, TimestampFacts, CredentialFacts
  <2>4. claimTokens'[target'[q]] # NULL
    BY <2>1, <2>3, RowAssumption DEF ClaimTokenRows
  <2> QED
    BY <1>1, <1>2, <1>5, <2>1, <2>2, <2>4 DEF TokenKept, HasStoredCode
<1>6. CASE HasStored(q) /\ target'[q] = target[q] /\ stored'[q] = stored[q]
  <2>1. \/ HasStoredCode(q)' => HasStoredCode(q)
        \/ pc[q] = "saveExchangeCode" /\ StoreFlow(q) /\ pc'[q] = "respond"
        \/ pc[q] = "saveClaimToken"
    BY <1>2, StoredFrom DEF HasStoredCode
  <2> QED
    BY <1>3, <1>4, <1>6, <2>1 DEF HasStored
<1>7. CASE ~(HasStored(q) /\ target'[q] = target[q] /\ stored'[q] = stored[q])
  BY <1>1, <1>5, <1>7, StoredFrom
<1> QED
  BY <1>6, <1>7

-----------------------------------------------------------------------------
(* The theorems. *)

TimesInv == BeganInv /\ LifetimeInv /\ InTimeInv /\ MarkedInv /\ ExcludeInv

LEMMA SpecTimesInv == TimedSpec => []TimesInv
<1>1. TimedInit => TimesInv
  <2> SUFFICES ASSUME TimedInit PROVE TimesInv
    OBVIOUS
  <2> USE LifecycleAssumption DEF TimedInit, Init, PersistenceInit
  <2>1. BeganInv /\ InTimeInv
    BY DEF BeganInv, InTimeInv, OK, Claimers, Endpoints, Issuers
  <2>2. LifetimeInv
    BY DEF LifetimeInv
  <2>3. MarkedInv /\ ExcludeInv
    BY DEF MarkedInv, ExcludeInv, Marks, StatusSet
  <2> QED
    BY <2>1, <2>2, <2>3 DEF TimesInv
<1>2. TypeInv /\ SettledInv /\ EntInv /\ TimesInv /\ [TimedNext]_timedVars => TimesInv'
  <2> SUFFICES ASSUME TypeInv, SettledInv, EntInv, TimesInv, [TimedNext]_timedVars
               PROVE  TimesInv'
    OBVIOUS
  <2>1. CASE TimedNext
    BY <2>1, BeganStep, LifetimeStep, InTimeStep, MarkedStep, ExcludeStep DEF TimesInv
  <2>2. CASE UNCHANGED timedVars
    <3> USE <2>2 DEF timedVars, vars, requestVars, dbVars, applianceVars, tokenVars, OK
    <3>1. BeganInv' /\ LifetimeInv'
      BY DEF TimesInv, BeganInv, LifetimeInv
    <3>2. InTimeInv'
      BY DEF TimesInv, InTimeInv, Answer, Lifetime
    <3>3. MarkedInv'
      BY DEF TimesInv, MarkedInv, RevokedSinceRead, Marks
    <3>4. ExcludeInv'
      BY DEF TimesInv, ExcludeInv, Marks, Overlap
    <3> QED
      BY <3>1, <3>2, <3>3, <3>4 DEF TimesInv
  <2> QED
    BY <2>1, <2>2
<1>3. IInv => TypeInv /\ SettledInv
  BY DEF IInv
<1> QED
  BY <1>1, <1>2, <1>3, SpecIInv, SpecEntInv, TimesLeaveLifecycle, PTL DEF TimedSpec

\* No claim succeeds later than its credential lives, for any lifetimes and
\* however long its creator took to answer.
THEOREM LateClaims == TimedSpec => []LateClaimFails
<1>1. TimesInv => LateClaimFails
  BY DEF TimesInv, InTimeInv, LateClaimFails, OK, Checked
<1> QED
  BY SpecTimesInv, <1>1, PTL

\* Of two claims that both succeeded in one second, one overlapped a
\* revocation, for any number of claims.
THEOREM SameSecondClaims == TimedSpec => []SameSecondClaimsExclude
<1>1. TimesInv => SameSecondClaimsExclude
  BY DEF TimesInv, ExcludeInv, SameSecondClaimsExclude, Marks, StatusSet, OK
<1> QED
  BY SpecTimesInv, <1>1, PTL

LEMMA SpecStoredInv == TimedSpec => []StoredInv
<1>1. TimedInit => StoredInv
  BY DEF TimedInit, Init, StoredInv, HasStored
<1>2. TypeInv /\ SettledInv /\ PendingInv /\ StoredInv /\ [TimedNext]_timedVars => StoredInv'
  <2>1. CASE UNCHANGED timedVars
    BY <2>1 DEF StoredInv, HasStored, HasStoredCode, TokenKept, CodeKept, timedVars, vars,
                requestVars, dbVars, applianceVars, tokenVars
  <2> QED
    BY <2>1, StoredStep
<1>3. IInv => TypeInv /\ SettledInv
  BY DEF IInv
<1> QED
  BY <1>1, <1>2, <1>3, SpecIInv, SpecPending, TimesLeaveLifecycle, PTL DEF TimedSpec

\* A pending appliance can be claimed with what its creator was answered, for
\* as long as that lives, whatever is refused, fails or overlaps.
THEOREM AnswersCanClaim == TimedSpec => []AnsweredCanClaim
<1>1. StoredInv => AnsweredCanClaim
  <2> SUFFICES ASSUME StoredInv, NEW q \in Requests, OK(q), op[q] \in Creators,
                      status[target[q]] = "pending", InLifetime(q)
               PROVE  /\ claimTokens[target[q]] # NULL
                      /\ claimTokens[target[q]].tokenHash = Hash(GenerateClaimToken(q))
                      /\ op[q] = "Enroll" =>
                            /\ exchangeCodes[target[q]] # NULL
                            /\ exchangeCodes[target[q]].codeHash = Hash(Answer(q))
                            /\ exchangeCodes[target[q]].claimTokenHash
                                    = claimTokens[target[q]].tokenHash
    BY DEF AnsweredCanClaim
  <2>1. HasStored(q) /\ (op[q] = "Enroll" => HasStoredCode(q))
    BY DEF HasStored, HasStoredCode, OK
  <2>2. now <= Timestamp(stored[q] + ClaimTokenExpiry) => TokenKept(q)
    BY <2>1 DEF StoredInv
  <2>3. op[q] = "Enroll" /\ now <= Timestamp(stored[q] + ExchangeCodeExpiry) => CodeKept(q)
    BY <2>1 DEF StoredInv
  <2>4. op[q] = "Enroll" => Answer(q) = GenerateExchangeCode(q)
    BY DEF Answer, Issuers, Claimers, Rotators
  <2> QED
    BY <2>2, <2>3, <2>4 DEF InLifetime, TokenKept, CodeKept
<1> QED
  BY SpecStoredInv, <1>1, PTL
=============================================================================
