--------------------------- MODULE CloudLoginProofs ---------------------------
(***************************************************************************)
(* Proofs that cloud login leaves the lifecycle as it is, that the table   *)
(* of login codes implements LoginCodes, and that a credential withdrawn   *)
(* by the lifecycle opens nothing here, for any number of logins.          *)
(***************************************************************************)
EXTENDS CloudLogin, LifecycleProofs

\* A login step changes nothing of Lifecycle: every behaviour of the whole is
\* a behaviour of the lifecycle, whose theorems hold of it.
THEOREM LoginsLeaveLifecycle == LoginSpec => Spec
<1>1. LoginInit => Init
  BY DEF LoginInit
<1>2. [LoginNext]_lvars => [Next]_vars
  BY DEF LoginNext, lvars
<1> QED
  BY <1>1, <1>2, PTL DEF LoginSpec, Spec

LEMMA LoginIInv == LoginSpec => []IInv
  BY LoginsLeaveLifecycle, SpecIInv, PTL

LEMMA ClockStep == TypeInv /\ [Next]_vars => now' >= now
<1> SUFFICES ASSUME TypeInv, [Next]_vars PROVE now' >= now
  OBVIOUS
<1> USE DEF TypeInv, TypeOK, PersistenceTypeOK
<1>1. ASSUME NEW r \in Requests, NEW o \in Ops, NEW b \in Presentable(o),
             NEW a \in Appliances \cup {NULL}, Begin(r, o, a, b)
      PROVE  now' >= now
  BY <1>1 DEF Begin
<1>2. ASSUME NEW r \in Requests, Create(r) PROVE now' >= now
  BY <1>2 DEF Create, InsertAppliance, InsertCollides, IssueClaimToken, IssueExchangeCode
<1>3. ASSUME NEW r \in Requests, CheckCredential(r) PROVE now' >= now
  BY <1>3 DEF CheckCredential, GetClaimToken, DeleteExpiredToken, GetExchangeCode,
              DeleteExpiredCode, CheckPin, RequireOwningGroup, CheckSecretHash, CheckActive
<1>4. ASSUME NEW r \in Requests, Issue(r) PROVE now' >= now
  BY <1>4 DEF Issue, GetAppliance, CreateK8sSecret, GetK8sSecret, UpdateK8sSecret,
              StoreSecretHash, MarkClaimed, DropClaimToken, DropExchangeCode
<1>5. ASSUME NEW r \in Requests, Withdraw(r) PROVE now' >= now
  BY <1>5 DEF Withdraw, SetStatusRevoked, DeleteK8sSecret, ClearSecretHash
<1>6. ASSUME NEW r \in Requests, Respond(r) \/ Abort(r) PROVE now' >= now
  BY <1>6 DEF Respond, Abort
<1>7. CASE Tick \/ UNCHANGED vars
  BY <1>7 DEF Tick, vars
<1> QED
  BY <1>1, <1>2, <1>3, <1>4, <1>5, <1>6, <1>7 DEF Next, Serve

-----------------------------------------------------------------------------
\* Which endpoint a login at a given call was sent to, and what it brought.
LoginShape ==
    \A l \in Logins :
        /\ lpc[l] = "idle" => l \notin consumed \cup granted /\ loginCodes[l] = NULL
        /\ lpc[l] # "idle" => sent[l] \in LoginInputs /\ start[l] \in Starts
        /\ lpc[l] \in {"requireOwningGroup", "pruneLoginCodes", "insertLoginCode", "respond"}
            => sent[l].op = "CreateLoginCode" /\ sent[l].user \in Users
        /\ lpc[l] \in {"selectForUpdate", "deleteLoginCode"} => sent[l].op = "RedeemLoginCode"
        /\ lpc[l] \in {"checkSecretHash", "checkActive", "getGroupMember"}
            => sent[l].op # "CreateLoginCode"
        /\ lpc[l] \in {"pruneLoginCodes", "insertLoginCode", "respond"} => expiry[l] \in Nat
        /\ l \in AnsweredCodes => expiry[l] \in Nat
        /\ Redeems(l) => sent[l].code \in AnsweredCodes
        /\ l \in granted => lpc[l] = "200"

\* A row of the table is as its login inserted it.
RowsInv ==
    \A c \in Logins :
        loginCodes[c] # NULL
            => /\ lpc[c] \in {"respond", "200", "aborted"}
               /\ loginCodes[c].applianceId = sent[c].target
               /\ loginCodes[c].expiresAt = Timestamp(expiry[c])

\* Between its SELECT and its DELETE a redemption holds the lock of a row that
\* is there.  A code that was consumed was consumed once and is gone.
ConsumedInv ==
    /\ \A l \in Logins :
        lpc[l] = "deleteLoginCode"
            => /\ l \notin consumed
               /\ rowLock[sent[l].code] = l
               /\ loginCodes[sent[l].code] # NULL
               /\ sent[l].target = sent[sent[l].code].target
    /\ \A l \in consumed :
        /\ Redeems(l)
        /\ loginCodes[sent[l].code] = NULL
        /\ lpc[l] \notin {"checkSecretHash", "checkActive", "selectForUpdate"}
    /\ \A p, q \in consumed : sent[p].code = sent[q].code => p = q
    /\ \A l \in Logins : Redeems(l) /\ lpc[l] \in {"getGroupMember", "200"} => l \in consumed

\* LiveCodeIsRedeemable from the INSERT on.
LiveInv ==
    \A c \in Logins :
        ( /\ lpc[c] = "respond" \/ c \in AnsweredCodes
          /\ loginCodes[c] = NULL /\ now <= Timestamp(expiry[c]) )
            => \E q \in consumed : sent[q].code = c /\ sent[q].target = sent[c].target

LEMMA InputsAreTyped ==
    ASSUME TypeInv, NEW in \in LoginInput
    PROVE  /\ in \in LoginInputs
           /\ in.op = "CreateLoginCode" => in.user \in Users
           /\ in.op = "RedeemLoginCode" => in.code \in AnsweredCodes
<1>1. UseTokens \subseteq Credentials
  BY CredentialFacts
<1>2. Presentable("RotateOwnSecret") \subseteq Credentials
  <2>1. \A q \in Requests : OK(q) /\ op[q] # "Revoke" => op[q] \in Creators \cup Issuers
    BY DEF OK, TypeInv, TypeOK, Shape, Endpoints
  <2>2. \A q \in Requests : op[q] \in Creators \cup Issuers => Answer(q) \in Credentials
    BY CredentialFacts DEF Answer, Creators
  <2>3. Presentable("RotateOwnSecret")
            = {Answer(q) : q \in {r \in Requests : OK(r) /\ op[r] # "Revoke"}}
    BY DEF Presentable, OwnerOps, Creators
  <2> QED
    BY <2>1, <2>2, <2>3
<1>3. AnsweredCodes \subseteq Logins
  BY DEF AnsweredCodes
<1> QED
  BY <1>1, <1>2, <1>3 DEF LoginInput, LoginInputs, LoginEndpoints

LEMMA LoginTypesStep ==
    TypeInv /\ LoginVarsTypeOK /\ LoginShape /\ [LoginNext]_lvars => LoginVarsTypeOK'
<1> SUFFICES ASSUME TypeInv, LoginVarsTypeOK, LoginShape, [LoginNext]_lvars
             PROVE  LoginVarsTypeOK'
  OBVIOUS
<1> USE DEF LoginVarsTypeOK, LoginSteps, LoginEnded, LoginAt, LoginGoto
<1>1. ASSUME NEW l \in Logins, NEW in \in LoginInput, BeginLogin(l, in)
      PROVE  LoginVarsTypeOK'
  <2>1. in \in LoginInputs
    BY InputsAreTyped
  <2>2. [requests |-> {q \in Requests : pc[q] \in Ended},
         at |-> now, member |-> Member(AskedUser(in), in.target)] \in Starts
    BY DEF Starts, Member, TypeInv, TypeOK, PersistenceTypeOK
  <2> QED
    BY <1>1, <2>1, <2>2 DEF BeginLogin
<1>2. ASSUME NEW l \in Logins, OwnerCheck(l) PROVE LoginVarsTypeOK'
  <2>1. LoginCodeExpiry \in Nat
    BY TimeAssumption DEF LoginCodeExpiry, TypeInv, TypeOK, PersistenceTypeOK
  <2> QED
    BY <1>2, <2>1 DEF OwnerCheck
<1>3. ASSUME NEW l \in Logins, PruneLoginCodes(l) PROVE LoginVarsTypeOK'
  BY <1>3 DEF PruneLoginCodes
<1>4. ASSUME NEW l \in Logins, InsertLoginCode(l) PROVE LoginVarsTypeOK'
  <2>1. [applianceId |-> sent[l].target, userId |-> sent[l].user, expiresAt |-> Timestamp(expiry[l])]
            \in LoginCodeRows
    BY <1>4, TimestampFacts DEF InsertLoginCode, LoginShape, LoginCodeRows, LoginInputs
  <2> QED
    BY <1>4, <2>1 DEF InsertLoginCode
<1>5. ASSUME NEW l \in Logins, RespondCode(l) \/ LoginSecretHash(l) \/ LoginActive(l)
      PROVE  LoginVarsTypeOK'
  BY <1>5 DEF RespondCode, LoginSecretHash, LoginActive
<1>6. ASSUME NEW l \in Logins, SelectForUpdate(l) PROVE LoginVarsTypeOK'
  <2>1. sent[l].code \in Logins
    BY <1>6 DEF SelectForUpdate, LoginShape, Redeems, AnsweredCodes
  <2> QED
    BY <1>6, <2>1 DEF SelectForUpdate
<1>7. ASSUME NEW l \in Logins, DeleteLoginCode(l) PROVE LoginVarsTypeOK'
  BY <1>7 DEF DeleteLoginCode, Unlocked
<1>8. ASSUME NEW l \in Logins, GetGroupMember(l) \/ RegistryFails(l)
      PROVE  LoginVarsTypeOK'
  BY <1>8 DEF GetGroupMember, RegistryFails
<1>9. ASSUME NEW l \in Logins, AbortLogin(l) PROVE LoginVarsTypeOK'
  BY <1>9 DEF AbortLogin, RolledBack, Unlocked
<1>10. ASSUME NEW u \in Users, NEW g \in Groups, Leave(u, g) PROVE LoginVarsTypeOK'
  BY <1>10 DEF Leave
<1>11. CASE UNCHANGED loginVars
  BY <1>11 DEF loginVars
<1> QED
  BY <1>1, <1>2, <1>3, <1>4, <1>5, <1>6, <1>7, <1>8, <1>9, <1>10, <1>11
     DEF LoginNext, LoginStep, ServeLogin, lvars

\* What a step of a login leaves alone.
LoginMoves(l) ==
    /\ lpc[l] \in LoginSteps /\ lpc'[l] # "idle"
    /\ lpc' = [lpc EXCEPT ![l] = lpc'[l]]
    /\ UNCHANGED <<members, sent, start>>

LEMMA ServeLoginMoves ==
    ASSUME LoginVarsTypeOK, NEW l \in Logins, ServeLogin(l) \/ AbortLogin(l)
    PROVE  LoginMoves(l)
<1> USE DEF LoginVarsTypeOK, LoginMoves, LoginSteps, LoginAt, LoginGoto
<1>1. CASE OwnerCheck(l) \/ PruneLoginCodes(l) \/ InsertLoginCode(l) \/ RespondCode(l)
  BY <1>1 DEF OwnerCheck, PruneLoginCodes, InsertLoginCode, RespondCode
<1>2. CASE LoginSecretHash(l) \/ LoginActive(l) \/ SelectForUpdate(l) \/ DeleteLoginCode(l)
  BY <1>2 DEF LoginSecretHash, LoginActive, SelectForUpdate, DeleteLoginCode
<1>3. CASE GetGroupMember(l) \/ RegistryFails(l) \/ AbortLogin(l)
  BY <1>3 DEF GetGroupMember, RegistryFails, AbortLogin
<1> QED
  BY <1>1, <1>2, <1>3 DEF ServeLogin

\* An answered code stays answered.
LEMMA AnsweredStays ==
    ASSUME LoginVarsTypeOK, [LoginNext]_lvars
    PROVE  /\ AnsweredCodes \subseteq AnsweredCodes'
           /\ \A c \in AnsweredCodes : sent'[c] = sent[c]
<1> USE DEF LoginVarsTypeOK, AnsweredCodes
<1>1. ASSUME NEW l \in Logins, ServeLogin(l) \/ AbortLogin(l)
      PROVE  /\ AnsweredCodes \subseteq AnsweredCodes'
             /\ \A c \in AnsweredCodes : sent'[c] = sent[c]
  BY <1>1, ServeLoginMoves DEF LoginMoves, LoginSteps
<1>2. ASSUME NEW l \in Logins, NEW in \in LoginInput, BeginLogin(l, in)
      PROVE  /\ AnsweredCodes \subseteq AnsweredCodes'
             /\ \A c \in AnsweredCodes : sent'[c] = sent[c]
  BY <1>2 DEF BeginLogin, LoginAt, LoginGoto
<1>3. CASE UNCHANGED loginVars \/ \E u \in Users, g \in Groups : Leave(u, g)
  BY <1>3 DEF loginVars, Leave
<1> QED
  BY <1>1, <1>2, <1>3 DEF LoginNext, LoginStep, lvars

LEMMA LoginShapeStep ==
    TypeInv /\ LoginVarsTypeOK /\ LoginShape /\ [LoginNext]_lvars => LoginShape'
<1> SUFFICES ASSUME TypeInv, LoginVarsTypeOK, LoginShape, [LoginNext]_lvars
             PROVE  LoginShape'
  OBVIOUS
<1>a. AnsweredCodes \subseteq AnsweredCodes' /\ \A c \in AnsweredCodes : sent'[c] = sent[c]
  BY AnsweredStays
<1> USE DEF LoginVarsTypeOK, LoginShape, Redeems, LoginAt, LoginGoto
<1>1. ASSUME NEW l \in Logins, NEW in \in LoginInput, BeginLogin(l, in)
      PROVE  LoginShape'
  <2>1. /\ in \in LoginInputs
        /\ in.op = "CreateLoginCode" => in.user \in Users
        /\ in.op = "RedeemLoginCode" => in.code \in AnsweredCodes
    BY InputsAreTyped
  <2>2. start'[l] \in Starts
    BY <1>1 DEF BeginLogin, Starts, Member, TypeInv, TypeOK, PersistenceTypeOK
  <2>3. AnsweredCodes' = AnsweredCodes
    BY <1>1 DEF BeginLogin, AnsweredCodes
  <2> QED
    BY <1>1, <2>1, <2>2, <2>3 DEF BeginLogin
<1>2. ASSUME NEW l \in Logins, OwnerCheck(l) PROVE LoginShape'
  <2>1. LoginCodeExpiry \in Nat
    BY TimeAssumption DEF LoginCodeExpiry, TypeInv, TypeOK, PersistenceTypeOK
  <2>2. AnsweredCodes' = AnsweredCodes
    BY <1>2 DEF OwnerCheck, AnsweredCodes
  <2> QED
    BY <1>2, <2>1, <2>2 DEF OwnerCheck
<1>3. ASSUME NEW l \in Logins, PruneLoginCodes(l) PROVE LoginShape'
  <2>1. AnsweredCodes' = AnsweredCodes
    BY <1>3 DEF PruneLoginCodes, AnsweredCodes
  <2> QED
    BY <1>3, <2>1 DEF PruneLoginCodes
<1>4. ASSUME NEW l \in Logins, InsertLoginCode(l) PROVE LoginShape'
  <2>1. AnsweredCodes' = AnsweredCodes
    BY <1>4 DEF InsertLoginCode, AnsweredCodes
  <2> QED
    BY <1>4, <2>1 DEF InsertLoginCode
<1>5. ASSUME NEW l \in Logins, RespondCode(l) PROVE LoginShape'
  <2>1. AnsweredCodes' = AnsweredCodes \cup {l}
    BY <1>5 DEF RespondCode, AnsweredCodes
  <2> QED
    BY <1>5, <2>1 DEF RespondCode
<1>6. ASSUME NEW l \in Logins, LoginSecretHash(l) \/ LoginActive(l) \/ RegistryFails(l) \/ AbortLogin(l)
      PROVE  LoginShape'
  <2>1. AnsweredCodes' = AnsweredCodes
    BY <1>6 DEF LoginSecretHash, LoginActive, RegistryFails, AbortLogin, AnsweredCodes, LoginSteps
  <2> QED
    BY <1>6, <2>1 DEF LoginSecretHash, LoginActive, RegistryFails, AbortLogin, LoginSteps
<1>7. ASSUME NEW l \in Logins, SelectForUpdate(l) PROVE LoginShape'
  <2>1. AnsweredCodes' = AnsweredCodes
    BY <1>7 DEF SelectForUpdate, AnsweredCodes
  <2> QED
    BY <1>7, <2>1 DEF SelectForUpdate
<1>8. ASSUME NEW l \in Logins, DeleteLoginCode(l) PROVE LoginShape'
  <2>1. AnsweredCodes' = AnsweredCodes
    BY <1>8 DEF DeleteLoginCode, AnsweredCodes
  <2> QED
    BY <1>8, <2>1 DEF DeleteLoginCode, AnsweredCodes
<1>9. ASSUME NEW l \in Logins, GetGroupMember(l) PROVE LoginShape'
  <2>1. AnsweredCodes' = AnsweredCodes
    BY <1>9 DEF GetGroupMember, AnsweredCodes
  <2> QED
    BY <1>9, <2>1 DEF GetGroupMember
<1>10. CASE UNCHANGED loginVars \/ \E u \in Users, g \in Groups : Leave(u, g)
  BY <1>10 DEF loginVars, Leave, AnsweredCodes
<1> QED
  BY <1>1, <1>2, <1>3, <1>4, <1>5, <1>6, <1>7, <1>8, <1>9, <1>10
     DEF LoginNext, LoginStep, ServeLogin, lvars

LEMMA RowsStep ==
    LoginVarsTypeOK /\ LoginShape /\ RowsInv /\ [LoginNext]_lvars => RowsInv'
<1> SUFFICES ASSUME LoginVarsTypeOK, LoginShape, RowsInv, [LoginNext]_lvars
             PROVE  RowsInv'
  OBVIOUS
<1> USE DEF LoginVarsTypeOK, RowsInv, LoginAt, LoginGoto
<1>1. ASSUME NEW l \in Logins, NEW in \in LoginInput, BeginLogin(l, in) PROVE RowsInv'
  BY <1>1 DEF BeginLogin, LoginShape
<1>2. ASSUME NEW l \in Logins, OwnerCheck(l) PROVE RowsInv'
  BY <1>2 DEF OwnerCheck
<1>3. ASSUME NEW l \in Logins, PruneLoginCodes(l) PROVE RowsInv'
  BY <1>3 DEF PruneLoginCodes
<1>4. ASSUME NEW l \in Logins, InsertLoginCode(l) PROVE RowsInv'
  BY <1>4 DEF InsertLoginCode
<1>5. ASSUME NEW l \in Logins, RespondCode(l) \/ LoginSecretHash(l) \/ LoginActive(l)
      PROVE  RowsInv'
  BY <1>5 DEF RespondCode, LoginSecretHash, LoginActive
<1>6. ASSUME NEW l \in Logins, SelectForUpdate(l) PROVE RowsInv'
  BY <1>6 DEF SelectForUpdate
<1>7. ASSUME NEW l \in Logins, DeleteLoginCode(l) PROVE RowsInv'
  BY <1>7 DEF DeleteLoginCode
<1>8. ASSUME NEW l \in Logins, GetGroupMember(l) \/ RegistryFails(l) \/ AbortLogin(l)
      PROVE  RowsInv'
  BY <1>8 DEF GetGroupMember, RegistryFails, AbortLogin, LoginSteps
<1>9. CASE UNCHANGED loginVars \/ \E u \in Users, g \in Groups : Leave(u, g)
  BY <1>9 DEF loginVars, Leave
<1> QED
  BY <1>1, <1>2, <1>3, <1>4, <1>5, <1>6, <1>7, <1>8, <1>9
     DEF LoginNext, LoginStep, ServeLogin, lvars

LEMMA ConsumedStep ==
    ASSUME TypeInv, LoginVarsTypeOK, LoginShape, RowsInv, ConsumedInv, [LoginNext]_lvars
    PROVE  ConsumedInv'
<1>a. \A l \in Logins : Redeems(l) => sent[l].code \in Logins /\ lpc[sent[l].code] = "200"
  BY DEF LoginShape, AnsweredCodes
<1>b. \A l \in Logins : lpc[l] = "deleteLoginCode" => Redeems(l)
  BY DEF LoginShape, Redeems
<1> USE DEF LoginVarsTypeOK, ConsumedInv, Redeems, LoginAt, LoginGoto
<1>1. ASSUME NEW l \in Logins, NEW in \in LoginInput, BeginLogin(l, in) PROVE ConsumedInv'
  <2>1. l \notin consumed
    BY <1>1 DEF BeginLogin, LoginShape
  <2> QED
    BY <1>1, <1>a, <1>b, <2>1 DEF BeginLogin
<1>2. ASSUME NEW l \in Logins, OwnerCheck(l) PROVE ConsumedInv'
  BY <1>2 DEF OwnerCheck, LoginShape
<1>3. ASSUME NEW l \in Logins, PruneLoginCodes(l) PROVE ConsumedInv'
  <2>1. \A q \in Logins : lpc[q] # "deleteLoginCode"
    BY <1>3, <1>a, <1>b, LoginAssumption DEF PruneLoginCodes
  <2> QED
    BY <1>3, <1>a, <2>1 DEF PruneLoginCodes, LoginShape
<1>4. ASSUME NEW l \in Logins, InsertLoginCode(l) PROVE ConsumedInv'
  <2>1. \A q \in Logins : Redeems(q) => sent[q].code # l
    BY <1>4, <1>a DEF InsertLoginCode
  <2> QED
    BY <1>4, <1>a, <1>b, <2>1 DEF InsertLoginCode, LoginShape
<1>5. ASSUME NEW l \in Logins, RespondCode(l) PROVE ConsumedInv'
  BY <1>5, <1>a DEF RespondCode, LoginShape
<1>6. ASSUME NEW l \in Logins, LoginSecretHash(l) \/ LoginActive(l) PROVE ConsumedInv'
  BY <1>6, <1>a DEF LoginSecretHash, LoginActive, LoginShape
<1>7. ASSUME NEW l \in Logins, SelectForUpdate(l) PROVE ConsumedInv'
  <2>1. Redeems(l) /\ l \notin consumed
    BY <1>7 DEF SelectForUpdate, LoginShape
  <2>2. CASE IsOutstandingFor(loginCodes[sent[l].code], sent[l].target)
    <3>1. /\ loginCodes[sent[l].code] # NULL
          /\ sent[l].target = sent[sent[l].code].target
      BY <1>a, <2>1, <2>2 DEF IsOutstandingFor, RowsInv
    <3>2. /\ rowLock[sent[l].code] = NULL
          /\ rowLock' = [rowLock EXCEPT ![sent[l].code] = l]
          /\ lpc' = [lpc EXCEPT ![l] = "deleteLoginCode"]
          /\ UNCHANGED <<sent, consumed, loginCodes>>
      BY <1>7, <2>2 DEF SelectForUpdate, Lockable
    <3>3. \A q \in Logins : lpc[q] = "deleteLoginCode" => sent[q].code # sent[l].code
      BY <3>2, <1>a, <1>b, LoginAssumption
    <3> QED
      BY <1>a, <1>b, <2>1, <3>1, <3>2, <3>3
  <2>3. CASE ~IsOutstandingFor(loginCodes[sent[l].code], sent[l].target)
    BY <1>7, <2>1, <2>3 DEF SelectForUpdate
  <2> QED
    BY <2>2, <2>3
<1>8. ASSUME NEW l \in Logins, DeleteLoginCode(l) PROVE ConsumedInv'
  <2>1. /\ Redeems(l) /\ l \notin consumed /\ rowLock[sent[l].code] = l
        /\ sent[l].code \in Logins /\ loginCodes[sent[l].code] # NULL
    BY <1>8, <1>a, <1>b DEF DeleteLoginCode
  <2>2. \A q \in Logins :
            q # l /\ lpc[q] = "deleteLoginCode" => sent[q].code # sent[l].code
    BY <2>1
  <2>3. \A q \in consumed : sent[q].code # sent[l].code
    BY <2>1
  <2>4. \A q \in Logins : rowLock'[q] = IF rowLock[q] = l THEN NULL ELSE rowLock[q]
    BY <1>8 DEF DeleteLoginCode, Unlocked
  <2> QED
    BY <1>8, <1>a, <1>b, <2>1, <2>2, <2>3, <2>4 DEF DeleteLoginCode
<1>9. ASSUME NEW l \in Logins, GetGroupMember(l) PROVE ConsumedInv'
  BY <1>9, <1>a DEF GetGroupMember, LoginShape
<1>10. ASSUME NEW l \in Logins, RegistryFails(l) PROVE ConsumedInv'
  BY <1>10, <1>a DEF RegistryFails
<1>11. ASSUME NEW l \in Logins, AbortLogin(l) PROVE ConsumedInv'
  <2>1. \A q \in Logins : rowLock'[q] = IF rowLock[q] = l THEN NULL ELSE rowLock[q]
    BY <1>11 DEF AbortLogin, RolledBack, Unlocked
  <2> QED
    BY <1>11, <1>a, <1>b, <2>1 DEF AbortLogin, LoginSteps
<1>12. CASE UNCHANGED loginVars \/ \E u \in Users, g \in Groups : Leave(u, g)
  BY <1>12 DEF loginVars, Leave
<1> QED
  BY <1>1, <1>2, <1>3, <1>4, <1>5, <1>6, <1>7, <1>8, <1>9, <1>10, <1>11, <1>12
     DEF LoginNext, LoginStep, ServeLogin, lvars

LEMMA LiveStep ==
    ASSUME TypeInv, LoginVarsTypeOK, LoginShape, RowsInv, ConsumedInv, LiveInv,
           now' \in Nat, now' >= now, [LoginNext]_lvars
    PROVE  LiveInv'
<1>a. \A c \in Logins :
        lpc[c] = "respond" \/ c \in AnsweredCodes => Timestamp(expiry[c]) \in Nat
  BY TimestampFacts DEF LoginShape
<1>b. now \in Nat
  BY DEF TypeInv, TypeOK, PersistenceTypeOK
<1> USE DEF LoginVarsTypeOK, LiveInv, LoginAt, LoginGoto
<1>1. ASSUME NEW l \in Logins, NEW in \in LoginInput, BeginLogin(l, in) PROVE LiveInv'
  <2>1. l \notin consumed /\ AnsweredCodes' = AnsweredCodes /\ l \notin AnsweredCodes
    BY <1>1 DEF BeginLogin, LoginShape, AnsweredCodes
  <2> QED
    BY <1>1, <1>a, <1>b, <2>1 DEF BeginLogin
<1>2. ASSUME NEW l \in Logins, OwnerCheck(l) PROVE LiveInv'
  <2>1. AnsweredCodes' = AnsweredCodes /\ l \notin AnsweredCodes
    BY <1>2 DEF OwnerCheck, AnsweredCodes
  <2> QED
    BY <1>2, <1>a, <1>b, <2>1 DEF OwnerCheck
<1>3. ASSUME NEW l \in Logins, PruneLoginCodes(l) PROVE LiveInv'
  <2>1. AnsweredCodes' = AnsweredCodes
    BY <1>3 DEF PruneLoginCodes, AnsweredCodes
  <2>2. \A c \in Logins : loginCodes[c] # NULL /\ loginCodes'[c] = NULL => Timestamp(expiry[c]) < now
    BY <1>3 DEF PruneLoginCodes, Lapsed, RowsInv
  <2> QED
    BY <1>3, <1>a, <1>b, <2>1, <2>2 DEF PruneLoginCodes
<1>4. ASSUME NEW l \in Logins, InsertLoginCode(l) PROVE LiveInv'
  <2>1. AnsweredCodes' = AnsweredCodes
    BY <1>4 DEF InsertLoginCode, AnsweredCodes
  <2>2. [applianceId |-> sent[l].target, userId |-> sent[l].user, expiresAt |-> Timestamp(expiry[l])]
            \in LoginCodeRows
    BY <1>4, TimestampFacts DEF InsertLoginCode, LoginShape, LoginCodeRows, LoginInputs
  <2> QED
    BY <1>4, <1>a, <1>b, <2>1, <2>2, LoginRowAssumption DEF InsertLoginCode
<1>5. ASSUME NEW l \in Logins, RespondCode(l) PROVE LiveInv'
  <2>1. AnsweredCodes' = AnsweredCodes \cup {l}
    BY <1>5 DEF RespondCode, AnsweredCodes, LoginShape
  <2> QED
    BY <1>5, <1>a, <1>b, <2>1 DEF RespondCode
<1>6. ASSUME NEW l \in Logins,
             LoginSecretHash(l) \/ LoginActive(l) \/ RegistryFails(l) \/ AbortLogin(l)
      PROVE  LiveInv'
  <2>1. AnsweredCodes' = AnsweredCodes
    BY <1>6 DEF LoginSecretHash, LoginActive, RegistryFails, AbortLogin, AnsweredCodes, LoginSteps
  <2> QED
    BY <1>6, <1>a, <1>b, <2>1 DEF LoginSecretHash, LoginActive, RegistryFails, AbortLogin
<1>7. ASSUME NEW l \in Logins, SelectForUpdate(l) PROVE LiveInv'
  <2>1. AnsweredCodes' = AnsweredCodes
    BY <1>7 DEF SelectForUpdate, AnsweredCodes
  <2> QED
    BY <1>7, <1>a, <1>b, <2>1 DEF SelectForUpdate
<1>8. ASSUME NEW l \in Logins, DeleteLoginCode(l) PROVE LiveInv'
  <2>1. AnsweredCodes' = AnsweredCodes
    BY <1>8 DEF DeleteLoginCode, AnsweredCodes
  <2>2. sent[l].target = sent[sent[l].code].target
    BY <1>8 DEF DeleteLoginCode, ConsumedInv
  <2> QED
    BY <1>8, <1>a, <1>b, <2>1, <2>2 DEF DeleteLoginCode
<1>9. ASSUME NEW l \in Logins, GetGroupMember(l) PROVE LiveInv'
  <2>1. AnsweredCodes' = AnsweredCodes
    BY <1>9 DEF GetGroupMember, AnsweredCodes, LoginShape
  <2> QED
    BY <1>9, <1>a, <1>b, <2>1 DEF GetGroupMember
<1>10. CASE UNCHANGED loginVars \/ \E u \in Users, g \in Groups : Leave(u, g)
  <2>1. AnsweredCodes' = AnsweredCodes
    BY <1>10 DEF loginVars, Leave, AnsweredCodes
  <2> QED
    BY <1>10, <1>a, <1>b, <2>1 DEF loginVars, Leave
<1> QED
  BY <1>1, <1>2, <1>3, <1>4, <1>5, <1>6, <1>7, <1>8, <1>9, <1>10
     DEF LoginNext, LoginStep, ServeLogin, lvars

LInv == LoginVarsTypeOK /\ LoginShape /\ RowsInv /\ ConsumedInv /\ LiveInv

LEMMA InitLInv == LoginInit => LInv
<1> SUFFICES ASSUME LoginInit PROVE LInv
  OBVIOUS
<1> USE DEF LoginInit, NoLogins, AnsweredCodes, Redeems
<1>1. LoginVarsTypeOK
  BY DEF LoginVarsTypeOK
<1>2. LoginShape /\ RowsInv /\ ConsumedInv /\ LiveInv
  BY DEF LoginShape, RowsInv, ConsumedInv, LiveInv
<1> QED
  BY <1>1, <1>2 DEF LInv

LEMMA LInvStep ==
    ASSUME IInv, IInv', LInv, [LoginNext]_lvars
    PROVE  LInv'
<1>1. now' \in Nat /\ now' >= now
  BY ClockStep DEF IInv, TypeInv, TypeOK, PersistenceTypeOK, LoginNext, lvars
<1>2. LoginVarsTypeOK' /\ LoginShape' /\ RowsInv'
  BY LoginTypesStep, LoginShapeStep, RowsStep DEF LInv, IInv
<1>3. ConsumedInv' /\ LiveInv'
  BY <1>1, ConsumedStep, LiveStep DEF LInv, IInv
<1> QED
  BY <1>2, <1>3 DEF LInv

LEMMA LoginLInv == LoginSpec => []LInv
<1>1. IInv /\ IInv' /\ LInv /\ [LoginNext]_lvars => LInv'
  BY LInvStep
<1> QED
  BY InitLInv, LoginIInv, <1>1, PTL DEF LoginSpec

-----------------------------------------------------------------------------
(* The theorems about codes. *)

\* Every variable of a login, and of the lifecycle beside it, keeps its type.
THEOREM LoginTypeCorrect == LoginSpec => []LoginTypeOK
<1>1. IInv /\ LInv => LoginTypeOK
  BY DEF IInv, TypeInv, LInv, LoginTypeOK
<1> QED
  BY LoginIInv, LoginLInv, <1>1, PTL

\* However redemptions interleave, fail and are pruned beside, a code is
\* redeemed by one of them.
THEOREM CodeUsedOnce == LoginSpec => []LoginCodeUsedOnce
<1>1. LInv => LoginCodeUsedOnce
  BY DEF LInv, LoginVarsTypeOK, LoginShape, ConsumedInv, LoginCodeUsedOnce, Redeems
<1> QED
  BY LoginLInv, <1>1, PTL

\* An answered code is there until it expires or its own appliance uses it.
THEOREM LiveCodes == LoginSpec => []LiveCodeIsRedeemable
<1>1. LInv => LiveCodeIsRedeemable
  BY DEF LInv, LiveInv, LiveCodeIsRedeemable, AnsweredCodes
<1> QED
  BY LoginLInv, <1>1, PTL

\* A step of cloud login maps to a step of LoginCodes, or to none.
LEMMA LoginStepMaps ==
    ASSUME IInv, LInv, LoginStep
    PROVE  Promise!Next \/ UNCHANGED <<outstandingCodes, codeTakers>>
<1> USE DEF LInv, LoginVarsTypeOK, LoginAt, LoginGoto, outstandingCodes, codeTakers
<1>1. ASSUME NEW l \in Logins, NEW in \in LoginInput, BeginLogin(l, in)
      PROVE  UNCHANGED <<outstandingCodes, codeTakers>>
  BY <1>1 DEF BeginLogin, LoginShape
<1>2. ASSUME NEW l \in Logins,
             OwnerCheck(l) \/ RespondCode(l) \/ LoginSecretHash(l) \/ LoginActive(l)
      PROVE  UNCHANGED <<outstandingCodes, codeTakers>>
  BY <1>2 DEF OwnerCheck, RespondCode, LoginSecretHash, LoginActive
<1>3. ASSUME NEW l \in Logins,
             SelectForUpdate(l) \/ GetGroupMember(l) \/ RegistryFails(l) \/ AbortLogin(l)
      PROVE  UNCHANGED <<outstandingCodes, codeTakers>>
  BY <1>3 DEF SelectForUpdate, GetGroupMember, RegistryFails, AbortLogin
<1>4. ASSUME NEW l \in Logins, PruneLoginCodes(l) PROVE Promise!Next
  <2> DEFINE C == {c \in Logins : Lapsed(loginCodes[c])}
  <2>1. C \in SUBSET Logins /\ C \subseteq outstandingCodes
    BY DEF Lapsed
  <2>2. outstandingCodes' = outstandingCodes \ C /\ UNCHANGED codeTakers
    BY <1>4 DEF PruneLoginCodes
  <2> QED
    BY <2>1, <2>2 DEF Promise!Next, Promise!Lapse
<1>5. ASSUME NEW l \in Logins, InsertLoginCode(l) PROVE Promise!Next
  <2>1. [applianceId |-> sent[l].target, userId |-> sent[l].user, expiresAt |-> Timestamp(expiry[l])] # NULL
    BY <1>5, LoginRowAssumption, TimestampFacts DEF InsertLoginCode, LoginShape, LoginCodeRows, LoginInputs
  <2>2. l \notin outstandingCodes /\ outstandingCodes' = outstandingCodes \cup {l}
    BY <1>5, <2>1 DEF InsertLoginCode, RowsInv
  <2>3. UNCHANGED codeTakers
    BY <1>5 DEF InsertLoginCode
  <2>4. \A t \in codeTakers : t[1] # l
    BY <1>5 DEF InsertLoginCode, ConsumedInv, LoginShape, AnsweredCodes
  <2> QED
    BY <2>2, <2>3, <2>4 DEF Promise!Next, Promise!Issue, Promise!Taken
<1>6. ASSUME NEW l \in Logins, DeleteLoginCode(l) PROVE Promise!Next
  <2> DEFINE c == sent[l].code
  <2>1. c \in Logins /\ c \in outstandingCodes
    BY <1>6 DEF DeleteLoginCode, ConsumedInv, LoginShape, Redeems, AnsweredCodes
  <2>2. outstandingCodes' = outstandingCodes \ {c}
    BY <1>6, <2>1 DEF DeleteLoginCode
  <2>3. codeTakers' = codeTakers \cup {<<c, l>>}
    BY <1>6 DEF DeleteLoginCode
  <2> QED
    BY <2>1, <2>2, <2>3 DEF Promise!Next, Promise!Take
<1>7. ASSUME NEW u \in Users, NEW g \in Groups, Leave(u, g)
      PROVE  UNCHANGED <<outstandingCodes, codeTakers>>
  BY <1>7 DEF Leave
<1> QED
  BY <1>1, <1>2, <1>3, <1>4, <1>5, <1>6, <1>7 DEF LoginStep, ServeLogin

\* The table with its pruning, its transactions and its row locks implements
\* codes that are taken once, atomically.
THEOREM TableImplementsPromise == LoginSpec => CodesAreSingleUse
<1>1. LoginInit => Promise!Init
  BY DEF LoginInit, NoLogins, Promise!Init, outstandingCodes, codeTakers
<1>2. IInv /\ LInv /\ [LoginNext]_lvars => [Promise!Next]_(Promise!codeVars)
  <2> SUFFICES ASSUME IInv, LInv, [LoginNext]_lvars
               PROVE  Promise!Next \/ UNCHANGED <<outstandingCodes, codeTakers>>
    BY DEF Promise!codeVars
  <2>1. CASE LoginStep
    BY <2>1, LoginStepMaps
  <2>2. CASE UNCHANGED loginVars
    BY <2>2 DEF loginVars, outstandingCodes, codeTakers
  <2> QED
    BY <2>1, <2>2 DEF LoginNext, lvars
<1> QED
  BY LoginIInv, LoginLInv, <1>1, <1>2, PTL DEF LoginSpec, CodesAreSingleUse, Promise!Spec

-----------------------------------------------------------------------------
(* What a login inherits from the requests answered before it began. *)

StartInv ==
    \A l \in Logins : lpc[l] # "idle" => \A v \in start[l].requests : pc[v] \in Ended

\* The calls behind the check of the status.
CheckedActive ==
    {"pruneLoginCodes", "insertLoginCode", "respond", "selectForUpdate",
     "deleteLoginCode", "getGroupMember", "200"}

\* RevokedIsCutOff from the check of the status on.
CutOffInv ==
    \A l \in Logins, v \in Requests :
        ( /\ lpc[l] \in CheckedActive /\ v \in start[l].requests
          /\ OK(v) /\ op[v] = "Revoke" /\ target[v] = sent[l].target )
            => \E c \in Requests :
                op[c] \in Claimers /\ target[c] = target[v] /\ Overlap(c, v)

LEMMA StartStep ==
    ASSUME TypeInv, LInv, StartInv, [LoginNext]_lvars
    PROVE  StartInv'
<1> USE DEF LInv, LoginVarsTypeOK, StartInv
<1>1. CASE [Next]_vars /\ UNCHANGED loginVars
  <2>1. \A l \in Logins : lpc[l] # "idle" => start[l].requests \subseteq Requests
    BY DEF LoginShape, Starts
  <2> QED
    BY <1>1, <2>1, EndedStays DEF loginVars
<1>2. ASSUME NEW l \in Logins, NEW in \in LoginInput, BeginLogin(l, in), UNCHANGED vars
      PROVE  StartInv'
  BY <1>2 DEF BeginLogin, LoginAt, LoginGoto, vars, requestVars
<1>3. ASSUME NEW l \in Logins, ServeLogin(l) \/ AbortLogin(l), UNCHANGED vars
      PROVE  StartInv'
  BY <1>3, ServeLoginMoves DEF LoginMoves, LoginSteps, vars, requestVars
<1>4. ASSUME NEW u \in Users, NEW g \in Groups, Leave(u, g), UNCHANGED vars PROVE StartInv'
  BY <1>4 DEF Leave, vars, requestVars
<1> QED
  BY <1>1, <1>2, <1>3, <1>4 DEF LoginNext, LoginStep, lvars

LEMMA StaleStep ==
    ASSUME IInv, LInv, StartInv, StaleSecretGetsNothing, [LoginNext]_lvars
    PROVE  StaleSecretGetsNothing'
<1>a. TypeInv /\ SupersededSecretIsDead
  BY DEF IInv, SupersededInv, SupersededSecretIsDead, OK, SecretStored, HashStored
<1> SUFFICES ASSUME NEW k \in Logins, NEW v \in Requests, NEW q \in Requests,
                    Authenticates(k)', (v \in start[k].requests)',
                    OK(v)', (op[v] \in Writers)', (target[v] = sent[k].target)',
                    (q \in before[v])', (sent[k].bearer = GenerateApplianceSecret(q))'
             PROVE  lpc'[k] \in {"checkSecretHash", "401", "aborted"}
  BY DEF StaleSecretGetsNothing
<1> USE DEF LInv, LoginVarsTypeOK, StaleSecretGetsNothing, Authenticates
<1>1. CASE [Next]_vars /\ UNCHANGED loginVars
  <2>1. UNCHANGED <<lpc, sent, start>>
    BY <1>1 DEF loginVars
  <2>2. pc[v] \in Ended
    BY <2>1 DEF StartInv
  <2>3. UNCHANGED <<pc[v], op[v], target[v], before[v]>>
    BY <1>1, <1>a, <2>2, EndedStays
  <2> QED
    BY <2>1, <2>3 DEF OK
<1>2. CASE LoginStep /\ UNCHANGED vars
  <2>1. OK(v) /\ op[v] \in Writers /\ q \in before[v]
    BY <1>2 DEF vars, requestVars, OK
  <2>2. target' = target /\ secretHash' = secretHash
    BY <1>2 DEF vars, requestVars, dbVars, applianceVars
  <2>3. secretHash[target[v]] # Hash(GenerateApplianceSecret(q))
    BY <1>a, <2>1 DEF SupersededSecretIsDead
  <2>4. ASSUME NEW l \in Logins, NEW in \in LoginInput, BeginLogin(l, in)
        PROVE  lpc'[k] \in {"checkSecretHash", "401", "aborted"}
    BY <2>1, <2>2, <2>4 DEF BeginLogin, LoginAt, LoginGoto
  <2>5. ASSUME NEW l \in Logins, ServeLogin(l) \/ AbortLogin(l)
        PROVE  lpc'[k] \in {"checkSecretHash", "401", "aborted"}
    <3>1. LoginMoves(l)
      BY <2>5, ServeLoginMoves
    <3>2. CASE k # l
      BY <2>1, <2>2, <3>1, <3>2 DEF LoginMoves
    <3>3. CASE k = l
      <4>1. lpc[l] = "checkSecretHash"
        BY <2>1, <2>2, <3>1, <3>3 DEF LoginMoves, LoginSteps
      <4>2. LoginSecretHash(l) \/ AbortLogin(l)
        BY <2>5, <4>1
           DEF ServeLogin, OwnerCheck, PruneLoginCodes, InsertLoginCode, RespondCode, LoginActive,
               SelectForUpdate, DeleteLoginCode, GetGroupMember, RegistryFails, LoginAt
      <4> QED
        BY <2>2, <2>3, <3>1, <3>3, <4>2
           DEF LoginSecretHash, AbortLogin, LoginGoto, LoginMoves, Matches
    <3> QED
      BY <3>2, <3>3
  <2>6. ASSUME NEW u \in Users, NEW g \in Groups, Leave(u, g)
        PROVE  lpc'[k] \in {"checkSecretHash", "401", "aborted"}
    BY <2>1, <2>2, <2>6 DEF Leave
  <2> QED
    BY <1>2, <2>4, <2>5, <2>6 DEF LoginStep
<1> QED
  BY <1>1, <1>2 DEF LoginNext, lvars

LEMMA CutOffStep ==
    ASSUME IInv, LInv, StartInv, CutOffInv, [LoginNext]_lvars
    PROVE  CutOffInv'
<1>a. TypeInv /\ RevocationStands
  BY DEF IInv, RevokedInv, RevocationStands, Revokes, StatusRevoked, OK
<1> SUFFICES ASSUME NEW k \in Logins, NEW v \in Requests,
                    lpc'[k] \in CheckedActive, (v \in start[k].requests)',
                    OK(v)', op'[v] = "Revoke", (target[v] = sent[k].target)'
             PROVE  \E c \in Requests :
                        op'[c] \in Claimers /\ target'[c] = target'[v] /\ Overlap(c, v)'
  BY DEF CutOffInv
<1> USE DEF LInv, LoginVarsTypeOK, CutOffInv
<1>1. CASE [Next]_vars /\ UNCHANGED loginVars
  <2>1. UNCHANGED <<lpc, sent, start>>
    BY <1>1 DEF loginVars
  <2>2. pc[v] \in Ended
    BY <2>1 DEF StartInv, CheckedActive
  <2>3. UNCHANGED <<pc[v], op[v], target[v], before[v]>>
    BY <1>1, <1>a, <2>2, EndedStays
  <2>4. PICK c \in Requests :
            op[c] \in Claimers /\ target[c] = target[v] /\ Overlap(c, v)
    BY <2>1, <2>3 DEF OK
  <2>5. op'[c] = op[c] /\ target'[c] = target[c] /\ Overlap(c, v)'
    BY <1>1, <1>a, <2>2, <2>4, OverlapStays
  <2> QED
    BY <2>3, <2>4, <2>5
<1>2. CASE LoginStep /\ UNCHANGED vars
  <2>1. UNCHANGED <<status, pc, op, target, before>>
    BY <1>2 DEF vars, requestVars, dbVars, applianceVars
  <2>2. OK(v) /\ op[v] = "Revoke"
    BY <2>1 DEF OK
  <2>3. SUFFICES \E c \in Requests :
                    op[c] \in Claimers /\ target[c] = target[v] /\ Overlap(c, v)
    BY <2>1 DEF Overlap
  <2>4. ASSUME NEW l \in Logins, NEW in \in LoginInput, BeginLogin(l, in)
        PROVE  \E c \in Requests :
                    op[c] \in Claimers /\ target[c] = target[v] /\ Overlap(c, v)
    BY <2>1, <2>2, <2>4 DEF BeginLogin, LoginAt, LoginGoto, CheckedActive
  <2>5. ASSUME NEW l \in Logins, ServeLogin(l) \/ AbortLogin(l)
        PROVE  \E c \in Requests :
                    op[c] \in Claimers /\ target[c] = target[v] /\ Overlap(c, v)
    <3>1. LoginMoves(l)
      BY <2>5, ServeLoginMoves
    <3>2. CASE lpc[k] \in CheckedActive
      BY <2>1, <2>2, <3>1, <3>2 DEF LoginMoves
    <3>3. CASE lpc[k] \notin CheckedActive
      <4>1. k = l /\ lpc'[l] \in CheckedActive
        BY <3>1, <3>3 DEF LoginMoves
      <4>2. OwnerCheck(l) \/ LoginActive(l)
        BY <2>5, <3>3, <4>1
           DEF ServeLogin, PruneLoginCodes, InsertLoginCode, RespondCode, LoginSecretHash,
               SelectForUpdate, DeleteLoginCode, GetGroupMember, RegistryFails, AbortLogin,
               LoginAt, LoginGoto, CheckedActive
      <4>3. status[sent[l].target] = "active"
        BY <4>1, <4>2 DEF OwnerCheck, LoginActive, Rotatable, Authentic, LoginGoto, CheckedActive
      <4> QED
        BY <1>a, <2>1, <2>2, <3>1, <4>1, <4>3 DEF LoginMoves, RevocationStands
    <3> QED
      BY <3>2, <3>3
  <2>6. ASSUME NEW u \in Users, NEW g \in Groups, Leave(u, g)
        PROVE  \E c \in Requests :
                    op[c] \in Claimers /\ target[c] = target[v] /\ Overlap(c, v)
    BY <2>1, <2>2, <2>6 DEF Leave
  <2> QED
    BY <1>2, <2>4, <2>5, <2>6 DEF LoginStep
<1> QED
  BY <1>1, <1>2 DEF LoginNext, lvars

AnswersInv == StartInv /\ StaleSecretGetsNothing /\ CutOffInv

LEMMA LoginAnswersInv == LoginSpec => []AnswersInv
<1>1. LoginInit => AnswersInv
  BY DEF LoginInit, NoLogins, AnswersInv, StartInv, StaleSecretGetsNothing, CutOffInv,
         Authenticates, CheckedActive
<1>2. IInv /\ LInv /\ AnswersInv /\ [LoginNext]_lvars => AnswersInv'
  BY StartStep, StaleStep, CutOffStep DEF AnswersInv, IInv
<1> QED
  BY LoginIInv, LoginLInv, <1>1, <1>2, PTL DEF LoginSpec

\* A secret that an answered claim, rotation or revocation replaced opens
\* nothing: no code is used up with it and no membership is told.
THEOREM StaleSecretIsRefused == LoginSpec => []StaleSecretGetsNothing
<1>1. AnswersInv => StaleSecretGetsNothing
  BY DEF AnswersInv
<1> QED
  BY LoginAnswersInv, <1>1, PTL

\* An answered revocation ends cloud login to the appliance, but for a claim
\* that was running.
THEOREM RevocationCutsOff == LoginSpec => []RevokedIsCutOff
<1>1. AnswersInv => RevokedIsCutOff
  BY DEF AnswersInv, CutOffInv, CheckedActive, RevokedIsCutOff
<1> QED
  BY LoginAnswersInv, <1>1, PTL
=============================================================================
