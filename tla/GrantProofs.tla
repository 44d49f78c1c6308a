----------------------------- MODULE GrantProofs -----------------------------
(***************************************************************************)
(* Proof that whoever cloud login lets in was entitled to it, for any      *)
(* number of tenants, requests and logins.  It joins the two halves of the *)
(* model: the appliance's secret is traced through the lifecycle to the    *)
(* request that issued it, the code to the owner's user who asked for it.  *)
(***************************************************************************)
EXTENDS CloudLoginProofs, CredentialProofs

\* The login's credential was answered before it began.
Held(l) ==
    \E q \in start[l].requests :
        q \in Requests /\ OK(q) /\ op[q] # "Revoke" /\ sent[l].bearer = Answer(q)

\* It is a secret issued for the appliance.
ProvedItself(l) ==
    \E q \in start[l].requests :
        /\ q \in Requests /\ OK(q) /\ op[q] \in Issuers /\ target[q] = sent[l].target
        /\ sent[l].bearer = GenerateApplianceSecret(q)

\* A use token of the owning group asked for the code.
AskedByOwner(c) ==
    /\ groupId[sent[c].target] \in Groups
    /\ sent[c].bearer = UseToken(groupId[sent[c].target])

HashChecked == {"checkActive", "selectForUpdate", "deleteLoginCode", "getGroupMember"}

\* The code is drawn, stored or answered.
Drawn(c) ==
    \/ lpc[c] \in {"pruneLoginCodes", "insertLoginCode", "respond"}
    \/ loginCodes[c] # NULL
    \/ c \in AnsweredCodes

GrantInv ==
    \A l \in Logins :
        /\ lpc[l] # "idle" /\ sent[l].op = "CreateLoginCode" => sent[l].bearer \in UseTokens
        /\ Authenticates(l) => Held(l)
        /\ lpc[l] \in HashChecked \/ l \in granted => ProvedItself(l)
        /\ Drawn(l) => AskedByOwner(l)
        /\ loginCodes[l] # NULL => loginCodes[l].userId = sent[l].user
        /\ Redeems(l) /\ (lpc[l] \in {"deleteLoginCode", "getGroupMember"} \/ l \in granted)
            => /\ lc[l].userId = sent[sent[l].code].user
               /\ sent[sent[l].code].target = sent[l].target

\* What the steps of the lifecycle leave of it.
LEMMA GrantUnderLifecycle ==
    ASSUME TypeInv, EntInv, LInv, StartInv, GrantInv, [Next]_vars, UNCHANGED loginVars
    PROVE  GrantInv'
<1>1. UNCHANGED <<loginCodes, lpc, sent, lc, granted, start>>
  BY DEF loginVars
<1>2. \A l \in Logins : l \in granted \cup AnsweredCodes \/ loginCodes[l] # NULL => lpc[l] # "idle"
  BY DEF LInv, LoginShape, AnsweredCodes
<1>3. ASSUME NEW l \in Logins, lpc[l] # "idle"
      PROVE  /\ sent[l].target \in Appliances
             /\ \A q \in start[l].requests :
                    q \in Requests => UNCHANGED <<pc[q], op[q], target[q], OK(q), Answer(q)>>
  <2>1. sent[l].target \in Appliances
    BY <1>3 DEF LInv, LoginShape, LoginInputs
  <2>2. \A q \in start[l].requests : q \in Requests => UNCHANGED <<pc[q], op[q], target[q]>>
    BY <1>3, EndedStays DEF StartInv
  <2> QED
    BY <2>1, <2>2 DEF OK, Answer
<1>4. \A l \in Logins : lpc[l] # "idle" /\ Held(l) => Held(l)'
  BY <1>1, <1>3 DEF Held
<1>5. \A l \in Logins : lpc[l] # "idle" /\ ProvedItself(l) => ProvedItself(l)'
  BY <1>1, <1>3 DEF ProvedItself
<1>6. \A l \in Logins : lpc[l] # "idle" /\ AskedByOwner(l) => AskedByOwner(l)'
  BY <1>1, <1>3, OwnerStays DEF AskedByOwner, EntInv
<1>7. UNCHANGED AnsweredCodes /\ \A l \in Logins : UNCHANGED <<Redeems(l), Authenticates(l), Drawn(l)>>
  BY <1>1 DEF AnsweredCodes, Redeems, Authenticates, Drawn
<1> QED
  BY <1>1, <1>2, <1>4, <1>5, <1>6, <1>7 DEF GrantInv, Authenticates, HashChecked, Drawn, LInv, LoginShape

LEMMA GrantBegins ==
    ASSUME TypeInv, LInv, GrantInv, NEW l \in Logins, NEW in \in LoginInput,
           BeginLogin(l, in), UNCHANGED vars
    PROVE  GrantInv'
<1> USE DEF LInv, LoginVarsTypeOK
<1>1. /\ lpc[l] = "idle" /\ sent' = [sent EXCEPT ![l] = in]
      /\ start' = [start EXCEPT ![l] =
            [requests |-> {q \in Requests : pc[q] \in Ended},
             at |-> now, member |-> Member(AskedUser(in), in.target)]]
      /\ lpc' = [lpc EXCEPT ![l] = IF in.op = "CreateLoginCode" THEN "requireOwningGroup"
                                   ELSE "checkSecretHash"]
      /\ UNCHANGED <<loginCodes, lc, granted>>
  BY DEF BeginLogin, LoginAt, LoginGoto
<1>2. UNCHANGED <<pc, op, target, groupId>>
  BY DEF vars, requestVars, dbVars, applianceVars
<1>3. \A m \in Logins : m # l => sent'[m] = sent[m] /\ start'[m] = start[m] /\ lpc'[m] = lpc[m]
  BY <1>1
<1>4. /\ in.op = "CreateLoginCode" => in.bearer \in UseTokens
      /\ in.op # "CreateLoginCode" => in.bearer \in Presentable("RotateOwnSecret")
  BY DEF LoginInput
<1>5. Presentable("RotateOwnSecret")
        = {Answer(q) : q \in {r \in Requests : OK(r) /\ op[r] # "Revoke"}}
  BY DEF Presentable, OwnerOps, Creators
<1>6. Authenticates(l)' => Held(l)'
  <2>1. sent'[l] = in /\ start'[l].requests = {q \in Requests : pc[q] \in Ended}
    BY <1>1
  <2>2. in.op # "CreateLoginCode" =>
            \E q \in Requests : OK(q) /\ op[q] # "Revoke" /\ in.bearer = Answer(q)
    BY <1>4, <1>5
  <2> QED
    BY <1>2, <2>1, <2>2 DEF Authenticates, Held, OK, Ended, Answer
<1>7. l \notin granted /\ loginCodes[l] = NULL /\ l \notin AnsweredCodes /\ l \notin AnsweredCodes'
  BY <1>1 DEF LoginShape, AnsweredCodes
<1>8. \A m \in Logins : m # l =>
        /\ UNCHANGED <<Redeems(m), Authenticates(m)>> /\ (m \in AnsweredCodes' => m \in AnsweredCodes)
        /\ (Drawn(m)' => Drawn(m)) /\ (Held(m) => Held(m)') /\ (ProvedItself(m) => ProvedItself(m)')
        /\ (AskedByOwner(m) => AskedByOwner(m)')
  BY <1>1, <1>2, <1>3
     DEF Redeems, Authenticates, AnsweredCodes, Drawn, Held, ProvedItself, AskedByOwner, OK, Answer
<1>9. \A m \in Logins : Redeems(m) => sent[m].code # l
  BY <1>7 DEF LoginShape
<1>10. \A m \in Logins : Redeems(m) => sent[m].code \in Logins
  BY DEF LoginShape, AnsweredCodes
<1> SUFFICES ASSUME NEW m \in Logins
    PROVE  /\ lpc'[m] # "idle" /\ sent'[m].op = "CreateLoginCode" => sent'[m].bearer \in UseTokens
           /\ Authenticates(m)' => Held(m)'
           /\ lpc'[m] \in HashChecked \/ m \in granted' => ProvedItself(m)'
           /\ Drawn(m)' => AskedByOwner(m)'
           /\ loginCodes'[m] # NULL => loginCodes'[m].userId = sent'[m].user
           /\ Redeems(m)' /\ (lpc'[m] \in {"deleteLoginCode", "getGroupMember"} \/ m \in granted')
               => /\ lc'[m].userId = sent'[sent'[m].code].user
                  /\ sent'[sent'[m].code].target = sent'[m].target
  BY DEF GrantInv, HashChecked, UseTokens
<1>11. CASE m = l
  BY <1>1, <1>4, <1>6, <1>7, <1>11 DEF HashChecked, Drawn
<1>12. CASE m # l
  BY <1>1, <1>3, <1>8, <1>9, <1>10, <1>12 DEF GrantInv
<1> QED
  BY <1>11, <1>12

\* How a login gets past its checks.
GrantFlow(l) ==
    /\ lpc'[l] \in HashChecked /\ lpc[l] \notin HashChecked =>
        lpc[l] = "checkSecretHash" /\ secretHash[sent[l].target] = Hash(sent[l].bearer)
    /\ granted' \subseteq granted \cup {l}
    /\ l \in granted' => l \in granted \/ lpc[l] = "getGroupMember"
    /\ lpc'[l] \in {"pruneLoginCodes", "insertLoginCode", "respond"} =>
        \/ lpc[l] \in {"pruneLoginCodes", "insertLoginCode", "respond"}
        \/ lpc[l] = "requireOwningGroup" /\ groupId[sent[l].target] = GroupOf(sent[l].bearer)
    /\ lpc'[l] = "200" => lpc[l] \in {"respond", "getGroupMember"}
    /\ \A c \in Logins :
        loginCodes'[c] # NULL =>
            \/ loginCodes'[c] = loginCodes[c]
            \/ c = l /\ lpc[l] = "insertLoginCode" /\ loginCodes'[c].userId = sent[l].user
    /\ \A m \in Logins : m # l => lc'[m] = lc[m]
    /\ lpc[l] # "selectForUpdate" => lc' = lc
    /\ lpc'[l] = "deleteLoginCode" =>
        /\ lpc[l] = "selectForUpdate" /\ lc'[l] = loginCodes[sent[l].code]
        /\ loginCodes[sent[l].code] # NULL
        /\ loginCodes[sent[l].code].applianceId = sent[l].target
    /\ lpc'[l] = "getGroupMember" => lpc[l] \in {"checkActive", "deleteLoginCode"}
    /\ lpc'[l] = "getGroupMember" /\ lpc[l] = "checkActive" => sent[l].op # "RedeemLoginCode"

LEMMA ServeGrantFlow ==
    ASSUME LInv, NEW l \in Logins, ServeLogin(l) \/ AbortLogin(l)
    PROVE  GrantFlow(l)
<1> USE DEF GrantFlow, HashChecked, LInv, LoginVarsTypeOK, LoginShape, LoginAt, LoginGoto
<1>1. CASE OwnerCheck(l)
  BY <1>1 DEF OwnerCheck, OwnsTarget
<1>2. CASE PruneLoginCodes(l) \/ RespondCode(l)
  BY <1>2 DEF PruneLoginCodes, RespondCode
<1>3. CASE InsertLoginCode(l)
  BY <1>3 DEF InsertLoginCode
<1>4. CASE LoginSecretHash(l) \/ LoginActive(l)
  BY <1>4 DEF LoginSecretHash, LoginActive, Matches
<1>5. CASE SelectForUpdate(l)
  BY <1>5 DEF SelectForUpdate, IsOutstandingFor, AnsweredCodes, Redeems
<1>6. CASE DeleteLoginCode(l)
  BY <1>6 DEF DeleteLoginCode
<1>7. CASE GetGroupMember(l) \/ RegistryFails(l) \/ AbortLogin(l)
  BY <1>7 DEF GetGroupMember, RegistryFails, AbortLogin
<1> QED
  BY <1>1, <1>2, <1>3, <1>4, <1>5, <1>6, <1>7 DEF ServeLogin

\* The stored hash is that of a secret of this very appliance.
LEMMA HashTells ==
    ASSUME TypeInv, EntInv, NEW a \in Appliances, NEW q \in Requests,
           OK(q), op[q] # "Revoke", secretHash[a] = Hash(Answer(q))
    PROVE  target[q] = a /\ op[q] \in Issuers /\ Answer(q) = GenerateApplianceSecret(q)
<1>1. op[q] \in Endpoints \ {"Revoke"}
  BY DEF OK, TypeInv, TypeOK, Shape
<1>2. Answer(q) \in Credentials
  BY <1>1, CredentialFacts DEF Answer, Endpoints, Creators, Issuers
<1>3. PICK x \in Requests : Placed(x, a) /\ secretHash[a] = Hash(GenerateApplianceSecret(x))
  BY <1>2, CredentialFacts DEF EntInv, ProvenanceInv
<1>4. Answer(q) = GenerateApplianceSecret(x)
  BY <1>3 DEF Hash
<1>5. q = x /\ op[q] \in Issuers
  BY <1>1, <1>4, AnswerTells
<1> QED
  BY <1>3, <1>4, <1>5 DEF Placed

LEMMA GrantServed ==
    ASSUME TypeInv, EntInv, LInv, GrantInv, NEW l \in Logins,
           ServeLogin(l) \/ AbortLogin(l), UNCHANGED vars
    PROVE  GrantInv'
<1>1. LoginMoves(l) /\ GrantFlow(l)
  BY ServeLoginMoves, ServeGrantFlow DEF LInv
<1>2. UNCHANGED <<pc, op, target, groupId, sent, start>>
  BY <1>1 DEF LoginMoves, vars, requestVars, dbVars, applianceVars
<1>3. \A m \in Logins : UNCHANGED <<Held(m), ProvedItself(m), AskedByOwner(m)>>
  BY <1>2 DEF Held, ProvedItself, AskedByOwner, OK, Answer
<1>4. \A m \in Logins : m # l => lpc'[m] = lpc[m]
  BY <1>1 DEF LoginMoves, LInv, LoginVarsTypeOK
<1>5. lpc[l] # "idle" /\ lpc'[l] # "idle"
  BY <1>1 DEF LoginMoves, LoginSteps
<1>6. \A m \in Logins : UNCHANGED <<Redeems(m), Authenticates(m)>>
  BY <1>2, <1>4, <1>5 DEF Redeems, Authenticates
<1>7. sent[l].target \in Appliances
  BY <1>5 DEF LInv, LoginShape, LoginInputs
<1>8. lpc'[l] \in HashChecked => ProvedItself(l)
  <2>1. CASE lpc[l] \in HashChecked
    BY <2>1 DEF GrantInv
  <2>2. ASSUME lpc[l] = "checkSecretHash", secretHash[sent[l].target] = Hash(sent[l].bearer)
        PROVE  ProvedItself(l)
    <3>1. Held(l)
      BY <2>2 DEF GrantInv, Authenticates, LInv, LoginShape
    <3>2. PICK q \in start[l].requests :
            q \in Requests /\ OK(q) /\ op[q] # "Revoke" /\ sent[l].bearer = Answer(q)
      BY <3>1 DEF Held
    <3>3. target[q] = sent[l].target /\ op[q] \in Issuers /\ Answer(q) = GenerateApplianceSecret(q)
      BY <1>7, <2>2, <3>2, HashTells
    <3> QED
      BY <3>2, <3>3 DEF ProvedItself
  <2> QED
    BY <1>1, <2>1, <2>2 DEF GrantFlow
<1>9. \A m \in Logins : lpc'[m] \in HashChecked \/ m \in granted' => ProvedItself(m)
  BY <1>1, <1>4, <1>8 DEF GrantFlow, GrantInv, HashChecked
<1>10. lpc'[l] \in {"pruneLoginCodes", "insertLoginCode", "respond"} => AskedByOwner(l)
  <2>1. CASE lpc[l] \in {"pruneLoginCodes", "insertLoginCode", "respond"}
    BY <2>1 DEF GrantInv, Drawn
  <2>2. ASSUME lpc[l] = "requireOwningGroup", groupId[sent[l].target] = GroupOf(sent[l].bearer)
        PROVE  AskedByOwner(l)
    <3>1. sent[l].bearer \in UseTokens
      BY <2>2 DEF GrantInv, LInv, LoginShape
    <3>2. PICK g \in Groups : sent[l].bearer = UseToken(g)
      BY <3>1 DEF UseTokens
    <3> QED
      BY <2>2, <3>2 DEF AskedByOwner, GroupOf, UseToken
  <2> QED
    BY <1>1, <2>1, <2>2 DEF GrantFlow
<1>11. l \in AnsweredCodes' => AskedByOwner(l)
  <2>1. l \in AnsweredCodes' => lpc[l] = "respond"
    <3>1. l \in AnsweredCodes' => lpc'[l] = "200" /\ sent[l].op = "CreateLoginCode"
      BY <1>2 DEF AnsweredCodes
    <3> QED
      BY <1>1, <3>1 DEF GrantFlow, LInv, LoginShape
  <2> QED
    BY <2>1 DEF GrantInv, Drawn
<1>12. \A m \in Logins : Drawn(m)' => AskedByOwner(m)
  <2>1. \A m \in Logins : m # l /\ m \in AnsweredCodes' => m \in AnsweredCodes
    BY <1>2, <1>4 DEF AnsweredCodes
  <2>2. \A m \in Logins : loginCodes'[m] # NULL => AskedByOwner(m)
    BY <1>1 DEF GrantFlow, GrantInv, Drawn
  <2> QED
    BY <1>4, <1>10, <1>11, <2>1, <2>2 DEF GrantInv, Drawn
<1>13. \A m \in Logins : loginCodes'[m] # NULL => loginCodes'[m].userId = sent[m].user
  BY <1>1 DEF GrantFlow, GrantInv
<1>14. \A m \in Logins :
        Redeems(m) /\ (lpc'[m] \in {"deleteLoginCode", "getGroupMember"} \/ m \in granted')
            => /\ lc'[m].userId = sent[sent[m].code].user
               /\ sent[sent[m].code].target = sent[m].target
  <2> SUFFICES ASSUME NEW m \in Logins, Redeems(m),
                      lpc'[m] \in {"deleteLoginCode", "getGroupMember"} \/ m \in granted'
               PROVE  /\ lc'[m].userId = sent[sent[m].code].user
                      /\ sent[sent[m].code].target = sent[m].target
    OBVIOUS
  <2>1. CASE lpc[m] \in {"deleteLoginCode", "getGroupMember"} \/ m \in granted
    <3>1. m = l => lpc[l] # "selectForUpdate"
      BY <2>1 DEF LInv, LoginShape
    <3>2. lc'[m] = lc[m]
      BY <1>1, <3>1 DEF GrantFlow
    <3> QED
      BY <2>1, <3>2 DEF GrantInv
  <2>2. CASE ~(lpc[m] \in {"deleteLoginCode", "getGroupMember"} \/ m \in granted)
    <3>1. m = l
      BY <1>1, <1>4, <2>2 DEF GrantFlow
    <3>2. lpc'[l] = "deleteLoginCode"
      BY <1>1, <2>2, <3>1 DEF GrantFlow, Redeems
    <3>3. sent[l].code \in Logins /\ loginCodes[sent[l].code] # NULL
      BY <1>1, <3>1, <3>2 DEF GrantFlow, LInv, LoginShape, AnsweredCodes
    <3> QED
      BY <1>1, <3>1, <3>2, <3>3 DEF GrantFlow, GrantInv, LInv, RowsInv
  <2> QED
    BY <2>1, <2>2
<1>15. \A m \in Logins :
        /\ lpc'[m] # "idle" /\ sent[m].op = "CreateLoginCode" => sent[m].bearer \in UseTokens
        /\ Authenticates(m) => Held(m)
  BY <1>4, <1>5 DEF GrantInv
<1>16. UNCHANGED <<UseTokens, HashChecked>>
  BY DEF UseTokens, HashChecked
<1> QED
  BY <1>2, <1>3, <1>6, <1>9, <1>12, <1>13, <1>14, <1>15, <1>16 DEF GrantInv

LEMMA GrantStep ==
    ASSUME TypeInv, EntInv, LInv, StartInv, GrantInv, [LoginNext]_lvars
    PROVE  GrantInv'
<1>1. CASE [Next]_vars /\ UNCHANGED loginVars
  BY <1>1, GrantUnderLifecycle
<1>2. ASSUME NEW l \in Logins, NEW in \in LoginInput, BeginLogin(l, in), UNCHANGED vars
      PROVE  GrantInv'
  BY <1>2, GrantBegins
<1>3. ASSUME NEW l \in Logins, ServeLogin(l) \/ AbortLogin(l), UNCHANGED vars
      PROVE  GrantInv'
  BY <1>3, GrantServed
<1>4. ASSUME NEW u \in Users, NEW g \in Groups, Leave(u, g), UNCHANGED vars
      PROVE  GrantInv'
  BY <1>4 DEF Leave, vars, requestVars, dbVars, applianceVars, GrantInv, Authenticates, Redeems,
              Held, ProvedItself, AskedByOwner, Drawn, AnsweredCodes, OK, Answer, UseTokens
<1> QED
  BY <1>1, <1>2, <1>3, <1>4 DEF LoginNext, LoginStep, lvars

LEMMA LoginGrantInv == LoginSpec => []GrantInv
<1>1. LoginInit => GrantInv
  BY DEF LoginInit, NoLogins, GrantInv, Authenticates, Redeems, Drawn, AnsweredCodes, HashChecked
<1>2. IInv => TypeInv
  BY DEF IInv
<1>3. AnswersInv => StartInv
  BY DEF AnswersInv
<1>4. TypeInv /\ EntInv /\ LInv /\ StartInv /\ GrantInv /\ [LoginNext]_lvars => GrantInv'
  BY GrantStep
<1> QED
  BY LoginsLeaveLifecycle, SpecEntInv, LoginIInv, LoginLInv, LoginAnswersInv,
     <1>1, <1>2, <1>3, <1>4, PTL DEF LoginSpec

\* Whoever is let in: the appliance presented a secret issued for it, and the
\* user a code that an owner's use token asked for, for that very appliance.
THEOREM GrantsEntitled == LoginSpec => []GrantIsEntitled
<1>1. LInv /\ GrantInv => GrantIsEntitled
  <2> SUFFICES ASSUME LInv, GrantInv, NEW l \in granted
               PROVE  /\ \E q \in start[l].requests :
                            /\ OK(q) /\ op[q] \in Issuers /\ target[q] = sent[l].target
                            /\ sent[l].bearer = GenerateApplianceSecret(q)
                      /\ Redeems(l) =>
                            /\ sent[sent[l].code].target = sent[l].target
                            /\ sent[sent[l].code].bearer =
                                    UseToken(groupId[sent[sent[l].code].target])
                            /\ lc[l].userId = sent[sent[l].code].user
    BY DEF GrantIsEntitled
  <2>1. l \in Logins
    BY DEF LInv, LoginVarsTypeOK
  <2>2. Redeems(l) => AskedByOwner(sent[l].code)
    <3>1. Redeems(l) => sent[l].code \in Logins /\ sent[l].code \in AnsweredCodes
      BY <2>1 DEF LInv, LoginShape, AnsweredCodes
    <3> QED
      BY <3>1 DEF GrantInv, Drawn
  <2> QED
    BY <2>1, <2>2 DEF GrantInv, ProvedItself, AskedByOwner
<1> QED
  BY LoginLInv, LoginGrantInv, <1>1, PTL
-----------------------------------------------------------------------------
(* The membership and the expiry a grant rests on are not older than it. *)

\* GrantIsCurrent from the beginning of a login on: for an appliance with a
\* secret, a member now was one then.
CurrentInv ==
    \A l \in Logins :
        /\ lpc[l] # "idle" => start[l].at <= now
        /\ Authenticates(l) /\ ProvedItself(l) /\ Member(AskedUser(sent[l]), sent[l].target)
            => start[l].member
        /\ l \in granted => start[l].member
        /\ lpc[l] = "deleteLoginCode" => lc[l] # NULL /\ lc[l].expiresAt = Timestamp(expiry[sent[l].code])
        /\ Redeems(l) /\ (lpc[l] = "getGroupMember" \/ l \in granted)
            => start[l].at <= expiry[sent[l].code]

LEMMA CurrentUnderLifecycle ==
    ASSUME TypeInv, EntInv, ExistingInv, LInv, StartInv, CurrentInv, [Next]_vars,
           UNCHANGED loginVars
    PROVE  CurrentInv'
<1>1. now \in Nat /\ now' \in Nat /\ now' >= now
  BY ClockStep, TypeInvStep DEF TypeInv, TypeOK, PersistenceTypeOK
<1>2. UNCHANGED <<members, loginCodes, lpc, sent, expiry, lc, granted, start>>
  BY DEF loginVars
<1>3. \A l \in Logins : UNCHANGED <<Redeems(l), Authenticates(l), AskedUser(sent[l])>>
  BY <1>2 DEF Redeems, Authenticates, AskedUser
<1>4. ASSUME NEW l \in Logins, Authenticates(l), ProvedItself(l)',
             Member(AskedUser(sent[l]), sent[l].target)'
      PROVE  start[l].member
  <2>1. lpc[l] # "idle"
    BY <1>4 DEF Authenticates
  <2>2. sent[l].target \in Appliances
    BY <2>1 DEF LInv, LoginShape, LoginInputs
  <2>3. PICK q \in start[l].requests :
            /\ q \in Requests /\ OK(q)' /\ op'[q] \in Issuers /\ target'[q] = sent[l].target
            /\ sent[l].bearer = GenerateApplianceSecret(q)
    BY <1>2, <1>4 DEF ProvedItself, Issuers, Claimers, Rotators, GenerateApplianceSecret
  <2>4. UNCHANGED <<pc[q], op[q], target[q]>>
    BY <2>1, <2>3, EndedStays DEF StartInv
  <2>5. OK(q) /\ op[q] \in Issuers /\ target[q] = sent[l].target
    BY <2>3, <2>4 DEF OK
  <2>6. groupId[sent[l].target] \in Groups
    BY <2>3, <2>5 DEF ExistingInv, OK
  <2>7. groupId'[sent[l].target] = groupId[sent[l].target]
    BY <2>2, <2>6, OwnerStays DEF EntInv
  <2>8. Member(AskedUser(sent[l]), sent[l].target)
    BY <1>2, <1>3, <1>4, <2>7 DEF Member
  <2> QED
    BY <1>4, <2>3, <2>5, <2>8 DEF CurrentInv, ProvedItself
<1>5. \A l \in Logins : lpc[l] # "idle" => start[l].at \in Nat
  BY DEF LInv, LoginShape, Starts
<1>6. \A l \in Logins : lpc[l] # "idle" => start[l].at <= now'
  BY <1>1, <1>5 DEF CurrentInv
<1> QED
  BY <1>2, <1>3, <1>4, <1>6 DEF CurrentInv

LEMMA CurrentBegins ==
    ASSUME TypeInv, LInv, CurrentInv, NEW l \in Logins, NEW in \in LoginInput,
           BeginLogin(l, in), UNCHANGED vars
    PROVE  CurrentInv'
<1> USE DEF LInv, LoginVarsTypeOK
<1>1. /\ lpc[l] = "idle" /\ sent' = [sent EXCEPT ![l] = in]
      /\ start' = [start EXCEPT ![l] =
            [requests |-> {q \in Requests : pc[q] \in Ended},
             at |-> now, member |-> Member(AskedUser(in), in.target)]]
      /\ lpc' = [lpc EXCEPT ![l] = IF in.op = "CreateLoginCode" THEN "requireOwningGroup"
                                   ELSE "checkSecretHash"]
      /\ UNCHANGED <<members, expiry, lc, granted>>
  BY DEF BeginLogin, LoginAt, LoginGoto
<1>2. UNCHANGED <<now, pc, op, target, groupId>> /\ now \in Nat
  BY DEF vars, requestVars, dbVars, applianceVars, TypeInv, TypeOK, PersistenceTypeOK
<1>3. \A m \in Logins : m # l => sent'[m] = sent[m] /\ start'[m] = start[m] /\ lpc'[m] = lpc[m]
  BY <1>1
<1>4. l \notin granted /\ l \notin AnsweredCodes
  BY <1>1 DEF LoginShape, AnsweredCodes
<1>5. in.op = "RedeemLoginCode" => in.code \in AnsweredCodes
  BY InputsAreTyped
<1>6. sent'[l] = in /\ start'[l].at = now /\ start'[l].member = Member(AskedUser(in), in.target)
  BY <1>1
<1>7. AskedUser(in)' = AskedUser(in)
  <2>1. in.op = "RedeemLoginCode" => sent'[in.code] = sent[in.code]
    BY <1>3, <1>4, <1>5 DEF AnsweredCodes
  <2> QED
    BY <2>1 DEF AskedUser
<1>8. \A m \in Logins : m # l /\ lpc[m] # "idle" => AskedUser(sent[m])' = AskedUser(sent[m])
  <2> SUFFICES ASSUME NEW m \in Logins, m # l, lpc[m] # "idle"
               PROVE  AskedUser(sent[m])' = AskedUser(sent[m])
    OBVIOUS
  <2>1. sent[m].op = "RedeemLoginCode" => sent[m].code \in AnsweredCodes
    BY DEF LoginShape, Redeems
  <2>2. sent[m].op = "RedeemLoginCode" => sent'[sent[m].code] = sent[sent[m].code]
    BY <1>3, <1>4, <2>1 DEF AnsweredCodes
  <2> QED
    BY <1>3, <2>2 DEF AskedUser
<1>9. \A u, a : Member(u, a)' = Member(u, a)
  BY <1>1, <1>2 DEF Member
<1>10. \A m \in Logins : m # l =>
        UNCHANGED <<Redeems(m), Authenticates(m), ProvedItself(m)>>
  BY <1>2, <1>3 DEF Redeems, Authenticates, ProvedItself, OK
<1> SUFFICES ASSUME NEW m \in Logins
    PROVE  /\ lpc'[m] # "idle" => start'[m].at <= now'
           /\ Authenticates(m)' /\ ProvedItself(m)' /\ Member(AskedUser(sent[m]), sent[m].target)'
               => start'[m].member
           /\ m \in granted' => start'[m].member
           /\ lpc'[m] = "deleteLoginCode"
               => lc'[m] # NULL /\ lc'[m].expiresAt = Timestamp(expiry'[sent'[m].code])
           /\ Redeems(m)' /\ (lpc'[m] = "getGroupMember" \/ m \in granted')
               => start'[m].at <= expiry'[sent'[m].code]
  BY DEF CurrentInv
<1>11. CASE m = l
  <2>1. Member(AskedUser(sent[l]), sent[l].target)' => start'[l].member
    BY <1>1, <1>6, <1>7, <1>9 DEF Member
  <2> QED
    BY <1>1, <1>2, <1>4, <1>6, <1>11, <2>1
<1>12. CASE m # l
  <2>1. lpc[m] # "idle" =>
            (Member(AskedUser(sent[m]), sent[m].target)' => Member(AskedUser(sent[m]), sent[m].target))
    BY <1>1, <1>2, <1>3, <1>8, <1>12 DEF Member
  <2>2. Authenticates(m) => lpc[m] # "idle"
    BY DEF Authenticates
  <2> QED
    BY <1>1, <1>2, <1>3, <1>10, <1>12, <2>1, <2>2 DEF CurrentInv
<1> QED
  BY <1>11, <1>12

\* How a login comes to look at the membership, and to a grant.
CurrentFlow(l) ==
    /\ \A c \in Logins : lpc[c] # "requireOwningGroup" => expiry'[c] = expiry[c]
    /\ lpc'[l] = "getGroupMember" /\ sent[l].op = "RedeemLoginCode"
        => lpc[l] = "deleteLoginCode" /\ ~Expired(lc[l])
    /\ l \in granted' /\ l \notin granted =>
        /\ lpc[l] = "getGroupMember"
        /\ Member(IF sent[l].op = "RedeemLoginCode" THEN lc[l].userId ELSE sent[l].user,
                  sent[l].target)

LEMMA ServeCurrent ==
    ASSUME LInv, NEW l \in Logins, ServeLogin(l) \/ AbortLogin(l)
    PROVE  CurrentFlow(l)
<1> USE DEF CurrentFlow, LInv, LoginVarsTypeOK, LoginAt, LoginGoto
<1>1. CASE OwnerCheck(l)
  BY <1>1 DEF OwnerCheck
<1>2. CASE PruneLoginCodes(l) \/ InsertLoginCode(l) \/ RespondCode(l)
  BY <1>2 DEF PruneLoginCodes, InsertLoginCode, RespondCode
<1>3. CASE LoginSecretHash(l) \/ LoginActive(l) \/ SelectForUpdate(l)
  BY <1>3 DEF LoginSecretHash, LoginActive, SelectForUpdate
<1>4. CASE DeleteLoginCode(l)
  BY <1>4 DEF DeleteLoginCode, CodeExpired
<1>5. CASE GetGroupMember(l)
  BY <1>5 DEF GetGroupMember, IsMember
<1>6. CASE RegistryFails(l) \/ AbortLogin(l)
  BY <1>6 DEF RegistryFails, AbortLogin
<1> QED
  BY <1>1, <1>2, <1>3, <1>4, <1>5, <1>6 DEF ServeLogin

LEMMA CurrentServed ==
    ASSUME TypeInv, LInv, GrantInv, CurrentInv, NEW l \in Logins,
           ServeLogin(l) \/ AbortLogin(l), UNCHANGED vars
    PROVE  CurrentInv'
<1>1. LoginMoves(l) /\ GrantFlow(l) /\ CurrentFlow(l)
  BY ServeLoginMoves, ServeGrantFlow, ServeCurrent DEF LInv
<1>2. UNCHANGED <<now, pc, op, target, groupId, members, sent, start>> /\ now \in Nat
  BY <1>1 DEF LoginMoves, vars, requestVars, dbVars, applianceVars, TypeInv, TypeOK,
              PersistenceTypeOK
<1>3. \A m \in Logins : m # l => lpc'[m] = lpc[m]
  BY <1>1 DEF LoginMoves, LInv, LoginVarsTypeOK
<1>4. lpc[l] # "idle" /\ lpc'[l] # "idle"
  BY <1>1 DEF LoginMoves, LoginSteps
<1>5. \A m \in Logins :
        /\ UNCHANGED <<Redeems(m), Authenticates(m), ProvedItself(m)>>
        /\ Member(AskedUser(sent[m]), sent[m].target)' = Member(AskedUser(sent[m]), sent[m].target)
  BY <1>2, <1>3, <1>4 DEF Redeems, Authenticates, ProvedItself, Member, AskedUser, OK
<1>6. \A m \in Logins : Redeems(m) =>
        /\ sent[m].code \in Logins /\ expiry[sent[m].code] \in Nat
        /\ expiry'[sent[m].code] = expiry[sent[m].code]
  <2> SUFFICES ASSUME NEW m \in Logins, Redeems(m)
               PROVE  /\ sent[m].code \in Logins /\ expiry[sent[m].code] \in Nat
                      /\ expiry'[sent[m].code] = expiry[sent[m].code]
    OBVIOUS
  <2>1. sent[m].code \in AnsweredCodes
    BY DEF LInv, LoginShape
  <2>2. sent[m].code \in Logins /\ lpc[sent[m].code] = "200" /\ expiry[sent[m].code] \in Nat
    BY <2>1 DEF LInv, LoginShape, AnsweredCodes
  <2> QED
    BY <1>1, <2>2 DEF CurrentFlow
<1>7. \A m \in Logins : lpc[m] \in {"selectForUpdate", "deleteLoginCode"} => Redeems(m)
  BY DEF LInv, LoginShape, Redeems
<1>8. lpc'[l] = "deleteLoginCode" => lc'[l] # NULL /\ lc'[l].expiresAt = Timestamp(expiry'[sent[l].code])
  BY <1>1, <1>6, <1>7 DEF GrantFlow, LInv, RowsInv
<1>9. Redeems(l) /\ lpc'[l] = "getGroupMember" => start[l].at <= expiry[sent[l].code]
  <2> SUFFICES ASSUME Redeems(l), lpc'[l] = "getGroupMember"
               PROVE  start[l].at <= expiry[sent[l].code]
    OBVIOUS
  <2>1. lpc[l] = "deleteLoginCode" /\ ~Expired(lc[l])
    BY <1>1 DEF CurrentFlow, Redeems
  <2>2. ~(Timestamp(expiry[sent[l].code]) < now)
    BY <2>1 DEF CurrentInv, Expired
  <2>3. start[l].at \in Nat /\ start[l].at <= now /\ expiry[sent[l].code] \in Nat
    BY <1>4, <1>6 DEF CurrentInv, LInv, LoginShape, Starts
  <2>4. /\ Timestamp(expiry[sent[l].code]) \in Nat
        /\ Timestamp(expiry[sent[l].code]) <= expiry[sent[l].code]
    BY <2>3, TimestampFacts
  <2> QED
    BY <1>2, <2>2, <2>3, <2>4
<1>10. l \in granted' /\ l \notin granted =>
        /\ start[l].member /\ lpc[l] = "getGroupMember"
  <2> SUFFICES ASSUME l \in granted', l \notin granted
               PROVE  start[l].member /\ lpc[l] = "getGroupMember"
    OBVIOUS
  <2>1. /\ lpc[l] = "getGroupMember"
        /\ Member(IF sent[l].op = "RedeemLoginCode" THEN lc[l].userId ELSE sent[l].user,
                  sent[l].target)
    BY <1>1 DEF CurrentFlow
  <2>2. ProvedItself(l) /\ Authenticates(l)
    BY <1>4, <2>1 DEF GrantInv, HashChecked, Authenticates, LInv, LoginShape
  <2>3. sent[l].op = "RedeemLoginCode" => lc[l].userId = sent[sent[l].code].user
    BY <1>4, <2>1 DEF GrantInv, Redeems
  <2>4. Member(AskedUser(sent[l]), sent[l].target)
    BY <2>1, <2>3 DEF AskedUser
  <2> QED
    BY <2>1, <2>2, <2>4 DEF CurrentInv
<1> SUFFICES ASSUME NEW m \in Logins
    PROVE  /\ lpc'[m] # "idle" => start'[m].at <= now'
           /\ Authenticates(m)' /\ ProvedItself(m)' /\ Member(AskedUser(sent[m]), sent[m].target)'
               => start'[m].member
           /\ m \in granted' => start'[m].member
           /\ lpc'[m] = "deleteLoginCode"
               => lc'[m] # NULL /\ lc'[m].expiresAt = Timestamp(expiry'[sent'[m].code])
           /\ Redeems(m)' /\ (lpc'[m] = "getGroupMember" \/ m \in granted')
               => start'[m].at <= expiry'[sent'[m].code]
  BY DEF CurrentInv
<1>11. granted' \subseteq granted \cup {l}
  BY <1>1 DEF GrantFlow
<1>12. Authenticates(m)' /\ ProvedItself(m)' /\ Member(AskedUser(sent[m]), sent[m].target)'
        => start'[m].member
  BY <1>2, <1>5 DEF CurrentInv
<1>13. CASE m = l
  <2>1. lpc'[l] # "idle" => start'[l].at <= now'
    BY <1>2, <1>4 DEF CurrentInv
  <2>2. l \in granted' => start'[l].member
    BY <1>2, <1>10 DEF CurrentInv
  <2>3. Redeems(l)' /\ (lpc'[l] = "getGroupMember" \/ l \in granted')
            => start'[l].at <= expiry'[sent'[l].code]
    BY <1>2, <1>5, <1>6, <1>9, <1>10 DEF CurrentInv
  <2> QED
    BY <1>2, <1>8, <1>12, <1>13, <2>1, <2>2, <2>3
<1>14. CASE m # l
  <2>1. lc'[m] = lc[m] /\ lpc'[m] = lpc[m]
    BY <1>1, <1>3, <1>14 DEF GrantFlow
  <2> QED
    BY <1>2, <1>5, <1>6, <1>7, <1>11, <1>12, <1>14, <2>1 DEF CurrentInv
<1> QED
  BY <1>13, <1>14

LEMMA CurrentStep ==
    ASSUME TypeInv, EntInv, ExistingInv, LInv, StartInv, GrantInv, CurrentInv, [LoginNext]_lvars
    PROVE  CurrentInv'
<1>1. CASE [Next]_vars /\ UNCHANGED loginVars
  BY <1>1, CurrentUnderLifecycle
<1>2. ASSUME NEW l \in Logins, NEW in \in LoginInput, BeginLogin(l, in), UNCHANGED vars
      PROVE  CurrentInv'
  BY <1>2, CurrentBegins
<1>3. ASSUME NEW l \in Logins, ServeLogin(l) \/ AbortLogin(l), UNCHANGED vars
      PROVE  CurrentInv'
  BY <1>3, CurrentServed
<1>4. ASSUME NEW u \in Users, NEW g \in Groups, Leave(u, g), UNCHANGED vars
      PROVE  CurrentInv'
  <2>1. /\ UNCHANGED <<now, pc, op, target, groupId, lpc, sent, expiry, lc, granted, start>>
        /\ members' = [members EXCEPT ![g] = @ \ {u}]
    BY <1>4 DEF Leave, vars, requestVars, dbVars, applianceVars
  <2>2. \A x \in Groups : members'[x] \subseteq members[x]
    BY <2>1 DEF LInv, LoginVarsTypeOK
  <2>3. \A l \in Logins :
            /\ UNCHANGED <<Redeems(l), Authenticates(l), ProvedItself(l), AskedUser(sent[l])>>
            /\ lpc[l] # "idle" => sent[l].target \in Appliances
    BY <2>1 DEF Redeems, Authenticates, ProvedItself, AskedUser, OK, LInv, LoginShape, LoginInputs
  <2>4. \A l \in Logins : lpc[l] # "idle" /\ Member(AskedUser(sent[l]), sent[l].target)'
            => Member(AskedUser(sent[l]), sent[l].target)
    BY <2>1, <2>2, <2>3 DEF Member, TypeInv, TypeOK, PersistenceTypeOK
  <2> QED
    BY <2>1, <2>3, <2>4 DEF CurrentInv, Authenticates
<1> QED
  BY <1>1, <1>2, <1>3, <1>4 DEF LoginNext, LoginStep, lvars

\* Whoever is let in was a member, and held a code that had not expired, at
\* some moment after the appliance asked, whoever leaves meanwhile.
THEOREM GrantsCurrent == LoginSpec => []GrantIsCurrent
<1>1. LoginInit => CurrentInv
  BY DEF LoginInit, NoLogins, CurrentInv, Authenticates, Redeems
<1>2. IInv => TypeInv
  BY DEF IInv
<1>3. AnswersInv => StartInv
  BY DEF AnswersInv
<1>4. TypeInv /\ EntInv /\ ExistingInv /\ LInv /\ StartInv /\ GrantInv /\ CurrentInv
        /\ [LoginNext]_lvars => CurrentInv'
  BY CurrentStep
<1>5. LInv /\ CurrentInv => GrantIsCurrent
  BY DEF GrantIsCurrent, CurrentInv, LInv, LoginVarsTypeOK
<1> QED
  BY LoginsLeaveLifecycle, LoginIInv, LoginLInv, LoginAnswersInv, SpecEntInv, SpecExisting,
     LoginGrantInv, <1>1, <1>2, <1>3, <1>4, <1>5, PTL DEF LoginSpec
=============================================================================
