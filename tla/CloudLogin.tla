------------------------------ MODULE CloudLogin ------------------------------
(***************************************************************************)
(* Cloud login: CreateLoginCode, RedeemLoginCode and CheckAccess of        *)
(* src/internal/appliancewebapp, the table applianceLoginCodes, and the    *)
(* group membership they ask cloud-user-registry for.                      *)
(*                                                                         *)
(* Its requests, the logins, run beside the requests of Lifecycle and      *)
(* change none of its state: they read the status, the owner and the       *)
(* secret hash of an appliance, each in a statement of its own.            *)
(* ConsumeLoginCode is the one transaction of the program.                 *)
(***************************************************************************)
EXTENDS Lifecycle

CONSTANTS
    Logins,             \* the cloud-login requests of an instance
    LoginOps,           \* the cloud-login endpoints called in an instance
    Users,              \* users of cloud-user-registry
    MaxLoginsInFlight   \* bound: logins served at the same time

LoginEndpoints == {"CreateLoginCode", "RedeemLoginCode", "CheckAccess"}

ASSUME LoginAssumption ==
    /\ LoginOps \subseteq LoginEndpoints
    /\ MaxLoginsInFlight \in Nat
    /\ NULL \notin Logins \cup Users

VARIABLES
    members,        \* the members of every group (external)
    loginCodes,     \* applianceLoginCodes, keyed by the login that drew the code
    rowLock,        \* the login whose transaction holds the lock of a row
    lpc,            \* the call a login makes next, or how it ended
    sent,           \* what a login's client sent
    expiry,         \* the expiresAt CreateLoginCode computed
    lc,             \* the row ConsumeLoginCode scanned
    consumed,       \* the logins whose ConsumeLoginCode has committed
    granted,        \* the logins answered with a user, or with allowed=true
    start           \* history: what was so when a login began

loginVars ==
    <<members, loginCodes, rowLock, lpc, sent, expiry, lc, consumed, granted, start>>

lvars == <<vars, loginVars>>

LoginSteps ==
    {"requireOwningGroup", "pruneLoginCodes", "insertLoginCode", "respond",
     "checkSecretHash", "checkActive", "selectForUpdate", "deleteLoginCode",
     "getGroupMember"}

LoginEnded == {"200", "401", "403", "404", "409", "502", "aborted"}

LoginCodeRows == [applianceId : Appliances, userId : Users, expiresAt : Nat]

ASSUME LoginRowAssumption == NULL \notin LoginCodeRows

\* The path, the Authorization header, the user of the use token or of the
\* path, and the code in the body.
LoginInputs ==
    [op : LoginEndpoints, target : Appliances, bearer : Credentials,
     user : Users \cup {NULL}, code : Logins \cup {NULL}]

Starts == [requests : SUBSET Requests, at : Nat, member : BOOLEAN]

LoginVarsTypeOK ==
    /\ members \in [Groups -> SUBSET Users]
    /\ loginCodes \in [Logins -> LoginCodeRows \cup {NULL}]
    /\ rowLock \in [Logins -> Logins \cup {NULL}]
    /\ lpc \in [Logins -> {"idle"} \cup LoginSteps \cup LoginEnded]
    /\ sent \in [Logins -> LoginInputs \cup {NULL}]
    /\ expiry \in [Logins -> Nat \cup {NULL}]
    /\ lc \in [Logins -> LoginCodeRows \cup {NULL}]
    /\ consumed \subseteq Logins
    /\ granted \subseteq Logins
    /\ start \in [Logins -> Starts \cup {NULL}]

LoginTypeOK == TypeOK /\ LoginVarsTypeOK

\* No login has begun.
NoLogins ==
    /\ members = [g \in Groups |-> Users]
    /\ loginCodes = [c \in Logins |-> NULL]
    /\ rowLock = [c \in Logins |-> NULL]
    /\ lpc = [l \in Logins |-> "idle"]
    /\ sent = [l \in Logins |-> NULL]
    /\ expiry = [l \in Logins |-> NULL]
    /\ lc = [l \in Logins |-> NULL]
    /\ consumed = {}
    /\ granted = {}
    /\ start = [l \in Logins |-> NULL]

LoginInit == Init /\ NoLogins

-----------------------------------------------------------------------------
\* Logins and what they are sent.

LoginAt(l, step) == lpc[l] = step

LoginGoto(l, step) == lpc' = [lpc EXCEPT ![l] = step]

\* An appliance that does not exist has no owner.
Member(u, a) == groupId[a] # NULL /\ u \in members[groupId[a]]

\* The codes some client was answered with.
AnsweredCodes == {c \in Logins : lpc[c] = "200" /\ sent[c].op = "CreateLoginCode"}

\* A use token of any user and group; any bearer string some client holds.
LoginInput ==
    [op : {"CreateLoginCode"}, target : Appliances, bearer : UseTokens,
     user : Users, code : {NULL}]
    \cup [op : {"RedeemLoginCode"}, target : Appliances,
          bearer : Presentable("RotateOwnSecret"), user : {NULL}, code : AnsweredCodes]
    \cup [op : {"CheckAccess"}, target : Appliances,
          bearer : Presentable("RotateOwnSecret"), user : Users, code : {NULL}]

\* The user a login is about.
AskedUser(in) == IF in.op = "RedeemLoginCode" THEN sent[in.code].user ELSE in.user

BeginLogin(l, in) ==
    /\ LoginAt(l, "idle")
    /\ Cardinality({m \in Logins : lpc[m] \in LoginSteps}) < MaxLoginsInFlight
    /\ in.op \in LoginOps
    /\ sent' = [sent EXCEPT ![l] = in]
    /\ start' = [start EXCEPT ![l] =
            [requests |-> {q \in Requests : pc[q] \in Ended},
             at |-> now, member |-> Member(AskedUser(in), in.target)]]
    /\ LoginGoto(l, IF in.op = "CreateLoginCode" THEN "requireOwningGroup"
                    ELSE "checkSecretHash")
    /\ UNCHANGED <<members, loginCodes, rowLock, expiry, lc, consumed, granted>>

\* The locks once the transaction of a login has ended.
Unlocked(l) == [c \in Logins |-> IF rowLock[c] = l THEN NULL ELSE rowLock[c]]

\* Mutant: a failed call leaves the transaction open.
LeftOpen(l) == rowLock

\* The deferred tx.Rollback.
RolledBack(l) == Unlocked(l)

\* As Lifecycle's Abort: a failed call, a client gone, a crash.  The database
\* rolls back what was not committed.
AbortLogin(l) ==
    /\ lpc[l] \in LoginSteps
    /\ LoginGoto(l, "aborted")
    /\ rowLock' = RolledBack(l)
    /\ UNCHANGED <<members, loginCodes, sent, expiry, lc, consumed, granted, start>>

\* Cloud-user-registry (external).  Members only leave: a bound.
Leave(u, g) ==
    /\ u \in members[g]
    /\ members' = [members EXCEPT ![g] = @ \ {u}]
    /\ UNCHANGED <<loginCodes, rowLock, lpc, sent, expiry, lc, consumed, granted, start>>

-----------------------------------------------------------------------------
\* CreateLoginCode.

OwnsTarget(in) == groupId[in.target] = GroupOf(in.bearer)

\* Mutant: the zero time, which is long past.
NoExpiry == 0 - 1

LoginCodeExpiry == now + ExchangeCodeExpiry

\* The row read by requireOwningGroup serves the check of the status too.
OwnerCheck(l) ==
    LET in == sent[l] IN
    /\ LoginAt(l, "requireOwningGroup")
    /\ LoginGoto(l, IF ~OwnsTarget(in) THEN "404"
                    ELSE IF ~Rotatable(in.target) THEN "409" ELSE "pruneLoginCodes")
    /\ expiry' = [expiry EXCEPT ![l] = LoginCodeExpiry]
    /\ UNCHANGED <<members, loginCodes, rowLock, sent, lc, consumed, granted, start>>

\* Mutant: the DELETE has lost its condition, as if each user had one code.
Replaced(row) == row # NULL

\* The column has whole seconds, the parameter of the DELETE a fraction.
Lapsed(row) == row # NULL /\ row.expiresAt < now

\* The DELETE has no index to use: it scans the table, and waits for the lock
\* of any row of it.
PruneLoginCodes(l) ==
    /\ LoginAt(l, "pruneLoginCodes")
    /\ \A c \in Logins : rowLock[c] = NULL
    /\ loginCodes' = [c \in Logins |-> IF Lapsed(loginCodes[c]) THEN NULL ELSE loginCodes[c]]
    /\ LoginGoto(l, "insertLoginCode")
    /\ UNCHANGED <<members, rowLock, sent, expiry, lc, consumed, granted, start>>

InsertLoginCode(l) ==
    /\ LoginAt(l, "insertLoginCode")
    /\ loginCodes' = [loginCodes EXCEPT ![l] =
            [applianceId |-> sent[l].target, userId |-> sent[l].user,
             expiresAt |-> Timestamp(expiry[l])]]
    /\ LoginGoto(l, "respond")
    /\ UNCHANGED <<members, rowLock, sent, expiry, lc, consumed, granted, start>>

RespondCode(l) ==
    /\ LoginAt(l, "respond")
    /\ LoginGoto(l, "200")
    /\ UNCHANGED <<members, loginCodes, rowLock, sent, expiry, lc, consumed, granted, start>>

-----------------------------------------------------------------------------
\* RedeemLoginCode and CheckAccess.

\* authenticateAppliance, its two reads.
LoginSecretHash(l) ==
    /\ LoginAt(l, "checkSecretHash")
    /\ LoginGoto(l, IF Matches(secretHash[sent[l].target], sent[l].bearer)
                    THEN "checkActive" ELSE "401")
    /\ UNCHANGED <<members, loginCodes, rowLock, sent, expiry, lc, consumed, granted, start>>

Authentic(a) == status[a] = "active"

LoginActive(l) ==
    /\ LoginAt(l, "checkActive")
    /\ LoginGoto(l, IF ~Authentic(sent[l].target) THEN "401"
                    ELSE IF sent[l].op = "RedeemLoginCode" THEN "selectForUpdate"
                    ELSE "getGroupMember")
    /\ UNCHANGED <<members, loginCodes, rowLock, sent, expiry, lc, consumed, granted, start>>

\* Mutant: a SELECT without FOR UPDATE.
Readable(c) == TRUE

Lockable(c) == rowLock[c] = NULL

\* Mutant: a SELECT by codeHash alone.
IsOutstanding(row, a) == row # NULL

IsOutstandingFor(row, a) == row # NULL /\ row.applianceId = a

\* SELECT ... FOR UPDATE waits for the row's lock.  When it finds nothing the
\* transaction is rolled back at once.
SelectForUpdate(l) ==
    LET c == sent[l].code
        found == IsOutstandingFor(loginCodes[c], sent[l].target)
    IN
    /\ LoginAt(l, "selectForUpdate")
    /\ Lockable(c)
    /\ IF found
       THEN /\ rowLock' = [rowLock EXCEPT ![c] = l]
            /\ lc' = [lc EXCEPT ![l] = loginCodes[c]]
            /\ LoginGoto(l, "deleteLoginCode")
       ELSE LoginGoto(l, "401") /\ UNCHANGED <<rowLock, lc>>
    /\ UNCHANGED <<members, loginCodes, sent, expiry, consumed, granted, start>>

\* Mutant: the code's own expiry is left to the pruning.
NeverExpired(row) == FALSE

CodeExpired(row) == Expired(row)

\* DELETE and COMMIT: the row lock hides the one until the other.  Only then
\* does RedeemLoginCode look at the expiry.
DeleteLoginCode(l) ==
    /\ LoginAt(l, "deleteLoginCode")
    /\ loginCodes' = [loginCodes EXCEPT ![sent[l].code] = NULL]
    /\ rowLock' = Unlocked(l)
    /\ consumed' = consumed \cup {l}
    /\ LoginGoto(l, IF CodeExpired(lc[l]) THEN "401" ELSE "getGroupMember")
    /\ UNCHANGED <<members, sent, expiry, lc, granted, start>>

\* Mutant: the user was a member when the code was created.
OnceMember(u, a) == TRUE

IsMember(u, a) == Member(u, a)

\* GetGroupMember, about the user of the code, or of the path.
GetGroupMember(l) ==
    LET in == sent[l]
        redeems == in.op = "RedeemLoginCode"
        allowed == IsMember(IF redeems THEN lc[l].userId ELSE in.user, in.target)
    IN
    /\ LoginAt(l, "getGroupMember")
    /\ LoginGoto(l, IF redeems /\ ~allowed THEN "403" ELSE "200")
    /\ granted' = IF allowed THEN granted \cup {l} ELSE granted
    /\ UNCHANGED <<members, loginCodes, rowLock, sent, expiry, lc, consumed, start>>

\* The user registry cannot be reached, times out or answers otherwise than
\* with a membership; or it answers with one and no user, which only
\* RedeemLoginCode asks for.
RegistryFails(l) ==
    /\ LoginAt(l, "getGroupMember")
    /\ LoginGoto(l, "502") \/ (sent[l].op = "RedeemLoginCode" /\ LoginGoto(l, "403"))
    /\ UNCHANGED <<members, loginCodes, rowLock, sent, expiry, lc, consumed, granted, start>>

-----------------------------------------------------------------------------
ServeLogin(l) ==
    \/ OwnerCheck(l) \/ PruneLoginCodes(l) \/ InsertLoginCode(l) \/ RespondCode(l)
    \/ LoginSecretHash(l) \/ LoginActive(l)
    \/ SelectForUpdate(l) \/ DeleteLoginCode(l)
    \/ GetGroupMember(l) \/ RegistryFails(l)

LoginStep ==
    \/ \E l \in Logins :
        \/ \E in \in LoginInput : BeginLogin(l, in)
        \/ ServeLogin(l)
        \/ AbortLogin(l)
    \/ \E u \in Users, g \in Groups : Leave(u, g)

LoginNext ==
    \/ Next /\ UNCHANGED loginVars
    \/ LoginStep /\ UNCHANGED vars

LoginSpec == LoginInit /\ [][LoginNext]_lvars

\* Every call returns, and so does a wait for a row lock once it is free.
LoginFairness == \A l \in Logins : WF_lvars(ServeLogin(l) /\ UNCHANGED vars)

FairLoginSpec == LoginSpec /\ LoginFairness
-----------------------------------------------------------------------------
(* Properties. *)

Redeems(l) == lpc[l] # "idle" /\ sent[l].op = "RedeemLoginCode"

Authenticates(l) == lpc[l] # "idle" /\ sent[l].op # "CreateLoginCode"

\* A code logs in at most one user session: of any number of redemptions, in
\* any interleaving, at most one is answered with the user (mariadb.go:
\* ConsumeLoginCode).
LoginCodeUsedOnce ==
    \A p, q \in granted :
        Redeems(p) /\ Redeems(q) /\ sent[p].code = sent[q].code => p = q

\* A code some browser holds stays redeemable until the second it expires in
\* has begun, whatever is pruned beside it and whoever presents it to another
\* appliance: only a redemption by its own appliance uses it up.  Within that
\* second the code goes, up to a second before the expiresAt it was answered
\* with (mariadb.go: SaveLoginCode's DELETE, ConsumeLoginCode's condition on
\* applianceId; V003.sql: expiresAt).
LiveCodeIsRedeemable ==
    \A c \in AnsweredCodes :
        loginCodes[c] = NULL /\ now <= Timestamp(expiry[c])
            => \E q \in consumed : sent[q].code = c /\ sent[q].target = sent[c].target

\* Whoever is let in was a member of the owning group, and holds a code that
\* had not expired, at some moment after the appliance asked (webapp.go:
\* RedeemLoginCode, CheckAccess).
GrantIsCurrent ==
    \A l \in granted :
        /\ start[l].member
        /\ Redeems(l) => start[l].at <= expiry[sent[l].code]

\* A login is of the user who asked for the code, on the appliance it was
\* asked for, whose group's use token that user held; and it is the appliance
\* itself that redeems it, with a secret issued for it (webapp.go:
\* CreateLoginCode, RedeemLoginCode).
GrantIsEntitled ==
    \A l \in granted :
        /\ \E q \in start[l].requests :
            /\ OK(q) /\ op[q] \in Issuers /\ target[q] = sent[l].target
            /\ sent[l].bearer = GenerateApplianceSecret(q)
        /\ Redeems(l) =>
            LET in == sent[sent[l].code] IN
            /\ in.target = sent[l].target
            /\ in.bearer = UseToken(groupId[in.target])
            /\ lc[l].userId = in.user

\* Once a claim, rotation or revocation has been answered, a login presenting
\* a secret from before it is refused at the comparison with the stored hash,
\* so it neither uses up a code nor learns who is a member (README,
\* "Re-checking access").
StaleSecretGetsNothing ==
    \A l \in Logins, v, q \in Requests :
        ( /\ Authenticates(l) /\ v \in start[l].requests
          /\ OK(v) /\ op[v] \in Writers /\ target[v] = sent[l].target
          /\ q \in before[v] /\ sent[l].bearer = GenerateApplianceSecret(q) )
            => lpc[l] \in {"checkSecretHash", "401", "aborted"}

\* After a revocation was answered no code is handed out for the appliance and
\* nobody is let in, unless a claim overlapped the revocation (README,
\* "Re-checking access": revoking the appliance ends its sessions).
RevokedIsCutOff ==
    \A l \in Logins, v \in Requests :
        ( /\ lpc[l] = "200" /\ v \in start[l].requests
          /\ OK(v) /\ op[v] = "Revoke" /\ target[v] = sent[l].target )
            => \E c \in Requests :
                op[c] \in Claimers /\ target[c] = target[v] /\ Overlap(c, v)

\* Every login is answered: no transaction keeps a row locked for good, and
\* neither a redemption nor the pruning waits for ever.
EveryLoginAnswered ==
    \A l \in Logins : []<>(lpc[l] \notin LoginSteps)

\* The table of codes, with its transactions, implements the promise of
\* LoginCodes: a consumed code was taken by the login that consumed it.
outstandingCodes == {c \in Logins : loginCodes[c] # NULL}

codeTakers == {<<sent[l].code, l>> : l \in consumed}

Promise == INSTANCE LoginCodes
    WITH Codes <- Logins, Redeemers <- Logins,
         outstanding <- outstandingCodes, takers <- codeTakers

CodesAreSingleUse == Promise!Spec
=============================================================================
