---------------------------- MODULE LifecycleTimes ----------------------------
(***************************************************************************)
(* Lifecycle beside the times that tell how long a credential lives: when  *)
(* a claim began and when it marked its appliance claimed, and when the    *)
(* claim token was stored and the answer with the credential given.  They  *)
(* are history: no action reads them.                                      *)
(***************************************************************************)
EXTENDS Lifecycle

VARIABLES began, stored, answered, marked

timedVars == <<vars, began, stored, answered, marked>>

\* The time of every request that makes a step Did now.
Stamp(times, Did(_)) == [r \in Requests |-> IF Did(r) THEN now ELSE times[r]]

Begins(r) == pc[r] = "idle" /\ op'[r] \in Claimers

Stores(r) == pc[r] = "saveClaimToken" /\ pc'[r] \in {"saveExchangeCode", "respond"}

Answers(r) == pc[r] = "respond" /\ pc'[r] = "200" /\ op[r] \in Creators

MarksClaimed(r) == pc[r] = "markClaimed" /\ pc'[r] = "deleteClaimToken"

TimedInit ==
    /\ Init
    /\ began = [r \in Requests |-> NULL]
    /\ stored = [r \in Requests |-> NULL]
    /\ answered = [r \in Requests |-> NULL]
    /\ marked = [r \in Requests |-> NULL]

TimedNext ==
    /\ Next
    /\ began' = Stamp(began, Begins)
    /\ stored' = Stamp(stored, Stores)
    /\ answered' = Stamp(answered, Answers)
    /\ marked' = Stamp(marked, MarksClaimed)

TimedSpec == TimedInit /\ [][TimedNext]_timedVars
-----------------------------------------------------------------------------
\* How long the answer of a creator can be claimed with.
Lifetime(q) == IF op[q] = "Enroll" THEN ExchangeCodeExpiry ELSE ClaimTokenExpiry

\* A claim sent later than its credential lives, counted from the answer the
\* credential came in, does not succeed: however slow the request that issued
\* it was, and although EnrollRedeem does not look at the expiry of the claim
\* token its code is pinned to (webapp.go: Claim, EnrollRedeem).
LateClaimFails ==
    \A q, c \in Requests :
        ( /\ OK(q) /\ op[q] \in Creators
          /\ OK(c) /\ op[c] \in Claimers /\ bearer[c] = Answer(q) )
            => began[c] <= answered[q] + Lifetime(q)

\* Of neither expiry has the second begun.  An exchange code needs the claim
\* token it is pinned to beside it; stored is no later than its own storing.
InLifetime(q) ==
    /\ now <= Timestamp(stored[q] + ClaimTokenExpiry)
    /\ op[q] = "Enroll" => now <= Timestamp(stored[q] + ExchangeCodeExpiry)

\* Whoever was answered with a claim token or an exchange code can claim with
\* it while the appliance is pending and the credential lives: the rows the
\* claim is compared with are there and are those of the answer.  So an
\* appliance nobody can ever claim has a creator that failed before its
\* answer, or a credential that expired (webapp.go: Register, Enroll, Claim,
\* EnrollRedeem).
AnsweredCanClaim ==
    \A q \in Requests :
        OK(q) /\ op[q] \in Creators /\ status[target[q]] = "pending" /\ InLifetime(q)
            => LET token == claimTokens[target[q]]
                   code == exchangeCodes[target[q]]
               IN
               /\ token # NULL /\ token.tokenHash = Hash(GenerateClaimToken(q))
               /\ op[q] = "Enroll" =>
                    /\ code # NULL /\ code.codeHash = Hash(Answer(q))
                    /\ code.claimTokenHash = token.tokenHash

\* Two claims that both succeeded marked the appliance in different seconds,
\* or a revocation that overlapped one of them came in between: within one
\* second the second UPDATE changes no row and its claim is answered 500
\* (mariadb.go: MarkApplianceClaimed).
SameSecondClaimsExclude ==
    \A c, d \in Requests :
        ( /\ OK(c) /\ op[c] \in Claimers /\ OK(d) /\ op[d] \in Claimers
          /\ c # d /\ target[c] = target[d] )
            => \/ Timestamp(marked[c]) # Timestamp(marked[d])
               \/ \E v \in Requests :
                    /\ op[v] = "Revoke" /\ target[v] = target[c]
                    /\ Overlap(v, c) \/ Overlap(v, d)
=============================================================================
