----------------------------- MODULE FleetProofs -----------------------------
(***************************************************************************)
(* Theorems about LimiterWindow and Fleet, for every rate, burst and       *)
(* interval of the polls, and any number of requests, appliances, groups   *)
(* and listings: the rate is bounded, a lone generator is served, and a    *)
(* listing tells what its reader was promised.                             *)
(***************************************************************************)
EXTENDS Fleet, LimiterWindow, CredentialProofs

-----------------------------------------------------------------------------
(* The limiter.                                                            *)

LEMMA FullIsNat == FullCredit \in Nat /\ FullCredit >= PluginRateSeconds
<1>1. PluginRateSeconds \in Nat /\ PluginRateBurst \in Nat /\ PluginRateBurst >= 1
  BY RateAssumption
<1>2. PluginRateSeconds * PluginRateBurst >= PluginRateSeconds
  <2>1. PICK b \in Nat : PluginRateBurst = b + 1
    <3>1. PluginRateBurst - 1 \in Nat /\ PluginRateBurst = (PluginRateBurst - 1) + 1
      BY <1>1
    <3> QED
      BY <3>1
  <2>2. PluginRateSeconds * (b + 1) = PluginRateSeconds * b + PluginRateSeconds
    BY <1>1, <2>1
  <2>3. PluginRateSeconds * b \in Nat
    BY <1>1, <2>1
  <2> QED
    BY <1>1, <2>1, <2>2, <2>3
<1> QED
  BY <1>1, <1>2 DEF FullCredit

WindowTypeOK ==
    LimiterTypeOK /\ admitted \in Nat /\ elapsed \in Nat /\ restarts \in Nat

\* What is left in the bucket counts against what was earned.
CreditInv == PluginRateSeconds * admitted + credit <= FullCredit * (1 + restarts) + elapsed

LEMMA WindowTypeStep == WindowTypeOK /\ [WindowNext]_windowVars => WindowTypeOK'
<1> SUFFICES ASSUME WindowTypeOK, [WindowNext]_windowVars PROVE WindowTypeOK'
  OBVIOUS
<1>1. FullCredit \in Nat /\ FullCredit' = FullCredit
  BY FullIsNat DEF FullCredit
<1> USE RateAssumption DEF WindowTypeOK, LimiterTypeOK
<1>2. CASE Call
  BY <1>1, <1>2 DEF Call, Spend, Allows
<1>3. CASE Second
  BY <1>1, <1>3 DEF Second, Refilled
<1>4. CASE Restart
  BY <1>1, <1>4 DEF Restart, NewLimiter
<1>5. CASE LookAgain \/ UNCHANGED windowVars
  BY <1>1, <1>5 DEF LookAgain, windowVars
<1> QED
  BY <1>2, <1>3, <1>4, <1>5 DEF WindowNext

LEMMA CreditStep == WindowTypeOK /\ CreditInv /\ [WindowNext]_windowVars => CreditInv'
<1> SUFFICES ASSUME WindowTypeOK, CreditInv, [WindowNext]_windowVars PROVE CreditInv'
  OBVIOUS
<1>1. FullCredit \in Nat /\ FullCredit' = FullCredit
  BY FullIsNat DEF FullCredit
<1> USE RateAssumption DEF WindowTypeOK, LimiterTypeOK, CreditInv
<1>2. CASE Call
  <2>1. PluginRateSeconds * (admitted + 1) = PluginRateSeconds * admitted + PluginRateSeconds
    OBVIOUS
  <2> QED
    BY <1>1, <1>2, <2>1 DEF Call, Spend, Allows
<1>3. CASE Second
  BY <1>1, <1>3 DEF Second, Refilled
<1>4. CASE Restart
  <2>1. FullCredit * (1 + (restarts + 1)) = FullCredit * (1 + restarts) + FullCredit
    BY <1>1
  <2> QED
    BY <1>1, <1>4, <2>1 DEF Restart, NewLimiter
<1>5. CASE LookAgain
  BY <1>1, <1>5 DEF LookAgain
<1>6. CASE UNCHANGED windowVars
  BY <1>1, <1>6 DEF windowVars
<1> QED
  BY <1>2, <1>3, <1>4, <1>5, <1>6 DEF WindowNext

\* For every rate and burst, and every stretch of time: no more calls are
\* admitted than the limiter's two parameters say.
THEOREM RateBounded == WindowSpec => []RateIsBounded
<1>1. WindowInit => WindowTypeOK /\ CreditInv
  BY FullIsNat, RateAssumption
     DEF WindowInit, NewLimiter, WindowTypeOK, LimiterTypeOK, CreditInv
<1>2. WindowTypeOK /\ CreditInv => RateIsBounded
  BY FullIsNat, RateAssumption
     DEF WindowTypeOK, LimiterTypeOK, CreditInv, RateIsBounded
<1> QED
  BY <1>1, <1>2, WindowTypeStep, CreditStep, PTL DEF WindowSpec

-----------------------------------------------------------------------------
(* The poll.                                                               *)

\* The variables the limiter and the poll turn on.
PollTypeOK ==
    /\ LimiterTypeOK
    /\ poll \in {"idle", "listAppliances", "reconcile"}
    /\ since \in 0..PollSeconds
    /\ crowded \in BOOLEAN
    /\ throttled \in BOOLEAN

\* Between two polls, unless another call got past the limiter, the bucket
\* earns at least what a call costs by the time the next poll is due.
EarnedInv ==
    poll = "idle" /\ ~crowded => credit >= since \/ credit >= PluginRateSeconds

PollInv == PollTypeOK /\ EarnedInv /\ PollsAloneAreServed

LEMMA PollStep == PollInv /\ [FleetNext]_fvars => PollInv'
<1> SUFFICES ASSUME PollInv, [FleetNext]_fvars PROVE PollInv'
  OBVIOUS
<1> USE FullIsNat, RateAssumption, FleetAssumption
    DEF PollInv, PollTypeOK, LimiterTypeOK, EarnedInv, PollsAloneAreServed
<1>0. FullCredit' = FullCredit
  BY DEF FullCredit
<1>1. CASE UNCHANGED fleetVars
  BY <1>0, <1>1 DEF fleetVars
<1>2. CASE BeginPoll
  <2>1. throttled' = FALSE
    BY <1>2 DEF BeginPoll, Allows
  <2>2. PollTypeOK'
    BY <1>0, <1>2, <2>1 DEF BeginPoll, Spend, Allows
  <2>3. EarnedInv'
    BY <1>2, <2>2 DEF BeginPoll
  <2> QED
    BY <2>1, <2>2, <2>3
<1>3. CASE OtherCall
  <2>1. Allows => crowded'
    BY <1>3 DEF OtherCall
  <2>2. ~Allows => credit' = credit /\ crowded' = crowded
    BY <1>3 DEF OtherCall, Spend
  <2>3. PollTypeOK'
    BY <1>0, <1>3 DEF OtherCall, Spend, Allows
  <2> QED
    BY <1>3, <2>1, <2>2, <2>3 DEF OtherCall
<1>4. CASE Elapse
  BY <1>0, <1>4 DEF Elapse, Refilled
<1>5. CASE RestartProcess
  BY <1>0, <1>5 DEF RestartProcess, NewLimiter
<1>6. CASE ListActive
  BY <1>0, <1>6 DEF ListActive
<1>7. CASE Reconcile \/ PollFails
  <2>1. credit' = credit /\ throttled' = throttled
    BY <1>7 DEF Reconcile, PollFails
  <2>2. poll' = "idle" /\ since' = 0 /\ crowded' = FALSE
    BY <1>7 DEF Reconcile, PollFails
  <2>3. LimiterTypeOK' /\ since' \in 0..PollSeconds /\ credit' >= since'
    BY <1>0, <2>1, <2>2
  <2>4. PollTypeOK' /\ ~throttled'
    BY <2>1, <2>2, <2>3
  <2> QED
    BY <2>3, <2>4
<1>8. ASSUME NEW l \in Listings, NEW q \in Queries, BeginListing(l, q)
      PROVE  PollInv'
  BY <1>0, <1>8 DEF BeginListing
<1>9. ASSUME NEW l \in Listings, AnswerListing(l)
      PROVE  PollInv'
  BY <1>0, <1>9 DEF AnswerListing
<1> QED
  BY <1>1, <1>2, <1>3, <1>4, <1>5, <1>6, <1>7, <1>8, <1>9
     DEF FleetNext, FleetStep, fvars

LEMMA SpecPollInv == FleetSpec => []PollInv
<1>1. ASSUME FleetInit PROVE PollInv
  <2>1. credit = FullCredit /\ poll = "idle" /\ since = PollSeconds
    BY <1>1 DEF FleetInit, NewLimiter
  <2>2. crowded = FALSE /\ throttled = FALSE
    BY <1>1 DEF FleetInit
  <2>3. LimiterTypeOK /\ since \in 0..PollSeconds /\ credit >= PluginRateSeconds
    BY <2>1, FullIsNat, RateAssumption, FleetAssumption DEF LimiterTypeOK
  <2>4. PollTypeOK /\ ~throttled
    BY <2>1, <2>2, <2>3 DEF PollTypeOK
  <2> QED
    BY <2>3, <2>4 DEF PollInv, EarnedInv, PollsAloneAreServed
<1> QED
  BY <1>1, PollStep, PTL DEF FleetSpec

\* For every rate and burst, and any interval of the polls that is not shorter
\* than the limiter's: left alone, the generator is never throttled.
THEOREM PollsAlone == FleetSpec => []PollsAloneAreServed
<1>1. PollInv => PollsAloneAreServed
  BY DEF PollInv
<1> QED
  BY <1>1, SpecPollInv, PTL

\* Listings and polls only read: the lifecycle beside them, and every theorem
\* about it, is that of Lifecycle.
THEOREM FleetLeavesLifecycle == FleetSpec => Spec
<1>1. FleetInit => Init
  BY DEF FleetInit
<1>2. [FleetNext]_fvars => [Next]_vars
  BY DEF FleetNext, fvars
<1> QED
  BY <1>1, <1>2, PTL DEF FleetSpec, Spec

-----------------------------------------------------------------------------
(* What the lifecycle knows of a status that a listing reads.              *)

\* The steps of a revocation that has not got as far as the status.
Early == {"requireOwningGroup", "setStatusRevoked", "404"}

ClaimBegun(a) == \E c \in Requests : op[c] \in Claimers /\ target[c] = a

RevocationGotTo(a) ==
    \E v \in Requests : op[v] = "Revoke" /\ target[v] = a /\ pc[v] \notin Early

\* Every status was given by a request.
GivenInv ==
    \A a \in Appliances :
        /\ status[a] = "active" => ClaimBegun(a)
        /\ status[a] = "revoked" => RevocationGotTo(a)

\* A request that does not create keeps its endpoint and its appliance, and a
\* revocation that has got as far as the status does not go back.
LEMMA WriterStays ==
    ASSUME TypeInv, [Next]_vars, NEW v \in Requests, op[v] \in Claimers \cup {"Revoke"}
    PROVE  /\ op'[v] = op[v] /\ target'[v] = target[v]
           /\ op[v] = "Revoke" /\ pc[v] \notin Early => pc'[v] \notin Early
<1> USE DEF TypeInv, TypeOK, Shape, Claimers, Early
<1>1. ASSUME NEW r \in Requests, NEW o \in Ops, NEW b \in Presentable(o),
             NEW a \in Appliances \cup {NULL}, Begin(r, o, a, b)
      PROVE  op'[v] = op[v] /\ target'[v] = target[v] /\ pc'[v] = pc[v]
  BY <1>1, LifecycleAssumption DEF Begin, At, Goto, Endpoints, Issuers
<1>2. ASSUME NEW r \in Requests, Serve(r) \/ Abort(r)
      PROVE  /\ op'[v] = op[v] /\ target'[v] = target[v]
             /\ op[v] = "Revoke" /\ pc[v] \notin Early => pc'[v] \notin Early
  <2>1. pc[v] # "createAppliance"
    BY DEF CreatorSteps, Creators
  <2>2. op'[v] = op[v] /\ target'[v] = target[v] /\ (v # r => pc'[v] = pc[v])
    BY <1>2, <2>1, ServeMoves DEF Moves
  <2>3. ASSUME v = r, op[r] = "Revoke", pc[r] \notin Early
        PROVE  pc'[r] \notin Early
    <3> USE <2>3 DEF At, Goto, CreatorSteps, Creators, WriteSteps, Issuers, Rotators
    <3>1. CASE Create(r) \/ CheckCredential(r)
      BY <3>1 DEF Create, InsertAppliance, InsertCollides, IssueClaimToken, IssueExchangeCode,
                  CheckCredential, GetClaimToken, DeleteExpiredToken, GetExchangeCode,
                  DeleteExpiredCode, CheckPin, RequireOwningGroup, CheckSecretHash, CheckActive
    <3>2. CASE Issue(r)
      BY <3>2 DEF Issue, GetAppliance, CreateK8sSecret, GetK8sSecret, UpdateK8sSecret,
                  StoreSecretHash, MarkClaimed, DropClaimToken, DropExchangeCode
    <3>3. CASE Withdraw(r) \/ Respond(r) \/ Abort(r)
      BY <3>3 DEF Withdraw, SetStatusRevoked, DeleteK8sSecret, ClearSecretHash, Respond, Abort
    <3> QED
      BY <1>2, <3>1, <3>2, <3>3 DEF Serve
  <2> QED
    BY <2>2, <2>3
<1>3. CASE Tick \/ UNCHANGED vars
  BY <1>3 DEF Tick, vars, requestVars
<1> QED
  BY <1>1, <1>2, <1>3 DEF Next

LEMMA GivenStep ==
    ASSUME TypeInv, GivenInv, [Next]_vars
    PROVE  GivenInv'
<1> SUFFICES ASSUME NEW a \in Appliances
             PROVE  /\ status'[a] = "active" => ClaimBegun(a)'
                    /\ status'[a] = "revoked" => RevocationGotTo(a)'
  BY DEF GivenInv
<1>1. ClaimBegun(a) => ClaimBegun(a)'
  BY WriterStays DEF ClaimBegun
<1>2. RevocationGotTo(a) => RevocationGotTo(a)'
  BY WriterStays DEF RevocationGotTo
<1>3. ASSUME status'[a] # status[a], status'[a] \in {"active", "revoked"}
      PROVE  \/ status'[a] = "active" /\ ClaimBegun(a)'
             \/ status'[a] = "revoked" /\ RevocationGotTo(a)'
  <2>1. PICK r \in Requests : Serve(r) \/ Abort(r)
    BY <1>3 DEF Next, Begin, Tick, vars, dbVars, applianceVars
  <2>2. \/ pc[r] = "markClaimed" /\ target[r] = a /\ status'[a] = "active"
        \/ pc[r] = "setStatusRevoked" /\ target[r] = a /\ status'[a] = "revoked"
    BY <1>3, <2>1, ServeStatus DEF StatusMoves, TypeInv, TypeOK, PersistenceTypeOK
  <2>3. CASE pc[r] = "markClaimed" /\ target[r] = a /\ status'[a] = "active"
    <3>1. op[r] \in Claimers
      BY <2>3 DEF TypeInv, Shape
    <3>2. op'[r] = op[r] /\ target'[r] = a
      BY <2>3, <3>1, WriterStays
    <3> QED
      BY <2>3, <3>1, <3>2 DEF ClaimBegun, Claimers
  <2>4. CASE pc[r] = "setStatusRevoked" /\ target[r] = a /\ status'[a] = "revoked"
    <3>1. op[r] = "Revoke"
      BY <2>4 DEF TypeInv, Shape
    <3>2. op'[r] = op[r] /\ target'[r] = a
      BY <2>4, <3>1, WriterStays
    <3>3. SetStatusRevoked(r) \/ Abort(r)
      BY <2>1, <2>4
         DEF Serve, Create, CheckCredential, Issue, Withdraw, Respond, At,
             InsertAppliance, InsertCollides, IssueClaimToken, IssueExchangeCode,
             GetClaimToken, DeleteExpiredToken, GetExchangeCode, DeleteExpiredCode,
             CheckPin, RequireOwningGroup, CheckSecretHash, CheckActive, GetAppliance,
             CreateK8sSecret, GetK8sSecret, UpdateK8sSecret, StoreSecretHash,
             MarkClaimed, DropClaimToken, DropExchangeCode, DeleteK8sSecret, ClearSecretHash
    <3>4. pc'[r] \in {"deleteSecret", "500", "aborted"}
      BY <3>3 DEF SetStatusRevoked, Abort, Goto, TypeInv, TypeOK
    <3> QED
      BY <2>4, <3>1, <3>2, <3>4 DEF RevocationGotTo, Early
  <2> QED
    BY <2>2, <2>3, <2>4
<1> QED
  BY <1>1, <1>2, <1>3 DEF GivenInv

\* The invariants of the lifecycle that a listing rests on.
ReadInv == IInv /\ EntInv /\ ExistingInv /\ GivenInv

LEMMA SpecReadInv == Spec => []ReadInv
<1>1. Init => GivenInv
  BY DEF Init, PersistenceInit, GivenInv
<1>2. IInv => TypeInv
  BY DEF IInv
<1>3. TypeInv /\ GivenInv /\ [Next]_vars => GivenInv'
  BY GivenStep
<1>4. IInv /\ EntInv /\ ExistingInv /\ GivenInv => ReadInv
  BY DEF ReadInv
<1> QED
  BY <1>1, <1>2, <1>3, <1>4, SpecIInv, SpecEntInv, SpecExisting, PTL DEF Spec

-----------------------------------------------------------------------------
(* What a reader is told, of S.                                            *)

\* AnswersAreListed, for the reader x that is told S.
TrueToAnswers(S, x) ==
    /\ \A a \in S : ClaimBegun(a)
    /\ \A r \in sawEnded[x] : OK(r) =>
        /\ op[r] = "Revoke" /\ target[r] \in S =>
            \E c \in Requests :
                op[c] \in Claimers /\ target[c] = target[r] /\ Overlap(c, r)
        /\ op[r] \in Claimers /\ target[r] \notin S => RevocationGotTo(target[r])

\* GroupListingIsOwn, for the listing l that asked q and is answered S.
TrueToOwner(S, l, q) ==
    LET g == GroupOf(q.caller) IN
    /\ \A a \in S : groupId[a] = g
    /\ q.filter.status = NULL => \A r \in sawEnded[l] :
        OK(r) /\ op[r] \in Creators /\ groupId[target[r]] = g =>
            \/ target[r] \in S
            \/ ~q.filter.includeRevoked /\ RevocationGotTo(target[r])
    /\ q.filter.status = NULL /\ ~q.filter.includeRevoked => \A v \in sawEnded[l] :
        OK(v) /\ op[v] = "Revoke" /\ target[v] \in S =>
            \E c \in Requests :
                op[c] \in Claimers /\ target[c] = target[v] /\ Overlap(c, v)

SeenInv == \A x \in Readers : \A r \in sawEnded[x] : r \in Requests /\ pc[r] \in Ended

LEMMA ActiveIsTrue ==
    ASSUME ReadInv, SeenInv, NEW x \in Readers
    PROVE  TrueToAnswers(ActiveAppliances, x)
<1> USE DEF ReadInv, IInv
<1>1. \A a \in ActiveAppliances : ClaimBegun(a)
  BY DEF ActiveAppliances, GivenInv
<1>2. ASSUME NEW r \in sawEnded[x], OK(r), op[r] = "Revoke", target[r] \in ActiveAppliances
      PROVE  \E c \in Requests :
                op[c] \in Claimers /\ target[c] = target[r] /\ Overlap(c, r)
  BY <1>2 DEF SeenInv, ActiveAppliances, RevokedInv, Revokes, StatusRevoked, OK
<1>3. ASSUME NEW r \in sawEnded[x], OK(r), op[r] \in Claimers, target[r] \notin ActiveAppliances
      PROVE  RevocationGotTo(target[r])
  <2>1. r \in Requests /\ target[r] \in Appliances
    BY <1>3 DEF SeenInv, TypeInv, Shape, Writers, Issuers
  <2>2. status[target[r]] \in {"active", "revoked"}
    BY <1>3, <2>1 DEF SettledInv, Marks, StatusSet, OK
  <2> QED
    BY <1>3, <2>1, <2>2 DEF ActiveAppliances, GivenInv
<1> QED
  BY <1>1, <1>2, <1>3 DEF TrueToAnswers

LEMMA GroupIsTrue ==
    ASSUME ReadInv, SeenInv, NEW l \in Listings, NEW q \in Queries
    PROVE  TrueToOwner(GroupAppliances(GroupOf(q.caller), q.filter), l, q)
<1> DEFINE S == GroupAppliances(GroupOf(q.caller), q.filter)
<1> USE DEF ReadInv, IInv
<1>1. \A a \in S : groupId[a] = GroupOf(q.caller)
  BY DEF GroupAppliances, OfGroup
<1>2. ASSUME q.filter.status = NULL, NEW r \in sawEnded[l], OK(r), op[r] \in Creators,
             groupId[target[r]] = GroupOf(q.caller), target[r] \notin S
      PROVE  ~q.filter.includeRevoked /\ RevocationGotTo(target[r])
  <2>1. r \in Requests
    BY DEF SeenInv, Readers
  <2>2. target[r] \in Appliances
    BY <1>2, <2>1 DEF ExistingInv, OK
  <2>3. ~q.filter.includeRevoked /\ status[target[r]] = "revoked"
    BY <1>2, <2>2 DEF GroupAppliances, OfGroup, Passes
  <2> QED
    BY <2>2, <2>3 DEF GivenInv
<1>3. ASSUME q.filter.status = NULL, ~q.filter.includeRevoked,
             NEW v \in sawEnded[l], OK(v), op[v] = "Revoke", target[v] \in S
      PROVE  \E c \in Requests :
                op[c] \in Claimers /\ target[c] = target[v] /\ Overlap(c, v)
  <2>1. v \in Requests /\ status[target[v]] # "revoked"
    BY <1>3 DEF SeenInv, Readers, GroupAppliances, Passes
  <2> QED
    BY <1>3, <2>1 DEF RevokedInv, Revokes, StatusRevoked, OK
<1> QED
  BY <1>1, <1>2, <1>3 DEF TrueToOwner

\* What a reader was told stays true, however the lifecycle goes on.
LEMMA TruthStays ==
    ASSUME ReadInv, SeenInv, [Next]_vars, NEW x \in Readers, sawEnded'[x] = sawEnded[x]
    PROVE  /\ \A S \in SUBSET Appliances : TrueToAnswers(S, x) => TrueToAnswers(S, x)'
           /\ \A S \in SUBSET Appliances, q \in Queries :
                q.caller # ServiceToken /\ TrueToOwner(S, x, q) => TrueToOwner(S, x, q)'
<1>1. TypeInv /\ OwnedInv /\ ExistingInv
  BY DEF ReadInv, IInv, EntInv
<1>2. \A a : ClaimBegun(a) => ClaimBegun(a)'
  BY <1>1, WriterStays DEF ClaimBegun
<1>3. \A a : RevocationGotTo(a) => RevocationGotTo(a)'
  BY <1>1, WriterStays DEF RevocationGotTo
<1>4. ASSUME NEW r \in sawEnded[x]
      PROVE  /\ r \in Requests /\ pc[r] \in Ended
             /\ OK(r)' = OK(r) /\ op'[r] = op[r] /\ target'[r] = target[r]
  BY <1>1, EndedStays DEF SeenInv, OK
<1>5. ASSUME NEW r \in sawEnded[x],
             \E c \in Requests : op[c] \in Claimers /\ target[c] = target[r] /\ Overlap(c, r)
      PROVE  \E c \in Requests :
                op'[c] \in Claimers /\ target'[c] = target'[r] /\ Overlap(c, r)'
  BY <1>1, <1>4, <1>5, OverlapStays
<1>6. \A a \in Appliances : groupId[a] \in Groups => groupId'[a] = groupId[a]
  BY <1>1, OwnerStays
<1>7. ASSUME NEW S \in SUBSET Appliances, TrueToAnswers(S, x)
      PROVE  TrueToAnswers(S, x)'
  <2>1. \A a \in S : ClaimBegun(a)'
    BY <1>2, <1>7 DEF TrueToAnswers
  <2>2. ASSUME NEW r \in sawEnded[x], OK(r)', op'[r] = "Revoke", target'[r] \in S
        PROVE  \E c \in Requests :
                op'[c] \in Claimers /\ target'[c] = target'[r] /\ Overlap(c, r)'
    BY <1>4, <1>5, <1>7, <2>2 DEF TrueToAnswers
  <2>3. ASSUME NEW r \in sawEnded[x], OK(r)', op'[r] \in Claimers, target'[r] \notin S
        PROVE  RevocationGotTo(target[r])'
    <3>1. RevocationGotTo(target[r])
      BY <1>4, <1>7, <2>3 DEF TrueToAnswers, Claimers
    <3> QED
      BY <1>4, <3>1, WriterStays, <1>1 DEF RevocationGotTo
  <2> QED
    BY <2>1, <2>2, <2>3 DEF TrueToAnswers, Claimers
<1>8. ASSUME NEW S \in SUBSET Appliances, NEW q \in Queries, q.caller # ServiceToken,
             TrueToOwner(S, x, q)
      PROVE  TrueToOwner(S, x, q)'
  <2> DEFINE g == GroupOf(q.caller)
  <2>1. g \in Groups
    BY <1>8, CredentialFacts DEF Queries
  <2>2. \A a \in S : groupId'[a] = g
    BY <1>6, <1>8, <2>1 DEF TrueToOwner
  <2>3. ASSUME q.filter.status = NULL, NEW r \in sawEnded[x], OK(r)', op'[r] \in Creators,
               groupId'[target'[r]] = g, target'[r] \notin S
        PROVE  ~q.filter.includeRevoked /\ RevocationGotTo(target[r])'
    <3>1. r \in Requests /\ OK(r) /\ op[r] \in Creators /\ target'[r] = target[r]
      BY <1>4, <2>3 DEF Creators
    <3>2. target[r] \in Appliances /\ groupId[target[r]] \in Groups
      BY <1>1, <3>1 DEF ExistingInv, OK
    <3>3. ~q.filter.includeRevoked /\ RevocationGotTo(target[r])
      BY <1>6, <1>8, <2>3, <3>1, <3>2 DEF TrueToOwner
    <3> QED
      BY <3>1, <3>3, WriterStays, <1>1 DEF RevocationGotTo
  <2>4. ASSUME q.filter.status = NULL, ~q.filter.includeRevoked,
               NEW v \in sawEnded[x], OK(v)', op'[v] = "Revoke", target'[v] \in S
        PROVE  \E c \in Requests :
                op'[c] \in Claimers /\ target'[c] = target'[v] /\ Overlap(c, v)'
    BY <1>4, <1>5, <1>8, <2>4 DEF TrueToOwner
  <2> QED
    BY <2>2, <2>3, <2>4 DEF TrueToOwner, Creators
<1> QED
  BY <1>7, <1>8

-----------------------------------------------------------------------------
(* The invariant of the listings and the poll.                             *)

ReaderTypeOK ==
    /\ listing \in [Listings -> Queries \cup {NULL}]
    /\ listed \in [Listings -> (SUBSET Appliances) \cup {NULL}]
    /\ polled \in SUBSET Appliances
    /\ deployed \in SUBSET Appliances
    /\ others \in 0..MaxOtherCalls
    /\ sawEnded \in [Readers -> SUBSET Requests]

\* Only what was asked is answered.
AskedInv == \A l \in Listings : listing[l] = NULL => listed[l] = NULL

TruthInv ==
    /\ \A l \in Listings, S \in SUBSET Appliances, q \in Queries :
        listed[l] # NULL /\ listed[l] = S /\ listing[l] = q =>
            /\ q.caller = ServiceToken => TrueToAnswers(S, l)
            /\ q.caller # ServiceToken => TrueToOwner(S, l, q)
    /\ \A S \in SUBSET Appliances :
        poll = "reconcile" /\ polled = S => TrueToAnswers(S, "poll")

FleetInv == ReaderTypeOK /\ SeenInv /\ AskedInv /\ TruthInv

LEMMA ReaderTypeStep ==
    ASSUME TypeInv, ReaderTypeOK, [FleetNext]_fvars
    PROVE  ReaderTypeOK'
<1> USE FleetAssumption DEF ReaderTypeOK
<1>1. CASE UNCHANGED fleetVars
  BY <1>1 DEF fleetVars
<1>2. ASSUME NEW l \in Listings, NEW q \in Queries, BeginListing(l, q)
      PROVE  ReaderTypeOK'
  BY <1>2 DEF BeginListing, SeesEnded, Readers
<1>3. ASSUME NEW l \in Listings, AnswerListing(l)
      PROVE  ReaderTypeOK'
  <2>1. \A g, f : ActiveAppliances \in SUBSET Appliances
                  /\ GroupAppliances(g, f) \in SUBSET Appliances
    BY DEF ActiveAppliances, GroupAppliances
  <2>2. \E S \in SUBSET Appliances : listed' = [listed EXCEPT ![l] = S]
    BY <1>3, <2>1 DEF AnswerListing
  <2> QED
    BY <1>3, <2>2 DEF AnswerListing
<1>4. CASE BeginPoll
  BY <1>4 DEF BeginPoll, SeesEnded, Readers
<1>5. CASE ListActive \/ Reconcile \/ PollFails
  BY <1>5 DEF ListActive, Reconcile, PollFails, ActiveAppliances
<1>6. CASE OtherCall \/ Elapse \/ RestartProcess
  BY <1>6 DEF OtherCall, Elapse, RestartProcess
<1> QED
  BY <1>1, <1>2, <1>3, <1>4, <1>5, <1>6 DEF FleetNext, FleetStep, fvars

LEMMA AskedStep ==
    ASSUME ReaderTypeOK, AskedInv, [FleetNext]_fvars
    PROVE  AskedInv'
<1> USE DEF ReaderTypeOK, AskedInv
<1>1. CASE UNCHANGED <<listing, listed>>
  BY <1>1
<1>2. ASSUME NEW l \in Listings, NEW q \in Queries, BeginListing(l, q)
      PROVE  AskedInv'
  BY <1>2 DEF BeginListing
<1>3. ASSUME NEW l \in Listings, AnswerListing(l)
      PROVE  AskedInv'
  BY <1>3 DEF AnswerListing
<1> QED
  BY <1>1, <1>2, <1>3
     DEF FleetNext, FleetStep, fvars, fleetVars, BeginPoll, ListActive, Reconcile, PollFails,
         OtherCall, Elapse, RestartProcess

LEMMA SeenStep ==
    ASSUME TypeInv, ReaderTypeOK, SeenInv, [FleetNext]_fvars
    PROVE  SeenInv'
<1> USE DEF SeenInv, ReaderTypeOK
<1>1. \A r \in Requests : pc[r] \in Ended => pc'[r] \in Ended
  <2>1. [Next]_vars
    BY DEF FleetNext, fvars
  <2> QED
    BY <2>1, EndedStays DEF Ended
<1>2. \A x \in Readers :
        \/ sawEnded'[x] = sawEnded[x]
        \/ sawEnded'[x] = {r \in Requests : pc[r] \in Ended}
  <2>1. CASE UNCHANGED sawEnded
    BY <2>1
  <2>2. CASE \E y \in Readers : SeesEnded(y)
    BY <2>2 DEF SeesEnded
  <2> QED
    BY <2>1, <2>2
       DEF FleetNext, FleetStep, fvars, fleetVars, BeginListing, AnswerListing, BeginPoll,
           ListActive, Reconcile, PollFails, OtherCall, Elapse, RestartProcess, Readers
<1> QED
  BY <1>1, <1>2 DEF Ended

LEMMA TruthStep ==
    ASSUME ReadInv, FleetInv, [FleetNext]_fvars
    PROVE  TruthInv'
<1> USE DEF FleetInv, ReaderTypeOK
<1>1. [Next]_vars /\ TypeInv
  BY DEF FleetNext, fvars, ReadInv, IInv
<1>2. ASSUME NEW l \in Listings, NEW S \in SUBSET Appliances, NEW q \in Queries,
             listed'[l] # NULL, listed'[l] = S, listing'[l] = q
      PROVE  /\ q.caller = ServiceToken => TrueToAnswers(S, l)'
             /\ q.caller # ServiceToken => TrueToOwner(S, l, q)'
  <2>1. l \in Readers /\ l # "poll"
    BY FleetAssumption DEF Readers
  <2>2. CASE UNCHANGED <<listed[l], listing[l], sawEnded[l]>>
    BY <1>1, <1>2, <2>1, <2>2, TruthStays DEF TruthInv
  <2>3. CASE AnswerListing(l)
    <3>1. listing[l] = q /\ sawEnded'[l] = sawEnded[l]
      BY <1>2, <2>3 DEF AnswerListing
    <3>2. S = IF q.caller = ServiceToken THEN ActiveAppliances
              ELSE GroupAppliances(GroupOf(q.caller), q.filter)
      BY <1>2, <2>3, <3>1 DEF AnswerListing
    <3>3. CASE q.caller = ServiceToken
      BY <1>1, <2>1, <3>1, <3>2, <3>3, ActiveIsTrue, TruthStays
    <3>4. CASE q.caller # ServiceToken
      BY <1>1, <2>1, <3>1, <3>2, <3>4, GroupIsTrue, TruthStays
    <3> QED
      BY <3>3, <3>4
  <2>4. \/ UNCHANGED <<listed[l], listing[l], sawEnded[l]>>
        \/ AnswerListing(l)
    BY <1>2, <2>1
       DEF FleetNext, FleetStep, fvars, fleetVars, BeginListing, AnswerListing, BeginPoll,
           ListActive, Reconcile, PollFails, OtherCall, Elapse, RestartProcess, SeesEnded,
           AskedInv
  <2> QED
    BY <2>2, <2>3, <2>4
<1>3. ASSUME NEW S \in SUBSET Appliances, poll' = "reconcile", polled' = S
      PROVE  TrueToAnswers(S, "poll")'
  <2>1. "poll" \in Readers /\ "poll" \notin Listings
    BY FleetAssumption DEF Readers
  <2>2. CASE UNCHANGED <<poll, polled, sawEnded["poll"]>>
    BY <1>1, <1>3, <2>1, <2>2, TruthStays DEF TruthInv
  <2>3. CASE ListActive
    <3>1. S = ActiveAppliances /\ sawEnded'["poll"] = sawEnded["poll"]
      BY <1>3, <2>3 DEF ListActive
    <3> QED
      BY <1>1, <2>1, <3>1, ActiveIsTrue, TruthStays
  <2>4. \/ UNCHANGED <<poll, polled, sawEnded["poll"]>>
        \/ ListActive
    BY <1>3, <2>1
       DEF FleetNext, FleetStep, fvars, fleetVars, BeginListing, AnswerListing, BeginPoll,
           ListActive, Reconcile, PollFails, OtherCall, Elapse, RestartProcess, SeesEnded
  <2> QED
    BY <2>2, <2>3, <2>4
<1> QED
  BY <1>2, <1>3 DEF TruthInv

LEMMA InitFleetInv == FleetInit => FleetInv
<1> SUFFICES ASSUME FleetInit PROVE FleetInv
  OBVIOUS
<1>1. ReaderTypeOK
  BY FleetAssumption DEF FleetInit, ReaderTypeOK
<1>2. SeenInv /\ AskedInv /\ TruthInv
  BY DEF FleetInit, SeenInv, AskedInv, TruthInv, Readers
<1> QED
  BY <1>1, <1>2 DEF FleetInv

LEMMA SpecFleetInv == FleetSpec => [](ReadInv /\ FleetInv)
<1>1. ReadInv => TypeInv
  BY DEF ReadInv, IInv
<1>2. TypeInv /\ ReadInv /\ FleetInv /\ [FleetNext]_fvars => FleetInv'
  BY ReaderTypeStep, AskedStep, SeenStep, TruthStep DEF FleetInv
<1> QED
  BY <1>1, <1>2, InitFleetInv, SpecReadInv, FleetLeavesLifecycle, PTL DEF FleetSpec

\* Every variable of the listings, the poll and the limiter keeps its type, as
\* do those of the lifecycle beside them.
THEOREM FleetTypeCorrect == FleetSpec => []FleetTypeOK
<1>1. ReadInv /\ FleetInv /\ PollInv => FleetTypeOK
  BY DEF ReadInv, IInv, TypeInv, FleetInv, ReaderTypeOK, PollInv, PollTypeOK, FleetTypeOK
<1> QED
  BY <1>1, SpecFleetInv, SpecPollInv, PTL

\* The generator and the services are told of every answered claim and
\* revocation, whatever runs beside the SELECT and however long the answer
\* takes.
THEOREM ListingsFollow == FleetSpec => []AnswersAreListed
<1>1. ASSUME FleetInv PROVE AnswersAreListed
  <2> SUFFICES ASSUME NEW x \in Readers, NEW S \in SUBSET Appliances, Told(x),
                      S = IF x = "poll" THEN polled ELSE listed[x]
               PROVE  /\ \A a \in Appliances : a \in S => ClaimBegun(a)
                      /\ \A r \in sawEnded[x] : OK(r) =>
                            /\ op[r] = "Revoke" /\ target[r] \in S =>
                                \E c \in Requests :
                                    op[c] \in Claimers /\ target[c] = target[r] /\ Overlap(c, r)
                            /\ op[r] \in Claimers /\ target[r] \notin S =>
                                RevocationGotTo(target[r])
    BY <1>1 DEF FleetInv, ReaderTypeOK, AnswersAreListed, ToldActive, Told, Readers,
                ClaimBegun, RevocationGotTo, Early
  <2>1. TrueToAnswers(S, x)
    BY <1>1 DEF FleetInv, ReaderTypeOK, AskedInv, TruthInv, Told, Readers
  <2> QED
    BY <2>1 DEF TrueToAnswers
<1> QED
  BY <1>1, SpecFleetInv, PTL

\* A user is listed every appliance of the group, and no other's, for any
\* number of tenants.
THEOREM ListingIsOwn == FleetSpec => []GroupListingIsOwn
<1>1. ASSUME FleetInv PROVE GroupListingIsOwn
  <2> SUFFICES ASSUME NEW l \in Listings, NEW q \in Queries, NEW S \in SUBSET Appliances,
                      listed[l] # NULL, listed[l] = S, listing[l] = q, q.caller # ServiceToken,
                      TrueToOwner(S, l, q)
               PROVE  /\ \A a \in S : groupId[a] = GroupOf(q.caller)
                      /\ q.filter.status = NULL => \A r \in sawEnded[l] :
                            OK(r) /\ op[r] \in Creators /\ groupId[target[r]] = GroupOf(q.caller) =>
                                \/ target[r] \in S
                                \/ ~q.filter.includeRevoked /\ \E v \in Requests :
                                    op[v] = "Revoke" /\ target[v] = target[r]
                      /\ q.filter.status = NULL /\ ~q.filter.includeRevoked =>
                            \A v \in sawEnded[l] :
                                OK(v) /\ op[v] = "Revoke" /\ target[v] \in S =>
                                    \E c \in Requests :
                                        /\ op[c] \in Claimers /\ target[c] = target[v]
                                        /\ Overlap(c, v)
    BY <1>1 DEF FleetInv, ReaderTypeOK, AskedInv, TruthInv, GroupListingIsOwn
  <2> QED
    BY DEF TrueToOwner, RevocationGotTo
<1> QED
  BY <1>1, SpecFleetInv, PTL
=============================================================================
