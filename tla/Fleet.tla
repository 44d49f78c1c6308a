-------------------------------- MODULE Fleet --------------------------------
(***************************************************************************)
(* Who is told which appliances there are: ListAppliances, for services    *)
(* and for the users of a group, and PluginGetParams, which ArgoCD's       *)
(* Plugin generator (external) polls to deploy one cloud-connect-server    *)
(* for each active appliance.  Their calls run beside the requests of      *)
(* Lifecycle and only read its state.                                      *)
(***************************************************************************)
EXTENDS Lifecycle, PluginLimiter

CONSTANTS
    Listings,       \* the ListAppliances requests of an instance
    PollSeconds,    \* requeueAfterSeconds of the ApplicationSet (external)
    MaxOtherCalls   \* bound: PluginGetParams calls that are not the poll's

ASSUME FleetAssumption ==
    /\ PollSeconds \in Nat /\ PollSeconds >= PluginRateSeconds
    /\ MaxOtherCalls \in Nat
    /\ "poll" \notin Listings

VARIABLES
    listing,    \* what a ListAppliances request asked for
    listed,     \* the appliances it was answered with
    poll,       \* the step the generator's poll is at
    polled,     \* the appliances the poll was answered with
    deployed,   \* the appliances that have their cloud-connect-server
    since,      \* seconds since the last poll ended, up to PollSeconds
    others,     \* history: calls of PluginGetParams that are not the poll's
    crowded,    \* history: one of them was admitted since the last poll ended
    throttled,  \* history: a poll was answered 429 when none had been
    sawEnded    \* history: the requests ended when a listing or poll began

fleetVars ==
    <<credit, listing, listed, poll, polled, deployed, since, others, crowded,
      throttled, sawEnded>>

fvars == <<vars, fleetVars>>

Filters == [status : (Statuses \ {"absent"}) \cup {NULL}, includeRevoked : BOOLEAN]

\* One of serviceTokens.
ServiceToken == <<"serviceToken", NULL>>

\* The bearer token of ListAppliances and its query, which is ignored when a
\* service calls.  A token that is neither is answered 401 before any call.
Queries ==
    [caller : UseTokens, filter : Filters] \cup
    [caller : {ServiceToken}, filter : {NULL}]

\* The generator's poll has its place beside the listings.
Readers == Listings \cup {"poll"}

FleetTypeOK ==
    /\ TypeOK
    /\ LimiterTypeOK
    /\ listing \in [Listings -> Queries \cup {NULL}]
    /\ listed \in [Listings -> (SUBSET Appliances) \cup {NULL}]
    /\ poll \in {"idle", "listAppliances", "reconcile"}
    /\ polled \in SUBSET Appliances
    /\ deployed \in SUBSET Appliances
    /\ since \in 0..PollSeconds
    /\ others \in 0..MaxOtherCalls
    /\ crowded \in BOOLEAN
    /\ throttled \in BOOLEAN
    /\ sawEnded \in [Readers -> SUBSET Requests]

FleetInit ==
    /\ Init
    /\ credit = NewLimiter
    /\ listing = [l \in Listings |-> NULL]
    /\ listed = [l \in Listings |-> NULL]
    /\ poll = "idle"
    /\ polled = {}
    /\ deployed = {}
    /\ since = PollSeconds
    /\ others = 0
    /\ crowded = FALSE
    /\ throttled = FALSE
    /\ sawEnded = [x \in Readers |-> {}]

SeesEnded(x) == sawEnded' = [sawEnded EXCEPT ![x] = {q \in Requests : pc[q] \in Ended}]

-----------------------------------------------------------------------------
\* ListAppliances.

\* Mutant: whatever is not revoked.
NotRevoked == {a \in Appliances : status[a] \in {"pending", "active"}}

\* ListAppliancesByStatus.
ActiveAppliances == {a \in Appliances : status[a] = "active"}

\* Mutant: includeRevoked the wrong way round.
PassesUnlessAsked(f, a) ==
    IF f.status # NULL THEN status[a] = f.status
    ELSE f.includeRevoked => status[a] # "revoked"

\* ApplianceFilter: a status asked for overrides includeRevoked.
Passes(f, a) ==
    IF f.status # NULL THEN status[a] = f.status
    ELSE f.includeRevoked \/ status[a] # "revoked"

\* Mutant: the condition on the owner is lost.
OfAnyGroup(a, g) == groupId[a] # NULL

OfGroup(a, g) == groupId[a] = g

\* ListAppliancesForGroup.
GroupAppliances(g, f) == {a \in Appliances : OfGroup(a, g) /\ Passes(f, a)}

BeginListing(l, q) ==
    /\ listing[l] = NULL
    /\ listing' = [listing EXCEPT ![l] = q]
    /\ SeesEnded(l)
    /\ UNCHANGED <<credit, listed, poll, polled, deployed, since, others, crowded, throttled>>

\* The one SELECT.  A listing whose call fails is one that never gets here.
AnswerListing(l) ==
    LET q == listing[l] IN
    /\ q # NULL /\ listed[l] = NULL
    /\ listed' = [listed EXCEPT ![l] =
            IF q.caller = ServiceToken THEN ActiveAppliances
            ELSE GroupAppliances(GroupOf(q.caller), q.filter)]
    /\ UNCHANGED <<credit, listing, poll, polled, deployed, since, others, crowded,
                   throttled, sawEnded>>

-----------------------------------------------------------------------------
\* PluginGetParams, and the generator that polls it.

\* ArgoCD polls a service that runs in the cluster.  The limiter comes first;
\* the poll's token is one of pluginTokens.  When it is answered 429 the
\* generator waits for its next turn.
BeginPoll ==
    /\ InCluster
    /\ poll = "idle" /\ since = PollSeconds
    /\ Spend
    /\ poll' = IF Allows THEN "listAppliances" ELSE "idle"
    /\ since' = IF Allows THEN since ELSE 0
    /\ throttled' = (throttled \/ (~Allows /\ ~crowded))
    /\ crowded' = (crowded /\ Allows)
    /\ SeesEnded("poll")
    /\ UNCHANGED <<listing, listed, polled, deployed, others>>

ListActive ==
    /\ poll = "listAppliances"
    /\ polled' = ActiveAppliances
    /\ poll' = "reconcile"
    /\ UNCHANGED <<credit, listing, listed, deployed, since, others, crowded, throttled, sawEnded>>

\* The ApplicationSet controller creates and prunes Applications.
Reconcile ==
    /\ poll = "reconcile"
    /\ deployed' = polled
    /\ poll' = "idle" /\ since' = 0 /\ crowded' = FALSE
    /\ UNCHANGED <<credit, listing, listed, polled, others, throttled, sawEnded>>

\* The SELECT fails, the answer is lost or the process dies under it.
PollFails ==
    /\ poll # "idle"
    /\ poll' = "idle" /\ since' = 0 /\ crowded' = FALSE
    /\ UNCHANGED <<credit, listing, listed, polled, deployed, others, throttled, sawEnded>>

\* A call with a token that is not, or no longer, in pluginTokens is answered
\* 401, when it gets past the limiter.
OtherCall ==
    /\ others < MaxOtherCalls
    /\ Spend
    /\ others' = others + 1
    /\ crowded' = (crowded \/ Allows)
    /\ UNCHANGED <<listing, listed, poll, polled, deployed, since, throttled, sawEnded>>

Elapse ==
    /\ credit' = Refilled
    /\ since' = IF since < PollSeconds THEN since + 1 ELSE since
    /\ UNCHANGED <<listing, listed, poll, polled, deployed, others, crowded, throttled, sawEnded>>

\* A new process has a full bucket; a poll it was serving is PollFails.
RestartProcess ==
    /\ credit' = NewLimiter
    /\ UNCHANGED <<listing, listed, poll, polled, deployed, since, others, crowded,
                   throttled, sawEnded>>

-----------------------------------------------------------------------------
FleetStep ==
    \/ \E l \in Listings :
        \/ \E q \in Queries : BeginListing(l, q)
        \/ AnswerListing(l)
    \/ BeginPoll \/ ListActive \/ Reconcile \/ PollFails
    \/ OtherCall \/ Elapse \/ RestartProcess

FleetNext ==
    \/ Next /\ UNCHANGED fleetVars
    \/ FleetStep /\ UNCHANGED vars

FleetSpec == FleetInit /\ [][FleetNext]_fvars

\* The generator polls in time, and reconciles; its query does not fail for
\* ever; the clock runs.
FairFleetSpec ==
    /\ FleetSpec
    /\ \A r \in Requests : WF_fvars(Serve(r) /\ UNCHANGED fleetVars)
    /\ WF_fvars(BeginPoll /\ UNCHANGED vars)
    /\ SF_fvars(ListActive /\ UNCHANGED vars)
    /\ SF_fvars(Reconcile /\ UNCHANGED vars)
    /\ WF_fvars(Elapse /\ UNCHANGED vars)
-----------------------------------------------------------------------------
(* Properties. *)

\* What the poll and the services are told: the active appliances.
ToldActive(x, a) ==
    IF x = "poll" THEN poll = "reconcile" /\ a \in polled
    ELSE listed[x] # NULL /\ listing[x].caller = ServiceToken /\ a \in listed[x]

Told(x) ==
    IF x = "poll" THEN poll = "reconcile"
    ELSE listed[x] # NULL /\ listing[x].caller = ServiceToken

\* An answered revocation is seen by every later poll and listing, unless a
\* claim overlapped it; an answered claim is seen by every later one, unless
\* a revocation of the appliance has got as far as its status; and none is
\* told of that nobody began to claim (README, "the entry drops out of the
\* list" and "Only active appliances are ever returned"; webapp.go:
\* ListAppliances, PluginGetParams).
AnswersAreListed ==
    \A x \in Readers : Told(x) =>
        /\ \A a \in Appliances :
            ToldActive(x, a) => \E c \in Requests : op[c] \in Claimers /\ target[c] = a
        /\ \A r \in sawEnded[x] : OK(r) =>
            /\ op[r] = "Revoke" /\ ToldActive(x, target[r]) =>
                \E c \in Requests :
                    op[c] \in Claimers /\ target[c] = target[r] /\ Overlap(c, r)
            /\ op[r] \in Claimers /\ ~ToldActive(x, target[r]) =>
                \E v \in Requests :
                    op[v] = "Revoke" /\ target[v] = target[r]
                        /\ pc[v] \notin {"requireOwningGroup", "setStatusRevoked", "404"}

\* A user's listing is of the user's group, leaves out what was revoked before
\* unless asked for it, and lists every appliance whose creator was answered
\* before, unless its revocation has begun or the filter asks for one status
\* (README, "Listing").
GroupListingIsOwn ==
    \A l \in Listings :
        listed[l] # NULL /\ listing[l].caller # ServiceToken =>
            LET g == GroupOf(listing[l].caller)
                f == listing[l].filter
            IN
            /\ \A a \in listed[l] : groupId[a] = g
            /\ f.status = NULL => \A r \in sawEnded[l] :
                OK(r) /\ op[r] \in Creators /\ groupId[target[r]] = g =>
                    \/ target[r] \in listed[l]
                    \/ ~f.includeRevoked /\ \E v \in Requests :
                        op[v] = "Revoke" /\ target[v] = target[r]
            /\ f.status = NULL /\ ~f.includeRevoked => \A v \in sawEnded[l] :
                OK(v) /\ op[v] = "Revoke" /\ target[v] \in listed[l] =>
                    \E c \in Requests :
                        op[c] \in Claimers /\ target[c] = target[v] /\ Overlap(c, v)

\* A poll is throttled only when another call got past the limiter since the
\* poll before it: at its own pace, and over any number of restarts and
\* failures, the generator is never answered 429 (webapp.go: pluginRateLimit).
PollsAloneAreServed == ~throttled

\* Once calls with other tokens have stopped, what is deployed comes to be what
\* is active: a claim brings its appliance's server up, a revocation takes it
\* down, whatever polls were throttled or failed on the way (README,
\* "Cloud-side cloud-connect-server provisioning").
FleetFollows == <>[](deployed = ActiveAppliances)
=============================================================================
