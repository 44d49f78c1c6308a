# A model of appliance-registry

The appliance registry keeps the appliances a group owns, hands each of them the
secret its tunnel authenticates with, and withdraws that secret again. This
directory models it - concurrent requests over a database and a Kubernetes API,
with nothing transactional between the two; cloud login on top of them; the listings
and the rate limiter the fleet is deployed through; the strings labels and tokens are
made of - checks it with TLC and proves its safety properties with TLAPS.

Line numbers refer to `src/internal/appliancewebapp/webapp.go` unless another file
is named.

## The system

| component | state | operations |
| --- | --- | --- |
| handlers (`appliancewebapp`) | none between requests, but the plugin rate limiter | Register, Enroll, Claim, EnrollRedeem, Revoke, RotateSecret, RotateOwnSecret; CreateLoginCode, RedeemLoginCode, CheckAccess; ListAppliances, PluginGetParams |
| database (`persistence`, `persistence/mariadb`, `migrations`) | appliances (status, owner, label, claimedAt, secretHash), claim tokens and exchange codes (one row per appliance), login codes | one SQL statement per method; `ConsumeLoginCode` is the only transaction |
| Kubernetes Secrets (`k8ssecrets`) | `cloud-connect-secret-<id>`, read by the cloud-side tunnel end | WriteApplianceSecret (Create, or Get and Update), DeleteApplianceSecret; a no-op writer out of cluster |
| credentials (`tokens`) | none | generate and hash claim tokens, exchange codes and secrets; compare service tokens |
| labels (`hostnames`) | none | draw a hostname label; UNIQUE in the database |
| user registry (`userregistry`, external service) | group membership | GetGroupMember |
| ArgoCD (external) | the deployed fleet | polls PluginGetParams for the active appliances |
| configuration, entry point, rest models, logging | read once, or none | - |

A request is served by a goroutine of some replica. It makes its calls one after
the other; two requests share only the database and the Secrets. An appliance
goes from `pending` (Register, Enroll) to `active` (Claim, EnrollRedeem) to
`revoked` (Revoke); while it is active its secret can be replaced by its owner
(RotateSecret) or by itself (RotateOwnSecret).

What is hard:

* **Check, then act.** Claim reads the status at 388 and sets it at 405,
  unconditionally; between the two are two more writes and any other request.
* **Two stores.** The secret lives in Kubernetes and its hash in the database.
  Issuing writes both, one after the other; revoking removes both.
* **Failure in the middle.** Any call may fail, may take effect and still report
  an error, or be the last one before a crash. No handler undoes anything. Some
  deletes are allowed to fail (373, 409, 506, 510, 553).
* **RowsAffected.** MariaDB counts changed rows; two callers read "changed
  nothing" as "not found" (`mariadb.go` 119 and 134).
* **Optimistic concurrency.** An Update of a Secret is refused when the object
  changed or vanished since the Get; there is no retry.
* **Time.** Tokens and codes expire; a TIMESTAMP column keeps whole seconds, and what is
  stored in it is compared with a clock that has fractions.
* **Locks.** A login code is single-use by a transaction's row lock; another
  endpoint's DELETE scans the same table.
* **Asking others.** Cloud login reads the hash, the status and the membership one
  after the other, while rotations, revocations and departures go on.
* **Bounds.** The label retry loop; the plugin endpoint's rate limit, in the memory of
  the process and in front of the token check.

What makes each component correct: a superseded secret must be dead on both ends;
a revocation must stand; a claim token must be good for one claim; a pending
appliance must stay claimable until its token expires; nobody may act on an
appliance without that appliance's credential or its owner's use token; a login code
must log in one session of the user who asked for it, on the appliance it was asked
for, while that user is a member; a listing must show what was answered before it, and
the fleet must come to be what is active; every request must end.

## The modules

| module | models |
| --- | --- |
| `Tokens` | `tokens`: a raw credential is the pair of its kind and the request that drew it (32 fresh random bytes), and `Hash` is injective |
| `Persistence` | `persistence/mariadb`: one operator per writing SQL statement; a table column is a function of the appliance id |
| `SecretStore` | `k8ssecrets`: the Secrets with the API server's conflicts |
| `Lifecycle` | the seven handlers that change an appliance, one action per call, their composition with the two stores, the properties |
| `LifecycleTimes` | `Lifecycle` beside the times of claims, inserts and answers, for the properties about expiry and about seconds |
| `LifecyclePromises` | what the documentation promises and the code does not keep |
| `ApplianceStates` | abstract: the states of an appliance - who is let in to change it, and the order of what is written |
| `LifecycleStates` | the refinement mapping from `Lifecycle` to `ApplianceStates` |
| `LoginCodes` | abstract: a set of codes with an atomic take |
| `CloudLogin` | CreateLoginCode, RedeemLoginCode, CheckAccess, the table of login codes with its transaction and row locks, memberships; composed with `Lifecycle`; implements `LoginCodes` |
| `PluginLimiter` | the token bucket in front of PluginGetParams |
| `LimiterWindow` | the limiter under an observer that counts over a stretch of time |
| `Fleet` | ListAppliances, PluginGetParams, the generator that polls it; composed with `Lifecycle` and `PluginLimiter` |
| `GoStrings` | the functions of Go's `strings` and `regexp` the next two use (external) |
| `HostnameLabel` | `hostnames.GenerateLabel`, against the words of the name |
| `ServiceTokens` | `tokens.ParseTokenList` and `CheckServiceTokens`, against the list as it is written |
| `LifecycleProofs`, `CredentialProofs`, `SecretProofs` | theorems about `Lifecycle` |
| `CloudLoginProofs`, `GrantProofs` | theorems about `CloudLogin` |
| `FleetProofs` | theorems about `LimiterWindow` and `Fleet` |
| `TimeProofs` | theorems about `LifecycleTimes` |
| `PartsProofs` | theorems about `ServiceTokens`, `HostnameLabel` and `LoginCodes`, and the lemmas about `GoStrings` |
| `MCLifecycle`, `MCLifecycleTimes`, `MCCloudLogin`, `MCFleet`, `MCParts` | the instances for TLC: symmetry, the state cloud login starts from, the parts that share nothing |

`Lifecycle` extends `Persistence` and `SecretStore`, which extend `Tokens`;
`CloudLogin`, `Fleet` and `LifecycleStates` extend `Lifecycle`.

### Lifecycle

A request is an element of `Requests` and is served once. Its state:

* `pc` - the call it makes next, named after the method it calls, or how it ended:
  the status it was answered, or `"aborted"`;
* `op`, `target`, `bearer` - the endpoint, the appliance in the path (for Register
  and Enroll the one it creates) and the bearer credential;
* `seen` - the value it read and still needs: the pinned token hash in
  EnrollRedeem, the Secret object in WriteApplianceSecret;
* `attempt` - the counter of the label retry loop;
* `before` - history: the requests that had ended when it began. No action reads
  it; it gives the properties the real-time order of requests.

`Begin` starts a request with a bearer credential some client holds: a use token
of any group, or a credential that was in a 200 answer, of whatever kind and for
whatever appliance. A bearer string nobody was answered with fares like a credential of
another kind: it matches no stored hash. A request whose header is refused makes no call and is a
stuttering step. A check on a value just read belongs to the action that reads it.
`Abort` ends a request at any of its calls: a failing call, a cancelled context, a
crash of the process; a call that took effect and still failed is the call
followed by `Abort`. A crash of a replica is the `Abort` of the requests it was
serving, as no state survives in the process. `Tick` is the clock, one for the
service and the database. It counts `TicksPerSecond` to the second, and `Timestamp` is what
a TIMESTAMP column keeps of a time: MariaDB cuts the fraction off (V001.sql 29). A
credential is therefore gone once the second its expiry falls into has begun, although its
answer named a later instant.

Abstracted: the text of labels (a member of `Labels`), names, hostnames and URLs,
`lastSeenAt` (nothing writes it), `createdAt`. The `resourceVersion` of a Secret is
its content, since each request writes a value of its own, once. Foreign keys make
the 404 of Claim and EnrollRedeem (an appliance row missing beside its token)
unreachable. AUTO_INCREMENT ids are any id not used yet.

### CloudLogin

A login is an element of `Logins`; its own variables are `lpc` (as `pc`), `sent` (path,
header, user, code), `expiry` (the `expiresAt` CreateLoginCode computed before its
writes), `lc` (the row ConsumeLoginCode scanned) and `granted` (answered with a user, or
`allowed: true`). `loginCodes` is the table, keyed by the login that drew the code;
`rowLock` says whose transaction holds a row; `members` is the user registry's, which may
refuse, fail or lose a member at any moment (`RegistryFails`, `Leave`). `start` is
history: which requests had ended, the time and the membership when the login began.

ConsumeLoginCode is two actions: `SelectForUpdate`, which waits for the row's lock, and
`DeleteLoginCode`, which deletes and commits (the lock hides the state between the two).
`AbortLogin` between them is the deferred `Rollback`. The pruning DELETE of SaveLoginCode
has no index to use, so it waits while any row is locked. RedeemLoginCode looks at the
code's expiry after it consumed it.

### Fleet and the limiter

`credit` counts the bucket's tokens in seconds: `PluginRateSeconds` pay for a call. A call
refused costs nothing; a restart fills the bucket. ArgoCD's generator is a client modelled
from the ApplicationSet in the README: it polls every `PollSeconds`, is throttled, fails or
gets the active appliances, and then deploys what it was told. `OtherCall` is any other call
of the endpoint, with a wrong or withdrawn token: it spends before it is refused. A listing
is asked by a service (active appliances only, the query ignored) or by a user's group
with a filter.

### Labels and token lists

A string is a sequence of characters, and a character stands for its class. The functions
are translated step by step (trim, replace runs, cut, trim, split); the reference they are
compared with is not: it follows the string as it is typed, keeping the words of a name, or
the finished tokens of a list, without ever splitting or trimming.

Operators named in a comment `Mutant:` are mistakes the code could have made; they
are used by nothing, and each makes one property fail when it takes the place of
the definition that follows it (`PROJECT.json`, "mutants").

## What is checked

All passing runs cover every action of their specifications between them. The
instances end when their requests are used up, so the deadlock check is off; that no
request waits for ever is what the liveness properties say.

| run | instance | shows |
| --- | --- | --- |
| `rotation` | 1 appliance, 4 requests, 3 in flight; Register, Claim, RotateSecret, RotateOwnSecret, Revoke | `SupersededSecretIsDead`, `RejectsSupersededSecret`, `LatestIssueIsLive`, `RevocationStands`, `ActiveHasSecret`, `RevokedHasNoSecret`, `ChangesFollowStates` (the refinement of `ApplianceStates`) |
| `claiming` | 1 appliance, 4 requests, 2 in flight, 2 seconds, expiry 0; Register, Enroll, Claim, EnrollRedeem, Revoke | `ClaimSucceedsOnceInOrder`, `SameSecondClaimsExclude`, `LateClaimFails`, `AnsweredCanClaim`, `PendingKeepsCredentials` |
| `answered` | 2 groups with an appliance each, one claimed and one pending, room for 2 more with 1 free label, 2 seconds, expiry 0; 2 requests at a time to any of the seven endpoints; fairness | `TypeOK`, `ChangesAreEntitled`, `EveryRequestAnswered` |
| `logins` | 2 claimed appliances of a group, a user, 2 logins and one request at a time: a rotation or revocation | `StaleSecretGetsNothing`, `RevokedIsCutOff`, `GrantIsEntitled` |
| `login_answered` | 1 claimed appliance, 3 logins at a time, a second of 2 ticks, code expiry 0; fairness | `LoginTypeOK`, `LoginCodeUsedOnce`, `LiveCodeIsRedeemable`, `GrantIsCurrent`, `EveryLoginAnswered`, `CodesAreSingleUse` (the refinement of `LoginCodes`) |
| `fleet_listings` | off cluster, 1 appliance, 2 groups, 3 requests, 2 in flight, a listing; all endpoints but the rotations | `GroupListingIsOwn`, `AnswersAreListed`; `ChangesAreEntitled`, `LatestIssueIsLive`, `ActiveHasSecret` with two tenants and no cluster |
| `fleet_follows` | 1 appliance, 3 requests, polls that are throttled and fail, a restart at any time; limiter 1/1; fairness | `FleetTypeOK`, `PollsAloneAreServed`, `AnswersAreListed`, `FleetFollows` |
| `parts` | the limiter as configured (2, one per 5 s) over any stretch of a minute; names of up to 7 characters cut at 4; lists of up to 5, headers of up to 3 | `RateIsBounded`; `LabelIsDnsSafe`, `LabelKeepsWords`; `ListedTokensAreValid` |

The properties about concurrency are conditional on real time, because the code
gives nothing stronger: of two overlapping requests either may win, and the
failures below are what an overlap does. What holds is that an answer is final for
everything that came before the request it answers, and everything that comes
after the answer sees it.

* `SupersededSecretIsDead`: after a claim, rotation or revocation was answered, no
  secret of a request that had ended before it is stored again, on either end.
* `RejectsSupersededSecret`: an appliance presenting such a secret does not get
  past `authenticateAppliance`'s hash comparison.
* `LatestIssueIsLive`: whatever failed before, the last answered secret is on both
  ends and the appliance is active, as long as every other request to it had ended before
  or is refused: a failed rotation or claim is repaired by a retry.
* `RevocationStands`, `ActiveHasSecret`: only a claim that overlapped the
  revocation undoes it, or leaves an active appliance without secret.
* `RevokedHasNoSecret`: once a revocation was answered, an appliance that is revoked has
  neither Secret nor hash, unless a claim or rotation ran beside the revocation.
* `ChangesFollowStates`: status, Secret and hash change only through a change the status
  allowed when it was let in, in the order tunnel end, hash, status, whatever conflicts,
  failures and other requests come between.
* `ClaimSucceedsOnceInOrder`: two claims succeed only if they overlap, even when the
  token's delete failed: the status check is what makes the token single-use.
* `SameSecondClaimsExclude`: two overlapping claims both succeed only in different
  seconds, or with a revocation between them: the RowsAffected of the UPDATE.
* `LateClaimFails`: nobody claims later than the credential's lifetime after the answer
  it came in, although EnrollRedeem checks the expiry of the code only.
* `AnsweredCanClaim`: as long as the appliance is pending and the credential lives, the
  rows a claim is compared with are those of the creator's answer, although they were
  inserted one by one, deletes go by appliance id, and the appliance is open to anybody's
  attempts. Only a creator that failed leaves an appliance nobody can claim.
* `PendingKeepsCredentials`: no refused, failed or overlapping request uses up the
  token or code of an appliance that is still pending.
* `ChangesAreEntitled`: credentials work for the appliance, group and endpoint they
  were issued for.
* `EveryRequestAnswered`: no request is in flight for ever: the retry loop ends, and no
  handler waits for another, whichever two endpoints run at a time.
* `LoginCodeUsedOnce`, `CodesAreSingleUse`: no interleaving of redemptions lets two
  sessions in with one code; the table behaves as an atomic take.
* `LiveCodeIsRedeemable`: until the second its expiry falls into, neither the pruning, nor a
  rolled back transaction, nor another appliance presenting it uses a code up.
* `GrantIsCurrent`, `GrantIsEntitled`: who is let in was a member, with an unexpired code,
  at some moment after the appliance asked, and asked for the code on that appliance.
* `StaleSecretGetsNothing`, `RevokedIsCutOff`: what `SupersededSecretIsDead` and
  `RevocationStands` mean for a login.
* `EveryLoginAnswered`: no transaction keeps a row locked, no DELETE waits for ever.
* `AnswersAreListed`, `GroupListingIsOwn`: every listing and poll that begins after an
  answer shows it.
* `PollsAloneAreServed`, `RateIsBounded`: the generator is throttled by others only, and
  calls are admitted no faster than the two constants say.
* `FleetFollows`: what is deployed comes to be what is active.

Bounds. Four requests are a creator, and three that overlap or follow each other in
any way; every lifecycle property relates at most three requests to one appliance besides
its creator, or two appliances. `MaxInFlight` bounds overlap only: three is what a race
between a claim, a revocation and a rotation needs, two what a race of two claims needs.
An expiry of 0 with `MaxTime` 1 puts requests before and after the expiry, and claims in
the same and in different seconds; `MaxTime` 0 makes all timestamps equal. A tick is a
second, but in `login_answered`, where it is half of one: a code created at tick 0 lives until tick
1, one created at tick 1 is gone at once, its stored expiry being tick 0. The theorems hold
for any number of ticks to the second.
`MaxHostnameLabelAttempts` is 1 or 2 (5 in the code), and `answered` has three labels, one of
them free, so that the retry that succeeds, the exhausted loop and the creator that finds its label
free all occur. `answered` starts from `NeighboursInit`: three requests one after the other
have left an appliance of one group claimed and one of the other registered or enrolled;
two free requests then present any credential of either group to either appliance, or
create two more. Beside two free requests the clock stands still; it goes on beside one, since
two requests around an expiry are the matter of `claiming`. In
`logins` and `login_answered` cloud login starts from `EnrolledInit`: every appliance
registered by some group and claimed once, as any sequence of Register and Claim leaves it;
which request and which label made no difference, the owners are arbitrary. One free
request is a rotation or a revocation overlapping the logins. Members only leave: joining
again would only add to what a login may be granted. In `fleet_listings` there
are no polls (`InCluster` is FALSE) so that listings, tenants and overlapping
requests fit; the polls have `fleet_follows`, with `MaxOtherCalls` 1. A limiter of 1/1 and a poll per second is the
smallest in which a poll can be throttled; `parts` runs the numbers of the code, and
`FleetProofs` proves the bound for all numbers. A name of 7 with the cut at 4 (40 in the code) has words
and gaps on both sides of the cut. Requests (and groups, labels, listings, logins) are
symmetric; the runs with liveness use no symmetry.

Fairness. `FairSpec`: weak fairness of each request's handler. A goroutine that can
run is scheduled, and a call to the database or the API server returns, with a result
or an error. `LoginFairness` is the same for logins; a statement that waits for a row
lock runs once the lock is free. `FairFleetSpec` adds the generator: it polls when its
time has come and the clock runs (weak), and polls that get past the limiter do not
fail for ever (strong, on the query and on the reconciliation). Nothing is assumed of
clients, of failures of a single call, or of restarts; calls with other tokens are finite in number, since
the code lets them starve the generator (below).

### Where the code departs from its documentation

Each run is expected to violate one property of `LifecyclePromises`.

| run | the documentation | the counterexample |
| --- | --- | --- |
| `claim_once` | README 125: "A claim can only succeed once" | two claims read `pending`, both write, both mark, in different seconds; both are answered 200, and the first answer's secret is dead |
| `revocation_final` | README 286: "status moves to `revoked`, its Appliance secret stops being valid" | a claim or rotation in flight creates the Secret and the hash again after the revocation removed them; a claim sets the status too |
| `revoke_retry` | README 271: "its Secret is deleted" | the first revocation stops after setting the status; the retry's UPDATE changes nothing, is taken for a missing row and answered 500, every time |
| `hostname_freed` | `persistence.go` 17: "the hostname is freed for reuse" | the revoked row keeps its label under the unique index |

`claim_once` and `revocation_final` take an overlap: `OneAtATime` proves that both
promises hold where requests are served one after another.

Met while modelling, and without a run of their own:

* README 249, "nothing gets deployed before its secret exists": a claim writes the
  Secret, a revocation deletes it, the claim marks the appliance active. It is the
  exception `ActiveHasSecret` states.
* `rotate_test.go` 58, "must both follow the new value": two overlapping rotations
  write Secret, Secret, hash, hash in crossed order, and the two ends differ until the
  next rotation. It is the overlap `LatestIssueIsLive` excludes.
* `webapp.go` 34-36 sizes the limiter for the generator alone, but the limiter is spent
  before the token is checked (764): calls with a wrong token throttle the generator.
  It is the exception `PollsAloneAreServed` states.
* README 125-128 describes an administrator re-issuing a claim token, for which there is
  no endpoint: an appliance whose SaveClaimToken failed stays pending for good.
* `expiresAt` of a login code's answer (`restmodels/appliance.go` 58), and likewise of a claim
  token's and an exchange code's, has a fraction of a second the database does not keep: a
  code answered with T.7 is pruned and refused from T.0 on. `LiveCodeIsRedeemable` and
  `AnsweredCanClaim` promise it until the beginning of that second.
* Of two overlapping claims within one second one is answered 500 after it has overwritten
  the secret of the one answered 200.

## What is proved

For any number of requests, appliances, groups, labels, logins and users, any bounds,
any number of ticks to the second, and with or without a cluster:

| module | theorems | by |
| --- | --- | --- |
| `LifecycleProofs` | `TypeCorrect`, `SupersededIsDead`, `SupersededIsRejected`, `ClaimsOverlap`, `RevocationHolds` | `IInv` |
| `CredentialProofs` | `ChangesEntitled`, `PendingKeeps` | `EntInv`, `PendingInv` |
| `SecretProofs` | `LatestIsLive`, `ActiveIsEquipped`, `RevokedIsEmptied`, `OneAtATime`, `LifecycleImplementsStates` | `LatestInv`, `SecretInv`, `EmptiedInv`, `InTurn`, `RowInv` |
| `CloudLoginProofs` | `LoginsLeaveLifecycle`, `LoginTypeCorrect`, `CodeUsedOnce`, `LiveCodes`, `TableImplementsPromise`, `StaleSecretIsRefused`, `RevocationCutsOff` | `LInv`, `AnswersInv` |
| `GrantProofs` | `GrantsEntitled`, `GrantsCurrent` | `GrantInv`, `ExistingInv`, `CurrentInv` |
| `TimeProofs` | `LateClaims`, `SameSecondClaims`, `AnswersCanClaim` | `TimesInv`, `StoredInv` |
| `FleetProofs` | `RateBounded`, `PollsAlone`, `FleetLeavesLifecycle`, `FleetTypeCorrect`, `ListingsFollow`, `ListingIsOwn` | `CreditInv`, `PollInv`, `ReadInv`, `FleetInv` |
| `PartsProofs` | `ListedTokens`, `DnsSafe`, `KeepsWords`, `PromiseIsSingleUse` | `ListInv`, `NameInv`, `CodesInv` |

Assumptions: the named ASSUMEs of the modules - NULL is no credential, hash, row, number,
endpoint or member of another set; the bounds are natural numbers, at least one attempt, a limiter with a
positive rate and burst, polls no faster than the rate, a name for the poll that is no
listing's - and nothing else. That credentials are fresh and hashes injective is how `Tokens` defines
them.

`IInv` is a conjunction:

* `TypeInv`: types; `Shape`, which endpoint can be at which call; `BeforeEnded`, that
  only ended requests are before another. The last is what makes the rest work: a
  request about to write is before nobody.
* `SupersededInv` says of a request from the moment it has made its own write what
  `SupersededSecretIsDead` says of it once answered; a later write can only store
  the writer's own, new secret, and the writer had not ended.
* `RejectsSupersededSecret` is preserved because at the comparison `SupersededInv`
  makes the stored hash differ.
* `SettledInv`: an appliance claimed or revoked once is never pending again, hence a
  claim that got past the status check began before any answered claim or
  revocation of that appliance had ended.
* `RevokedInv`: from the moment a revocation has set the status, a different status
  has a claim overlapping it as its cause.

`EntInv`: every stored hash was put there by a request that targets the row
(`ProvenanceInv`), every bearer that is no use token was answered to somebody
(`PresentedInv`), only inserted rows have owners, and whoever is past the comparison is
its owner or holds an answer for it (`EntitledInv`). `PendingInv`: an absent appliance has
no rows; the creator still inserting is the only one, so no delete of an expired token can
hit the row that is about to be inserted. `LatestInv` follows the last issuer call by call while every other
writer is harmless; `SecretInv` follows a claim between its write and its mark, with the
revocation that crossed it as the only cause of a missing secret. `EmptiedInv` is its
counterpart: a revocation that has removed the Secret (the hash) finds it there again only
if a writer let in beside it has written since. `InTurn` says that with `MaxInFlight = 1`
an ended request and a running one never overlap; the conditions of the properties above
then fall away, which is `OneAtATime`.

`LifecycleImplementsStates` maps the requests between their check of the status and their
last write to the changes of `ApplianceStates`, and a stored secret or hash to the request
that drew it. The status calls let a request in, the Create, Update and Delete that take
effect write the tunnel end, the two hash statements the hash, `MarkApplianceClaimed` the
status; a conflict, a failure or the end of a process gives the change up; reads, tokens,
codes and answers stutter. `RowInv` is what the mapping needs beyond `IInv`'s types: a row
that is absent has no owner, so that a revocation about to set the status found one.

`TimesInv` adds the seconds: a row expires no later than its lifetime after the answer of
its creator (`LifetimeInv`), and a claim that marked leaves the appliance active and
marked no earlier, unless a revocation came that no claim past the status check can have
found ended (`MarkedInv`). Hence the UPDATE of a second claim in that second changes nothing.
`StoredInv` follows a creator from its first insert: its rows are there while the appliance is
pending and they have not expired, since `PendingInv` lets only expired rows of a pending
appliance change. `TimestampFacts` is all that is used of the cut: what is left is a time, no
later than the one cut, and in the same order.

`LInv` is types, `LoginShape` (which endpoint is at which call), `RowsInv` (a row is what
its login sent), `ConsumedInv` (between SELECT and DELETE a redemption holds the lock of a
row that is there; a consumed code was consumed once) and `LiveInv`.
`TableImplementsPromise` maps the rows to the outstanding codes and the consumed codes to
the takers: INSERT issues, DELETE and commit takes, the pruning lapses, all else
stutters. `PromiseIsSingleUse` shows that what is promised is single use. `AnswersInv` carries the invariants of `Lifecycle` over to logins;
`LoginsLeaveLifecycle` and `FleetLeavesLifecycle` are why they can be used at all. `GrantInv` joins the login's
provenance with `EntInv`. `ExistingInv`: an appliance somebody was answered about has an
owner, who never changes; hence `CurrentInv`, that a member of the owning group now was
one when the login began, and that the code it read had not expired then.

`CreditInv` says that what is left in the bucket counts against what was earned; `PollInv`
that between two polls, with nobody else admitted, the bucket earns what a poll costs. `ReadInv` joins the
lifecycle's invariants with `GivenInv`, that an active appliance has a claim and a revoked
one a revocation that got as far as the status; at the SELECT they give what a listing
promises, and `TruthInv` in `FleetInv` keeps it while the lifecycle goes on, since answered
requests, what overlapped them and the owners stay as they were.

Each conjunct has a lemma with one step per action or group of actions. `ServeMoves`,
`ServeStatus` and `ServeFlow` say once what any step of a handler leaves alone, does
to the status and how it gets past the status calls; the later lemmas use them
instead of the actions.

`ListInv` describes the list as it is written: the finished parts are the trimmed parts
before the last comma, the word and the blanks after it are what is being written
(`Writes`). One lemma says what a character more does to `Split` (`SplitAppend`), one what
it does to `Trim`; so `ParseTokenList` returns the words (`ParsedAreWords`), of any list.
`NameInv` does the same for a name: `Slugged` says that both replacements of
`GenerateLabel`, applied to the name without the spaces before it, give the slug with at
most a dash around it, and `FollowsStep` that a character more keeps it so.
`ReplaceRunsAppend` is the lemma it rests on. `ReplaceRuns` is a recursive function, and
what it does to every string takes induction: `Induction` states it for a set of natural
numbers, and follows from the library's fact that finite sets are well founded under
inclusion. `RunsExist` gives the function, `ReplaceRunsAppend` compares two of them.

Model-checked only: liveness (`EveryRequestAnswered`, `EveryLoginAnswered`,
`FleetFollows`), which is beyond the prover. Every other property of a passing run has a
theorem.

## Not modelled

* Configuration beyond `AuthConfig.Validate`, the entry point, rest models and logging:
  settings read once, the wiring of routes, bodies without behaviour, no state read back.
* Migrations run before the service starts; their constraints are in `Persistence`.
* The appliance's side of a lost answer, and the tunnel itself.
* A call that takes effect after its handler has ended, when the client timed out or the
  context was cancelled while it was on its way: a call takes effect while its request is
  in flight, or not at all.
* A limiter per replica: `Fleet` has one, as the repository does not say how many run. With several the
  bound of `RateIsBounded` is multiplied by their number.
* Negative expiries: configuration accepts them, and every credential is then born expired.

## Plan

1. A measure every call of a request or login decreases, so that the number of calls is
   bounded by theorem and only the fairness is left to TLC.
2. Members who join again, and several replicas of the limiter.
