----------------------------- MODULE Persistence -----------------------------
(***************************************************************************)
(* The MariaDB database behind persistence.PersistenceDB, one operator per *)
(* statement of src/internal/persistence/mariadb.  Every statement runs by *)
(* itself (autocommit) and is atomic; nothing spans two of them.  A column *)
(* of the appliances table is a function of the appliance id, NULL where   *)
(* the row, or the value, does not exist.                                  *)
(*                                                                         *)
(* The connection does not set clientFoundRows, so RowsAffected counts the *)
(* rows an UPDATE changed and not the ones it matched.  An operator whose  *)
(* caller looks at the count has the predicate ...Affects beside it.       *)
(***************************************************************************)
EXTENDS Tokens, Naturals

CONSTANTS
    Appliances,         \* appliance ids, handed out by AUTO_INCREMENT
    Labels,             \* hostname labels GenerateLabel may draw
    TicksPerSecond,     \* the clock of the service is finer than a TIMESTAMP
    MaxTime,            \* bound: the last tick of an instance
    ClaimTokenExpiry,   \* ticks a claim token lives
    ExchangeCodeExpiry  \* ticks an enroll exchange code, or a login code, lives

ASSUME TimeAssumption ==
    /\ NULL \notin Nat
    /\ TicksPerSecond \in Nat \ {0}
    /\ MaxTime \in Nat
    /\ ClaimTokenExpiry \in Nat
    /\ ExchangeCodeExpiry \in Nat

VARIABLES
    now,            \* time.Now(), in ticks
    status,         \* appliances.status; "absent" before the INSERT
    groupId,        \* appliances.groupId
    hostnameLabel,  \* appliances.hostnameLabel, UNIQUE
    claimedAt,      \* appliances.claimedAt
    secretHash,     \* appliances.secretHash
    claimTokens,    \* applianceClaimTokens, keyed by appliance
    exchangeCodes   \* applianceEnrollExchangeCodes, keyed by appliance

applianceVars == <<status, groupId, hostnameLabel, claimedAt, secretHash>>

tokenVars == <<claimTokens, exchangeCodes>>

dbVars == <<applianceVars, tokenVars>>

\* A TIMESTAMP column has no fraction: MariaDB cuts it off what is stored.
Timestamp(t) == t - (t % TicksPerSecond)

Statuses == {"absent", "pending", "active", "revoked"}

ClaimTokenRows == [tokenHash : Hashes, expiresAt : Nat]

ExchangeCodeRows ==
    [codeHash : Hashes, claimTokenHash : Hashes, expiresAt : Nat]

ASSUME RowAssumption == NULL \notin ClaimTokenRows \cup ExchangeCodeRows

PersistenceTypeOK ==
    /\ now \in Nat
    /\ status \in [Appliances -> Statuses]
    /\ groupId \in [Appliances -> Groups \cup {NULL}]
    /\ hostnameLabel \in [Appliances -> Labels \cup {NULL}]
    /\ claimedAt \in [Appliances -> Nat \cup {NULL}]
    /\ secretHash \in [Appliances -> Hashes \cup {NULL}]
    /\ claimTokens \in [Appliances -> ClaimTokenRows \cup {NULL}]
    /\ exchangeCodes \in [Appliances -> ExchangeCodeRows \cup {NULL}]

PersistenceInit ==
    /\ now = 0
    /\ status = [a \in Appliances |-> "absent"]
    /\ groupId = [a \in Appliances |-> NULL]
    /\ hostnameLabel = [a \in Appliances |-> NULL]
    /\ claimedAt = [a \in Appliances |-> NULL]
    /\ secretHash = [a \in Appliances |-> NULL]
    /\ claimTokens = [a \in Appliances |-> NULL]
    /\ exchangeCodes = [a \in Appliances |-> NULL]

-----------------------------------------------------------------------------
\* The appliances table.

\* The unique index on hostnameLabel rejects the INSERT with error 1062.
LabelTaken(l) == \E a \in Appliances : hostnameLabel[a] = l

CreateAppliance(a, l, g) ==
    /\ status[a] = "absent"
    /\ status' = [status EXCEPT ![a] = "pending"]
    /\ hostnameLabel' = [hostnameLabel EXCEPT ![a] = l]
    /\ groupId' = [groupId EXCEPT ![a] = g]
    /\ UNCHANGED <<claimedAt, secretHash, tokenVars>>

SetApplianceStatusAffects(a, s) == status[a] # s

SetApplianceStatus(a, s) ==
    /\ status' = [status EXCEPT ![a] = s]
    /\ UNCHANGED <<groupId, hostnameLabel, claimedAt, secretHash, tokenVars>>

\* Mutant: clientFoundRows, counting the rows matched.
RowsMatched(a) == status[a] # "absent"

\* The UPDATE sets both columns whatever the status was, and changes nothing
\* when the appliance was already marked within the same second.
MarkApplianceClaimedAffects(a) ==
    status[a] # "active" \/ claimedAt[a] # Timestamp(now)

MarkApplianceClaimed(a) ==
    /\ status' = [status EXCEPT ![a] = "active"]
    /\ claimedAt' = [claimedAt EXCEPT ![a] = Timestamp(now)]
    /\ UNCHANGED <<groupId, hostnameLabel, secretHash, tokenVars>>

\* A missing row is the only error it reports: it looks the row up again when
\* the UPDATE changed nothing.  Rows are never deleted, so it never does.
SetApplianceSecretHash(a, hash) ==
    /\ secretHash' = [secretHash EXCEPT ![a] = hash]
    /\ UNCHANGED <<status, groupId, hostnameLabel, claimedAt, tokenVars>>

-----------------------------------------------------------------------------
\* The tables of claim tokens and exchange codes.

\* Mutant: the expiry is not looked at.
ExpiredNever(row) == FALSE

\* The row was found, and time.Now().After(row.ExpiresAt): what is stored is
\* compared with a clock that has a fraction.
Expired(row) == row # NULL /\ now > row.expiresAt

SaveClaimToken(a, hash) ==
    /\ claimTokens' = [claimTokens EXCEPT ![a] =
            [tokenHash |-> hash, expiresAt |-> Timestamp(now + ClaimTokenExpiry)]]
    /\ UNCHANGED <<applianceVars, exchangeCodes>>

DeleteClaimToken(a) ==
    /\ claimTokens' = [claimTokens EXCEPT ![a] = NULL]
    /\ UNCHANGED <<applianceVars, exchangeCodes>>

\* Mutant: the two hashes, both strings, are passed in the wrong order.
SaveSwapped(a, hash, pin) ==
    /\ exchangeCodes' = [exchangeCodes EXCEPT ![a] =
            [codeHash |-> pin, claimTokenHash |-> hash,
             expiresAt |-> Timestamp(now + ExchangeCodeExpiry)]]
    /\ UNCHANGED <<applianceVars, claimTokens>>

SaveEnrollExchangeCode(a, hash, pin) ==
    /\ exchangeCodes' = [exchangeCodes EXCEPT ![a] =
            [codeHash |-> hash, claimTokenHash |-> pin,
             expiresAt |-> Timestamp(now + ExchangeCodeExpiry)]]
    /\ UNCHANGED <<applianceVars, claimTokens>>

DeleteEnrollExchangeCode(a) ==
    /\ exchangeCodes' = [exchangeCodes EXCEPT ![a] = NULL]
    /\ UNCHANGED <<applianceVars, claimTokens>>
=============================================================================
