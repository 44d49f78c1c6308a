------------------------------- MODULE Tokens -------------------------------
(***************************************************************************)
(* The credentials of src/internal/tokens and the use tokens of            *)
(* cloud-user-registry.  A raw credential is 32 fresh random bytes; only   *)
(* its SHA-256 hash is stored.  Randomness is modelled by who drew it: the *)
(* credential a request generates is the pair of its kind and the request, *)
(* so two requests never draw the same one, and hashing is injective.      *)
(***************************************************************************)
CONSTANTS
    Requests,   \* the HTTP requests of an instance, each served once
    Groups,     \* the groups of cloud-user-registry that own appliances
    NULL        \* a missing row, column, Secret or header

GenerateClaimToken(r) == <<"claimToken", r>>

GenerateExchangeCode(r) == <<"exchangeCode", r>>

GenerateApplianceSecret(r) == <<"applianceSecret", r>>

\* HashClaimToken, HashExchangeCode and HashApplianceSecret are one function.
Hash(raw) == <<"sha256", raw>>

\* A use token is signed by cloud-user-registry and carries the group id.
UseToken(g) == <<"useToken", g>>

UseTokens == {UseToken(g) : g \in Groups}

GroupOf(token) == token[2]

ApplianceSecrets == {GenerateApplianceSecret(r) : r \in Requests}

Credentials ==
    UNION { {GenerateClaimToken(r) : r \in Requests},
            {GenerateExchangeCode(r) : r \in Requests},
            ApplianceSecrets,
            UseTokens }

Hashes == {Hash(c) : c \in Credentials}

ASSUME NullAssumption == NULL \notin Credentials \cup Hashes \cup Groups
=============================================================================
