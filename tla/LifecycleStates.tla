--------------------------- MODULE LifecycleStates ---------------------------
(***************************************************************************)
(* Lifecycle implements ApplianceStates: the calls between the check of    *)
(* the status and the last write of a request are the change it was let in *)
(* to make, and a stored secret tells the request that drew it.            *)
(***************************************************************************)
EXTENDS Lifecycle

\* The calls of a request that has been let in and has writes to make.
Writing ==
    {"createSecret", "getSecret", "updateSecret", "storeSecretHash", "markClaimed",
     "deleteSecret", "clearSecretHash"}

NextWrite(r) ==
    CASE pc[r] \in {"storeSecretHash", "clearSecretHash"} -> "accepted"
      [] pc[r] = "markClaimed" -> "status"
      [] OTHER -> "tunnel"

Change(r) ==
    [by |-> r,
     as |-> IF op[r] \in Claimers THEN "claim"
            ELSE IF op[r] \in Rotators THEN "rotation" ELSE "revocation",
     to |-> target[r],
     next |-> NextWrite(r)]

changes == {Change(r) : r \in {q \in Requests : pc[q] \in Writing}}

\* The request that drew a secret.
DrawnBy(secret) == secret[2]

tunnelSecrets == [a \in Appliances |-> IF k8s[a] = NULL THEN NULL ELSE DrawnBy(k8s[a])]

\* Hash is injective.
acceptedSecrets ==
    [a \in Appliances |-> IF secretHash[a] = NULL THEN NULL ELSE DrawnBy(secretHash[a][2])]

States == INSTANCE ApplianceStates
    WITH tunnel <- tunnelSecrets, accepted <- acceptedSecrets

\* The status, the Secret and the hash of an appliance change only as
\* ApplianceStates says: through a claim let in while it was pending, a
\* rotation let in while it was active, or a revocation, each writing the
\* tunnel end before the hash and both before the status, whatever the calls
\* of other requests, failures, conflicts and retries in between (webapp.go:
\* Claim, EnrollRedeem, issueNewSecret, Revoke; README, "Revocation / rotation").
ChangesFollowStates == States!Spec
=============================================================================
