----------------------------- MODULE SecretStore -----------------------------
(***************************************************************************)
(* The Kubernetes Secrets cloud-connect-secret-<id> of                     *)
(* src/internal/k8ssecrets, which the cloud-side tunnel end of an          *)
(* appliance reads.  The API server (external) serves Create, Get, Update  *)
(* and Delete atomically; an Update carries the resourceVersion its object *)
(* was read with and is refused once the object changed or is gone.  Each  *)
(* value is written by one request, once, so the value read stands for the *)
(* version.                                                                *)
(***************************************************************************)
EXTENDS Tokens

CONSTANT InCluster  \* FALSE: NewSecretWriter fell back to noopSecretWriter

ASSUME StoreAssumption == InCluster \in BOOLEAN

VARIABLE k8s    \* the value under "auth" of every appliance's Secret, or NULL

CreateConflicts(a) == InCluster /\ k8s[a] # NULL

CreateSecret(a, value) ==
    k8s' = IF InCluster THEN [k8s EXCEPT ![a] = value] ELSE k8s

UpdateConflicts(a, read) == k8s[a] # read

\* Mutant: the object read is sent back as it was.
UpdateUnchanged(a, value) == k8s' = k8s

UpdateSecret(a, value) == k8s' = [k8s EXCEPT ![a] = value]

\* Deleting a Secret that is not there is not an error.
DeleteApplianceSecret(a) ==
    k8s' = IF InCluster THEN [k8s EXCEPT ![a] = NULL] ELSE k8s
=============================================================================
