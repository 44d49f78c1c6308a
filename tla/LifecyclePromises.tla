-------------------------- MODULE LifecyclePromises --------------------------
(***************************************************************************)
(* What the repository's documentation, comments and tests promise of the  *)
(* handlers of Lifecycle and the code does not keep.  Each promise is      *)
(* quoted and is checked by a run of its own, whose counterexample is the  *)
(* sequence of calls that breaks it.                                       *)
(***************************************************************************)
EXTENDS Lifecycle

\* README.md:125, "A claim can only succeed once."
ClaimSucceedsOnce ==
    \A c, d \in Requests :
        OK(c) /\ op[c] \in Claimers /\ OK(d) /\ op[d] \in Claimers /\ c # d
            => target[c] # target[d]

\* README.md:286-287, revoking means that "status moves to `revoked`, its
\* **Appliance secret** stops being valid": an appliance whose revocation was answered 200 is revoked and
\* has no secret on either end.
RevocationIsFinal ==
    \A v \in Requests :
        OK(v) /\ op[v] = "Revoke"
            => /\ status[target[v]] = "revoked"
               /\ k8s[target[v]] = NULL /\ secretHash[target[v]] = NULL

\* README.md:271-273, a revoked appliance's "Secret is deleted the same way it
\* was created": once a revocation that met no other request has been
\* answered, whatever the answer, a revoked appliance has no Secret.
RevokedSecretIsDeleted ==
    \A v \in Requests :
        op[v] = "Revoke" /\ pc[v] \in {"200", "500"} /\ RunsLast(v)
            => (status[target[v]] = "revoked" => k8s[target[v]] = NULL)

\* persistence.go:17-18, "StatusRevoked: ... the hostname is freed for reuse":
\* when every appliance was revoked before a registration began, that
\* registration does not run out of labels.
HostnameIsFreed ==
    \A r \in Requests :
        op[r] \in Creators /\ pc[r] = "500"
            => \E a \in Appliances :
                /\ hostnameLabel[a] # NULL
                /\ \A v \in before[r] : ~(OK(v) /\ op[v] = "Revoke" /\ target[v] = a)
=============================================================================
