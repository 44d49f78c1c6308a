--------------------------- MODULE ApplianceStates ---------------------------
(***************************************************************************)
(* What the endpoints that change an appliance promise together (README,   *)
(* "Claiming" and "Revocation / rotation").  A request is let in while the *)
(* status of the appliance allows its change; it then writes the secret to *)
(* the tunnel end, the hash the appliance authenticates with, and, for a   *)
(* claim, the status, in this order and at any pace, beside others that    *)
(* were let in.  How a request gets in - credentials, their expiry and     *)
(* pins, owners - and what its writes meet is the business of Lifecycle.   *)
(***************************************************************************)
CONSTANTS
    Requests, Appliances, NULL,
    InCluster   \* FALSE: there is no tunnel end to write to

VARIABLES
    status,     \* of every appliance
    changes,    \* the changes requests have been let in to make
    tunnel,     \* the request whose secret the tunnel end has, or NULL
    accepted    \* the request whose secret the appliance authenticates with

stateVars == <<status, changes, tunnel, accepted>>

Init ==
    /\ status = [a \in Appliances |-> "absent"]
    /\ changes = {}
    /\ tunnel = [a \in Appliances |-> NULL]
    /\ accepted = [a \in Appliances |-> NULL]

Register(a) ==
    /\ status[a] = "absent"
    /\ status' = [status EXCEPT ![a] = "pending"]
    /\ UNCHANGED <<changes, tunnel, accepted>>

\* A request makes one change, which begins at the tunnel end.
LetIn(r, as, a) ==
    /\ \A c \in changes : c.by # r
    /\ changes' = changes \cup {[by |-> r, as |-> as, to |-> a, next |-> "tunnel"]}

Claim(r, a) ==
    /\ status[a] = "pending"
    /\ LetIn(r, "claim", a)
    /\ UNCHANGED <<status, tunnel, accepted>>

Rotate(r, a) ==
    /\ status[a] = "active"
    /\ LetIn(r, "rotation", a)
    /\ UNCHANGED <<status, tunnel, accepted>>

Revoke(r, a) ==
    /\ status[a] \in {"pending", "active"}
    /\ status' = [status EXCEPT ![a] = "revoked"]
    /\ LetIn(r, "revocation", a)
    /\ UNCHANGED <<tunnel, accepted>>

\* A revocation takes away whatever is there.
Secret(c) == IF c.as = "revocation" THEN NULL ELSE c.by

GoesOn(c, next) == changes' = (changes \ {c}) \cup {[c EXCEPT !.next = next]}

Ends(c) == changes' = changes \ {c}

WriteTunnel(c) ==
    /\ c.next = "tunnel"
    /\ GoesOn(c, "accepted")
    /\ tunnel' = IF InCluster THEN [tunnel EXCEPT ![c.to] = Secret(c)] ELSE tunnel
    /\ UNCHANGED <<status, accepted>>

WriteAccepted(c) ==
    /\ c.next = "accepted"
    /\ IF c.as = "claim" THEN GoesOn(c, "status") ELSE Ends(c)
    /\ accepted' = [accepted EXCEPT ![c.to] = Secret(c)]
    /\ UNCHANGED <<status, tunnel>>

Activate(c) ==
    /\ c.next = "status"
    /\ Ends(c)
    /\ status' = [status EXCEPT ![c.to] = "active"]
    /\ UNCHANGED <<tunnel, accepted>>

\* The rest of a change is given up, and nothing is undone.
GiveUp(c) == Ends(c) /\ UNCHANGED <<status, tunnel, accepted>>

Next ==
    \/ \E a \in Appliances :
        \/ Register(a)
        \/ \E r \in Requests : Claim(r, a) \/ Rotate(r, a) \/ Revoke(r, a)
    \/ \E c \in changes : WriteTunnel(c) \/ WriteAccepted(c) \/ Activate(c) \/ GiveUp(c)

Spec == Init /\ [][Next]_stateVars
=============================================================================
