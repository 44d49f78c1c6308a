------------------------------ MODULE LoginCodes ------------------------------
(***************************************************************************)
(* What the table of login codes promises (README, "Cloud login"): a code  *)
(* is issued to a user, and taken by at most one redemption or by none,    *)
(* when it lapses first.  How the promise is kept - expiry, pruning, the   *)
(* transaction and its row lock - is CloudLogin's business.                *)
(***************************************************************************)
CONSTANTS
    Codes,      \* the codes that can be issued
    Redeemers   \* the redemptions that can take one

VARIABLES
    outstanding,    \* the codes that can be taken
    takers          \* which redemption took which code

codeVars == <<outstanding, takers>>

Init == outstanding = {} /\ takers = {}

Taken(c) == \E t \in takers : t[1] = c

Issue(c) ==
    /\ c \notin outstanding /\ ~Taken(c)
    /\ outstanding' = outstanding \cup {c}
    /\ UNCHANGED takers

Take(c, q) ==
    /\ c \in outstanding
    /\ outstanding' = outstanding \ {c}
    /\ takers' = takers \cup {<<c, q>>}

\* Several codes may lapse at once: the table is pruned by one statement.
Lapse(C) ==
    /\ C \subseteq outstanding
    /\ outstanding' = outstanding \ C
    /\ UNCHANGED takers

Next ==
    \/ \E c \in Codes : Issue(c) \/ \E q \in Redeemers : Take(c, q)
    \/ \E C \in SUBSET Codes : Lapse(C)

Spec == Init /\ [][Next]_codeVars
-----------------------------------------------------------------------------
\* No two redemptions take the same code.
TakenOnce == \A s, t \in takers : s[1] = t[1] => s = t
=============================================================================
