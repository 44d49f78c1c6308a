------------------------------ MODULE GoStrings ------------------------------
(***************************************************************************)
(* The functions of Go's strings and regexp (external) that hostnames and  *)
(* tokens use, on strings that are sequences of characters.                *)
(***************************************************************************)
EXTENDS Integers, Sequences, FiniteSetsExt

\* strings.Trim with the characters of cutset, and strings.TrimSpace.
Trim(s, cutset) ==
    LET kept == {i \in DOMAIN s : s[i] \notin cutset}
    IN IF kept = {} THEN <<>> ELSE SubSeq(s, Min(kept), Max(kept))

\* ReplaceAllString of the expression [chars]+: each run becomes one char.
ReplaceRuns(s, chars, char) ==
    LET replaced[n \in 0..Len(s)] ==
            IF n = 0 THEN <<>>
            ELSE IF s[n] \notin chars THEN Append(replaced[n - 1], s[n])
            ELSE IF n = 1 \/ s[n - 1] \notin chars THEN Append(replaced[n - 1], char)
            ELSE replaced[n - 1]
    IN replaced[Len(s)]

\* strings.Split at each sep, as the set of the parts.
Split(s, sep) ==
    LET cuts == {0, Len(s) + 1} \cup {i \in DOMAIN s : s[i] = sep}
        next(i) == Min({j \in cuts : j > i})
    IN {SubSeq(s, i + 1, next(i) - 1) : i \in cuts \ {Len(s) + 1}}
=============================================================================
