---------------------------- MODULE ServiceTokens ----------------------------
(***************************************************************************)
(* The static tokens of machine callers: the comma-separated list of the   *)
(* configuration (AuthConfig.ServiceTokens, PluginTokens), ParseTokenList  *)
(* and CheckServiceTokens of src/internal/tokens.  Both the list and the   *)
(* header are written one character at a time; "x" and "y" stand for the   *)
(* characters of a token.                                                  *)
(***************************************************************************)
EXTENDS GoStrings

CONSTANTS
    MaxList,    \* bound: the length of the configured list
    MaxHeader   \* bound: the length of a header after its scheme

ASSUME ListAssumption == MaxList \in Nat /\ MaxHeader \in Nat

VARIABLES
    list,       \* the configured list
    scheme,     \* what the header begins with: "Bearer ", or anything else
    header,     \* the rest of the header
    finished,   \* the tokens of the list that have a comma after them
    word,       \* the characters after the last comma, without spaces before them
    blanks      \* the spaces after the last of them

listVars == <<list, scheme, header, finished, word, blanks>>

Letters == {"x", "y"}

ListCharacters == Letters \cup {",", " "}

TrimSpace(s) == Trim(s, {" "})

ParseTokenList(raw) == {TrimSpace(t) : t \in Split(raw, ",")} \ {<<>>}

\* AuthConfig.Validate and NewWebApp's caller: an empty list is refused at
\* startup, one without a token in it is not.
Validate(raw) == raw # <<>>

\* Mutant: the token is compared as it stands in the header.
UntrimmedToken(rest) == rest

bearerToken(rest) == TrimSpace(rest)

CheckServiceTokens(validTokens) ==
    scheme = "Bearer " /\ bearerToken(header) \in validTokens

-----------------------------------------------------------------------------
ListInit ==
    /\ list = <<>> /\ header = <<>> /\ scheme \in {"Bearer ", "Basic "}
    /\ finished = {} /\ word = <<>> /\ blanks = <<>>

Words == finished \cup ({word} \ {<<>>})

WriteList(c) ==
    /\ Len(list) < MaxList /\ header = <<>>
    /\ list' = Append(list, c)
    /\ UNCHANGED <<scheme, header>>
    /\ \/ /\ c = ","
          /\ finished' = Words /\ word' = <<>> /\ blanks' = <<>>
       \/ /\ c = " "
          /\ blanks' = (IF word = <<>> THEN <<>> ELSE Append(blanks, c))
          /\ UNCHANGED <<finished, word>>
       \/ /\ c \in Letters
          /\ word' = word \o blanks \o <<c>> /\ blanks' = <<>>
          /\ UNCHANGED finished

WriteHeader(c) ==
    /\ Validate(list)
    /\ Len(header) < MaxHeader
    /\ header' = Append(header, c)
    /\ UNCHANGED <<list, scheme, finished, word, blanks>>

ListNext == \E c \in ListCharacters : WriteList(c) \/ WriteHeader(c)

ListSpec == ListInit /\ [][ListNext]_listVars
-----------------------------------------------------------------------------
\* A header is let in if and only if it bears a token of the list, whatever
\* blanks, empty entries and stray commas are around it: two tokens are valid
\* at a time while one is rotated (tokens.go: ParseTokenList).
ListedTokensAreValid ==
    CheckServiceTokens(ParseTokenList(list)) <=>
        /\ scheme = "Bearer "
        /\ \E w \in Words, n, m \in 0..MaxHeader :
            header = [i \in 1..n |-> " "] \o w \o [i \in 1..m |-> " "]
=============================================================================
