---------------------------- MODULE HostnameLabel ----------------------------
(***************************************************************************)
(* GenerateLabel of src/internal/hostnames: the hostname label of an       *)
(* appliance, made of its name and a random suffix.  A character stands    *)
(* for its class: "a" for a-z and 0-9, "A" for what strings.ToLower turns  *)
(* into one of them, "." for any other that is no dash and no space.       *)
(***************************************************************************)
EXTENDS GoStrings

CONSTANTS
    MaxNamePart,    \* maxNamePart
    MaxName         \* bound: the length of a name

ASSUME NameAssumption == MaxNamePart \in Nat \ {0} /\ MaxName \in Nat

VARIABLES
    name,   \* the appliance's name so far, as its owner types it
    slug,   \* its words so far, in lower case and with one dash between two
    gap     \* the last character typed was not of a word

nameVars == <<name, slug, gap>>

NameCharacters == {"a", "A", "-", " ", "."}

ToLower(s) == [i \in DOMAIN s |-> IF s[i] = "A" THEN "a" ELSE s[i]]

\* The characters [^a-z0-9-].
nonLabelChars == NameCharacters \ {"a", "-"}

\* Mutant: dashes are not trimmed.
DashedUntrimmed(s) ==
    ReplaceRuns(ReplaceRuns(ToLower(Trim(s, {" "})), nonLabelChars, "-"), {"-"}, "-")

Dashed(s) ==
    LET lower == ToLower(Trim(s, {" "}))
        replaced == ReplaceRuns(lower, nonLabelChars, "-")
    IN Trim(ReplaceRuns(replaced, {"-"}, "-"), {"-"})

\* Mutant: the dash a cut may leave at the end stays.
CutUntrimmed(s) == IF Len(s) > MaxNamePart THEN SubSeq(s, 1, MaxNamePart) ELSE s

Cut(s) == IF Len(s) > MaxNamePart THEN Trim(SubSeq(s, 1, MaxNamePart), {"-"}) ELSE s

DefaultName == <<"a", "a", "a", "a", "a", "a", "a", "a", "a">>

OrDefault(s) == IF s = <<>> THEN DefaultName ELSE s

\* The hex digits of suffixBytes random bytes.
Suffix == <<"a", "a", "a", "a", "a", "a">>

GenerateLabel(s) == OrDefault(Cut(Dashed(s))) \o <<"-">> \o Suffix

-----------------------------------------------------------------------------
\* Names, one character at a time.

NameInit == name = <<>> /\ slug = <<>> /\ gap = FALSE

IsWordChar(c) == c \in {"a", "A"}

Type(c) ==
    /\ Len(name) < MaxName
    /\ name' = Append(name, c)
    /\ gap' = ~IsWordChar(c)
    /\ slug' = IF ~IsWordChar(c) THEN slug
               ELSE slug \o (IF gap /\ slug # <<>> THEN <<"-", "a">> ELSE <<"a">>)

NameNext == \E c \in NameCharacters : Type(c)

NameSpec == NameInit /\ [][NameNext]_nameVars
-----------------------------------------------------------------------------
\* Whatever the name, the label is one of DNS: letters, digits and dashes,
\* neither first nor last a dash, and no longer than the name part and the
\* suffix allow (hostnames.go: GenerateLabel's "DNS-label-safe").
LabelIsDnsSafe ==
    LET label == GenerateLabel(name) IN
    /\ \A i \in DOMAIN label : label[i] \in {"a", "-"}
    /\ label[1] = "a" /\ label[Len(label)] = "a"
    /\ Len(label) <= (IF MaxNamePart < Len(DefaultName) THEN Len(DefaultName) ELSE MaxNamePart) + 7

\* The name part is the words of the name with one dash between two, as many
\* of their characters as fit, and the default only for a name without a word
\* (hostnames.go: GenerateLabel).
LabelKeepsWords ==
    LET label == GenerateLabel(name)
        part == SubSeq(label, 1, Len(label) - 7)
        longest == IF Len(slug) > MaxNamePart THEN SubSeq(slug, 1, MaxNamePart) ELSE slug
    IN  \/ slug = <<>> /\ part = DefaultName
        \/ slug # <<>> /\ longest \in {part, Append(part, "-")} /\ part[Len(part)] # "-"
=============================================================================
