----------------------------- MODULE PartsProofs -----------------------------
(***************************************************************************)
(* Proofs about the parts that share nothing with the rest: the token      *)
(* lists of ServiceTokens and the labels of HostnameLabel, with the facts  *)
(* about the functions of GoStrings they need, and what the promise of     *)
(* LoginCodes is worth.                                                    *)
(***************************************************************************)
EXTENDS HostnameLabel, ServiceTokens, LoginCodes, TLAPS, FiniteSetTheorems, SequenceTheorems

-----------------------------------------------------------------------------
(* Natural numbers, and the functions of GoStrings.                        *)

\* Induction over the natural numbers, on the set of those that have the
\* property.
LEMMA Induction ==
    ASSUME NEW S, 0 \in S, \A n \in Nat : n \in S => n + 1 \in S
    PROVE  Nat \subseteq S
<1> SUFFICES ASSUME ~(Nat \subseteq S) PROVE FALSE
  OBVIOUS
<1> DEFINE T == Nat \ S
           F == {0..t : t \in T}
           R == StrictSubsetOrdering(Nat)
<1>1. F # {} /\ F \subseteq FiniteSubsetsOf(Nat)
  <2>1. ASSUME NEW t \in T PROVE 0..t \in FiniteSubsetsOf(Nat)
    BY FS_Interval DEF FiniteSubsetsOf
  <2> QED
    BY <2>1
<1>2. IsWellFoundedOn(R, FiniteSubsetsOf(Nat))
  BY FS_StrictSubsetOrderingWellFounded DEF R
<1> HIDE DEF R, F
<1>3. PICK X \in F : \A Y \in F : <<Y, X>> \notin R
  BY <1>1, <1>2, WFMin
<1>4. PICK t \in T : X = 0..t
  BY <1>3 DEF F
<1>5. t - 1 \in T
  BY <1>4
<1>6. 0..(t - 1) \in F /\ <<0..(t - 1), 0..t>> \in R
  BY <1>4, <1>5 DEF F, R, StrictSubsetOrdering
<1> QED
  BY <1>3, <1>4, <1>6

\* Min and Max find what they are named for.
LEMMA MinOfNat ==
    ASSUME NEW T \in SUBSET Nat, T # {}
    PROVE  Min(T) \in T /\ \A t \in T : Min(T) <= t
<1> SUFFICES \E x \in T : \A t \in T : x <= t
  BY DEF Min
<1> SUFFICES ASSUME \A x \in T : \E t \in T : t < x PROVE FALSE
  OBVIOUS
<1> DEFINE S == {n \in Nat : \A t \in T : n < t}
<1>1. 0 \in S /\ \A n \in Nat : n \in S => n + 1 \in S
  OBVIOUS
<1>2. Nat \subseteq S
  BY <1>1, Induction
<1>3. PICK t \in T : t \in S
  BY <1>2
<1> QED
  BY <1>3

\* Max of some numbers up to n.
LEMMA MaxOfNat ==
    ASSUME NEW n \in Nat, NEW T \in SUBSET (0..n), T # {}
    PROVE  Max(T) \in T /\ \A t \in T : t <= Max(T)
<1> DEFINE D == {n - t : t \in T}
<1>1. \A t \in T : t \in Nat /\ n - t \in D /\ n - t \in Nat
  OBVIOUS
<1>2. D \in SUBSET Nat /\ D # {}
  BY <1>1
<1>3. Min(D) \in D /\ \A d \in D : Min(D) <= d
  BY <1>2, MinOfNat
<1>4. PICK x \in T : Min(D) = n - x
  BY <1>3
<1>5. \A t \in T : n - x <= n - t
  BY <1>1, <1>3, <1>4
<1>6. \A t \in T : t <= x
  BY <1>1, <1>5
<1> QED
  BY <1>6 DEF Max

\* What Trim cuts off, and that nothing else is what it keeps.
LEMMA TrimIs ==
    ASSUME NEW C, NEW s \in Seq(C), NEW cutset,
           NEW i \in DOMAIN s, NEW j \in DOMAIN s,
           s[i] \notin cutset, s[j] \notin cutset,
           \A k \in DOMAIN s : k < i \/ k > j => s[k] \in cutset
    PROVE  Trim(s, cutset) = SubSeq(s, i, j)
<1> DEFINE kept == {k \in DOMAIN s : s[k] \notin cutset}
<1>1. kept # {} /\ kept \in SUBSET Nat /\ kept \in SUBSET (0..Len(s)) /\ Len(s) \in Nat
  OBVIOUS
<1>2. i \in kept /\ j \in kept /\ \A k \in kept : i <= k /\ k <= j
  OBVIOUS
<1>3. Min(kept) \in kept /\ \A k \in kept : Min(kept) <= k
  BY <1>1, MinOfNat
<1>4. Max(kept) \in kept /\ \A k \in kept : k <= Max(kept)
  BY <1>1, MaxOfNat
<1> HIDE DEF kept
<1>5. i <= Min(kept) /\ Min(kept) <= i /\ Max(kept) <= j /\ j <= Max(kept)
  BY <1>2, <1>3, <1>4
<1>6. Min(kept) \in Nat /\ Max(kept) \in Nat /\ i \in Nat /\ j \in Nat
  BY <1>1, <1>2, <1>3, <1>4
<1> QED
  <2>1. Min(kept) = i /\ Max(kept) = j
    BY <1>5, <1>6
  <2>2. Trim(s, cutset) = IF kept = {} THEN <<>> ELSE SubSeq(s, Min(kept), Max(kept))
    BY DEF Trim, kept
  <2> QED
    BY <1>1, <2>1, <2>2

\* Nothing is left of a string of the characters of cutset alone.
LEMMA TrimAll ==
    ASSUME NEW s, NEW cutset, \A k \in DOMAIN s : s[k] \in cutset
    PROVE  Trim(s, cutset) = <<>>
  BY DEF Trim

\* What Trim leaves: nothing, or what stands between two kept characters.
LEMMA TrimCases ==
    ASSUME NEW C, NEW s \in Seq(C), NEW cutset
    PROVE  \/ Trim(s, cutset) = <<>> /\ \A k \in DOMAIN s : s[k] \in cutset
           \/ \E i, j \in DOMAIN s :
                /\ i <= j /\ s[i] \notin cutset /\ s[j] \notin cutset
                /\ \A k \in DOMAIN s : k < i \/ k > j => s[k] \in cutset
                /\ Trim(s, cutset) = SubSeq(s, i, j)
<1> DEFINE kept == {k \in DOMAIN s : s[k] \notin cutset}
<1>1. CASE kept = {}
  BY <1>1, TrimAll
<1>2. CASE kept # {}
  <2>1. /\ kept \in SUBSET Nat /\ kept \in SUBSET (0..Len(s)) /\ Len(s) \in Nat
        /\ DOMAIN s = 1..Len(s)
    OBVIOUS
  <2>2. Min(kept) \in kept /\ \A k \in kept : Min(kept) <= k
    BY <1>2, <2>1, MinOfNat
  <2>3. Max(kept) \in kept /\ \A k \in kept : k <= Max(kept)
    BY <1>2, <2>1, MaxOfNat
  <2>4. Trim(s, cutset) = SubSeq(s, Min(kept), Max(kept))
    BY <1>2 DEF Trim
  <2>5. \A k \in DOMAIN s : k < Min(kept) \/ k > Max(kept) => k \notin kept
    <3> HIDE DEF kept
    <3>1. Min(kept) \in Nat /\ Max(kept) \in Nat
      BY <2>1, <2>2, <2>3
    <3> QED
      BY <2>1, <2>2, <2>3, <3>1
  <2> QED
    BY <2>1, <2>2, <2>3, <2>4, <2>5
<1> QED
  BY <1>1, <1>2

\* The parts of Split: what stands between two consecutive cuts.
IsPart(s, sep, x, i, j) ==
    /\ i \in 0..Len(s) /\ j \in (i + 1)..(Len(s) + 1)
    /\ i = 0 \/ s[i] = sep
    /\ j = Len(s) + 1 \/ s[j] = sep
    /\ \A k \in (i + 1)..(j - 1) : s[k] # sep
    /\ x = SubSeq(s, i + 1, j - 1)

\* Split returns the parts, and nothing else.
LEMMA SplitParts ==
    ASSUME NEW C, NEW s \in Seq(C), NEW sep
    PROVE  \A x : x \in Split(s, sep) <=> \E i, j \in Nat : IsPart(s, sep, x, i, j)
<1> DEFINE cuts == {0, Len(s) + 1} \cup {i \in DOMAIN s : s[i] = sep}
           next(i) == Min({j \in cuts : j > i})
<1>1. Len(s) \in Nat /\ DOMAIN s = 1..Len(s) /\ cuts \in SUBSET (0..(Len(s) + 1))
  OBVIOUS
<1>2. ASSUME NEW i \in cuts, i # Len(s) + 1
      PROVE  next(i) \in cuts /\ next(i) > i /\ \A j \in cuts : j > i => next(i) <= j
  <2> DEFINE T == {j \in cuts : j > i}
  <2>1. T \in SUBSET Nat /\ Len(s) + 1 \in T
    BY <1>1, <1>2
  <2>2. Min(T) \in T /\ \A t \in T : Min(T) <= t
    BY <2>1, MinOfNat
  <2> QED
    BY <2>2
<1> HIDE DEF next
<1>3. Split(s, sep) = {SubSeq(s, i + 1, next(i) - 1) : i \in cuts \ {Len(s) + 1}}
  BY DEF Split, next
<1>4. ASSUME NEW i \in cuts, i # Len(s) + 1
      PROVE  IsPart(s, sep, SubSeq(s, i + 1, next(i) - 1), i, next(i))
  BY <1>1, <1>2, <1>4 DEF IsPart
<1>5. ASSUME NEW x, NEW i \in Nat, NEW j \in Nat, IsPart(s, sep, x, i, j)
      PROVE  i \in cuts \ {Len(s) + 1} /\ j = next(i)
  <2>1. i \in cuts /\ i # Len(s) + 1 /\ j \in cuts /\ j > i
    BY <1>1, <1>5 DEF IsPart
  <2>2. next(i) \in cuts /\ next(i) > i /\ next(i) <= j
    BY <1>2, <2>1
  <2> QED
    BY <1>1, <1>5, <2>1, <2>2 DEF IsPart
<1>6. \A i \in cuts \ {Len(s) + 1} : i \in Nat /\ next(i) \in Nat
  BY <1>1, <1>2
<1>7. ASSUME NEW x, x \in Split(s, sep)
      PROVE  \E i, j \in Nat : IsPart(s, sep, x, i, j)
  <2>1. PICK i \in cuts \ {Len(s) + 1} : x = SubSeq(s, i + 1, next(i) - 1)
    BY <1>3, <1>7
  <2>2. IsPart(s, sep, x, i, next(i))
    BY <1>4, <2>1
  <2> QED
    BY <1>6, <2>2
<1>8. ASSUME NEW x, NEW i \in Nat, NEW j \in Nat, IsPart(s, sep, x, i, j)
      PROVE  x \in Split(s, sep)
  <2>1. x = SubSeq(s, i + 1, next(i) - 1)
    BY <1>5, <1>8 DEF IsPart
  <2> QED
    BY <1>3, <1>5, <1>8, <2>1
<1> QED
  BY <1>7, <1>8

\* Part of a longer sequence.
LEMMA SubSeqOfAppend ==
    ASSUME NEW C, NEW s \in Seq(C), NEW c \in C, NEW i \in 1..(Len(s) + 1), NEW j \in 0..Len(s)
    PROVE  /\ SubSeq(Append(s, c), i, j) = SubSeq(s, i, j)
           /\ SubSeq(Append(s, c), i, Len(s) + 1) = Append(SubSeq(s, i, Len(s)), c)
<1> DEFINE t == Append(s, c)
<1>1. /\ t \in Seq(C) /\ Len(t) = Len(s) + 1 /\ Len(s) \in Nat
      /\ \A k \in 1..Len(s) : t[k] = s[k]
      /\ t[Len(s) + 1] = c
  BY AppendProperties
<1>2. \A k \in i..j : t[k] = s[k] /\ s[k] \in C
  BY <1>1
<1> HIDE DEF t
<1>3. SubSeq(t, i, j) = SubSeq(s, i, j)
  <2>1. /\ SubSeq(t, i, j) \in Seq(C) /\ SubSeq(s, i, j) \in Seq(C)
        /\ Len(SubSeq(t, i, j)) = Len(SubSeq(s, i, j))
        /\ Len(SubSeq(s, i, j)) = IF i <= j THEN j - i + 1 ELSE 0
        /\ \A k \in 1..(j - i + 1) : /\ SubSeq(t, i, j)[k] = t[i + k - 1]
                                     /\ SubSeq(s, i, j)[k] = s[i + k - 1]
    BY <1>2, SubSeqProperties
  <2>2. \A k \in 1..Len(SubSeq(t, i, j)) : SubSeq(t, i, j)[k] = SubSeq(s, i, j)[k]
    BY <1>2, <2>1
  <2> QED
    BY <2>1, <2>2, SeqEqual
<1>4. SubSeq(t, i, Len(s) + 1) = Append(SubSeq(s, i, Len(s)), c)
  <2> DEFINE u == SubSeq(t, i, Len(s) + 1)
             v == SubSeq(s, i, Len(s))
  <2>1. /\ u \in Seq(C) /\ Len(u) = Len(s) + 2 - i
        /\ \A k \in 1..(Len(s) + 2 - i) : u[k] = t[i + k - 1]
    BY <1>1, SubSeqProperties
  <2>2. /\ v \in Seq(C) /\ Len(v) = Len(s) + 1 - i
        /\ \A k \in 1..(Len(s) + 1 - i) : v[k] = s[i + k - 1]
    BY <1>1, SubSeqProperties
  <2> HIDE DEF u, v
  <2> DEFINE w == Append(v, c)
  <2>3. /\ w \in Seq(C) /\ Len(w) = Len(v) + 1
        /\ \A k \in 1..Len(v) : w[k] = v[k]
        /\ w[Len(v) + 1] = c
    BY <2>2, AppendProperties
  <2> HIDE DEF w
  <2>4. ASSUME NEW k \in 1..Len(u) PROVE u[k] = w[k]
    <3>1. u[k] = t[i + k - 1] /\ i + k - 1 \in 1..(Len(s) + 1)
      BY <1>1, <2>1
    <3>2. CASE k = Len(v) + 1
      BY <1>1, <2>2, <2>3, <3>1, <3>2
    <3>3. CASE k # Len(v) + 1
      <4>1. k \in 1..Len(v) /\ i + k - 1 \in 1..Len(s)
        BY <1>1, <2>1, <2>2, <3>3, SMTT(30)
      <4> QED
        BY <1>1, <2>2, <2>3, <3>1, <4>1
    <3> QED
      BY <3>2, <3>3
  <2>5. u = w
    BY <1>1, <2>1, <2>2, <2>3, <2>4, SeqEqual
  <2> QED
    BY <2>5 DEF u, v, w
<1> QED
  BY <1>3, <1>4 DEF t

-----------------------------------------------------------------------------
(* Token lists.                                                            *)

\* The parts of the list that have a separator after them.
Done(s, sep) == {x \in Split(s, sep) : \E i, j \in Nat : IsPart(s, sep, x, i, j) /\ j <= Len(s)}

\* Where the last part begins.
LastCut(s, sep, p) ==
    /\ p \in 0..Len(s)
    /\ p = 0 \/ s[p] = sep
    /\ \A k \in (p + 1)..Len(s) : s[k] # sep

\* A character more: a separator finishes the last part.
LEMMA SplitAppend ==
    ASSUME NEW C, NEW s \in Seq(C), NEW sep, NEW c \in C
    PROVE  Done(Append(s, c), sep) = IF c = sep THEN Split(s, sep) ELSE Done(s, sep)
<1> DEFINE t == Append(s, c)
<1>1. /\ t \in Seq(C) /\ Len(t) = Len(s) + 1 /\ Len(s) \in Nat
      /\ \A k \in 1..Len(s) : t[k] = s[k]
      /\ t[Len(s) + 1] = c
  BY AppendProperties
<1>2. \A x : x \in Split(t, sep) <=> \E i, j \in Nat : IsPart(t, sep, x, i, j)
  BY <1>1, SplitParts
<1>3. \A x : x \in Split(s, sep) <=> \E i, j \in Nat : IsPart(s, sep, x, i, j)
  BY SplitParts
<1>4. ASSUME NEW i \in 0..Len(s), NEW j \in (i + 1)..(Len(s) + 1)
      PROVE  SubSeq(t, i + 1, j - 1) = SubSeq(s, i + 1, j - 1)
  BY <1>1, SubSeqOfAppend
<1> HIDE DEF t
<1>5. ASSUME NEW x, NEW i \in Nat, NEW j \in Nat, j <= Len(s) + 1
      PROVE  IsPart(t, sep, x, i, j) <=>
                IsPart(s, sep, x, i, j) /\ (j = Len(s) + 1 => c = sep)
  <2>1. CASE i \in 0..Len(s) /\ j \in (i + 1)..(Len(s) + 1)
    <3>1. SubSeq(t, i + 1, j - 1) = SubSeq(s, i + 1, j - 1)
      BY <1>4, <2>1
    <3>2. \A k \in (i + 1)..(j - 1) : t[k] = s[k]
      BY <1>1, <2>1
    <3>3. (i = 0 \/ t[i] = sep) <=> (i = 0 \/ s[i] = sep)
      BY <1>1, <2>1
    <3>4. (j = Len(t) + 1 \/ t[j] = sep)
            <=> (j = Len(s) + 1 \/ s[j] = sep) /\ (j = Len(s) + 1 => c = sep)
      BY <1>1, <2>1
    <3>5. i \in 0..Len(t) /\ j \in (i + 1)..(Len(t) + 1)
      BY <1>1, <2>1
    <3> QED
      BY <2>1, <3>1, <3>2, <3>3, <3>4, <3>5 DEF IsPart
  <2>2. CASE ~(i \in 0..Len(s) /\ j \in (i + 1)..(Len(s) + 1))
    BY <1>1, <1>5, <2>2 DEF IsPart
  <2> QED
    BY <2>1, <2>2
<1>6. \A x : x \in Done(t, sep) <=>
        \E i, j \in Nat : IsPart(s, sep, x, i, j) /\ (j = Len(s) + 1 => c = sep)
  <2>1. \A x, i, j : IsPart(s, sep, x, i, j) => j <= Len(s) + 1
    BY <1>1 DEF IsPart
  <2> QED
    BY <1>1, <1>2, <1>5, <2>1 DEF Done
<1>7. \A x : x \in Done(s, sep) <=>
        \E i, j \in Nat : IsPart(s, sep, x, i, j) /\ j # Len(s) + 1
  <2>1. \A x : \A i, j \in Nat : IsPart(s, sep, x, i, j) => (j <= Len(s) <=> j # Len(s) + 1)
    BY <1>1 DEF IsPart
  <2> QED
    BY <1>3, <2>1 DEF Done
<1>8. Done(t, sep) = IF c = sep THEN Split(s, sep) ELSE Done(s, sep)
  BY <1>3, <1>6, <1>7
<1> QED
  BY <1>8 DEF t

\* The parts are the finished ones and the last.
LEMMA SplitLast ==
    ASSUME NEW C, NEW s \in Seq(C), NEW sep, NEW p, LastCut(s, sep, p)
    PROVE  Split(s, sep) = Done(s, sep) \cup {SubSeq(s, p + 1, Len(s))}
<1>1. \A x : x \in Split(s, sep) <=> \E i, j \in Nat : IsPart(s, sep, x, i, j)
  BY SplitParts
<1>2. Len(s) \in Nat /\ p \in Nat
  BY DEF LastCut
<1>3. IsPart(s, sep, SubSeq(s, p + 1, Len(s)), p, Len(s) + 1)
  BY <1>2 DEF IsPart, LastCut
<1>4. ASSUME NEW x, NEW i \in Nat, NEW j \in Nat, IsPart(s, sep, x, i, j), ~(j <= Len(s))
      PROVE  x = SubSeq(s, p + 1, Len(s))
  <2>1. j = Len(s) + 1
    BY <1>2, <1>4 DEF IsPart
  <2>2. i = p
    BY <1>2, <1>4, <2>1 DEF IsPart, LastCut
  <2> QED
    BY <1>2, <1>4, <2>1, <2>2 DEF IsPart
<1>5. SubSeq(s, p + 1, Len(s)) \in Split(s, sep)
  BY <1>1, <1>2, <1>3
<1> QED
  BY <1>1, <1>4, <1>5 DEF Done

ListTypeOK ==
    /\ list \in Seq(ListCharacters)
    /\ header \in Seq(ListCharacters)
    /\ Len(header) <= MaxHeader

\* What word and blanks are of the part t that is being written: t without
\* the spaces around it, and the spaces after it; cutset is the space.
Writes(t, w, b, cutset) ==
    \/ w = <<>> /\ b = <<>> /\ \A k \in DOMAIN t : t[k] \in cutset
    \/ \E i, j \in DOMAIN t :
        /\ i <= j /\ t[i] \notin cutset /\ t[j] \notin cutset
        /\ \A k \in DOMAIN t : k < i \/ k > j => t[k] \in cutset
        /\ w = SubSeq(t, i, j) /\ b = SubSeq(t, j + 1, Len(t))

\* The list written so far, against the words its author has in mind.
WordsInv ==
    /\ finished = {TrimSpace(x) : x \in Done(list, ",")} \ {<<>>}
    /\ \E p \in Nat :
        LastCut(list, ",", p) /\ Writes(SubSeq(list, p + 1, Len(list)), word, blanks, {" "})

\* A word begins and ends with a letter.
WordShapeInv ==
    \A w \in Words :
        /\ w \in Seq(ListCharacters) /\ w # <<>>
        /\ w[1] \in Letters /\ w[Len(w)] \notin {" "}

ListInv == ListTypeOK /\ WordsInv /\ WordShapeInv

\* The word is what Trim leaves of the part that is being written.
LEMMA WritesTrim ==
    ASSUME NEW C, NEW t \in Seq(C), NEW w, NEW b, NEW cutset, Writes(t, w, b, cutset)
    PROVE  Trim(t, cutset) = w
<1>1. CASE w = <<>> /\ \A k \in DOMAIN t : t[k] \in cutset
  BY <1>1, TrimAll
<1>2. CASE \E i, j \in DOMAIN t :
            /\ i <= j /\ t[i] \notin cutset /\ t[j] \notin cutset
            /\ \A k \in DOMAIN t : k < i \/ k > j => t[k] \in cutset
            /\ w = SubSeq(t, i, j)
  BY <1>2, TrimIs
<1> QED
  BY <1>1, <1>2 DEF Writes

\* What ParseTokenList returns are the words.
LEMMA ParsedAreWords ==
    ASSUME ListTypeOK, WordsInv
    PROVE  ParseTokenList(list) = Words
<1> DEFINE comma == ","
<1>1. PICK p \in Nat :
        LastCut(list, comma, p) /\ Writes(SubSeq(list, p + 1, Len(list)), word, blanks, {" "})
  BY DEF WordsInv
<1> DEFINE t == SubSeq(list, p + 1, Len(list))
<1>2. finished = {TrimSpace(x) : x \in Done(list, comma)} \ {<<>>}
  BY DEF WordsInv
<1>3. ParseTokenList(list) = {TrimSpace(x) : x \in Split(list, comma)} \ {<<>>}
  BY DEF ParseTokenList
<1> HIDE DEF comma
<1>4. Split(list, comma) = Done(list, comma) \cup {t}
  BY <1>1, SplitLast DEF ListTypeOK
<1>5. t \in Seq(ListCharacters)
  <2>1. \A k \in (p + 1)..Len(list) : list[k] \in ListCharacters
    BY DEF ListTypeOK
  <2>2. Len(list) \in Int
    BY DEF ListTypeOK
  <2> QED
    BY <2>1, <2>2, SubSeqProperties
<1>6. TrimSpace(t) = word
  BY <1>1, <1>5, WritesTrim DEF TrimSpace
<1> HIDE DEF t
<1> QED
  BY <1>2, <1>3, <1>4, <1>6 DEF Words

\* What stands between two places of a sequence is not empty.
LEMMA WritesNonEmpty ==
    ASSUME NEW C, NEW t \in Seq(C), NEW i \in DOMAIN t, NEW j \in DOMAIN t, i <= j
    PROVE  SubSeq(t, i, j) \in Seq(C) /\ SubSeq(t, i, j) # <<>>
<1>1. i \in Int /\ j \in Int /\ j - i + 1 # 0
  OBVIOUS
<1>2. \A k \in i..j : t[k] \in C
  OBVIOUS
<1>3. SubSeq(t, i, j) \in Seq(C) /\ Len(SubSeq(t, i, j)) = j - i + 1
  BY <1>1, <1>2, SubSeqProperties
<1> QED
  BY <1>1, <1>3, EmptySeq

\* The word and the blanks after it are made of the part.
LEMMA WritesTypes ==
    ASSUME NEW C, NEW t \in Seq(C), NEW w, NEW b, NEW cutset, Writes(t, w, b, cutset)
    PROVE  w \in Seq(C) /\ b \in Seq(C) /\ (w = <<>> => b = <<>>)
<1>1. ASSUME NEW j \in DOMAIN t PROVE SubSeq(t, j + 1, Len(t)) \in Seq(C)
  <2>1. j + 1 \in Int /\ Len(t) \in Int /\ \A k \in (j + 1)..Len(t) : t[k] \in C
    OBVIOUS
  <2> QED
    BY <2>1, SubSeqProperties
<1> QED
  BY <1>1, WritesNonEmpty, EmptySeq DEF Writes

\* A blank more.
LEMMA WritesBlank ==
    ASSUME NEW C, NEW t \in Seq(C), NEW w, NEW b, NEW cutset, Writes(t, w, b, cutset),
           NEW c \in C, c \in cutset
    PROVE  Writes(Append(t, c), w, IF w = <<>> THEN <<>> ELSE Append(b, c), cutset)
<1> DEFINE u == Append(t, c)
<1>1. /\ u \in Seq(C) /\ Len(u) = Len(t) + 1 /\ Len(t) \in Nat
      /\ DOMAIN t = 1..Len(t) /\ DOMAIN u = 1..(Len(t) + 1)
      /\ \A k \in 1..Len(t) : u[k] = t[k]
      /\ u[Len(t) + 1] = c
  BY AppendProperties
<1>2. CASE w = <<>> /\ b = <<>> /\ \A k \in DOMAIN t : t[k] \in cutset
  <2> HIDE DEF u
  <2>1. \A k \in DOMAIN u : u[k] \in cutset
    BY <1>1, <1>2
  <2> QED
    BY <1>2, <2>1 DEF Writes, u
<1>3. ASSUME NEW i \in DOMAIN t, NEW j \in DOMAIN t,
             i <= j, t[i] \notin cutset, t[j] \notin cutset,
             \A k \in DOMAIN t : k < i \/ k > j => t[k] \in cutset,
             w = SubSeq(t, i, j), b = SubSeq(t, j + 1, Len(t))
      PROVE  Writes(u, w, IF w = <<>> THEN <<>> ELSE Append(b, c), cutset)
  <2>1. w # <<>>
    BY <1>1, <1>3, WritesNonEmpty
  <2>2. SubSeq(u, i, j) = SubSeq(t, i, j)
    BY <1>1, SubSeqOfAppend
  <2>3. SubSeq(u, j + 1, Len(u)) = Append(SubSeq(t, j + 1, Len(t)), c)
    <3>1. j + 1 \in 1..(Len(t) + 1) /\ 0 \in 0..Len(t)
      BY <1>1
    <3>2. SubSeq(u, j + 1, Len(t) + 1) = Append(SubSeq(t, j + 1, Len(t)), c)
      BY <3>1, SubSeqOfAppend
    <3> QED
      BY <1>1, <3>2
  <2> HIDE DEF u
  <2>4. i \in DOMAIN u /\ j \in DOMAIN u /\ u[i] = t[i] /\ u[j] = t[j]
    BY <1>1
  <2>5. ASSUME NEW k \in DOMAIN u, k < i \/ k > j PROVE u[k] \in cutset
    <3>1. CASE k \in DOMAIN t
      BY <1>1, <1>3, <2>5, <3>1
    <3>2. CASE k = Len(t) + 1
      BY <1>1, <3>2
    <3> QED
      BY <1>1, <3>1, <3>2
  <2> QED
    BY <1>3, <2>1, <2>2, <2>3, <2>4, <2>5 DEF Writes
<1> QED
  BY <1>2, <1>3 DEF Writes

\* A letter more: the blanks before it belong to the word.
LEMMA WritesLetter ==
    ASSUME NEW C, NEW t \in Seq(C), NEW w, NEW b, NEW cutset,
           Writes(t, w, b, cutset), NEW c \in C, c \notin cutset
    PROVE  Writes(Append(t, c), w \o b \o <<c>>, <<>>, cutset)
<1> DEFINE u == Append(t, c)
           n == Len(t) + 1
<1>1. /\ u \in Seq(C) /\ Len(u) = n /\ Len(t) \in Nat
      /\ DOMAIN t = 1..Len(t) /\ DOMAIN u = 1..n
      /\ \A k \in 1..Len(t) : u[k] = t[k]
      /\ u[n] = c
  BY AppendProperties
<1> HIDE DEF u
<1>2. n \in DOMAIN u /\ SubSeq(u, n + 1, Len(u)) = <<>>
  BY <1>1, SubSeqEmpty
<1>3. ASSUME NEW i \in DOMAIN u, u[i] \notin cutset, i <= n,
             \A k \in DOMAIN u : k < i => u[k] \in cutset,
             w \o b \o <<c>> = SubSeq(u, i, n)
      PROVE  Writes(u, w \o b \o <<c>>, <<>>, cutset)
  <2>1. \A k \in DOMAIN u : k < i \/ k > n => u[k] \in cutset
    BY <1>1, <1>3
  <2> QED
    BY <1>1, <1>2, <1>3, <2>1 DEF Writes
<1>4. CASE w = <<>> /\ b = <<>> /\ \A k \in DOMAIN t : t[k] \in cutset
  <2>1. SubSeq(u, n, n) = Append(SubSeq(t, n, Len(t)), c)
    BY <1>1, SubSeqOfAppend DEF u
  <2>2. SubSeq(t, n, Len(t)) = <<>>
    BY <1>1, SubSeqEmpty
  <2>3. w \o b \o <<c>> = SubSeq(u, n, n)
    BY <1>4, <2>1, <2>2
  <2>4. \A k \in DOMAIN u : k < n => u[k] \in cutset
    BY <1>1, <1>4
  <2> QED
    BY <1>1, <1>2, <1>3, <2>3, <2>4, SMTT(30) DEF u
<1>5. ASSUME NEW i \in DOMAIN t, NEW j \in DOMAIN t,
             i <= j, t[i] \notin cutset, t[j] \notin cutset,
             \A k \in DOMAIN t : k < i \/ k > j => t[k] \in cutset,
             w = SubSeq(t, i, j), b = SubSeq(t, j + 1, Len(t))
      PROVE  Writes(u, w \o b \o <<c>>, <<>>, cutset)
  <2>1. w \o b = SubSeq(t, i, Len(t))
    <3>1. i \in 1..(Len(t) + 1) /\ j \in (i - 1)..Len(t) /\ Len(t) \in j..Len(t)
      BY <1>1, <1>5
    <3> QED
      BY <1>5, <3>1, ConcatAdjacentSubSeq
  <2>2. SubSeq(t, i, Len(t)) \in Seq(C)
    <3>1. \A k \in i..Len(t) : t[k] \in C
      BY <1>1
    <3> QED
      BY <1>1, <3>1, SubSeqProperties
  <2>3. SubSeq(t, i, Len(t)) \o <<c>> = Append(SubSeq(t, i, Len(t)), c)
    BY <2>2, AppendIsConcat
  <2>4. SubSeq(u, i, n) = Append(SubSeq(t, i, Len(t)), c)
    <3>1. i \in 1..(Len(t) + 1) /\ 0 \in 0..Len(t)
      BY <1>1
    <3> QED
      BY <3>1, SubSeqOfAppend DEF u
  <2>5. w \o b \o <<c>> = SubSeq(u, i, n)
    BY <2>1, <2>3, <2>4
  <2>6. i \in DOMAIN u /\ u[i] \notin cutset /\ i <= n
    BY <1>1, <1>5
  <2>7. \A k \in DOMAIN u : k < i => u[k] \in cutset
    BY <1>1, <1>5
  <2> QED
    BY <1>3, <2>5, <2>6, <2>7
<1> QED
  BY <1>4, <1>5 DEF Writes, u

\* What is written of the last part, with one more character.
LEMMA WordsStep ==
    ASSUME ListTypeOK, WordsInv, NEW c \in ListCharacters, WriteList(c)
    PROVE  WordsInv'
<1> DEFINE comma == ","
           space == {" "}
<1>1. PICK p \in Nat :
        LastCut(list, comma, p) /\ Writes(SubSeq(list, p + 1, Len(list)), word, blanks, space)
  BY DEF WordsInv
<1> DEFINE t == SubSeq(list, p + 1, Len(list))
           u == SubSeq(list', p + 1, Len(list'))
<1>2. finished = {TrimSpace(x) : x \in Done(list, comma)} \ {<<>>}
  BY DEF WordsInv
<1>3. /\ c = comma /\ c \notin space /\ finished' = Words /\ word' = <<>> /\ blanks' = <<>>
      \/ /\ c # comma /\ c \in space /\ UNCHANGED <<finished, word>>
         /\ blanks' = IF word = <<>> THEN <<>> ELSE Append(blanks, c)
      \/ /\ c # comma /\ c \notin space /\ UNCHANGED finished
         /\ word' = word \o blanks \o <<c>> /\ blanks' = <<>>
  BY DEF WriteList, Letters
<1>4. list \in Seq(ListCharacters) /\ list' = Append(list, c)
  BY DEF ListTypeOK, WriteList
<1>5. ParseTokenList(list) = {TrimSpace(x) : x \in Split(list, comma)} \ {<<>>}
  BY DEF ParseTokenList
<1>6. SUFFICES /\ finished' = {TrimSpace(x) : x \in Done(list', comma)} \ {<<>>}
               /\ \E q \in Nat : /\ LastCut(list', comma, q)
                                 /\ Writes(SubSeq(list', q + 1, Len(list')), word', blanks', space)
  BY DEF WordsInv, LastCut, Done, Split, IsPart, Writes, TrimSpace
<1> HIDE DEF comma, space
<1>7. Done(list', comma) = IF c = comma THEN Split(list, comma) ELSE Done(list, comma)
  BY <1>4, SplitAppend
<1>8. finished' = {TrimSpace(x) : x \in Done(list', comma)} \ {<<>>}
  BY <1>2, <1>3, <1>5, <1>7, ParsedAreWords
<1>9. /\ Len(list') = Len(list) + 1 /\ Len(list) \in Nat
      /\ \A k \in 1..Len(list) : list'[k] = list[k]
      /\ list'[Len(list) + 1] = c
  BY <1>4, AppendProperties
<1>10. CASE c = comma
  <2> DEFINE q == Len(list) + 1
  <2>1. q \in Nat /\ LastCut(list', comma, q)
    BY <1>9, <1>10 DEF LastCut
  <2>2. SubSeq(list', q + 1, Len(list')) = <<>>
    BY <1>9, SubSeqEmpty
  <2>3. Writes(<<>>, <<>>, <<>>, space)
    BY DEF Writes
  <2>4. word' = <<>> /\ blanks' = <<>>
    BY <1>3, <1>10
  <2> QED
    BY <1>8, <2>1, <2>2, <2>3, <2>4
<1>11. CASE c # comma
  <2>1. LastCut(list', comma, p)
    BY <1>1, <1>9, <1>11 DEF LastCut
  <2>2. t \in Seq(ListCharacters)
    <3>1. \A k \in (p + 1)..Len(list) : list[k] \in ListCharacters
      BY <1>4
    <3> QED
      BY <1>9, <3>1, SubSeqProperties
  <2>3. u = Append(t, c)
    <3>1. p + 1 \in 1..(Len(list) + 1) /\ 0 \in 0..Len(list)
      BY <1>1, <1>9 DEF LastCut
    <3> QED
      BY <1>4, <1>9, <3>1, SubSeqOfAppend, ZenonT(60)
  <2> HIDE DEF t, u
  <2>4. Writes(t, word, blanks, space)
    BY <1>1 DEF t
  <2>5. Writes(u, word', blanks', space)
    <3>1. CASE c \in space
      BY <1>3, <1>11, <2>2, <2>3, <2>4, <3>1, WritesBlank
    <3>2. CASE c \notin space
      BY <1>3, <1>11, <2>2, <2>3, <2>4, <3>2, WritesLetter
    <3> QED
      BY <3>1, <3>2
  <2> QED
    BY <1>8, <2>1, <2>5 DEF u
<1> QED
  BY <1>10, <1>11

\* A word still begins and ends with letters.
LEMMA WordShapeStep ==
    ASSUME ListInv, NEW c \in ListCharacters, WriteList(c)
    PROVE  WordShapeInv'
<1> DEFINE space == {" "}
           neww == word \o blanks \o <<c>>
<1>1. list \in Seq(ListCharacters) /\ list' = Append(list, c)
  BY DEF ListInv, ListTypeOK, WriteList
<1>2. PICK p \in Nat :
        LastCut(list, ",", p) /\ Writes(SubSeq(list, p + 1, Len(list)), word, blanks, space)
  BY DEF ListInv, WordsInv
<1>3. /\ word \in Seq(ListCharacters) /\ blanks \in Seq(ListCharacters)
      /\ word = <<>> => blanks = <<>>
  <2>1. \A k \in (p + 1)..Len(list) : list[k] \in ListCharacters
    BY <1>1
  <2> DEFINE t == SubSeq(list, p + 1, Len(list))
  <2>2. t \in Seq(ListCharacters)
    BY <1>1, <2>1, SubSeqProperties
  <2>3. Writes(t, word, blanks, space)
    BY <1>2
  <2> HIDE DEF space, t
  <2> QED
    BY <2>2, <2>3, WritesTypes
<1>4. \/ Words' \subseteq Words
      \/ c \in Letters /\ Words' \subseteq Words \cup {neww}
  BY DEF WriteList, Words
<1>5. ASSUME c \in Letters
      PROVE  /\ neww \in Seq(ListCharacters) /\ neww # <<>>
             /\ neww[1] \in Letters /\ neww[Len(neww)] \notin space
  <2> DEFINE wb == word \o blanks
  <2>1. /\ wb \in Seq(ListCharacters) /\ Len(wb) = Len(word) + Len(blanks)
        /\ Len(word) \in Nat /\ Len(blanks) \in Nat
        /\ \A k \in 1..(Len(word) + Len(blanks)) :
                wb[k] = IF k <= Len(word) THEN word[k] ELSE blanks[k - Len(word)]
    BY <1>3, ConcatProperties
  <2> HIDE DEF wb
  <2>2. neww = Append(wb, c)
    BY <2>1, AppendIsConcat DEF wb
  <2> HIDE DEF neww
  <2>3. /\ neww \in Seq(ListCharacters) /\ neww # <<>> /\ Len(neww) = Len(wb) + 1
        /\ \A k \in 1..Len(wb) : neww[k] = wb[k]
        /\ neww[Len(wb) + 1] = c
    BY <2>1, <2>2, AppendProperties
  <2>4. neww[1] \in Letters
    <3>1. CASE word = <<>>
      <4>1. Len(wb) = 0
        BY <1>3, <2>1, <3>1, EmptySeq
      <4> QED
        BY <1>5, <2>3, <4>1
    <3>2. CASE word # <<>>
      <4>1. Len(word) >= 1
        BY <1>3, <3>2, EmptySeq
      <4>2. neww[1] = word[1]
        BY <2>1, <2>3, <4>1
      <4>3. word \in Words
        BY <3>2 DEF Words
      <4> QED
        BY <4>2, <4>3 DEF ListInv, WordShapeInv
    <3> QED
      BY <3>1, <3>2
  <2>5. neww[Len(neww)] \notin space
    BY <1>5, <2>3 DEF Letters
  <2> QED
    BY <2>3, <2>4, <2>5
<1> HIDE DEF neww
<1>6. ASSUME NEW w \in Words'
      PROVE  /\ w \in Seq(ListCharacters) /\ w # <<>>
             /\ w[1] \in Letters /\ w[Len(w)] \notin space
  BY <1>4, <1>5, <1>6 DEF ListInv, WordShapeInv
<1> QED
  BY <1>6 DEF WordShapeInv

\* A character of the list or of the header.
LEMMA ListStep ==
    ASSUME ListInv, [ListNext]_listVars
    PROVE  ListInv'
<1> USE ListAssumption
<1>1. ASSUME NEW c \in ListCharacters, WriteList(c) PROVE ListInv'
  <2>1. list' \in Seq(ListCharacters) /\ header' = header
    BY <1>1, AppendProperties DEF ListInv, ListTypeOK, WriteList
  <2>2. ListTypeOK'
    BY <2>1 DEF ListInv, ListTypeOK
  <2>3. WordsInv'
    BY <1>1, WordsStep DEF ListInv
  <2>4. WordShapeInv'
    BY <1>1, WordShapeStep
  <2> QED
    BY <2>2, <2>3, <2>4 DEF ListInv
<1>2. ASSUME NEW c \in ListCharacters, WriteHeader(c) PROVE ListInv'
  <2>1. UNCHANGED <<list, finished, word, blanks>> /\ header' = Append(header, c)
    BY <1>2 DEF WriteHeader
  <2>2. Len(header) \in Nat /\ Len(header) < MaxHeader
    BY <1>2 DEF WriteHeader, ListInv, ListTypeOK
  <2>3. header' \in Seq(ListCharacters) /\ Len(header') = Len(header) + 1
    BY <2>1, AppendProperties DEF ListInv, ListTypeOK
  <2>4. ListTypeOK'
    BY <2>1, <2>2, <2>3 DEF ListInv, ListTypeOK
  <2>5. WordsInv' /\ WordShapeInv'
    BY <2>1 DEF ListInv, WordsInv, WordShapeInv, Words
  <2> QED
    BY <2>4, <2>5 DEF ListInv
<1>3. CASE UNCHANGED listVars
  BY <1>3 DEF listVars, ListInv, ListTypeOK, WordsInv, WordShapeInv, Words
<1> QED
  BY <1>1, <1>2, <1>3 DEF ListNext

\* Before the first character is written.
LEMMA ListStart == ListInit => ListInv
<1> SUFFICES ASSUME ListInit PROVE ListInv
  OBVIOUS
<1> DEFINE comma == ","
           space == {" "}
<1>1. list = <<>> /\ header = <<>> /\ finished = {} /\ word = <<>> /\ blanks = <<>>
  BY DEF ListInit
<1>2. ListTypeOK
  BY <1>1, ListAssumption, EmptySeq DEF ListTypeOK
<1>3. WordShapeInv
  BY <1>1 DEF WordShapeInv, Words
<1>4. \A x \in Done(list, comma) : FALSE
  <2> HIDE DEF comma
  <2> QED
    BY <1>1, EmptySeq DEF Done, IsPart
<1>5. finished = {TrimSpace(x) : x \in Done(list, comma)} \ {<<>>}
  BY <1>1, <1>4
<1>6. LastCut(list, comma, 0)
  <2> HIDE DEF comma
  <2> QED
    BY <1>1, EmptySeq DEF LastCut
<1>7. Writes(SubSeq(list, 0 + 1, Len(list)), word, blanks, space)
  <2>1. SubSeq(list, 0 + 1, Len(list)) = <<>>
    BY <1>1, SubSeqEmpty, EmptySeq
  <2> HIDE DEF space
  <2> QED
    BY <1>1, <2>1 DEF Writes
<1> QED
  BY <1>2, <1>3, <1>5, <1>6, <1>7 DEF ListInv, WordsInv

\* The invariant of the token lists.
LEMMA ListAlways == ListSpec => []ListInv
  BY ListStart, ListStep, PTL DEF ListSpec

\* n times the character c.
Repeat(c, n) == [i \in 1..n |-> c]

\* Repeat is a sequence.
LEMMA RepeatIsSeq ==
    ASSUME NEW C, NEW c \in C, NEW n \in Nat
    PROVE  /\ Repeat(c, n) \in Seq(C) /\ Len(Repeat(c, n)) = n
           /\ \A k \in 1..n : Repeat(c, n)[k] = c
  BY DEF Repeat

\* Three sequences in a row.
LEMMA ThreeParts ==
    ASSUME NEW C, NEW a \in Seq(C), NEW w \in Seq(C), NEW b \in Seq(C)
    PROVE  /\ a \o w \o b \in Seq(C)
           /\ Len(a \o w \o b) = Len(a) + Len(w) + Len(b)
           /\ \A k \in 1..Len(a) : (a \o w \o b)[k] = a[k]
           /\ \A k \in 1..Len(w) : (a \o w \o b)[Len(a) + k] = w[k]
           /\ \A k \in 1..Len(b) : (a \o w \o b)[Len(a) + Len(w) + k] = b[k]
<1> DEFINE h == a \o w
           s == h \o b
<1>1. Len(a) \in Nat /\ Len(w) \in Nat /\ Len(b) \in Nat
  OBVIOUS
<1>2. /\ h \in Seq(C) /\ Len(h) = Len(a) + Len(w)
      /\ \A k \in 1..(Len(a) + Len(w)) : h[k] = IF k <= Len(a) THEN a[k] ELSE w[k - Len(a)]
  BY ConcatProperties
<1>3. /\ s \in Seq(C) /\ Len(s) = Len(h) + Len(b)
      /\ \A k \in 1..(Len(h) + Len(b)) : s[k] = IF k <= Len(h) THEN h[k] ELSE b[k - Len(h)]
  <2>1. h \in Seq(C)
    BY <1>2
  <2> HIDE DEF h
  <2> QED
    BY <2>1, ConcatProperties
<1> HIDE DEF h, s
<1>4. ASSUME NEW k \in 1..Len(a) PROVE s[k] = a[k]
  <2>1. k \in 1..(Len(a) + Len(w)) /\ k \in 1..(Len(h) + Len(b)) /\ k <= Len(h) /\ k <= Len(a)
    BY <1>1, <1>2
  <2> QED
    BY <1>2, <1>3, <2>1
<1>5. ASSUME NEW k \in 1..Len(w) PROVE s[Len(a) + k] = w[k]
  <2> DEFINE m == Len(a) + k
  <2>1. /\ m \in 1..(Len(a) + Len(w)) /\ m \in 1..(Len(h) + Len(b))
        /\ m <= Len(h) /\ ~(m <= Len(a)) /\ m - Len(a) = k
    BY <1>1, <1>2
  <2> HIDE DEF m
  <2>2. s[m] = w[k]
    BY <1>2, <1>3, <2>1
  <2> QED
    BY <2>2 DEF m
<1>6. ASSUME NEW k \in 1..Len(b) PROVE s[Len(a) + Len(w) + k] = b[k]
  <2> DEFINE m == Len(a) + Len(w) + k
  <2>1. m \in 1..(Len(h) + Len(b)) /\ ~(m <= Len(h)) /\ m - Len(h) = k
    BY <1>1, <1>2
  <2> HIDE DEF m
  <2>2. s[m] = b[k]
    BY <1>3, <2>1
  <2> QED
    BY <2>2 DEF m
<1> QED
  BY <1>1, <1>2, <1>3, <1>4, <1>5, <1>6 DEF s, h

\* w with n characters c before it and m after it.
Around(c, n, w, m) == Repeat(c, n) \o w \o Repeat(c, m)

\* What a reader of it sees.
LooksAround(C, s, c, n, w, m) ==
    /\ s \in Seq(C) /\ Len(s) = n + Len(w) + m
    /\ \A k \in 1..n : s[k] = c
    /\ \A k \in 1..Len(w) : s[n + k] = w[k]
    /\ \A k \in 1..m : s[n + Len(w) + k] = c

\* Around is what its reader sees.
LEMMA AroundIs ==
    ASSUME NEW C, NEW w \in Seq(C), NEW c \in C, NEW n \in Nat, NEW m \in Nat
    PROVE  LooksAround(C, Around(c, n, w, m), c, n, w, m)
<1> DEFINE a == Repeat(c, n)
           b == Repeat(c, m)
           s == Around(c, n, w, m)
<1>1. /\ a \in Seq(C) /\ Len(a) = n /\ \A k \in 1..n : a[k] = c
      /\ b \in Seq(C) /\ Len(b) = m /\ \A k \in 1..m : b[k] = c
  BY RepeatIsSeq
<1>2. s = a \o w \o b
  BY DEF Around
<1> HIDE DEF a, b, s
<1>3. /\ s \in Seq(C) /\ Len(s) = Len(a) + Len(w) + Len(b)
      /\ \A k \in 1..Len(a) : s[k] = a[k]
      /\ \A k \in 1..Len(w) : s[Len(a) + k] = w[k]
      /\ \A k \in 1..Len(b) : s[Len(a) + Len(w) + k] = b[k]
  <2>1. a \in Seq(C) /\ b \in Seq(C)
    BY <1>1
  <2> QED
    BY <1>2, <2>1, ThreeParts, SMTT(30)
<1> QED
  BY <1>1, <1>3 DEF s, LooksAround

\* Part of a sequence between two places of it.
LEMMA Between ==
    ASSUME NEW C, NEW s \in Seq(C), NEW i \in DOMAIN s, NEW j \in DOMAIN s, i <= j
    PROVE  /\ SubSeq(s, i, j) \in Seq(C) /\ Len(SubSeq(s, i, j)) = j - i + 1
           /\ \A k \in 1..(j - i + 1) : SubSeq(s, i, j)[k] = s[i + k - 1]
<1>1. i \in Int /\ j \in Int /\ \A k \in i..j : s[k] \in C
  OBVIOUS
<1> QED
  BY <1>1, SubSeqProperties

\* Trim finds a word among the characters around it.
LEMMA SpacesAround ==
    ASSUME NEW C, NEW w \in Seq(C), w # <<>>, NEW c \in C, NEW cutset,
           c \in cutset, w[1] \notin cutset, w[Len(w)] \notin cutset,
           NEW n \in Nat, NEW m \in Nat
    PROVE  Trim(Around(c, n, w, m), cutset) = w
<1> DEFINE s == Around(c, n, w, m)
           i == n + 1
           j == n + Len(w)
<1>1. /\ s \in Seq(C) /\ Len(s) = n + Len(w) + m
      /\ \A k \in 1..n : s[k] = c
      /\ \A k \in 1..Len(w) : s[n + k] = w[k]
      /\ \A k \in 1..m : s[n + Len(w) + k] = c
  <2>1. LooksAround(C, s, c, n, w, m)
    BY AroundIs
  <2> QED
    BY <2>1 DEF LooksAround
<1> HIDE DEF s
<1>2. Len(w) \in Nat /\ Len(w) >= 1 /\ DOMAIN s = 1..(n + Len(w) + m)
  BY <1>1, EmptySeq
<1>3. i \in DOMAIN s /\ j \in DOMAIN s /\ i \in Int /\ j \in Int /\ j - i + 1 = Len(w) /\ i <= j
  BY <1>2
<1>4. s[i] = w[1] /\ s[j] = w[Len(w)]
  <2>1. 1 \in 1..Len(w) /\ Len(w) \in 1..Len(w)
    BY <1>2
  <2> QED
    BY <1>1, <2>1
<1>5. ASSUME NEW k \in DOMAIN s, k < i \/ k > j PROVE s[k] \in cutset
  <2>1. CASE k < i
    <3>1. k \in 1..n
      BY <1>2, <2>1
    <3> QED
      BY <1>1, <3>1
  <2>2. CASE k > j
    <3>1. k - j \in 1..m /\ j + (k - j) = k
      BY <1>2, <2>2
    <3>2. s[j + (k - j)] = c
      BY <1>1, <3>1
    <3> QED
      BY <3>1, <3>2
  <2> QED
    BY <1>5, <2>1, <2>2
<1>6. ASSUME NEW k \in 1..Len(w) PROVE s[i + k - 1] = w[k]
  <2>1. i + k - 1 = n + k
    BY <1>2
  <2> QED
    BY <1>1, <2>1
<1> HIDE DEF i, j
<1>7. Trim(s, cutset) = SubSeq(s, i, j)
  BY <1>1, <1>3, <1>4, <1>5, TrimIs, ZenonT(60)
<1>8. /\ SubSeq(s, i, j) \in Seq(C) /\ Len(SubSeq(s, i, j)) = j - i + 1
      /\ \A k \in 1..(j - i + 1) : SubSeq(s, i, j)[k] = s[i + k - 1]
  BY <1>1, <1>3, Between, SMTT(30)
<1>9. SubSeq(s, i, j) = w
  BY <1>2, <1>3, <1>6, <1>8, SeqEqual
<1> QED
  BY <1>7, <1>9 DEF s

\* What Trim cuts off are runs of the one character of cutset.
LEMMA TrimmedAround ==
    ASSUME NEW C, NEW s \in Seq(C), NEW c \in C, NEW cutset, \A x \in cutset : x = c,
           Trim(s, cutset) # <<>>
    PROVE  \E n, m \in 0..Len(s) : s = Around(c, n, Trim(s, cutset), m)
<1>1. PICK i, j \in DOMAIN s :
        /\ i <= j
        /\ \A k \in DOMAIN s : k < i \/ k > j => s[k] \in cutset
        /\ Trim(s, cutset) = SubSeq(s, i, j)
  <2>1. \E i, j \in DOMAIN s :
          /\ i <= j /\ s[i] \notin cutset /\ s[j] \notin cutset
          /\ \A k \in DOMAIN s : k < i \/ k > j => s[k] \in cutset
          /\ Trim(s, cutset) = SubSeq(s, i, j)
    BY TrimCases
  <2> QED
    BY <2>1
<1>2. Len(s) \in Nat /\ DOMAIN s = 1..Len(s) /\ i \in 1..Len(s) /\ j \in 1..Len(s)
  OBVIOUS
<1> DEFINE n == i - 1
           m == Len(s) - j
           w == SubSeq(s, i, j)
           t == Around(c, n, w, m)
<1>3. n \in 0..Len(s) /\ m \in 0..Len(s) /\ n \in Nat /\ m \in Nat
  BY <1>2
<1>4. /\ w \in Seq(C) /\ Len(w) = j - i + 1
      /\ \A k \in 1..(j - i + 1) : w[k] = s[i + k - 1]
  BY <1>1, Between
<1> HIDE DEF w
<1>5. /\ t \in Seq(C) /\ Len(t) = n + Len(w) + m
      /\ \A k \in 1..n : t[k] = c
      /\ \A k \in 1..Len(w) : t[n + k] = w[k]
      /\ \A k \in 1..m : t[n + Len(w) + k] = c
  <2>1. LooksAround(C, t, c, n, w, m)
    BY <1>3, <1>4, AroundIs
  <2> QED
    BY <2>1 DEF LooksAround
<1> HIDE DEF t
<1>6. Len(t) = Len(s)
  BY <1>2, <1>4, <1>5
<1>7. ASSUME NEW k \in 1..Len(s) PROVE t[k] = s[k]
  <2>1. CASE k < i
    <3>1. k \in 1..n /\ s[k] = c
      BY <1>1, <1>2, <2>1, SMTT(30)
    <3> QED
      BY <1>5, <3>1
  <2>2. CASE i <= k /\ k <= j
    <3> DEFINE h == k - n
    <3>1. h \in 1..(j - i + 1) /\ n + h = k /\ i + h - 1 = k
      BY <1>2, <2>2
    <3> HIDE DEF h, n
    <3>2. t[n + h] = w[h] /\ w[h] = s[i + h - 1]
      BY <1>4, <1>5, <3>1
    <3> QED
      BY <3>1, <3>2
  <2>3. CASE j < k
    <3> DEFINE h == k - j
    <3>1. h \in 1..m /\ n + Len(w) + h = k
      <4>1. /\ Len(w) = j - i + 1 /\ Len(w) \in Int /\ Len(s) \in Int
            /\ i \in Int /\ j \in Int /\ k \in Int /\ k <= Len(s)
        BY <1>2, <1>4
      <4>2. h \in 1..m
        BY <2>3, <4>1
      <4>3. n + Len(w) + h = k
        BY <4>1, SMTT(30) DEF h
      <4> QED
        BY <4>2, <4>3
    <3>2. k \in DOMAIN s /\ k > j
      BY <1>2, <2>3
    <3>3. s[k] = c
      BY <1>1, <3>2
    <3> HIDE DEF h, n, m
    <3>4. t[n + Len(w) + h] = c
      BY <1>5, <3>1
    <3> QED
      BY <3>1, <3>3, <3>4
  <2> QED
    BY <1>2, <2>1, <2>2, <2>3
<1>8. t = s
  BY <1>2, <1>5, <1>6, <1>7, SeqEqual
<1> QED
  BY <1>1, <1>3, <1>8 DEF t, w

\* For every list and header: CheckServiceTokens lets in those, and only those,
\* that bear one of the list's words with blanks around it at most (tokens.go:
\* ParseTokenList, bearerToken, CheckServiceTokens).
THEOREM ListedTokens == ListSpec => []ListedTokensAreValid
<1>1. ListInv => ListedTokensAreValid
  <2> SUFFICES ASSUME ListInv PROVE ListedTokensAreValid
    OBVIOUS
  <2> DEFINE c == " "
             cutset == {c}
             around == \E w \in Words, n, m \in 0..MaxHeader : header = Around(c, n, w, m)
  <2>1. ParseTokenList(list) = Words
    BY ParsedAreWords DEF ListInv
  <2>2. c \in ListCharacters /\ header \in Seq(ListCharacters)
    BY DEF ListInv, ListTypeOK, ListCharacters
  <2>3. Len(header) \in Nat /\ MaxHeader \in Nat /\ Len(header) <= MaxHeader
    BY ListAssumption DEF ListInv, ListTypeOK
  <2>4. \A w \in Words : /\ w \in Seq(ListCharacters) /\ w # <<>>
                         /\ w[1] \notin cutset /\ w[Len(w)] \notin cutset
    BY DEF ListInv, WordShapeInv, Letters
  <2>5. ListedTokensAreValid <=>
            (scheme = "Bearer " /\ Trim(header, cutset) \in Words <=> scheme = "Bearer " /\ around)
    BY <2>1 DEF ListedTokensAreValid, CheckServiceTokens, bearerToken, TrimSpace, Around, Repeat
  <2>6. c \in cutset /\ \A x \in cutset : x = c
    OBVIOUS
  <2> HIDE DEF c, cutset
  <2>7. ASSUME Trim(header, cutset) \in Words PROVE around
    <3>1. Trim(header, cutset) # <<>>
      BY <2>4, <2>7
    <3>2. PICK n, m \in 0..Len(header) :
            header = Around(c, n, Trim(header, cutset), m)
      BY <2>2, <2>6, <3>1, TrimmedAround
    <3>3. n \in 0..MaxHeader /\ m \in 0..MaxHeader
      BY <2>3
    <3> QED
      BY <2>7, <3>2, <3>3
  <2>8. ASSUME NEW w \in Words, NEW n \in 0..MaxHeader, NEW m \in 0..MaxHeader,
               header = Around(c, n, w, m)
        PROVE  Trim(header, cutset) = w
    <3>1. n \in Nat /\ m \in Nat
      BY <2>3
    <3>2. w \in Seq(ListCharacters) /\ w # <<>> /\ w[1] \notin cutset /\ w[Len(w)] \notin cutset
      BY <2>4
    <3> QED
      BY <2>2, <2>6, <2>8, <3>1, <3>2, SpacesAround
  <2> QED
    BY <2>5, <2>7, <2>8
<1> QED
  BY <1>1, ListAlways, PTL

-----------------------------------------------------------------------------
(* Hostname labels.                                                        *)

\* A step of ReplaceRuns: what it has made of the first n characters of s,
\* given what runs says it made of fewer.
RunStep(runs, s, chars, char, n) ==
    IF n = 0 THEN <<>>
    ELSE IF s[n] \notin chars THEN Append(runs[n - 1], s[n])
    ELSE IF n = 1 \/ s[n - 1] \notin chars THEN Append(runs[n - 1], char)
    ELSE runs[n - 1]

\* runs says it of as many as m characters.
IsRuns(runs, s, chars, char, m) ==
    runs = [n \in 0..m |-> RunStep(runs, s, chars, char, n)]

\* There is such a function, for any number of characters.
LEMMA RunsExist ==
    ASSUME NEW s, NEW chars, NEW char, NEW m \in Nat
    PROVE  \E runs : IsRuns(runs, s, chars, char, m)
<1> DEFINE S == {n \in Nat : \E runs : IsRuns(runs, s, chars, char, n)}
<1>1. 0 \in S
  <2>1. IsRuns([n \in 0..0 |-> <<>>], s, chars, char, 0)
    BY DEF IsRuns, RunStep
  <2> QED
    BY <2>1
<1>2. ASSUME NEW n \in Nat, n \in S PROVE n + 1 \in S
  <2>1. PICK runs : IsRuns(runs, s, chars, char, n)
    BY <1>2
  <2> DEFINE more == [k \in 0..(n + 1) |->
                        IF k = n + 1 THEN RunStep(runs, s, chars, char, k) ELSE runs[k]]
  <2>2. ASSUME NEW k \in 0..(n + 1) PROVE more[k] = RunStep(more, s, chars, char, k)
    <3>1. k # 0 => more[k - 1] = runs[k - 1]
      OBVIOUS
    <3>2. k # n + 1 => runs[k] = RunStep(runs, s, chars, char, k)
      BY <2>1 DEF IsRuns
    <3>3. RunStep(more, s, chars, char, k) = RunStep(runs, s, chars, char, k)
      BY <3>1 DEF RunStep
    <3> QED
      BY <3>2, <3>3
  <2> HIDE DEF more
  <2>3. IsRuns(more, s, chars, char, n + 1)
    BY <2>2 DEF IsRuns, more
  <2> QED
    BY <2>3
<1> QED
  BY <1>1, <1>2, Induction

\* ReplaceRuns is one.
LEMMA RunsOf ==
    ASSUME NEW C, NEW s \in Seq(C), NEW chars, NEW char
    PROVE  \E runs : /\ IsRuns(runs, s, chars, char, Len(s))
                     /\ ReplaceRuns(s, chars, char) = runs[Len(s)]
<1> DEFINE runs == CHOOSE f : f = [n \in 0..Len(s) |-> RunStep(f, s, chars, char, n)]
<1>1. Len(s) \in Nat
  OBVIOUS
<1>2. IsRuns(runs, s, chars, char, Len(s))
  BY <1>1, RunsExist, SMTT(30) DEF IsRuns
<1>3. ReplaceRuns(s, chars, char) = runs[Len(s)]
  BY DEF ReplaceRuns, RunStep
<1> QED
  BY <1>2, <1>3

\* What ReplaceRuns returns, and how it ends.
LEMMA ReplaceRunsShape ==
    ASSUME NEW C, NEW s \in Seq(C), NEW chars, NEW char \in C
    PROVE  /\ ReplaceRuns(s, chars, char) \in Seq(C)
           /\ s = <<>> => ReplaceRuns(s, chars, char) = <<>>
           /\ s # <<>> =>
                /\ ReplaceRuns(s, chars, char) # <<>>
                /\ ReplaceRuns(s, chars, char)[Len(ReplaceRuns(s, chars, char))] =
                        IF s[Len(s)] \in chars THEN char ELSE s[Len(s)]
<1>1. PICK runs : /\ IsRuns(runs, s, chars, char, Len(s))
                  /\ ReplaceRuns(s, chars, char) = runs[Len(s)]
  BY RunsOf
<1>2. Len(s) \in Nat /\ \A n \in 1..Len(s) : s[n] \in C
  OBVIOUS
<1>3. \A n \in 0..Len(s) : runs[n] = RunStep(runs, s, chars, char, n)
  BY <1>1 DEF IsRuns
<1> DEFINE Last(n) == IF s[n] \in chars THEN char ELSE s[n]
           Good(n) == /\ runs[n] \in Seq(C)
                      /\ n = 0 => runs[n] = <<>>
                      /\ n # 0 => Len(runs[n]) > 0 /\ runs[n][Len(runs[n])] = Last(n)
           S == {n \in Nat : n <= Len(s) => Good(n)}
<1>4. 0 \in S
  <2>1. runs[0] = <<>>
    BY <1>2, <1>3 DEF RunStep
  <2>2. runs[0] \in Seq(C)
    BY <2>1
  <2> QED
    BY <2>1, <2>2
<1>5. ASSUME NEW n \in Nat, n \in S PROVE n + 1 \in S
  <2> SUFFICES ASSUME n + 1 <= Len(s) PROVE Good(n + 1)
    OBVIOUS
  <2>1. n + 1 \in 1..Len(s) /\ n + 1 \in 0..Len(s) /\ n + 1 # 0 /\ (n + 1) - 1 = n
    BY <1>2
  <2>2. runs[n + 1] = RunStep(runs, s, chars, char, n + 1)
    BY <1>3, <2>1
  <2>3. runs[n] \in Seq(C) /\ (n # 0 => Len(runs[n]) > 0 /\ runs[n][Len(runs[n])] = Last(n))
    BY <1>2, <1>5
  <2>4. ASSUME NEW x \in C, runs[n + 1] = Append(runs[n], x), x = Last(n + 1)
        PROVE  Good(n + 1)
    <3>1. /\ Append(runs[n], x) \in Seq(C)
          /\ Len(Append(runs[n], x)) = Len(runs[n]) + 1
          /\ Append(runs[n], x)[Len(runs[n]) + 1] = x
      BY <2>3, AppendProperties
    <3>2. Len(runs[n]) \in Nat
      BY <2>3
    <3> QED
      BY <2>1, <2>4, <3>1, <3>2
  <2>5. CASE s[n + 1] \notin chars
    BY <1>2, <2>1, <2>2, <2>4, <2>5 DEF RunStep
  <2>6. CASE s[n + 1] \in chars /\ (n = 0 \/ s[n] \notin chars)
    BY <2>1, <2>2, <2>4, <2>6 DEF RunStep
  <2>7. CASE s[n + 1] \in chars /\ n # 0 /\ s[n] \in chars
    <3>1. runs[n + 1] = runs[n]
      BY <2>1, <2>2, <2>7 DEF RunStep
    <3> QED
      BY <2>1, <2>3, <2>7, <3>1
  <2> QED
    BY <2>5, <2>6, <2>7
<1>6. Nat \subseteq S
  BY <1>4, <1>5, Induction
<1> HIDE DEF S
<1>7. Len(s) \in S
  BY <1>2, <1>6
<1>8. Good(Len(s))
  BY <1>2, <1>7 DEF S
<1> QED
  BY <1>1, <1>2, <1>8, EmptySeq

\* ReplaceRuns of a character more.
LEMMA ReplaceRunsAppend ==
    ASSUME NEW C, NEW s \in Seq(C), NEW c \in C, NEW chars, NEW char \in C
    PROVE  ReplaceRuns(Append(s, c), chars, char) =
                IF c \notin chars THEN Append(ReplaceRuns(s, chars, char), c)
                ELSE IF s = <<>> \/ s[Len(s)] \notin chars
                     THEN Append(ReplaceRuns(s, chars, char), char)
                ELSE ReplaceRuns(s, chars, char)
<1> DEFINE t == Append(s, c)
<1>1. /\ t \in Seq(C) /\ Len(t) = Len(s) + 1 /\ Len(s) \in Nat
      /\ \A k \in 1..Len(s) : t[k] = s[k]
      /\ t[Len(s) + 1] = c
  BY AppendProperties
<1> HIDE DEF t
<1>2. PICK runs : /\ IsRuns(runs, s, chars, char, Len(s))
                  /\ ReplaceRuns(s, chars, char) = runs[Len(s)]
  BY RunsOf
<1>3. PICK more : /\ IsRuns(more, t, chars, char, Len(t))
                  /\ ReplaceRuns(t, chars, char) = more[Len(t)]
  BY <1>1, RunsOf
<1>4. \A n \in 0..Len(s) : runs[n] = RunStep(runs, s, chars, char, n)
  BY <1>2 DEF IsRuns
<1>5. \A n \in 0..Len(t) : more[n] = RunStep(more, t, chars, char, n)
  BY <1>3 DEF IsRuns
<1> DEFINE S == {n \in Nat : n <= Len(s) => more[n] = runs[n]}
<1>6. 0 \in S
  BY <1>1, <1>4, <1>5 DEF RunStep
<1>7. ASSUME NEW n \in Nat, n \in S PROVE n + 1 \in S
  <2> SUFFICES ASSUME n + 1 <= Len(s) PROVE more[n + 1] = runs[n + 1]
    OBVIOUS
  <2>1. /\ n + 1 \in 0..Len(s) /\ n + 1 \in 0..Len(t) /\ (n + 1) - 1 = n
        /\ n + 1 \in 1..Len(s) /\ (n # 0 => n \in 1..Len(s))
    BY <1>1
  <2>2. more[n] = runs[n] /\ t[n + 1] = s[n + 1] /\ (n # 0 => t[n] = s[n])
    BY <1>1, <1>7, <2>1
  <2>3. /\ more[n + 1] = RunStep(more, t, chars, char, n + 1)
        /\ runs[n + 1] = RunStep(runs, s, chars, char, n + 1)
    BY <1>4, <1>5, <2>1
  <2>4. RunStep(more, t, chars, char, n + 1) = RunStep(runs, s, chars, char, n + 1)
    <3> HIDE DEF S
    <3>1. CASE n = 0
      BY <2>2, <3>1 DEF RunStep
    <3>2. CASE n # 0
      <4>1. more[(n + 1) - 1] = runs[(n + 1) - 1] /\ t[(n + 1) - 1] = s[(n + 1) - 1]
        BY <2>1, <2>2, <3>2
      <4> QED
        BY <2>2, <4>1 DEF RunStep
    <3> QED
      BY <3>1, <3>2
  <2> QED
    BY <2>3, <2>4
<1>8. Nat \subseteq S
  BY <1>6, <1>7, Induction
<1> HIDE DEF S
<1>9. more[Len(s)] = runs[Len(s)]
  <2>1. Len(s) \in S
    BY <1>1, <1>8
  <2> QED
    BY <1>1, <2>1 DEF S
<1>10. more[Len(s) + 1] = RunStep(more, t, chars, char, Len(s) + 1)
  BY <1>1, <1>5
<1>11. s = <<>> <=> Len(s) + 1 = 1
  BY <1>1, EmptySeq
<1>12. s # <<>> => t[(Len(s) + 1) - 1] = s[Len(s)]
  BY <1>1, <1>11
<1>13. (Len(s) + 1) - 1 = Len(s) /\ Len(s) + 1 # 0
  BY <1>1
<1>14. ReplaceRuns(t, chars, char) =
            IF c \notin chars THEN Append(runs[Len(s)], c)
            ELSE IF s = <<>> \/ s[Len(s)] \notin chars THEN Append(runs[Len(s)], char)
            ELSE runs[Len(s)]
  BY <1>1, <1>3, <1>9, <1>10, <1>11, <1>12, <1>13 DEF RunStep
<1> QED
  BY <1>2, <1>14 DEF t

\* Both replacements of GenerateLabel: one dash for every run of characters
\* that are dashes or others.
Condense(s, others, dashes, dash) ==
    ReplaceRuns(ReplaceRuns(s, others, dash), dashes, dash)

\* What Condense returns.
LEMMA CondenseShape ==
    ASSUME NEW C, NEW s \in Seq(C), NEW others, NEW dashes, NEW dash \in C
    PROVE  /\ Condense(s, others, dashes, dash) \in Seq(C)
           /\ s = <<>> => Condense(s, others, dashes, dash) = <<>>
<1> DEFINE once == ReplaceRuns(s, others, dash)
<1>1. once \in Seq(C) /\ (s = <<>> => once = <<>>)
  BY ReplaceRunsShape
<1> HIDE DEF once
<1>2. /\ ReplaceRuns(once, dashes, dash) \in Seq(C)
      /\ once = <<>> => ReplaceRuns(once, dashes, dash) = <<>>
  BY <1>1, ReplaceRunsShape
<1> QED
  BY <1>1, <1>2 DEF Condense, once

\* Condense of a character more: a dash, unless there is one already.
LEMMA CondenseAppend ==
    ASSUME NEW C, NEW s \in Seq(C), NEW c \in C, NEW others, NEW dash \in C, dash \notin others,
           NEW dashes, dash \in dashes, \A x \in dashes : x = dash
    PROVE  Condense(Append(s, c), others, dashes, dash) =
                IF c \notin others /\ c # dash
                THEN Append(Condense(s, others, dashes, dash), c)
                ELSE IF s = <<>> \/ (s[Len(s)] \notin others /\ s[Len(s)] # dash)
                THEN Append(Condense(s, others, dashes, dash), dash)
                ELSE Condense(s, others, dashes, dash)
<1> DEFINE once == ReplaceRuns(s, others, dash)
           onceMore == ReplaceRuns(Append(s, c), others, dash)
<1>1. /\ once \in Seq(C)
      /\ s = <<>> => once = <<>>
      /\ s # <<>> =>
            once # <<>> /\ once[Len(once)] = IF s[Len(s)] \in others THEN dash ELSE s[Len(s)]
  BY ReplaceRunsShape
<1>2. onceMore = IF c \notin others THEN Append(once, c)
                 ELSE IF s = <<>> \/ s[Len(s)] \notin others THEN Append(once, dash)
                 ELSE once
  BY ReplaceRunsAppend
<1>3. /\ Condense(Append(s, c), others, dashes, dash) = ReplaceRuns(onceMore, dashes, dash)
      /\ Condense(s, others, dashes, dash) = ReplaceRuns(once, dashes, dash)
  BY DEF Condense
<1> HIDE DEF once, onceMore
<1> DEFINE end == once[Len(once)]
<1>4. ASSUME NEW x \in C
      PROVE  ReplaceRuns(Append(once, x), dashes, dash) =
                IF x # dash THEN Append(ReplaceRuns(once, dashes, dash), x)
                ELSE IF once = <<>> \/ end # dash
                THEN Append(ReplaceRuns(once, dashes, dash), dash)
                ELSE ReplaceRuns(once, dashes, dash)
  <2>1. x \in dashes <=> x = dash
    OBVIOUS
  <2>2. once # <<>> => (end \in dashes <=> end = dash)
    OBVIOUS
  <2>3. ReplaceRuns(Append(once, x), dashes, dash) =
                IF x \notin dashes THEN Append(ReplaceRuns(once, dashes, dash), x)
                ELSE IF once = <<>> \/ end \notin dashes
                THEN Append(ReplaceRuns(once, dashes, dash), dash)
                ELSE ReplaceRuns(once, dashes, dash)
    BY <1>1, ReplaceRunsAppend
  <2> QED
    BY <2>1, <2>2, <2>3
<1>5. CASE c \notin others
  <2>1. ReplaceRuns(onceMore, dashes, dash) =
                IF c # dash THEN Append(ReplaceRuns(once, dashes, dash), c)
                ELSE IF once = <<>> \/ end # dash
                THEN Append(ReplaceRuns(once, dashes, dash), dash)
                ELSE ReplaceRuns(once, dashes, dash)
    BY <1>2, <1>4, <1>5
  <2>2. once = <<>> \/ end # dash <=>
            s = <<>> \/ (s[Len(s)] \notin others /\ s[Len(s)] # dash)
    BY <1>1
  <2> QED
    BY <1>3, <1>5, <2>1, <2>2
<1>6. CASE c \in others /\ (s = <<>> \/ s[Len(s)] \notin others)
  <2>1. ReplaceRuns(onceMore, dashes, dash) =
                IF once = <<>> \/ end # dash
                THEN Append(ReplaceRuns(once, dashes, dash), dash)
                ELSE ReplaceRuns(once, dashes, dash)
    BY <1>2, <1>4, <1>6
  <2>2. once = <<>> \/ end # dash <=>
            s = <<>> \/ (s[Len(s)] \notin others /\ s[Len(s)] # dash)
    BY <1>1
  <2> QED
    BY <1>3, <1>6, <2>1, <2>2
<1>7. CASE c \in others /\ s # <<>> /\ s[Len(s)] \in others
  BY <1>2, <1>3, <1>7
<1> QED
  BY <1>5, <1>6, <1>7

\* slug is what is left of e without the dashes around it; a gap after it is
\* one dash.
Slugged(e, w, g, dash) ==
    \/ w = <<>> /\ \A k \in DOMAIN e : e[k] = dash
    \/ \E i, j \in DOMAIN e :
        /\ i <= j /\ e[i] # dash /\ e[j] # dash
        /\ \A k \in DOMAIN e : k < i \/ k > j => e[k] = dash
        /\ w = SubSeq(e, i, j)
        /\ Len(e) = IF g THEN j + 1 ELSE j

\* Trim finds the slug.
LEMMA SluggedTrim ==
    ASSUME NEW C, NEW e \in Seq(C), NEW w, NEW g, NEW dash, Slugged(e, w, g, dash),
           NEW dashes, dash \in dashes, \A x \in dashes : x = dash
    PROVE  Trim(e, dashes) = w
<1>1. CASE w = <<>> /\ \A k \in DOMAIN e : e[k] \in dashes
  BY <1>1, TrimAll
<1>2. CASE \E i, j \in DOMAIN e :
            /\ e[i] \notin dashes /\ e[j] \notin dashes
            /\ \A k \in DOMAIN e : k < i \/ k > j => e[k] \in dashes
            /\ w = SubSeq(e, i, j)
  BY <1>2, TrimIs
<1> QED
  BY <1>1, <1>2 DEF Slugged

\* A dash more.
LEMMA SluggedGap ==
    ASSUME NEW C, NEW e \in Seq(C), NEW w, NEW g, NEW dash \in C, Slugged(e, w, g, dash),
           w = <<>> \/ ~g
    PROVE  Slugged(Append(e, dash), w, TRUE, dash)
<1> DEFINE t == Append(e, dash)
<1>1. /\ t \in Seq(C) /\ Len(t) = Len(e) + 1 /\ Len(e) \in Nat
      /\ DOMAIN t = 1..(Len(e) + 1) /\ DOMAIN e = 1..Len(e)
      /\ \A k \in 1..Len(e) : t[k] = e[k]
      /\ t[Len(e) + 1] = dash
  BY AppendProperties
<1>2. ASSUME NEW i \in DOMAIN e, NEW j \in DOMAIN e
      PROVE  SubSeq(t, i, j) = SubSeq(e, i, j)
  BY SubSeqOfAppend
<1> HIDE DEF t
<1>3. CASE w = <<>> /\ \A k \in DOMAIN e : e[k] = dash
  <2>1. \A k \in DOMAIN t : t[k] = dash
    BY <1>1, <1>3
  <2> QED
    BY <1>3, <2>1 DEF Slugged, t
<1>4. CASE \E i, j \in DOMAIN e :
                /\ i <= j /\ e[i] # dash /\ e[j] # dash
                /\ \A k \in DOMAIN e : k < i \/ k > j => e[k] = dash
                /\ w = SubSeq(e, i, j)
                /\ Len(e) = IF g THEN j + 1 ELSE j
  <2>1. PICK i, j \in DOMAIN e :
                /\ i <= j /\ e[i] # dash /\ e[j] # dash
                /\ \A k \in DOMAIN e : k < i \/ k > j => e[k] = dash
                /\ w = SubSeq(e, i, j)
                /\ Len(e) = IF g THEN j + 1 ELSE j
    BY <1>4
  <2>2. w # <<>>
    <3>1. Len(SubSeq(e, i, j)) = j - i + 1
      BY <2>1, Between
    <3> QED
      BY <1>1, <2>1, <3>1, EmptySeq, SMTT(30)
  <2>3. /\ i \in DOMAIN t /\ j \in DOMAIN t /\ t[i] # dash /\ t[j] # dash
        /\ \A k \in DOMAIN t : k < i \/ k > j => t[k] = dash
        /\ Len(t) = j + 1
    BY <1>1, <2>1, <2>2
  <2>4. w = SubSeq(t, i, j)
    BY <1>2, <2>1
  <2> QED
    BY <2>1, <2>3, <2>4 DEF Slugged, t
<1> QED
  BY <1>3, <1>4 DEF Slugged

\* Two more characters are one more, twice.
LEMMA ConcatTwo ==
    ASSUME NEW C, NEW w \in Seq(C), NEW c \in C, NEW d \in C
    PROVE  w \o <<c, d>> = Append(Append(w, c), d)
<1>1. <<c, d>> = <<c>> \o <<d>> /\ <<c>> \in Seq(C) /\ <<d>> \in Seq(C)
  <2>1. <<c>> \in Seq(C) /\ <<d>> \in Seq(C)
    OBVIOUS
  <2>2. Append(<<c>>, d) = <<c>> \o <<d>>
    BY <2>1, AppendIsConcat
  <2>3. Append(<<c>>, d) = <<c, d>>
    <3>1. /\ Append(<<c>>, d) \in Seq(C) /\ Len(Append(<<c>>, d)) = Len(<<c>>) + 1
          /\ \A k \in 1..Len(<<c>>) : Append(<<c>>, d)[k] = <<c>>[k]
          /\ Append(<<c>>, d)[Len(<<c>>) + 1] = d
      BY <2>1, AppendProperties
    <3>2. Len(<<c>>) = 1 /\ <<c>>[1] = c
      OBVIOUS
    <3>3. /\ Append(<<c>>, d) \in Seq(C) /\ Len(Append(<<c>>, d)) = 2
          /\ Append(<<c>>, d)[1] = c /\ Append(<<c>>, d)[2] = d
      BY <3>1, <3>2
    <3>4. <<c, d>> \in Seq(C) /\ Len(<<c, d>>) = 2 /\ <<c, d>>[1] = c /\ <<c, d>>[2] = d
      OBVIOUS
    <3>5. \A k \in 1..2 : k = 1 \/ k = 2
      OBVIOUS
    <3> QED
      BY <3>3, <3>4, <3>5, SeqEqual
  <2> QED
    BY <2>1, <2>2, <2>3
<1>2. w \o (<<c>> \o <<d>>) = (w \o <<c>>) \o <<d>>
  BY <1>1, ConcatAssociative
<1>3. Append(w, c) = w \o <<c>> /\ Append(w, c) \in Seq(C)
  BY AppendIsConcat, AppendProperties
<1>4. Append(Append(w, c), d) = Append(w, c) \o <<d>>
  BY <1>3, AppendIsConcat
<1> QED
  BY <1>1, <1>2, <1>3, <1>4

\* A letter more.
LEMMA SluggedWord ==
    ASSUME NEW C, NEW e \in Seq(C), NEW w, NEW g, NEW dash \in C, Slugged(e, w, g, dash),
           NEW c \in C, c # dash
    PROVE  Slugged(Append(e, c), w \o (IF g /\ w # <<>> THEN <<dash, c>> ELSE <<c>>), FALSE, dash)
<1> DEFINE t == Append(e, c)
           n == Len(e)
           v == w \o (IF g /\ w # <<>> THEN <<dash, c>> ELSE <<c>>)
<1>1. /\ t \in Seq(C) /\ Len(t) = n + 1 /\ n \in Nat
      /\ DOMAIN t = 1..(n + 1) /\ DOMAIN e = 1..n
      /\ \A k \in 1..n : t[k] = e[k]
      /\ t[n + 1] = c
  BY AppendProperties
<1>2. ASSUME NEW i \in 1..(n + 1)
      PROVE  SubSeq(t, i, n + 1) = Append(SubSeq(e, i, n), c)
  BY SubSeqOfAppend
<1> HIDE DEF t
<1>3. CASE w = <<>> /\ \A k \in DOMAIN e : e[k] = dash
  <2>1. v = <<c>>
    BY <1>3
  <2>2. SubSeq(e, n + 1, n) = <<>>
    BY <1>1, SubSeqEmpty
  <2>3. v = SubSeq(t, n + 1, n + 1)
    <3>1. SubSeq(t, n + 1, n + 1) = Append(SubSeq(e, n + 1, n), c)
      BY <1>1, <1>2
    <3>2. Append(<<>>, c) = <<c>>
      OBVIOUS
    <3> QED
      BY <2>1, <2>2, <3>1, <3>2
  <2>4. \A k \in DOMAIN t : k < n + 1 \/ k > n + 1 => t[k] = dash
    BY <1>1, <1>3
  <2>5. n + 1 \in DOMAIN t /\ t[n + 1] # dash /\ Len(t) = n + 1 /\ n + 1 <= n + 1
    BY <1>1
  <2> HIDE DEF v, n
  <2> SUFFICES Slugged(t, v, FALSE, dash)
    BY DEF t, v
  <2> QED
    BY <2>3, <2>4, <2>5 DEF Slugged
<1>4. CASE \E i, j \in DOMAIN e :
                /\ i <= j /\ e[i] # dash /\ e[j] # dash
                /\ \A k \in DOMAIN e : k < i \/ k > j => e[k] = dash
                /\ w = SubSeq(e, i, j)
                /\ Len(e) = IF g THEN j + 1 ELSE j
  <2>1. PICK i, j \in DOMAIN e :
                /\ i <= j /\ e[i] # dash /\ e[j] # dash
                /\ \A k \in DOMAIN e : k < i \/ k > j => e[k] = dash
                /\ w = SubSeq(e, i, j)
                /\ n = IF g THEN j + 1 ELSE j
    BY <1>4
  <2>2. w \in Seq(C) /\ w # <<>>
    <3>1. w \in Seq(C) /\ Len(w) = j - i + 1
      BY <2>1, Between
    <3> QED
      BY <1>1, <2>1, <3>1, EmptySeq
  <2>3. v = Append(SubSeq(e, i, n), c)
    <3>1. CASE g
      <4> DEFINE h == SubSeq(e, 1, n - 1)
      <4>1. v = Append(Append(w, dash), c)
        BY <2>2, <3>1, ConcatTwo
      <4>2. SubSeq(e, i, n) = Append(w, dash)
        <5> DEFINE u == SubSeq(e, i, n)
        <5>1. /\ u \in Seq(C) /\ Len(u) = n - i + 1
              /\ \A k \in 1..(n - i + 1) : u[k] = e[i + k - 1]
          BY <1>1, <2>1, Between, SMTT(30)
        <5>2. /\ w \in Seq(C) /\ Len(w) = j - i + 1
              /\ \A k \in 1..(j - i + 1) : w[k] = e[i + k - 1]
          BY <2>1, Between
        <5>3. /\ Append(w, dash) \in Seq(C) /\ Len(Append(w, dash)) = Len(w) + 1
              /\ \A k \in 1..Len(w) : Append(w, dash)[k] = w[k]
              /\ Append(w, dash)[Len(w) + 1] = dash
          BY <2>2, AppendProperties
        <5> HIDE DEF u
        <5>4. n = j + 1 /\ e[n] = dash /\ i \in Nat /\ j \in Nat
          BY <1>1, <2>1, <3>1
        <5>5. ASSUME NEW k \in 1..Len(u) PROVE u[k] = Append(w, dash)[k]
          <6>1. CASE k = Len(w) + 1
            <7>1. i + k - 1 = n /\ k \in 1..(n - i + 1)
              BY <1>1, <2>1, <5>1, <5>2, <5>4, <6>1, SMTT(30)
            <7>2. u[k] = e[n]
              BY <5>1, <7>1
            <7> QED
              BY <5>3, <5>4, <6>1, <7>2
          <6>2. CASE k # Len(w) + 1
            <7>1. k \in 1..Len(w) /\ k \in 1..(j - i + 1) /\ k \in 1..(n - i + 1)
              BY <1>1, <2>1, <5>1, <5>2, <5>4, <6>2
            <7> QED
              BY <5>1, <5>2, <5>3, <7>1
          <6> QED
            BY <6>1, <6>2
        <5>6. Len(u) = Len(Append(w, dash))
          BY <2>1, <5>1, <5>2, <5>3, <5>4
        <5>7. u = Append(w, dash)
          BY <5>1, <5>3, <5>5, <5>6, SeqEqual
        <5> QED
          BY <5>7 DEF u
      <4> QED
        BY <4>1, <4>2
    <3>2. CASE ~g
      BY <2>1, <2>2, <3>2, AppendIsConcat
    <3> QED
      BY <3>1, <3>2
  <2>4. i \in 1..(n + 1) /\ n + 1 \in DOMAIN t /\ i \in DOMAIN t /\ i <= n + 1 /\ Len(t) = n + 1
    BY <1>1, <2>1
  <2>5. v = SubSeq(t, i, n + 1)
    BY <1>2, <2>3, <2>4
  <2>6. t[i] # dash /\ t[n + 1] # dash
    BY <1>1, <2>1
  <2>7. \A k \in DOMAIN t : k < i \/ k > n + 1 => t[k] = dash
    BY <1>1, <2>1
  <2> HIDE DEF v, n
  <2> SUFFICES Slugged(t, v, FALSE, dash)
    BY DEF t, v
  <2> QED
    BY <2>4, <2>5, <2>6, <2>7 DEF Slugged
<1> QED
  BY <1>3, <1>4 DEF Slugged

\* Letters with single dashes between them.
Dashing(w, dash, letter) ==
    /\ \A k \in DOMAIN w : w[k] = letter \/ w[k] = dash
    /\ w # <<>> => w[1] = letter /\ w[Len(w)] = letter
    /\ \A k \in DOMAIN w : k # 1 /\ w[k] = dash => w[k - 1] = letter

\* A letter more, with a dash before it or not.
LEMMA DashingWord ==
    ASSUME NEW C, NEW w \in Seq(C), NEW dash \in C, NEW letter \in C, letter # dash,
           Dashing(w, dash, letter), NEW g
    PROVE  LET v == w \o (IF g /\ w # <<>> THEN <<dash, letter>> ELSE <<letter>>)
           IN  v \in Seq(C) /\ Dashing(v, dash, letter)
<1>1. ASSUME NEW x \in Seq(C), \A k \in DOMAIN x : x[k] = letter \/ x[k] = dash,
             x # <<>> => x[1] = letter,
             \A k \in DOMAIN x : k # 1 /\ x[k] = dash => x[k - 1] = letter
      PROVE  Append(x, letter) \in Seq(C) /\ Dashing(Append(x, letter), dash, letter)
  <2> DEFINE y == Append(x, letter)
  <2>1. /\ y \in Seq(C) /\ Len(y) = Len(x) + 1 /\ Len(x) \in Nat
        /\ DOMAIN y = 1..(Len(x) + 1) /\ DOMAIN x = 1..Len(x)
        /\ \A k \in 1..Len(x) : y[k] = x[k]
        /\ y[Len(x) + 1] = letter
    BY AppendProperties
  <2>2. x # <<>> <=> Len(x) > 0
    BY EmptySeq
  <2> HIDE DEF y
  <2>3. \A k \in DOMAIN y : y[k] = letter \/ y[k] = dash
    BY <1>1, <2>1
  <2>4. y[1] = letter /\ y[Len(y)] = letter
    BY <1>1, <2>1, <2>2
  <2>5. ASSUME NEW k \in DOMAIN y, k # 1, y[k] = dash PROVE y[k - 1] = letter
    <3>1. k \in 1..Len(x) /\ k - 1 \in 1..Len(x)
      BY <2>1, <2>5
    <3> QED
      BY <1>1, <2>1, <2>5, <3>1
  <2> QED
    BY <2>1, <2>3, <2>4, <2>5 DEF Dashing, y
<1>2. CASE g /\ w # <<>>
  <2> DEFINE x == Append(w, dash)
  <2>1. /\ x \in Seq(C) /\ Len(x) = Len(w) + 1 /\ Len(w) \in Nat /\ Len(w) > 0
        /\ DOMAIN x = 1..(Len(w) + 1) /\ DOMAIN w = 1..Len(w)
        /\ \A k \in 1..Len(w) : x[k] = w[k]
        /\ x[Len(w) + 1] = dash
    BY <1>2, AppendProperties, EmptySeq
  <2>2. w \o <<dash, letter>> = Append(x, letter)
    BY ConcatTwo
  <2> HIDE DEF x
  <2>3. \A k \in DOMAIN x : x[k] = letter \/ x[k] = dash
    BY <2>1 DEF Dashing
  <2>4. x[1] = letter
    BY <1>2, <2>1 DEF Dashing
  <2>5. ASSUME NEW k \in DOMAIN x, k # 1, x[k] = dash PROVE x[k - 1] = letter
    <3>1. CASE k = Len(w) + 1
      BY <1>2, <2>1, <3>1 DEF Dashing
    <3>2. CASE k # Len(w) + 1
      <4>1. k \in 1..Len(w) /\ k - 1 \in 1..Len(w)
        BY <2>1, <2>5, <3>2
      <4> QED
        BY <2>1, <2>5, <4>1 DEF Dashing
    <3> QED
      BY <3>1, <3>2
  <2>6. Append(x, letter) \in Seq(C) /\ Dashing(Append(x, letter), dash, letter)
    BY <1>1, <2>1, <2>3, <2>4, <2>5
  <2> QED
    BY <1>2, <2>2, <2>6
<1>3. CASE ~(g /\ w # <<>>)
  <2>1. w \o <<letter>> = Append(w, letter)
    BY AppendIsConcat
  <2>2. Append(w, letter) \in Seq(C) /\ Dashing(Append(w, letter), dash, letter)
    BY <1>1 DEF Dashing
  <2> QED
    BY <1>3, <2>1, <2>2
<1> QED
  BY <1>2, <1>3

\* What Cut leaves of a slug, given that max of its characters fit.
Shortened(w, max, dashes) ==
    IF Len(w) > max THEN Trim(SubSeq(w, 1, max), dashes) ELSE w

IsShortened(C, part, w, max, dash, letter) ==
    /\ part \in Seq(C) /\ part # <<>> /\ Len(part) <= max
    /\ \A k \in DOMAIN part : part[k] = letter \/ part[k] = dash
    /\ part[1] = letter /\ part[Len(part)] = letter
    /\ (IF Len(w) > max THEN SubSeq(w, 1, max) ELSE w) \in {part, Append(part, dash)}

\* A slug that is cut loses the dash it may end with, and no more than one.
LEMMA ShortenedIs ==
    ASSUME NEW C, NEW w \in Seq(C), w # <<>>, NEW dash \in C, NEW letter \in C, letter # dash,
           Dashing(w, dash, letter), NEW max \in Nat \ {0},
           NEW dashes, dash \in dashes, \A x \in dashes : x = dash
    PROVE  IsShortened(C, Shortened(w, max, dashes), w, max, dash, letter)
<1>1. Len(w) \in Nat /\ Len(w) > 0 /\ DOMAIN w = 1..Len(w) /\ max \in Nat /\ max > 0
  BY EmptySeq
<1>2. CASE ~(Len(w) > max)
  <2>1. Shortened(w, max, dashes) = w
    BY <1>2 DEF Shortened
  <2>2. IsShortened(C, w, w, max, dash, letter)
    BY <1>1, <1>2 DEF IsShortened, Dashing
  <2> QED
    BY <2>1, <2>2
<1>3. CASE Len(w) > max
  <2> DEFINE x == SubSeq(w, 1, max)
  <2>1. /\ x \in Seq(C) /\ Len(x) = max /\ DOMAIN x = 1..max
        /\ \A k \in 1..max : x[k] = w[k]
    <3>1. 1 \in DOMAIN w /\ max \in DOMAIN w /\ 1 <= max
      BY <1>1, <1>3
    <3>2. /\ x \in Seq(C) /\ Len(x) = max - 1 + 1
          /\ \A k \in 1..(max - 1 + 1) : x[k] = w[1 + k - 1]
      BY <3>1, Between
    <3> HIDE DEF x
    <3> QED
      BY <1>1, <3>2
  <2> HIDE DEF x
  <2>2. /\ \A k \in 1..max : x[k] = letter \/ x[k] = dash
        /\ x[1] = letter
    BY <1>1, <1>3, <2>1 DEF Dashing
  <2>3. CASE x[max] = letter
    <3>1. Trim(x, dashes) = SubSeq(x, 1, max)
      <4>1. /\ 1 \in DOMAIN x /\ max \in DOMAIN x /\ x[1] \notin dashes /\ x[max] \notin dashes
            /\ \A k \in DOMAIN x : k < 1 \/ k > max => x[k] \in dashes
        BY <1>1, <2>1, <2>2, <2>3
      <4> QED
        BY <2>1, <4>1, TrimIs
    <3>2. SubSeq(x, 1, max) = x
      BY <2>1, SubSeqFull
    <3>3. Shortened(w, max, dashes) = x
      BY <1>3, <3>1, <3>2 DEF Shortened, x
    <3>4. x # <<>> /\ x \in {x, Append(x, dash)}
      BY <1>1, <2>1, EmptySeq
    <3>5. (IF Len(w) > max THEN SubSeq(w, 1, max) ELSE w) = x
      BY <1>3 DEF x
    <3>6. Len(x) <= max /\ x[1] = letter /\ x[Len(x)] = letter
      BY <1>1, <2>1, <2>2, <2>3
    <3>7. \A k \in DOMAIN x : x[k] = letter \/ x[k] = dash
      BY <2>1, <2>2
    <3>8. IsShortened(C, x, w, max, dash, letter)
      BY <2>1, <3>4, <3>5, <3>6, <3>7 DEF IsShortened
    <3> QED
      BY <3>3, <3>8
  <2>4. CASE x[max] # letter
    <3> DEFINE m == max - 1
               part == SubSeq(x, 1, m)
    <3>1. x[max] = dash /\ max # 1 /\ max \in 1..max
      BY <1>1, <2>2, <2>4
    <3>2. /\ 1 \in DOMAIN x /\ m \in DOMAIN x /\ m \in Nat /\ 1 <= m /\ m + 1 = max
          /\ m \in 1..max
      BY <1>1, <2>1, <3>1
    <3>3. x[m] = letter
      <4>1. w[max] = dash /\ max \in DOMAIN w
        BY <1>1, <1>3, <2>1, <3>1
      <4>2. w[max - 1] = letter
        BY <3>1, <4>1 DEF Dashing
      <4> QED
        BY <2>1, <3>2, <4>2
    <3>4. /\ part \in Seq(C) /\ Len(part) = m - 1 + 1
          /\ \A k \in 1..(m - 1 + 1) : part[k] = x[1 + k - 1]
      BY <2>1, <3>2, Between
    <3>5. Trim(x, dashes) = part
      <4>1. \A k \in DOMAIN x : k < 1 \/ k > m => x[k] \in dashes
        BY <1>1, <2>1, <3>1, <3>2
      <4>2. x[1] \notin dashes /\ x[m] \notin dashes
        BY <2>2, <3>3
      <4> QED
        BY <2>1, <3>2, <4>1, <4>2, TrimIs, ZenonT(60)
    <3> HIDE DEF part, m
    <3>6. /\ Len(part) = m /\ DOMAIN part = 1..m /\ \A k \in 1..m : part[k] = x[k]
      BY <3>2, <3>4
    <3>7. Append(part, dash) = x
      <4> DEFINE y == Append(part, dash)
      <4>1. /\ y \in Seq(C) /\ Len(y) = Len(part) + 1
            /\ \A k \in 1..Len(part) : y[k] = part[k]
            /\ y[Len(part) + 1] = dash
        BY <3>4, AppendProperties
      <4> HIDE DEF y
      <4>2. Len(y) = Len(x) /\ \A k \in 1..Len(y) : y[k] = x[k]
        BY <1>1, <2>1, <3>1, <3>2, <3>6, <4>1
      <4>3. y = x
        BY <2>1, <4>1, <4>2, SeqEqual
      <4> QED
        BY <4>3 DEF y
    <3>8. Shortened(w, max, dashes) = part
      BY <1>3, <3>5 DEF Shortened, x
    <3>9. (IF Len(w) > max THEN SubSeq(w, 1, max) ELSE w) = x
      BY <1>3 DEF x
    <3>10. part # <<>> /\ Len(part) <= max /\ part[1] = letter /\ part[Len(part)] = letter
      BY <1>1, <2>2, <3>2, <3>3, <3>6, EmptySeq
    <3>11. \A k \in DOMAIN part : part[k] = letter \/ part[k] = dash
      BY <2>2, <3>2, <3>6
    <3>12. IsShortened(C, part, w, max, dash, letter)
      BY <3>4, <3>7, <3>9, <3>10, <3>11 DEF IsShortened
    <3> QED
      BY <3>8, <3>12
  <2> QED
    BY <2>3, <2>4
<1> QED
  BY <1>2, <1>3

\* ToLower of a character.
Lower(c) == IF c = "A" THEN "a" ELSE c

\* ToLower goes character by character.
LEMMA ToLowerAppend ==
    ASSUME NEW v \in Seq(NameCharacters), NEW c \in NameCharacters
    PROVE  /\ ToLower(v) \in Seq(NameCharacters) /\ Len(ToLower(v)) = Len(v)
           /\ \A k \in DOMAIN v : ToLower(v)[k] = Lower(v[k])
           /\ Lower(c) \in NameCharacters
           /\ ToLower(Append(v, c)) = Append(ToLower(v), Lower(c))
<1>1. ASSUME NEW s \in Seq(NameCharacters)
      PROVE  /\ ToLower(s) \in Seq(NameCharacters) /\ Len(ToLower(s)) = Len(s)
             /\ \A k \in DOMAIN s : ToLower(s)[k] = Lower(s[k])
  <2>1. Len(s) \in Nat /\ DOMAIN s = 1..Len(s) /\ \A k \in 1..Len(s) : s[k] \in NameCharacters
    OBVIOUS
  <2>2. ToLower(s) = [k \in 1..Len(s) |-> Lower(s[k])]
    BY <2>1 DEF ToLower, Lower
  <2>3. \A k \in 1..Len(s) : Lower(s[k]) \in NameCharacters
    BY <2>1 DEF Lower, NameCharacters
  <2> QED
    BY <2>1, <2>2, <2>3
<1>2. Lower(c) \in NameCharacters
  BY DEF Lower, NameCharacters
<1> DEFINE t == Append(v, c)
           low == ToLower(v)
           one == ToLower(t)
           two == Append(low, Lower(c))
<1>3. /\ t \in Seq(NameCharacters) /\ Len(t) = Len(v) + 1 /\ Len(v) \in Nat
      /\ DOMAIN t = 1..(Len(v) + 1)
      /\ \A k \in 1..Len(v) : t[k] = v[k]
      /\ t[Len(v) + 1] = c
  BY AppendProperties
<1> HIDE DEF t
<1>4. /\ low \in Seq(NameCharacters) /\ Len(low) = Len(v)
      /\ \A k \in DOMAIN v : low[k] = Lower(v[k])
      /\ one \in Seq(NameCharacters) /\ Len(one) = Len(t)
      /\ \A k \in DOMAIN t : one[k] = Lower(t[k])
  BY <1>1, <1>3
<1> HIDE DEF low, one
<1>5. /\ two \in Seq(NameCharacters) /\ Len(two) = Len(low) + 1
      /\ \A k \in 1..Len(low) : two[k] = low[k]
      /\ two[Len(low) + 1] = Lower(c)
  BY <1>2, <1>4, AppendProperties
<1> HIDE DEF two
<1>6. \A k \in 1..Len(one) : one[k] = two[k]
  <2>1. \A k \in 1..Len(v) : one[k] = Lower(v[k]) /\ two[k] = Lower(v[k])
    BY <1>3, <1>4, <1>5
  <2> QED
    BY <1>3, <1>4, <1>5, <2>1
<1>7. one = two
  BY <1>3, <1>4, <1>5, <1>6, SeqEqual
<1> QED
  BY <1>2, <1>4, <1>7 DEF one, two, low, t

NameTypeOK ==
    /\ name \in Seq(NameCharacters)
    /\ slug \in Seq(NameCharacters)
    /\ gap \in BOOLEAN

\* v, a name without the spaces before it, against its words w; g is gap.
Follows(v, w, g) ==
    /\ Slugged(Condense(ToLower(v), nonLabelChars, {"-"}, "-"), w, g, "-")
    /\ v = <<>> => w = <<>>
    /\ v # <<>> => (g <=> ~IsWordChar(v[Len(v)]))

\* A character typed.
LEMMA FollowsStep ==
    ASSUME NEW v \in Seq(NameCharacters), NEW c \in NameCharacters, NEW w, NEW g \in BOOLEAN,
           Follows(v, w, g)
    PROVE  Follows(Append(v, c),
                   IF ~IsWordChar(c) THEN w
                   ELSE w \o (IF g /\ w # <<>> THEN <<"-", "a">> ELSE <<"a">>),
                   ~IsWordChar(c))
<1> DEFINE dash == "-"
           dashes == {"-"}
           letter == "a"
           low == ToLower(v)
           e == Condense(low, nonLabelChars, dashes, dash)
           f == Condense(Append(low, Lower(c)), nonLabelChars, dashes, dash)
           next == IF ~IsWordChar(c) THEN w
                   ELSE w \o (IF g /\ w # <<>> THEN <<dash, letter>> ELSE <<letter>>)
<1>1. /\ dash \in NameCharacters /\ letter \in NameCharacters /\ dash # letter
      /\ dash \notin nonLabelChars /\ letter \notin nonLabelChars
      /\ dash \in dashes /\ \A x \in dashes : x = dash
  BY DEF NameCharacters, nonLabelChars
<1>2. \A x \in NameCharacters :
        /\ IsWordChar(x) => Lower(x) = letter
        /\ ~IsWordChar(x) => Lower(x) \in nonLabelChars \/ Lower(x) = dash
  BY DEF NameCharacters, nonLabelChars, IsWordChar, Lower
<1>3. /\ low \in Seq(NameCharacters) /\ Len(low) = Len(v)
      /\ \A k \in DOMAIN v : low[k] = Lower(v[k])
      /\ Lower(c) \in NameCharacters
      /\ ToLower(Append(v, c)) = Append(low, Lower(c))
  BY ToLowerAppend
<1>4. v = <<>> <=> low = <<>>
  BY <1>3, EmptySeq
<1>5. Append(v, c) # <<>> /\ Append(v, c)[Len(Append(v, c))] = c
  BY AppendProperties
<1> HIDE DEF low, dash, dashes, letter
<1>6. v # <<>> => (IsWordChar(v[Len(v)])
                     <=> low[Len(low)] \notin nonLabelChars /\ low[Len(low)] # dash)
  <2> SUFFICES ASSUME v # <<>>
               PROVE  IsWordChar(v[Len(v)])
                        <=> low[Len(low)] \notin nonLabelChars /\ low[Len(low)] # dash
    OBVIOUS
  <2>1. Len(v) \in DOMAIN v /\ v[Len(v)] \in NameCharacters
    BY EmptySeq
  <2>2. low[Len(low)] = Lower(v[Len(v)])
    BY <1>3, <2>1
  <2> QED
    BY <1>1, <1>2, <2>1, <2>2
<1>7. f = IF Lower(c) \notin nonLabelChars /\ Lower(c) # dash
          THEN Append(e, Lower(c))
          ELSE IF low = <<>> \/ (low[Len(low)] \notin nonLabelChars /\ low[Len(low)] # dash)
          THEN Append(e, dash)
          ELSE e
  BY <1>1, <1>3, CondenseAppend
<1>8. e \in Seq(NameCharacters)
  BY <1>1, <1>3, CondenseShape
<1>9. /\ Slugged(e, w, g, dash)
      /\ v = <<>> => w = <<>>
      /\ v # <<>> => (g <=> ~IsWordChar(v[Len(v)]))
  BY DEF Follows, low, dash, dashes
<1> HIDE DEF e, f
<1>10. Slugged(f, next, ~IsWordChar(c), dash)
  <2>1. CASE IsWordChar(c)
    <3>1. f = Append(e, letter)
      BY <1>1, <1>2, <1>7, <2>1
    <3>2. Slugged(Append(e, letter),
                  w \o (IF g /\ w # <<>> THEN <<dash, letter>> ELSE <<letter>>), FALSE, dash)
      BY <1>1, <1>8, <1>9, SluggedWord
    <3>3. next = w \o (IF g /\ w # <<>> THEN <<dash, letter>> ELSE <<letter>>)
      BY <2>1
    <3>4. (~IsWordChar(c)) = FALSE
      BY <2>1
    <3> HIDE DEF next
    <3> QED
      BY <3>1, <3>2, <3>3, <3>4
  <2>2. CASE ~IsWordChar(c) /\ (v = <<>> \/ IsWordChar(v[Len(v)]))
    <3>1. f = Append(e, dash)
      BY <1>2, <1>4, <1>6, <1>7, <2>2
    <3>2. w = <<>> \/ ~g
      BY <1>9, <2>2
    <3>3. Slugged(Append(e, dash), w, TRUE, dash)
      BY <1>1, <1>8, <1>9, <3>2, SluggedGap
    <3>4. next = w /\ (~IsWordChar(c)) = TRUE
      BY <2>2
    <3> HIDE DEF next
    <3> QED
      BY <3>1, <3>3, <3>4
  <2>3. CASE ~IsWordChar(c) /\ v # <<>> /\ ~IsWordChar(v[Len(v)])
    <3>1. f = e
      BY <1>2, <1>4, <1>6, <1>7, <2>3
    <3>2. g = TRUE
      BY <1>9, <2>3
    <3>3. next = w /\ (~IsWordChar(c)) = TRUE
      BY <2>3
    <3> HIDE DEF next
    <3> QED
      BY <1>9, <3>1, <3>2, <3>3
  <2> QED
    BY <2>1, <2>2, <2>3
<1> QED
  BY <1>3, <1>5, <1>10 DEF Follows, f, dash, dashes, letter

\* A space more is trimmed, too.
LEMMA TrimAppend ==
    ASSUME NEW C, NEW s \in Seq(C), NEW c \in C, NEW cutset, c \in cutset
    PROVE  Trim(Append(s, c), cutset) = Trim(s, cutset)
<1> DEFINE t == Append(s, c)
<1>1. /\ t \in Seq(C) /\ Len(t) = Len(s) + 1 /\ Len(s) \in Nat
      /\ DOMAIN t = 1..(Len(s) + 1) /\ DOMAIN s = 1..Len(s)
      /\ \A k \in 1..Len(s) : t[k] = s[k]
      /\ t[Len(s) + 1] = c
  BY AppendProperties
<1>2. ASSUME NEW i \in DOMAIN s, NEW j \in DOMAIN s
      PROVE  SubSeq(t, i, j) = SubSeq(s, i, j)
  BY SubSeqOfAppend, SMTT(30)
<1> HIDE DEF t
<1>3. CASE Trim(s, cutset) = <<>> /\ \A k \in DOMAIN s : s[k] \in cutset
  <2>1. \A k \in DOMAIN t : t[k] \in cutset
    BY <1>1, <1>3
  <2> QED
    BY <1>3, <2>1, TrimAll DEF t
<1>4. ASSUME NEW i \in DOMAIN s, NEW j \in DOMAIN s,
             s[i] \notin cutset, s[j] \notin cutset,
             \A k \in DOMAIN s : k < i \/ k > j => s[k] \in cutset,
             Trim(s, cutset) = SubSeq(s, i, j)
      PROVE  Trim(t, cutset) = Trim(s, cutset)
  <2>1. /\ i \in DOMAIN t /\ j \in DOMAIN t /\ t[i] \notin cutset /\ t[j] \notin cutset
        /\ \A k \in DOMAIN t : k < i \/ k > j => t[k] \in cutset
    BY <1>1, <1>4
  <2>2. Trim(t, cutset) = SubSeq(t, i, j)
    BY <1>1, <2>1, TrimIs
  <2> QED
    BY <1>2, <1>4, <2>2
<1>5. \/ Trim(s, cutset) = <<>> /\ \A k \in DOMAIN s : s[k] \in cutset
      \/ \E i, j \in DOMAIN s :
            /\ i <= j /\ s[i] \notin cutset /\ s[j] \notin cutset
            /\ \A k \in DOMAIN s : k < i \/ k > j => s[k] \in cutset
            /\ Trim(s, cutset) = SubSeq(s, i, j)
  BY TrimCases
<1>6. Trim(t, cutset) = Trim(s, cutset)
  BY <1>3, <1>4, <1>5 DEF t
<1> QED
  BY <1>6 DEF t

\* The name without the p spaces before it.
Leads(p) ==
    /\ p <= Len(name)
    /\ \A k \in 1..p : name[k] = " "
    /\ p < Len(name) => name[p + 1] # " "
    /\ Follows(SubSeq(name, p + 1, Len(name)), slug, gap)

\* The name typed so far, against its words.
SlugInv ==
    /\ Dashing(slug, "-", "a")
    /\ \E p \in Nat : Leads(p)
    /\ Dashed(name) = slug

NameInv == NameTypeOK /\ SlugInv

\* What GenerateLabel makes of a name without spaces around it.
LEMMA DashedIs ==
    ASSUME NEW s, NEW v \in Seq(NameCharacters), TrimSpace(s) = v,
           NEW w, NEW g, Follows(v, w, g)
    PROVE  Dashed(s) = w
<1> DEFINE dash == "-"
           dashes == {"-"}
           low == ToLower(v)
           e == Condense(low, nonLabelChars, dashes, dash)
<1>1. Dashed(s) = Trim(e, dashes)
  BY DEF Dashed, Condense, TrimSpace
<1>2. dash \in NameCharacters /\ dash \in dashes /\ \A x \in dashes : x = dash
  BY DEF NameCharacters
<1>3. low \in Seq(NameCharacters)
  <2>1. dash \in NameCharacters
    BY <1>2
  <2> QED
    BY <2>1, ToLowerAppend
<1>4. Slugged(e, w, g, dash)
  BY DEF Follows
<1> HIDE DEF dash, dashes, low
<1>5. e \in Seq(NameCharacters)
  BY <1>2, <1>3, CondenseShape
<1> HIDE DEF e
<1>6. Trim(e, dashes) = w
  BY <1>2, <1>4, <1>5, SluggedTrim
<1> QED
  BY <1>1, <1>6

\* Nothing follows from nothing.
LEMMA FollowsStart == ASSUME NEW g PROVE Follows(<<>>, <<>>, g)
<1> DEFINE dash == "-"
           dashes == {"-"}
           low == ToLower(<<>>)
           e == Condense(low, nonLabelChars, dashes, dash)
<1>1. dash \in NameCharacters
  BY DEF NameCharacters
<1>2. low \in Seq(NameCharacters) /\ low = <<>>
  <2>1. Len(low) = 0 /\ low \in Seq(NameCharacters)
    BY <1>1, EmptySeq, ToLowerAppend
  <2> QED
    BY <2>1, EmptySeq
<1> HIDE DEF dash, dashes, low
<1>3. e = <<>>
  <2>1. low \in Seq(NameCharacters)
    BY <1>2
  <2>2. e \in Seq(NameCharacters) /\ (low = <<>> => e = <<>>)
    BY <1>1, <2>1, CondenseShape
  <2> HIDE DEF e
  <2> QED
    BY <1>2, <2>2
<1>4. \A k \in DOMAIN e : e[k] = dash
  BY <1>3
<1>5. Slugged(e, <<>>, g, dash)
  BY <1>4 DEF Slugged
<1> QED
  BY <1>5 DEF Follows, e, low, dash, dashes

\* Before the first character is typed.
LEMMA NameStart == NameInit => NameInv
<1> SUFFICES ASSUME NameInit PROVE NameInv
  OBVIOUS
<1>1. name = <<>> /\ slug = <<>> /\ gap = FALSE
  BY DEF NameInit
<1>2. NameTypeOK
  BY <1>1, EmptySeq DEF NameTypeOK
<1>3. Dashing(slug, "-", "a")
  BY <1>1 DEF Dashing
<1>4. Follows(<<>>, slug, gap)
  BY <1>1, FollowsStart
<1>5. Leads(0)
  <2> DEFINE blank == " "
  <2>1. SubSeq(name, 0 + 1, Len(name)) = <<>> /\ Len(name) = 0
    BY <1>1, SubSeqEmpty, EmptySeq
  <2>2. Follows(SubSeq(name, 0 + 1, Len(name)), slug, gap)
    BY <1>4, <2>1
  <2>3. Leads(0) <=> /\ 0 <= Len(name)
                     /\ \A k \in 1..0 : name[k] = blank
                     /\ 0 < Len(name) => name[0 + 1] # blank
                     /\ Follows(SubSeq(name, 0 + 1, Len(name)), slug, gap)
    BY DEF Leads
  <2> HIDE DEF blank
  <2> QED
    BY <2>1, <2>2, <2>3
<1>6. Dashed(name) = slug
  <2> DEFINE space == {" "}
  <2> HIDE DEF space
  <2>1. \A k \in DOMAIN name : name[k] \in space
    BY <1>1
  <2>2. TrimSpace(name) = <<>>
    BY <2>1, TrimAll DEF TrimSpace, space
  <2>3. <<>> \in Seq(NameCharacters)
    BY EmptySeq
  <2> QED
    BY <1>4, <2>2, <2>3, DashedIs
<1> QED
  BY <1>2, <1>3, <1>5, <1>6 DEF NameInv, SlugInv

\* A character typed, for all of the invariant.
LEMMA NameStep ==
    ASSUME NameInv, NEW c \in NameCharacters, Type(c)
    PROVE  NameInv'
<1> DEFINE blank == " "
           cutset == {" "}
           n == Len(name)
<1>1. /\ name \in Seq(NameCharacters) /\ slug \in Seq(NameCharacters) /\ gap \in BOOLEAN
      /\ name' = Append(name, c) /\ gap' = ~IsWordChar(c)
      /\ slug' = IF ~IsWordChar(c) THEN slug
                 ELSE slug \o (IF gap /\ slug # <<>> THEN <<"-", "a">> ELSE <<"a">>)
  BY DEF NameInv, NameTypeOK, Type
<1>2. /\ name' \in Seq(NameCharacters) /\ Len(name') = n + 1 /\ n \in Nat
      /\ DOMAIN name' = 1..(n + 1) /\ DOMAIN name = 1..n
      /\ \A k \in 1..n : name'[k] = name[k]
      /\ name'[n + 1] = c
  BY <1>1, AppendProperties
<1>3. slug' \in Seq(NameCharacters) /\ Dashing(slug', "-", "a")
  <2> DEFINE dash == "-"
             letter == "a"
             more == slug \o (IF gap /\ slug # <<>> THEN <<dash, letter>> ELSE <<letter>>)
  <2>1. dash \in NameCharacters /\ letter \in NameCharacters /\ letter # dash
    BY DEF NameCharacters
  <2>2. Dashing(slug, dash, letter)
    BY DEF NameInv, SlugInv
  <2>3. slug' = slug \/ slug' = more
    BY <1>1
  <2> HIDE DEF dash, letter
  <2>4. more \in Seq(NameCharacters) /\ Dashing(more, dash, letter)
    BY <1>1, <2>1, <2>2, DashingWord
  <2> HIDE DEF more
  <2>5. slug' \in Seq(NameCharacters) /\ Dashing(slug', dash, letter)
    BY <1>1, <2>2, <2>3, <2>4
  <2> QED
    BY <2>5 DEF dash, letter
<1>4. PICK p \in Nat : Leads(p)
  BY DEF NameInv, SlugInv
<1> DEFINE v == SubSeq(name, p + 1, Len(name))
<1>5. \A q \in Nat : Leads(q)' <=>
        /\ q <= Len(name')
        /\ \A k \in 1..q : name'[k] = blank
        /\ q < Len(name') => name'[q + 1] # blank
        /\ Follows(SubSeq(name', q + 1, Len(name')), slug', gap')
  BY DEF Leads
<1>6. p \in Nat /\ p <= n /\ Follows(v, slug, gap)
  BY <1>4 DEF Leads
<1>7. (\A k \in 1..p : name[k] = blank) /\ (p < n => name[p + 1] # blank)
  BY <1>4 DEF Leads
<1>8. ~IsWordChar(blank) /\ blank \in cutset /\ \A x \in cutset : x = blank
  BY DEF IsWordChar
<1>9. \A s : TrimSpace(s) = Trim(s, cutset)
  BY DEF TrimSpace
<1> HIDE DEF blank, cutset
<1>10. v \in Seq(NameCharacters) /\ (v = <<>> <=> p = n)
  <2>1. CASE p = n
    <3>1. v = <<>>
      BY <1>1, <1>2, <2>1, SubSeqEmpty
    <3> QED
      BY <2>1, <3>1, EmptySeq
  <2>2. CASE p # n
    <3>1. p + 1 \in DOMAIN name /\ n \in DOMAIN name /\ p + 1 <= n
      <4> HIDE DEF n
      <4> QED
        BY <1>2, <1>6, <2>2
    <3>2. v \in Seq(NameCharacters) /\ Len(v) = n - (p + 1) + 1
      BY <1>1, <3>1, Between
    <3> HIDE DEF v
    <3>3. Len(v) # 0
      <4> HIDE DEF n
      <4> QED
        BY <1>2, <1>6, <3>1, <3>2
    <3> QED
      BY <2>2, <3>2, <3>3, EmptySeq
  <2> QED
    BY <2>1, <2>2
<1>11. SubSeq(name', p + 1, Len(name')) = Append(v, c)
  <2>1. p + 1 \in 1..(Len(name) + 1) /\ 0 \in 0..Len(name)
    BY <1>2, <1>6
  <2>2. SubSeq(Append(name, c), p + 1, Len(name) + 1) = Append(SubSeq(name, p + 1, Len(name)), c)
    BY <1>1, <2>1, SubSeqOfAppend
  <2> QED
    BY <1>1, <1>2, <2>2
<1>12. Follows(Append(v, c), slug', gap')
  <2> HIDE DEF v
  <2>1. Follows(Append(v, c),
               IF ~IsWordChar(c) THEN slug
               ELSE slug \o (IF gap /\ slug # <<>> THEN <<"-", "a">> ELSE <<"a">>),
               ~IsWordChar(c))
    BY <1>1, <1>6, <1>10, FollowsStep
  <2> QED
    BY <1>1, <2>1
<1>13. Append(v, c) \in Seq(NameCharacters)
  BY <1>10, AppendProperties
<1> HIDE DEF v, n
<1>14. CASE p = n /\ c = blank
  <2>1. slug' = <<>>
    <3>1. slug = <<>>
      BY <1>6, <1>10, <1>14 DEF Follows
    <3>2. slug' = slug
      BY <1>1, <1>8, <1>14
    <3> QED
      BY <3>1, <3>2
  <2>2. \A k \in 1..(p + 1) : name'[k] = blank
    BY <1>2, <1>6, <1>7, <1>14
  <2>3. SubSeq(name', p + 1 + 1, Len(name')) = <<>>
    BY <1>2, <1>6, <1>14, SubSeqEmpty
  <2>4. Follows(<<>>, slug', gap')
    BY <2>1, FollowsStart
  <2>5. Leads(p + 1)'
    <3>1. p + 1 \in Nat /\ p + 1 <= Len(name') /\ ~(p + 1 < Len(name'))
      BY <1>2, <1>6, <1>14
    <3>2. Follows(SubSeq(name', p + 1 + 1, Len(name')), slug', gap')
      BY <2>3, <2>4
    <3> QED
      BY <1>5, <2>2, <3>1, <3>2
  <2>6. TrimSpace(name') = <<>>
    <3>1. \A k \in DOMAIN name' : name'[k] \in cutset
      BY <1>2, <1>8, <1>14, <2>2
    <3> QED
      BY <1>9, <3>1, TrimAll
  <2>7. Dashed(name') = slug'
    <3>1. <<>> \in Seq(NameCharacters)
      BY EmptySeq
    <3> QED
      BY <2>1, <2>4, <2>6, <3>1, DashedIs
  <2>8. \E q \in Nat : Leads(q)'
    <3>1. p + 1 \in Nat
      BY <1>6
    <3> QED
      BY <2>5, <3>1
  <2> QED
    BY <1>1, <1>2, <1>3, <2>7, <2>8 DEF NameInv, NameTypeOK, SlugInv
<1>15. CASE p # n \/ c # blank
  <2>1. Leads(p)'
    <3>1. p < Len(name') => name'[p + 1] # blank
      <4>1. CASE p = n
        BY <1>2, <1>15, <4>1
      <4>2. CASE p # n
        <5>1. p < n /\ p + 1 \in 1..n
          BY <1>2, <1>6, <4>2
        <5> QED
          BY <1>2, <1>7, <5>1
      <4> QED
        BY <4>1, <4>2
    <3>2. p <= Len(name')
      BY <1>2, <1>6
    <3>3. \A k \in 1..p : name'[k] = blank
      <4>1. \A k \in 1..p : k \in 1..n
        BY <1>2, <1>6
      <4> QED
        BY <1>2, <1>7, <4>1
    <3>4. Follows(SubSeq(name', p + 1, Len(name')), slug', gap')
      BY <1>11, <1>12
    <3> QED
      BY <1>5, <1>6, <3>1, <3>2, <3>3, <3>4
  <2>2. Dashed(name') = slug'
    <3>1. CASE c = blank
      <4>1. Trim(name', cutset) = Trim(name, cutset)
        BY <1>1, <1>8, <3>1, TrimAppend
      <4>2. Dashed(name') = Dashed(name)
        BY <4>1 DEF Dashed, cutset
      <4>3. slug' = slug
        BY <1>1, <1>8, <3>1
      <4> QED
        BY <4>2, <4>3 DEF NameInv, SlugInv
    <3>2. CASE c # blank
      <4>1. p + 1 \in DOMAIN name' /\ n + 1 \in DOMAIN name'
        BY <1>2, <1>6
      <4>2. name'[p + 1] # blank /\ name'[n + 1] # blank
        <5>1. p < Len(name')
          BY <1>2, <1>6
        <5> QED
          BY <1>2, <1>5, <1>6, <2>1, <3>2, <5>1
      <4>3. \A k \in DOMAIN name' : k < p + 1 \/ k > n + 1 => k \in 1..p
        BY <1>2, <1>6
      <4>4. \A k \in 1..p : name'[k] \in cutset
        BY <1>5, <1>6, <1>8, <2>1
      <4>5. Trim(name', cutset) = SubSeq(name', p + 1, n + 1)
        <5>1. name'[p + 1] \notin cutset /\ name'[n + 1] \notin cutset
          BY <1>8, <4>2
        <5>2. \A k \in DOMAIN name' : k < p + 1 \/ k > n + 1 => name'[k] \in cutset
          BY <4>3, <4>4
        <5> QED
          BY <1>2, <4>1, <5>1, <5>2, TrimIs, ZenonT(60)
      <4>6. TrimSpace(name') = Append(v, c)
        BY <1>2, <1>9, <1>11, <4>5
      <4> QED
        BY <1>12, <1>13, <4>6, DashedIs
    <3> QED
      BY <3>1, <3>2
  <2> QED
    BY <1>1, <1>2, <1>3, <1>4, <2>1, <2>2 DEF NameInv, NameTypeOK, SlugInv
<1> QED
  BY <1>14, <1>15

\* The invariant of the names.
LEMMA NameAlways == NameSpec => []NameInv
<1>1. ASSUME NameInv, [NameNext]_nameVars PROVE NameInv'
  <2>1. CASE UNCHANGED nameVars
    <3>1. UNCHANGED name /\ UNCHANGED slug /\ UNCHANGED gap
      BY <2>1 DEF nameVars
    <3> QED
      BY <1>1, <3>1 DEF NameInv, NameTypeOK, SlugInv, Leads
  <2> QED
    BY <1>1, <2>1, NameStep DEF NameNext
<1> QED
  BY <1>1, NameStart, PTL DEF NameSpec

\* A label is seven characters longer than its name part, which can be read
\* off it again.
IsLabelOf(C, label, part, dash, letter) ==
    /\ label \in Seq(C) /\ Len(label) = Len(part) + 7
    /\ \A i \in DOMAIN label : label[i] = letter \/ label[i] = dash
    /\ label[1] = letter /\ label[Len(label)] = letter
    /\ SubSeq(label, 1, Len(label) - 7) = part

\* s is m times the character c.
Repeats(s, c, m) == Len(s) = m /\ \A k \in 1..m : s[k] = c

\* A name part: letters and dashes, the first a letter.
Wordlike(part, dash, letter) ==
    /\ part # <<>> /\ part[1] = letter
    /\ \A k \in DOMAIN part : part[k] = letter \/ part[k] = dash

\* A name part, a dash and six letters make a label.
LEMMA LabelOf ==
    ASSUME NEW C, NEW dash \in C, NEW letter \in C,
           NEW part \in Seq(C), Wordlike(part, dash, letter),
           NEW d \in Seq(C), Repeats(d, dash, 1),
           NEW x \in Seq(C), Repeats(x, letter, 6)
    PROVE  IsLabelOf(C, part \o d \o x, part, dash, letter)
<1> DEFINE label == part \o d \o x
           n == Len(part)
<1> HIDE DEF label
<1>1. /\ label \in Seq(C) /\ Len(label) = n + Len(d) + Len(x)
      /\ \A k \in 1..n : label[k] = part[k]
      /\ \A k \in 1..Len(d) : label[n + k] = d[k]
      /\ \A k \in 1..Len(x) : label[n + Len(d) + k] = x[k]
  <2>1. label = part \o d \o x
    BY DEF label
  <2> QED
    BY <2>1, ThreeParts
<1>2. n \in Nat /\ n > 0 /\ DOMAIN part = 1..n
  BY EmptySeq DEF Wordlike
<1> USE DEF Repeats, Wordlike
<1> HIDE DEF n
<1>3. Len(label) = n + 7 /\ DOMAIN label = 1..(n + 7)
  BY <1>1, <1>2
<1>4. ASSUME NEW i \in DOMAIN label
      PROVE  /\ label[i] = letter \/ label[i] = dash
             /\ i > n + 1 => label[i] = letter
  <2>1. CASE i <= n
    <3>1. i \in 1..n /\ ~(i > n + 1)
      BY <1>2, <1>3, <2>1
    <3> QED
      BY <1>1, <1>2, <3>1
  <2>2. CASE i = n + 1
    BY <1>1, <1>2, <2>2
  <2>3. CASE i > n + 1
    <3> DEFINE k == i - (n + 1)
    <3>1. k \in 1..6 /\ n + Len(d) + k = i
      BY <1>2, <1>3, <2>3
    <3> HIDE DEF k
    <3> QED
      BY <1>1, <3>1
  <2> QED
    BY <1>2, <1>3, <2>1, <2>2, <2>3
<1>5. label[1] = letter /\ label[Len(label)] = letter
  <2>1. Len(label) \in DOMAIN label /\ Len(label) > n + 1 /\ 1 \in 1..n
    BY <1>2, <1>3
  <2> QED
    BY <1>1, <1>4, <2>1
<1>6. SubSeq(label, 1, Len(label) - 7) = part
  <2>1. 1 \in DOMAIN label /\ n \in DOMAIN label /\ 1 <= n
    BY <1>2, <1>3
  <2> DEFINE u == SubSeq(label, 1, n)
  <2>2. u \in Seq(C) /\ Len(u) = n - 1 + 1 /\ \A k \in 1..(n - 1 + 1) : u[k] = label[1 + k - 1]
    <3> HIDE DEF Repeats, Wordlike
    <3>1. label \in Seq(C)
      BY <1>1
    <3> QED
      BY <2>1, <3>1, Between
  <2> HIDE DEF u
  <2>3. Len(u) = n /\ \A k \in 1..Len(u) : u[k] = part[k]
    BY <1>1, <1>2, <2>2
  <2>4. u = part
    BY <2>2, <2>3, SeqEqual DEF n
  <2>5. Len(label) - 7 = n
    BY <1>2, <1>3
  <2> QED
    BY <2>4, <2>5 DEF u
<1> QED
  BY <1>1, <1>3, <1>4, <1>5, <1>6 DEF IsLabelOf, label, n

\* The name part of a label, and the label.
IsNamePart(part) ==
    /\ \/ slug = <<>> /\ part = DefaultName /\ Len(part) = 9
       \/ slug # <<>> /\ IsShortened(NameCharacters, part, slug, MaxNamePart, "-", "a")
    /\ part \in Seq(NameCharacters) /\ part[Len(part)] = "a"
    /\ IsLabelOf(NameCharacters, GenerateLabel(name), part, "-", "a")

\* GenerateLabel makes one of every name.
LEMMA NamePart == ASSUME NameInv PROVE \E part : IsNamePart(part)
<1> DEFINE dash == "-"
           letter == "a"
           dashes == {"-"}
           part == OrDefault(Cut(slug))
           d == <<dash>>
<1>1. GenerateLabel(name) = part \o d \o Suffix
  BY DEF NameInv, SlugInv, GenerateLabel
<1>2. Suffix \in Seq(NameCharacters) /\ Repeats(Suffix, letter, 6)
  <2>1. \A k \in 1..6 : k = 1 \/ k = 2 \/ k = 3 \/ k = 4 \/ k = 5 \/ k = 6
    OBVIOUS
  <2>2. letter \in NameCharacters
    BY DEF NameCharacters
  <2>3. Suffix = <<letter, letter, letter, letter, letter, letter>>
    BY DEF Suffix
  <2> HIDE DEF letter
  <2> QED
    BY <2>1, <2>2, <2>3 DEF Repeats
<1>3. /\ DefaultName \in Seq(NameCharacters) /\ Len(DefaultName) = 9
      /\ \A k \in 1..9 : DefaultName[k] = letter
  <2>1. \A k \in 1..9 : k = 1 \/ k = 2 \/ k = 3 \/ k = 4 \/ k = 5
                        \/ k = 6 \/ k = 7 \/ k = 8 \/ k = 9
    OBVIOUS
  <2>2. letter \in NameCharacters
    BY DEF NameCharacters
  <2>3. DefaultName = <<letter, letter, letter, letter, letter, letter, letter, letter, letter>>
    BY DEF DefaultName
  <2> HIDE DEF letter
  <2> QED
    BY <2>1, <2>2, <2>3
<1>4. /\ dash \in NameCharacters /\ letter \in NameCharacters /\ letter # dash
      /\ dash \in dashes /\ \A x \in dashes : x = dash
  BY DEF NameCharacters
<1>5. /\ slug \in Seq(NameCharacters) /\ Dashing(slug, dash, letter)
      /\ MaxNamePart \in Nat \ {0}
  BY NameAssumption DEF NameInv, NameTypeOK, SlugInv
<1>6. Cut(slug) = Shortened(slug, MaxNamePart, dashes)
  BY DEF Cut, Shortened
<1>7. d \in Seq(NameCharacters) /\ Repeats(d, dash, 1)
  <2> HIDE DEF dash
  <2> QED
    BY <1>4 DEF Repeats
<1> HIDE DEF dash, letter, dashes, d
<1>8. /\ \/ slug = <<>> /\ part = DefaultName /\ Len(part) = 9
         \/ slug # <<>> /\ IsShortened(NameCharacters, part, slug, MaxNamePart, dash, letter)
      /\ part \in Seq(NameCharacters) /\ part # <<>>
      /\ \A k \in DOMAIN part : part[k] = letter \/ part[k] = dash
      /\ part[1] = letter /\ part[Len(part)] = letter
  <2>1. CASE slug = <<>>
    <3>1. Cut(slug) = <<>>
      <4>1. Len(slug) = 0 /\ ~(0 > MaxNamePart)
        BY <1>5, <2>1, EmptySeq
      <4> QED
        BY <2>1, <4>1 DEF Cut
    <3>2. part = DefaultName
      BY <3>1 DEF OrDefault
    <3> HIDE DEF part
    <3>3. part # <<>> /\ DOMAIN part = 1..9
      BY <1>3, <3>2, EmptySeq
    <3>4. part[1] = letter /\ part[9] = letter /\ \A k \in DOMAIN part : part[k] = letter
      BY <1>3, <3>2, <3>3
    <3> HIDE DEF DefaultName
    <3> QED
      BY <1>3, <2>1, <3>2, <3>3, <3>4
  <2>2. CASE slug # <<>>
    <3>1. IsShortened(NameCharacters, Cut(slug), slug, MaxNamePart, dash, letter)
      BY <1>4, <1>5, <1>6, <2>2, ShortenedIs
    <3>2. part = Cut(slug)
      BY <3>1 DEF OrDefault, IsShortened
    <3> HIDE DEF part
    <3> QED
      BY <2>2, <3>1, <3>2 DEF IsShortened
  <2> QED
    BY <2>1, <2>2
<1> HIDE DEF part
<1>9. IsLabelOf(NameCharacters, part \o d \o Suffix, part, dash, letter)
  <2>1. Wordlike(part, dash, letter)
    BY <1>8 DEF Wordlike
  <2> QED
    BY <1>2, <1>4, <1>7, <1>8, <2>1, LabelOf
<1>10. IsNamePart(part)
  BY <1>1, <1>8, <1>9 DEF IsNamePart, dash, letter
<1> QED
  BY <1>10

\* For every name, however long, and every bound on the name part: the label
\* is one of DNS (hostnames.go: GenerateLabel).
THEOREM DnsSafe == NameSpec => []LabelIsDnsSafe
<1>1. NameInv => LabelIsDnsSafe
  <2> SUFFICES ASSUME NameInv PROVE LabelIsDnsSafe
    OBVIOUS
  <2> DEFINE label == GenerateLabel(name)
             letter == "a"
             dash == "-"
             most == IF MaxNamePart < Len(DefaultName) THEN Len(DefaultName) ELSE MaxNamePart
  <2>1. PICK part : IsNamePart(part)
    BY NamePart
  <2>2. /\ label \in Seq(NameCharacters) /\ Len(label) = Len(part) + 7
        /\ \A i \in DOMAIN label : label[i] = letter \/ label[i] = dash
        /\ label[1] = letter /\ label[Len(label)] = letter
    BY <2>1 DEF IsNamePart, IsLabelOf
  <2>3. Len(part) <= most
    <3>1. MaxNamePart \in Nat /\ Len(DefaultName) \in Nat /\ Len(part) \in Nat
      <4>1. part \in Seq(NameCharacters)
        BY <2>1 DEF IsNamePart
      <4>2. Len(DefaultName) = 9
        BY DEF DefaultName
      <4> QED
        BY <4>1, <4>2, NameAssumption
    <3>2. Len(part) = Len(DefaultName) \/ Len(part) <= MaxNamePart
      BY <2>1 DEF IsNamePart, IsShortened
    <3> QED
      BY <3>1, <3>2
  <2>4. LabelIsDnsSafe <=>
            /\ \A i \in DOMAIN label : label[i] \in {letter, dash}
            /\ label[1] = letter /\ label[Len(label)] = letter
            /\ Len(label) <= most + 7
    BY DEF LabelIsDnsSafe
  <2>5. Len(label) <= most + 7
    <3>1. MaxNamePart \in Nat /\ Len(DefaultName) = 9 /\ Len(part) \in Nat
      <4>1. part \in Seq(NameCharacters)
        BY <2>1 DEF IsNamePart
      <4> QED
        BY <4>1, NameAssumption DEF DefaultName
    <3> HIDE DEF label
    <3> QED
      BY <2>2, <2>3, <3>1
  <2> HIDE DEF label, letter, dash, most
  <2> QED
    BY <2>2, <2>4, <2>5
<1> QED
  BY <1>1, NameAlways, PTL

\* For every name and bound: the label keeps as many of the characters of the
\* name's words as fit, with one dash between two words, and the default stands
\* only for a name without a word (hostnames.go: GenerateLabel).
THEOREM KeepsWords == NameSpec => []LabelKeepsWords
<1>1. NameInv => LabelKeepsWords
  <2> SUFFICES ASSUME NameInv PROVE LabelKeepsWords
    OBVIOUS
  <2> DEFINE longest == IF Len(slug) > MaxNamePart THEN SubSeq(slug, 1, MaxNamePart) ELSE slug
             letter == "a"
             dash == "-"
  <2>1. PICK part : IsNamePart(part)
    BY NamePart
  <2>2. SubSeq(GenerateLabel(name), 1, Len(GenerateLabel(name)) - 7) = part
    BY <2>1 DEF IsNamePart, IsLabelOf
  <2>3. part[Len(part)] # dash
    BY <2>1 DEF IsNamePart
  <2>4. \/ slug = <<>> /\ part = DefaultName
        \/ slug # <<>> /\ longest \in {part, Append(part, dash)}
    BY <2>1 DEF IsNamePart, IsShortened
  <2>5. LabelKeepsWords <=>
            \/ slug = <<>> /\ part = DefaultName
            \/ slug # <<>> /\ longest \in {part, Append(part, dash)} /\ part[Len(part)] # dash
    BY <2>2 DEF LabelKeepsWords
  <2> HIDE DEF longest, letter, dash
  <2> QED
    BY <2>3, <2>4, <2>5
<1> QED
  BY <1>1, NameAlways, PTL

-----------------------------------------------------------------------------
(* Login codes.                                                            *)

\* A code that was taken is not outstanding.
CodesInv ==
    /\ TakenOnce
    /\ \A t \in takers : t[1] \notin outstanding

\* The promise is the one meant: a code that was taken never becomes
\* outstanding again, so nobody else takes it (persistence.go:
\* ConsumeLoginCode's "atomically returns and deletes").
THEOREM PromiseIsSingleUse == Spec => []TakenOnce
<1>1. Init => CodesInv
  BY DEF Init, CodesInv, TakenOnce
<1>2. ASSUME CodesInv, [Next]_codeVars PROVE CodesInv'
  <2>1. ASSUME NEW c \in Codes, Issue(c) PROVE CodesInv'
    BY <1>2, <2>1 DEF CodesInv, TakenOnce, Issue, Taken
  <2>2. ASSUME NEW c \in Codes, NEW q \in Redeemers, Take(c, q) PROVE CodesInv'
    BY <1>2, <2>2 DEF CodesInv, TakenOnce, Take
  <2>3. ASSUME NEW C \in SUBSET Codes, Lapse(C) PROVE CodesInv'
    BY <1>2, <2>3 DEF CodesInv, TakenOnce, Lapse
  <2>4. CASE UNCHANGED codeVars
    BY <1>2, <2>4 DEF CodesInv, TakenOnce, codeVars
  <2> QED
    BY <1>2, <2>1, <2>2, <2>3, <2>4 DEF Next
<1>3. CodesInv => TakenOnce
  BY DEF CodesInv
<1> QED
  BY <1>1, <1>2, <1>3, PTL DEF Spec
=============================================================================
