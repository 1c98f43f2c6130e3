------------------------------- MODULE Syntax -------------------------------
(* check_syntax (app/checks/syntax.py): the tests an address passes, its     *)
(* normalised form and the provider it may have meant.  An address is typed  *)
(* and mistyped one character at a time; every version of it is a state.     *)
(* Case and surrounding blanks, which the code drops first, are left out.    *)
EXTENDS Integers, FiniteSets, Sequences, SequencesExt

CONSTANTS
  Letters,      \* letters of domain names
  Providers,    \* TOP_PROVIDERS, in order: names without their top-level domain
  GmailNames,   \* the two domains whose aliases are known
  MaxLocal,     \* longest local part accepted (64)
  MaxAddress,   \* longest address accepted (254)
  MaxTyped,     \* bound: characters of a local part or of a domain name
  MaxTypos      \* bound: changes made to a provider's name

ASSUME WordsAssumption ==
  /\ Providers \in Seq(Seq(Letters)) /\ GmailNames \subseteq ToSet(Providers)
  /\ MaxLocal \in Nat /\ MaxAddress \in Nat /\ MaxTyped \in Nat /\ MaxTypos \in Nat

VARIABLES
  local,     \* what is before the first "@"
  ats,       \* how many "@" the address has
  name,      \* the domain without its top-level domain
  tld,       \* its top-level domain: "known", "unknown" or, no domain at all, "malformed"
  typos      \* (history) changes made to the name since it was a provider's

syntaxVars == <<local, ats, name, tld, typos>>

\* A letter, digit or hyphen; the characters with a rule of their own; one
\* that no local part may have.
LocalChars == {"a", ".", "+", "!"}
Tlds == {"known", "unknown", "malformed"}

-----------------------------------------------------------------------------
(* _levenshtein and _find_typo_suggestion.                                   *)

Least(a, b) == IF a < b THEN a ELSE b

Levenshtein(a, b) ==
  LET dp[cell \in (0 .. Len(a)) \X (0 .. Len(b))] ==
        LET i == cell[1]
            j == cell[2]
        IN  IF i = 0 THEN j
            ELSE IF j = 0 THEN i
            ELSE IF a[i] = b[j] THEN dp[<<i - 1, j - 1>>]
            ELSE 1 + Least(dp[<<i - 1, j - 1>>], Least(dp[<<i - 1, j>>], dp[<<i, j - 1>>]))
  IN  dp[<<Len(a), Len(b)>>]

\* A defect: the last provider near enough is suggested, not the nearest.
SuggestionLast(n) ==
  LET near == {i \in DOMAIN Providers : Levenshtein(n, Providers[i]) <= 2}
  IN  IF n \in ToSet(Providers) \/ near = {} THEN <<>>
      ELSE Providers[CHOOSE i \in near : \A j \in near : j <= i]

\* The first of the nearest providers within two changes; <<>> is None.
Suggestion(n) ==
  LET Distance(i) == Levenshtein(n, Providers[i])
      near == {i \in DOMAIN Providers : Distance(i) <= 2}
  IN  IF n \in ToSet(Providers) \/ near = {} THEN <<>>
      ELSE Providers[CHOOSE i \in near :
             \A j \in near : Distance(i) <= Distance(j) /\ (Distance(i) = Distance(j) => i <= j)]

-----------------------------------------------------------------------------
(* _normalise_gmail and check_syntax.                                        *)

\* local.replace(".", "")
Undotted(l) ==
  LET kept[i \in 0 .. Len(l)] ==
        IF i = 0 THEN <<>>
        ELSE IF l[i] = "." THEN kept[i - 1] ELSE Append(kept[i - 1], l[i])
  IN  kept[Len(l)]

\* A defect: dots are stripped and the suffix is kept.
NormaliseDots(l, n) ==
  IF n \notin GmailNames THEN l ELSE Undotted(l)

\* A defect: the suffix is cut off and the dots are kept.
NormaliseSuffix(l, n) ==
  LET plus == {i \in DOMAIN l : l[i] = "+"}
  IN  IF n \notin GmailNames \/ plus = {} THEN l
      ELSE SubSeq(l, 1, (CHOOSE i \in plus : \A j \in plus : i <= j) - 1)

\* Up to the first "+", without its dots.
Normalise(l, n) ==
  IF n \notin GmailNames THEN l
  ELSE LET plus == {i \in DOMAIN l : l[i] = "+"}
           base == IF plus = {} THEN l
                   ELSE SubSeq(l, 1, (CHOOSE i \in plus : \A j \in plus : i <= j) - 1)
       IN  Undotted(base)

DotRule(l) ==
  /\ l[1] # "." /\ l[Len(l)] # "."
  /\ \A i \in 1 .. Len(l) - 1 : <<l[i], l[i + 1]>> # <<".", ".">>

\* The address has a dot and a top-level domain on top of its name.
TooLong(l, n) == Len(l) > MaxLocal \/ Len(l) + 2 + Len(n) > MaxAddress

\* The sub-status of a refused address, or "passed".
Check(l, k, n, t) ==
  CASE k # 1 \/ l = <<>> \/ (n = <<>> /\ t = "malformed") -> "syntax_error"
    [] k = 1 /\ l # <<>> /\ TooLong(l, n) -> "length_exceeded"
    [] k = 1 /\ l # <<>> /\ ~TooLong(l, n) /\ ~DotRule(l) -> "dot_rule_violation"
    [] OTHER -> IF "!" \in ToSet(l) \/ t = "malformed" THEN "syntax_error"
                ELSE IF t = "unknown" THEN "invalid_tld" ELSE "passed"

Passed == Check(local, ats, name, tld) = "passed"
Normalised == Normalise(local, name)

-----------------------------------------------------------------------------
SyntaxInit ==
  /\ local = <<>> /\ ats \in 0 .. 2
  /\ name \in ToSet(Providers) /\ tld \in Tlds /\ typos = 0

\* Another character in the local part.
Type(i, c) ==
  /\ Len(local) < MaxTyped
  /\ local' = InsertAt(local, i, c)
  /\ UNCHANGED <<ats, name, tld, typos>>

\* One typing error in the domain name.
Mistype(n) ==
  /\ typos < MaxTypos /\ Len(n) <= MaxTyped
  /\ name' = n /\ typos' = typos + 1
  /\ UNCHANGED <<local, ats, tld>>

\* The names one letter more, one letter less or one letter other than n.
Edits(n) ==
  {InsertAt(n, i, c) : i \in 1 .. Len(n) + 1, c \in Letters}
    \cup {RemoveAt(n, i) : i \in DOMAIN n}
    \cup {ReplaceAt(n, i, c) : i \in DOMAIN n, c \in Letters}

SyntaxNext ==
  \/ \E i \in 1 .. Len(local) + 1, c \in LocalChars : Type(i, c)
  \/ \E n \in Edits(name) \ {name} : Mistype(n)

SyntaxSpec == SyntaxInit /\ [][SyntaxNext]_syntaxVars

-----------------------------------------------------------------------------
\* Every variable has a value of its kind, and so has the normalised address.
SyntaxTypeOK ==
  /\ local \in Seq(LocalChars) /\ Len(local) <= MaxTyped /\ ats \in 0 .. 2
  /\ name \in Seq(Letters) /\ tld \in Tlds /\ typos \in 0 .. MaxTypos
  /\ Normalised \in Seq(LocalChars)

\* syntax.py:78-107 against what the distance is for, the number of single
\* changes that lead from one word to another: a name is flagged if and only
\* if it is one or two changes away from a provider, none is nearer than the
\* one suggested, and a provider's own name is never flagged.
TypoCaught ==
  LET once == Edits(name) \cup {name}
      twice == UNION {Edits(n) : n \in once}
      Meets(near) == ToSet(Providers) \cap near # {}
  IN  IF Meets({name}) THEN Suggestion(name) = <<>>
      ELSE IF Meets(once) THEN Suggestion(name) \in once
      ELSE IF Meets(twice) THEN Suggestion(name) \in twice
      ELSE Suggestion(name) = <<>>

\* syntax.py:115, 128: the normalised address is itself an address that passes,
\* and normalising it again changes nothing: jobs may be fed with their own
\* results.  The exception is a Gmail address that is nothing but a suffix: the
\* test for an empty part comes first, so it passes and loses its local part.
NormalisedIsStable ==
  Passed => IF name \in GmailNames /\ local[1] = "+"
            THEN Normalised = <<>>
            ELSE /\ Check(Normalised, 1, name, tld) = "passed"
                 /\ Normalise(Normalised, name) = Normalised

\* syntax.py:110-118: one more dot, or one more character after the "+", is
\* the same Gmail mailbox and another mailbox everywhere else.
AliasesCollapse ==
  [][/\ Passed /\ Passed' /\ local' # local
     /\ \/ \E i \in 1 .. Len(local) + 1 : local' = InsertAt(local, i, ".")
        \/ "+" \in ToSet(local) /\ \E c \in LocalChars : local' = Append(local, c)
     => (Normalised' = Normalised <=> name \in GmailNames)]_syntaxVars
=============================================================================
