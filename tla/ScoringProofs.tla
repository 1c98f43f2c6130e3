----------------------------- MODULE ScoringProofs -----------------------------
(* Theorems of Scoring, for any local part, any mail host and any number of  *)
(* addresses: the weights and the two thresholds are tuned to each other.    *)
EXTENDS Scoring, TLAPS, FiniteSetTheorems

-----------------------------------------------------------------------------
(* Types, and the points of each signal.                                     *)

LEMMA FormatOfName ==
  ASSUME NEW n
  PROVE  DetectFormat(n) \in Formats
  BY DEF DetectFormat, Formats

\* A step leaves the address, its sub-status and its mail host alone.
LEMMA StepTypes ==
  ASSUME TypeOK, [Next]_vars
  PROVE  TypeOK' /\ UNCHANGED <<role, free, sub, mx>>
<1>1. CASE \E n \in Names : OtherName(n)
  BY <1>1 DEF OtherName, TypeOK
<1>2. CASE \E r \in Records : OtherRecord(r)
  BY <1>2 DEF OtherRecord, TypeOK
<1>3. CASE OtherListing
  BY <1>3 DEF OtherListing, TypeOK
<1>4. CASE \E a \in Ages : Whois(a)
  BY <1>4 DEF Whois, TypeOK
<1>5. CASE OtherSite
  BY <1>5 DEF OtherSite, TypeOK
<1>6. CASE \E n \in Names : RecordValid(DetectFormat(n))
  <2>1. PICK n \in Names : RecordValid(DetectFormat(n))
    BY <1>6
  <2>2. confirmed \in 0 .. MaxConfirmed /\ confirmed < MaxConfirmed /\ confirmed' = confirmed + 1
    BY <2>1 DEF RecordValid, TypeOK
  <2>3. confirmed' \in 0 .. MaxConfirmed /\ confirmed' > 0
    BY <2>2, InputsAssumption
  <2>4. formats' \in SUBSET Formats
    BY <2>1, FormatOfName DEF RecordValid, TypeOK
  <2>5. UNCHANGED <<name, role, free, sub, mx, auth, listed, age, site, reserved>>
    BY <2>1 DEF RecordValid
  <2> QED
    BY <2>3, <2>4, <2>5 DEF TypeOK
<1>7. CASE RecordReserved
  <2>1. reserved' \in 1 .. MaxReserved
    BY <1>7, InputsAssumption DEF RecordReserved, TypeOK
  <2>2. UNCHANGED <<name, role, free, sub, mx, auth, listed, age, site, formats, confirmed>>
    BY <1>7 DEF RecordReserved
  <2> QED
    BY <2>1, <2>2 DEF TypeOK
<1>8. CASE UNCHANGED vars
  BY <1>8 DEF vars, TypeOK
<1> QED
  BY <1>1, <1>2, <1>3, <1>4, <1>5, <1>6, <1>7, <1>8 DEF Next

\* Every piece of evidence has a value of its kind (Scoring).
THEOREM TypeInvariant == Spec => []TypeOK
<1>1. ASSUME Init PROVE TypeOK
  <2>1. /\ name \in Names /\ role \in BOOLEAN /\ free \in BOOLEAN
        /\ sub \in SubStatuses /\ mx \in Mailers \cup {{}}
    BY <1>1 DEF Init
  <2>2. listed \in BOOLEAN /\ site \in BOOLEAN
    BY <1>1 DEF Init
  <2>3. auth \in SUBSET Records /\ age \in Ages /\ formats = {}
    BY <1>1 DEF Init, Ages
  <2>4. confirmed \in 0 .. MaxConfirmed /\ reserved \in 1 .. MaxReserved
    BY <1>1, InputsAssumption DEF Init
  <2> QED
    BY <2>1, <2>2, <2>3, <2>4 DEF TypeOK
<1>2. TypeOK /\ [Next]_vars => TypeOK'
  BY StepTypes
<1> QED
  BY <1>1, <1>2, PTL DEF Spec

\* What each signal may bring.
LEMMA PointRanges ==
  /\ AuthPoints \in {0, 5, 10} /\ AgePoints \in {-25, 0, 15} /\ MxPoints \in {0, 10}
  /\ ListedPoints \in {-30, 0} /\ SitePoints \in {-5, 10}
  /\ FormatPoints \in {0, 10, 12} /\ RealPoints \in {0, 8} /\ RandomPoints \in {-20, 0}
  /\ DigitPoints \in {-3, 0} /\ LengthPoints \in {-8, 0}
  /\ MatchPoints \in {0, 20} /\ DifferPoints \in {-10, 0} /\ ResolvePoints \in {0, 15}
  /\ HonestPoints \in {-15, 0} /\ RolePoints \in {-10, 0} /\ FreePoints \in {-5, 0}
<1>1. AuthPoints \in {0, 5, 10} /\ AgePoints \in {-25, 0, 15} /\ MxPoints \in {0, 10}
  BY DEF AuthPoints, AgePoints, MxPoints, Points
<1>2. ListedPoints \in {-30, 0} /\ SitePoints \in {-5, 10}
  BY DEF ListedPoints, SitePoints, Points
<1>3. FormatPoints \in {0, 10, 12} /\ RealPoints \in {0, 8} /\ RandomPoints \in {-20, 0}
  BY DEF FormatPoints, RealPoints, RandomPoints, Points
<1>4. DigitPoints \in {-3, 0} /\ LengthPoints \in {-8, 0}
  BY DEF DigitPoints, LengthPoints, Points
<1>5. MatchPoints \in {0, 20} /\ DifferPoints \in {-10, 0} /\ ResolvePoints \in {0, 15}
  BY DEF MatchPoints, DifferPoints, ResolvePoints, Points
<1>6. HonestPoints \in {-15, 0} /\ RolePoints \in {-10, 0} /\ FreePoints \in {-5, 0}
  BY DEF HonestPoints, RolePoints, FreePoints, Points
<1> QED
  BY <1>1, <1>2, <1>3, <1>4, <1>5, <1>6

\* The same as types and bounds, for sums.
PointBounds ==
  /\ AuthPoints \in Int /\ AgePoints \in Int /\ MxPoints \in Int /\ ListedPoints \in Int
  /\ SitePoints \in Int /\ FormatPoints \in Int /\ RealPoints \in Int /\ RandomPoints \in Int
  /\ DigitPoints \in Int /\ LengthPoints \in Int /\ MatchPoints \in Int /\ DifferPoints \in Int
  /\ ResolvePoints \in Int /\ HonestPoints \in Int /\ RolePoints \in Int /\ FreePoints \in Int
  /\ AuthPoints >= 0 /\ AgePoints >= -25 /\ MxPoints >= 0 /\ ListedPoints >= -30
  /\ FormatPoints >= 0 /\ RealPoints >= 0 /\ RandomPoints >= -20 /\ DigitPoints >= -3
  /\ LengthPoints >= -8 /\ MatchPoints >= 0 /\ DifferPoints >= -10 /\ ResolvePoints >= 0
  /\ HonestPoints >= -15 /\ RolePoints >= -10 /\ FreePoints >= -5
  /\ AuthPoints <= 10 /\ AgePoints <= 15 /\ MxPoints <= 10 /\ ListedPoints <= 0
  /\ FormatPoints <= 12 /\ RealPoints <= 8 /\ RandomPoints <= 0 /\ DigitPoints <= 0
  /\ LengthPoints <= 0 /\ MatchPoints <= 20 /\ DifferPoints <= 0 /\ ResolvePoints <= 15
  /\ HonestPoints <= 0 /\ RolePoints <= 0 /\ FreePoints <= 0

LEMMA PointsBounded == PointBounds
  BY PointRanges DEF PointBounds

LEMMA PointsStayBounded == PointBounds'
  BY PointsBounded, PTL

\* The total, by what changes together: the DNS and website answers, the name,
\* the domain's history, and what a step leaves alone.
Answers == AuthPoints + AgePoints + ListedPoints + SitePoints
NameLook == FormatPoints + RealPoints + RandomPoints + DigitPoints + LengthPoints
History == MatchPoints + DifferPoints + ResolvePoints
Steady == MxPoints + HonestPoints + RolePoints + FreePoints

Parts ==
  /\ Answers \in Int /\ NameLook \in -31 .. 20 /\ History \in Int /\ Steady \in Int
  /\ Total = 50 + Answers + NameLook + History + Steady

LEMMA TotalParts == Parts
<1>1. Answers \in Int /\ History \in Int /\ Steady \in Int
  BY PointsBounded DEF Answers, History, Steady, PointBounds
<1>2. NameLook \in -31 .. 20
  BY PointsBounded DEF NameLook, PointBounds
<1>3. Total = 50 + Answers + NameLook + History + Steady
  BY PointsBounded DEF Total, Answers, NameLook, History, Steady, PointBounds
<1> QED
  BY <1>1, <1>2, <1>3 DEF Parts

ScoreTypes == Total \in Int /\ Score \in Int

LEMMA ScoreIsInt == ScoreTypes
<1>1. Total \in Int
  BY TotalParts DEF Parts
<1> QED
  BY <1>1 DEF Score, Clamp, ScoreTypes

LEMMA NextScoreIsInt == ScoreTypes'
  BY ScoreIsInt, PTL

LEMMA NextTotalParts == Parts'
  BY TotalParts, PTL

\* Sums of what rises, and of what does not move, in the form the steps need.
LEMMA SumsRise ==
  ASSUME NEW a \in Int, NEW b \in Int, NEW c \in Int, NEW d \in Int,
         NEW a1 \in Int, NEW b1 \in Int, NEW c1 \in Int, NEW d1 \in Int,
         a1 >= a, b1 >= b, c1 >= c, d1 >= d
  PROVE  a1 + b1 + c1 + d1 >= a + b + c + d
  OBVIOUS

LEMMA HistoryRises ==
  ASSUME NEW a \in Int, NEW b \in Int, NEW c \in Int,
         NEW a1 \in Int, NEW b1 \in Int, NEW c1 \in Int, a1 >= a, b1 >= b, c1 >= c
  PROVE  a1 + b1 + c1 >= a + b + c
  OBVIOUS

LEMMA TotalRises ==
  ASSUME NEW a \in Int, NEW n \in -31 .. 20, NEW h \in Int, NEW s \in Int,
         NEW a1 \in Int, NEW h1 \in Int, a1 >= a, h1 >= h
  PROVE  50 + a1 + n + h1 + s >= 50 + a + n + h + s
  OBVIOUS

\* The score, cut off, is on the same side of a threshold as the total.
Sides ==
  sub # "no_mx_record" =>
    /\ Total \in Int /\ Score \in Int
    /\ Score >= 85 <=> Total >= 85
    /\ Score < 25 <=> Total < 25

LEMMA ScoreSides == Sides
<1>1. Total \in Int
  BY PointsBounded DEF Total, PointBounds
<1> HIDE DEF Total
<1> QED
  BY <1>1 DEF Score, Clamp, Sides

\* What the sides say of the verdicts.
VerdictSides ==
  sub # "no_mx_record" =>
    /\ Total \in Int
    /\ Status = "valid" => Total >= 85
    /\ Status = "invalid" => Total < 25

LEMMA VerdictSide == VerdictSides
  BY ScoreSides DEF Sides, Status, VerdictSides

LEMMA NextVerdictSide == VerdictSides'
  BY VerdictSide, PTL

-----------------------------------------------------------------------------
(* Counting signals.                                                         *)

LEMMA FourFinite ==
  ASSUME NEW a, NEW b, NEW c, NEW d
  PROVE  IsFiniteSet({a, b, c, d})
<1>1. IsFiniteSet({a}) /\ IsFiniteSet({b}) /\ IsFiniteSet({c}) /\ IsFiniteSet({d})
  BY FS_Singleton
<1>2. IsFiniteSet({a} \cup {b}) /\ IsFiniteSet({c} \cup {d})
  BY <1>1, FS_Union
<1>3. IsFiniteSet(({a} \cup {b}) \cup ({c} \cup {d}))
  BY <1>2, FS_Union
<1>4. ({a} \cup {b}) \cup ({c} \cup {d}) = {a, b, c, d}
  OBVIOUS
<1> QED
  BY <1>3, <1>4

\* A set of fewer than two elements has no second one.
LEMMA AtMostOne ==
  ASSUME NEW S, IsFiniteSet(S), ~(Cardinality(S) >= 2)
  PROVE  \E x : S \subseteq {x}
<1>1. ASSUME NEW x \in S, NEW y \in S, x # y
      PROVE  FALSE
  <2>1. {x, y} \subseteq S
    OBVIOUS
  <2>2. Cardinality({x, y}) = 2
    <3>1. Cardinality({x}) = 1 /\ IsFiniteSet({x})
      BY FS_Singleton
    <3>2. Cardinality({x} \cup {y}) = Cardinality({x}) + 1
      BY <1>1, <3>1, FS_AddElement
    <3>3. {x} \cup {y} = {x, y}
      OBVIOUS
    <3> QED
      BY <3>1, <3>2, <3>3
  <2>3. Cardinality({x, y}) <= Cardinality(S)
    BY <2>1, FS_Subset
  <2>4. Cardinality(S) \in Nat
    BY FS_CardinalityType
  <2> QED
    BY <2>2, <2>3, <2>4
<1> QED
  BY <1>1

\* A set of fewer than three elements has no third one.
LEMMA AtMostTwo ==
  ASSUME NEW S, IsFiniteSet(S), ~(Cardinality(S) >= 3)
  PROVE  \E x, y : S \subseteq {x, y}
<1>1. CASE S = {}
  BY <1>1
<1>2. CASE \E x \in S : TRUE
  <2>1. PICK x \in S : TRUE
    BY <1>2
  <2>2. IsFiniteSet(S \ {x}) /\ Cardinality(S \ {x}) = Cardinality(S) - 1
    BY FS_RemoveElement
  <2>3. Cardinality(S) \in Nat
    BY FS_CardinalityType
  <2>4. ~(Cardinality(S \ {x}) >= 2)
    BY <2>2, <2>3
  <2>5. PICK y : S \ {x} \subseteq {y}
    BY <2>2, <2>4, AtMostOne
  <2>6. S \subseteq {x, y}
    BY <2>5
  <2> QED
    BY <2>6
<1> QED
  BY <1>1, <1>2

Signals ==
  {"auth", "age", "mx", "listed", "site", "format", "real", "random",
   "digit", "length", "match", "differ", "resolve", "honest", "role", "free"}

LEMMA SignalsFinite ==
  /\ DOMAIN Breakdown = Signals
  /\ IsFiniteSet(Adverse) /\ IsFiniteSet(Favourable)
<1>1. DOMAIN Breakdown = Signals
  BY DEF Breakdown, Signals
<1>2. IsFiniteSet(({"auth", "age", "mx", "listed"} \cup {"site", "format", "real", "random"})
                  \cup ({"digit", "length", "match", "differ"}
                        \cup {"resolve", "honest", "role", "free"}))
  BY FourFinite, FS_Union
<1>3. ({"auth", "age", "mx", "listed"} \cup {"site", "format", "real", "random"})
        \cup ({"digit", "length", "match", "differ"} \cup {"resolve", "honest", "role", "free"})
      = Signals
  BY DEF Signals
<1>4. IsFiniteSet(Signals)
  BY <1>2, <1>3
<1>5. Adverse \subseteq Signals /\ Favourable \subseteq Signals
  BY <1>1 DEF Adverse, Favourable
<1> QED
  BY <1>1, <1>4, <1>5, FS_Subset

-----------------------------------------------------------------------------
(* No signal decides alone.                                                  *)

\* One adverse signal at most: the total stays at 25 or above.
LEMMA OneAdverseSignal ==
  ASSUME NEW x, Adverse \subseteq {x}
  PROVE  Total >= 25
<1>1. \A s \in Signals : s = x \/ ~(Breakdown[s] < 0)
  BY SignalsFinite DEF Adverse
<1>2. /\ "auth" = x \/ ~(AuthPoints < 0)
      /\ "age" = x \/ ~(AgePoints < 0)
      /\ "mx" = x \/ ~(MxPoints < 0)
      /\ "listed" = x \/ ~(ListedPoints < 0)
      /\ "site" = x \/ ~(SitePoints < 0)
      /\ "format" = x \/ ~(FormatPoints < 0)
      /\ "real" = x \/ ~(RealPoints < 0)
      /\ "random" = x \/ ~(RandomPoints < 0)
      /\ "digit" = x \/ ~(DigitPoints < 0)
      /\ "length" = x \/ ~(LengthPoints < 0)
      /\ "match" = x \/ ~(MatchPoints < 0)
      /\ "differ" = x \/ ~(DifferPoints < 0)
      /\ "resolve" = x \/ ~(ResolvePoints < 0)
      /\ "honest" = x \/ ~(HonestPoints < 0)
      /\ "role" = x \/ ~(RolePoints < 0)
      /\ "free" = x \/ ~(FreePoints < 0)
  BY <1>1 DEF Breakdown, Signals
<1>3. SitePoints \in {-5, 10}
  BY PointRanges
<1> QED
  BY <1>2, <1>3, PointsBounded DEF Total, PointBounds

\* Two favourable signals at most: the total stays below 85.  Without a site
\* the site's own signal counts against the address, and with one it is one
\* of the two.
LEMMA TwoFavourableSignals ==
  ASSUME NEW x, NEW y, Favourable \subseteq {x, y}
  PROVE  Total < 85
<1>1. \A s \in Signals : s \in {x, y} \/ ~(Breakdown[s] > 0)
  BY SignalsFinite DEF Favourable
<1>2. /\ "auth" \in {x, y} \/ ~(AuthPoints > 0)
      /\ "age" \in {x, y} \/ ~(AgePoints > 0)
      /\ "mx" \in {x, y} \/ ~(MxPoints > 0)
      /\ "site" \in {x, y} \/ ~(SitePoints > 0)
      /\ "format" \in {x, y} \/ ~(FormatPoints > 0)
      /\ "real" \in {x, y} \/ ~(RealPoints > 0)
      /\ "match" \in {x, y} \/ ~(MatchPoints > 0)
      /\ "resolve" \in {x, y} \/ ~(ResolvePoints > 0)
  BY <1>1 DEF Breakdown, Signals
<1>3. SitePoints \in {-5, 10}
  BY PointRanges
<1> QED
  BY <1>2, <1>3, PointsBounded DEF Total, PointBounds

\* A scored address is demoted on two adverse signals at least and promoted
\* on three favourable ones at least: the weights are tuned to the thresholds
\* (config.py:109-152; Scoring.NoSignalDecidesAlone).
THEOREM NoSignalIsDecisive == Spec => []NoSignalDecidesAlone
<1>1. ASSUME sub # "no_mx_record", Status = "invalid"
      PROVE  Cardinality(Adverse) >= 2
  <2>2. Total \in Int /\ Total < 25
    BY <1>1, VerdictSide DEF VerdictSides
  <2>3. SUFFICES ASSUME ~(Cardinality(Adverse) >= 2) PROVE FALSE
    OBVIOUS
  <2>4. PICK x : Adverse \subseteq {x}
    BY <2>3, SignalsFinite, AtMostOne
  <2> QED
    BY <2>2, <2>4, OneAdverseSignal
<1>2. ASSUME sub # "no_mx_record", Status = "valid"
      PROVE  Cardinality(Favourable) >= 3
  <2>2. Total \in Int /\ Total >= 85
    BY <1>2, VerdictSide DEF VerdictSides
  <2>3. SUFFICES ASSUME ~(Cardinality(Favourable) >= 3) PROVE FALSE
    OBVIOUS
  <2>4. PICK x, y : Favourable \subseteq {x, y}
    BY <2>3, SignalsFinite, AtMostTwo
  <2> QED
    BY <2>2, <2>4, TwoFavourableSignals
<1>3. NoSignalDecidesAlone
  BY <1>1, <1>2 DEF NoSignalDecidesAlone
<1> QED
  BY <1>3, PTL

-----------------------------------------------------------------------------
(* What one step may do to a verdict.                                        *)

\* The history of a domain only grows, and grows by counting.
LEMMA HistoryGrows ==
  ASSUME TypeOK, [Next]_vars
  PROVE  \/ UNCHANGED <<formats, confirmed>>
         \/ formats \subseteq formats' /\ confirmed' = confirmed + 1
<1>1. ASSUME NEW n \in Names, RecordValid(DetectFormat(n))
      PROVE  formats \subseteq formats' /\ confirmed' = confirmed + 1
  BY <1>1 DEF RecordValid
<1>2. ASSUME ~(\E n \in Names : RecordValid(DetectFormat(n)))
      PROVE  UNCHANGED <<formats, confirmed>>
  BY <1>2 DEF Next, OtherName, OtherRecord, OtherListing, Whois, OtherSite, RecordReserved, vars
<1> QED
  BY <1>1, <1>2

\* Good news lowers no signal, one by one.
LEMMA SignalsRise ==
  ASSUME TypeOK, TypeOK', [Next]_vars, GoodNews
  PROVE  /\ AuthPoints' >= AuthPoints /\ AgePoints' >= AgePoints
         /\ ListedPoints' >= ListedPoints /\ SitePoints' >= SitePoints
         /\ MatchPoints' >= MatchPoints /\ DifferPoints' >= DifferPoints
         /\ ResolvePoints' >= ResolvePoints
<1>1. AuthPoints' >= AuthPoints
  <2>1. auth \subseteq auth' /\ auth' \subseteq Records
    BY DEF GoodNews, TypeOK
  <2>2. AuthPoints = IF auth = Records THEN 10 ELSE IF auth \cap {"spf", "dmarc"} # {} THEN 5 ELSE 0
    BY DEF AuthPoints, Points
  <2>3. AuthPoints' = IF auth' = Records THEN 10
                      ELSE IF auth' \cap {"spf", "dmarc"} # {} THEN 5 ELSE 0
    BY DEF AuthPoints, Points
  <2>4. CASE auth = Records
    <3>1. auth' = Records
      BY <2>1, <2>4
    <3> QED
      BY <2>2, <2>3, <2>4, <3>1
  <2>5. CASE auth # Records
    <3>1. auth \cap {"spf", "dmarc"} # {} => auth' \cap {"spf", "dmarc"} # {}
      BY <2>1
    <3> QED
      BY <2>2, <2>3, <2>5, <3>1
  <2> QED
    BY <2>4, <2>5
<1>2. AgePoints' >= AgePoints
  BY DEF GoodNews, AgePoints, Points
<1>3. ListedPoints' >= ListedPoints /\ SitePoints' >= SitePoints
  BY DEF GoodNews, ListedPoints, SitePoints, Points
<1>4. confirmed \in Int /\ confirmed' \in Int /\ reserved \in Int
  BY DEF TypeOK
<1>5. name' = name /\ reserved' = reserved
  BY DEF GoodNews
<1>6. /\ Matches => Matches'
      /\ Differs' => Differs
      /\ HighResolveRate => HighResolveRate'
  <2>1. CASE UNCHANGED <<formats, confirmed>>
    BY <1>5, <2>1 DEF Matches, Differs, HighResolveRate
  <2>2. CASE formats \subseteq formats' /\ confirmed' = confirmed + 1
    <3>1. DetectFormat(name)' \in formats'
      BY <1>4, <1>5, <2>2 DEF GoodNews, DetectFormat, Plain
    <3>2. Matches' /\ ~Differs'
      BY <3>1 DEF Matches, Differs
    <3>3. HighResolveRate => HighResolveRate'
      BY <1>4, <1>5, <2>2 DEF HighResolveRate
    <3> QED
      BY <3>2, <3>3
  <2> QED
    BY <2>1, <2>2, HistoryGrows
<1>7. MatchPoints' >= MatchPoints
  BY <1>6 DEF MatchPoints, Points
<1>8. DifferPoints' >= DifferPoints
  BY <1>6 DEF DifferPoints, Points
<1>9. ResolvePoints' >= ResolvePoints
  BY <1>6 DEF ResolvePoints, Points
<1> QED
  BY <1>1, <1>2, <1>3, <1>7, <1>8, <1>9

\* The verdict, from the side of each threshold the score is on.
LEMMA StatusRises ==
  ASSUME UNCHANGED <<sub, mx>>, Score \in Int, Score' \in Int, Score' >= Score
  PROVE  Rank[Status'] >= Rank[Status]
<1>1. CanPromote' <=> CanPromote
  BY DEF CanPromote, NeverPromote
<1>2. Rank["invalid"] = 0 /\ Rank["reserved"] = 1 /\ Rank["valid"] = 2
  BY DEF Rank
<1>3. CASE CanPromote
  BY <1>1, <1>2, <1>3 DEF Status
<1>4. CASE ~CanPromote
  BY <1>1, <1>2, <1>4 DEF Status
<1> QED
  BY <1>3, <1>4

\* Better evidence never lowers a score and never turns a verdict for the
\* worse (scoring.py:116-168; Scoring.BetterEvidenceNeverHurts).
THEOREM GoodNewsNeverHurts == Spec => BetterEvidenceNeverHurts
<1>1. ASSUME TypeOK, [Next]_vars, GoodNews
      PROVE  Score' >= Score /\ Rank[Status'] >= Rank[Status]
  <2>1. TypeOK' /\ UNCHANGED <<role, free, sub, mx>> /\ name' = name
    BY <1>1, StepTypes DEF GoodNews
  <2>2. /\ MxPoints' = MxPoints /\ HonestPoints' = HonestPoints
        /\ RolePoints' = RolePoints /\ FreePoints' = FreePoints
    BY <2>1 DEF MxPoints, HonestPoints, RolePoints, FreePoints
  <2>3. /\ FormatPoints' = FormatPoints /\ RealPoints' = RealPoints
        /\ RandomPoints' = RandomPoints /\ DigitPoints' = DigitPoints
        /\ LengthPoints' = LengthPoints
    BY <2>1 DEF FormatPoints, RealPoints, RandomPoints, DigitPoints, LengthPoints,
                DetectFormat, Plain, LooksLikeRealName, IsRandomAlphanumeric
  <2>4. /\ AuthPoints' >= AuthPoints /\ AgePoints' >= AgePoints
        /\ ListedPoints' >= ListedPoints /\ SitePoints' >= SitePoints
        /\ MatchPoints' >= MatchPoints /\ DifferPoints' >= DifferPoints
        /\ ResolvePoints' >= ResolvePoints
    BY <1>1, <2>1, SignalsRise
  <2>5. Total' >= Total
    <3>1. Steady' = Steady /\ NameLook' = NameLook
      BY <2>2, <2>3 DEF Steady, NameLook
    <3>2. Answers' >= Answers
      BY <2>4, PointsBounded, PointsStayBounded, SumsRise, Zenon DEF Answers, PointBounds
    <3>3. History' >= History
      BY <2>4, PointsBounded, PointsStayBounded, HistoryRises, Zenon DEF History, PointBounds
    <3> QED
      BY <3>1, <3>2, <3>3, TotalParts, NextTotalParts, TotalRises, Zenon DEF Parts
  <2>6. Total \in Int /\ Total' \in Int
    BY ScoreIsInt, NextScoreIsInt DEF ScoreTypes
  <2>7. Score \in Int /\ Score' \in Int /\ Score' >= Score
    BY <2>1, <2>5, <2>6 DEF Score, Clamp
  <2> QED
    BY <2>1, <2>7, StatusRises
<1>2. TypeOK /\ [Next]_vars => [GoodNews => Score' >= Score /\ Rank[Status'] >= Rank[Status]]_vars
  BY <1>1
<1> QED
  BY <1>2, TypeInvariant, PTL DEF Spec, BetterEvidenceNeverHurts

\* A change of the name that the pattern store does not notice moves the total
\* by less than the distance of the two thresholds.
LEMMA NameMovesLittle ==
  ASSUME UNCHANGED <<role, free, sub, mx, auth, listed, age, site, confirmed, reserved>>,
         Matches' = Matches, Differs' = Differs
  PROVE  Total' - Total < 60 /\ Total - Total' < 60
<1>1. /\ AuthPoints' = AuthPoints /\ AgePoints' = AgePoints /\ MxPoints' = MxPoints
      /\ ListedPoints' = ListedPoints /\ SitePoints' = SitePoints
      /\ HonestPoints' = HonestPoints /\ RolePoints' = RolePoints /\ FreePoints' = FreePoints
  BY DEF AuthPoints, AgePoints, MxPoints, ListedPoints, SitePoints, HonestPoints,
         RolePoints, FreePoints
<1>2. MatchPoints' = MatchPoints /\ DifferPoints' = DifferPoints
  BY DEF MatchPoints, DifferPoints
<1>3. ResolvePoints' = ResolvePoints
  BY DEF ResolvePoints, HighResolveRate
<1>4. Answers' = Answers /\ History' = History /\ Steady' = Steady
  BY <1>1, <1>2, <1>3 DEF Answers, History, Steady
<1>5. /\ Answers \in Int /\ History \in Int /\ Steady \in Int
      /\ NameLook \in -31 .. 20 /\ NameLook' \in -31 .. 20
      /\ Total = 50 + Answers + NameLook + History + Steady
      /\ Total' = 50 + Answers + NameLook' + History + Steady
  BY <1>4, TotalParts, NextTotalParts, Zenon DEF Parts
<1>6. PICK t, t1, n, n1 : t = Total /\ t1 = Total' /\ n = NameLook /\ n1 = NameLook'
  BY Zenon
<1>7. /\ n \in -31 .. 20 /\ n1 \in -31 .. 20
      /\ t = 50 + Answers + n + History + Steady /\ t1 = 50 + Answers + n1 + History + Steady
  BY <1>5, <1>6, Zenon
<1>8. t1 - t < 60 /\ t - t1 < 60
  <2>1. Answers \in Int /\ History \in Int /\ Steady \in Int
    BY TotalParts DEF Parts
  <2> QED
    BY <1>7, <2>1
<1> QED
  BY <1>6, <1>8, Zenon

\* Verdicts on both sides of the reserved ones have totals far apart.
LEMMA FarApart ==
  ASSUME NEW s, NEW s1, NEW t \in Int, NEW t1 \in Int, t1 - t < 60, t - t1 < 60,
         s = "valid" => t >= 85, s = "invalid" => t < 25,
         s1 = "valid" => t1 >= 85, s1 = "invalid" => t1 < 25
  PROVE  {s, s1} # {"valid", "invalid"}
<1>1. ~(s = "valid" /\ s1 = "invalid") /\ ~(s = "invalid" /\ s1 = "valid")
  OBVIOUS
<1> QED
  BY <1>1

\* Two spellings that the pattern store judges alike are never one valid and
\* the other invalid (scoring.py:88-127; Scoring.NameAloneNeverFlips).
THEOREM SpellingNeverFlips == Spec => NameAloneNeverFlips
<1>1. ASSUME [Next]_vars, name' # name, Matches' = Matches, Differs' = Differs
      PROVE  {Status, Status'} # {"valid", "invalid"}
  <2>1. UNCHANGED <<role, free, sub, mx, auth, listed, age, site, formats, confirmed, reserved>>
    BY <1>1 DEF Next, OtherName, OtherRecord, OtherListing, Whois, OtherSite, RecordValid,
                RecordReserved, vars
  <2>2. Total' - Total < 60 /\ Total - Total' < 60
    BY <1>1, <2>1, NameMovesLittle
  <2>3. CanPromote' <=> CanPromote
    BY <2>1 DEF CanPromote, NeverPromote
  <2>4. CASE sub = "no_mx_record"
    <3>1. ~CanPromote /\ ~CanPromote'
      BY <2>3, <2>4 DEF CanPromote
    <3>2. Status # "valid" /\ Status' # "valid"
      BY <3>1 DEF Status
    <3> QED
      BY <3>2
  <2>5. CASE sub # "no_mx_record"
    <3>1. Total \in Int /\ (Status = "valid" => Total >= 85) /\ (Status = "invalid" => Total < 25)
      BY <2>5, VerdictSide DEF VerdictSides
    <3>2. /\ Total' \in Int
          /\ Status' = "valid" => Total' >= 85
          /\ Status' = "invalid" => Total' < 25
      BY <2>1, <2>5, NextVerdictSide DEF VerdictSides
    <3> QED
      BY <2>2, <3>1, <3>2, FarApart, Zenon
  <2> QED
    BY <2>4, <2>5
<1>2. [Next]_vars => [name' # name /\ Matches' = Matches /\ Differs' = Differs
                        => {Status, Status'} # {"valid", "invalid"}]_vars
  BY <1>1
<1> QED
  BY <1>2, PTL DEF Spec, NameAloneNeverFlips
===============================================================================
