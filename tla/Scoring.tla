------------------------------- MODULE Scoring -------------------------------
(* Stage 4's score: compute_score (app/checks/scoring.py) and the verdict    *)
(* score_reserved_shard draws from it (app/pipeline/scoring_core.py).  A     *)
(* state is what one reserved result is scored by; a step changes one piece  *)
(* of that evidence, as between two runs of a job or two addresses of one    *)
(* domain, so that the properties compare the scores before and after.       *)
EXTENDS Integers, FiniteSets

CONSTANTS
  Names,                     \* local parts, see NameShape
  Mailers,                   \* mail hosts, each the set of provider lists it matches
  SubStatuses,               \* sub-statuses of a reserved result
  MaxConfirmed,              \* bound: confirmed addresses of the domain
  MaxReserved,               \* bound: reserved addresses of the domain
  AllowReputationPromotion   \* the switch of the configuration

\* What detect_format and the name tests read of a local part: how many of
\* each separator, whether it has a digit, a '+' or '%', enough vowels, and
\* its length.
NameShape == [dot : Nat, under : Nat, dash : Nat, digit : BOOLEAN, sign : BOOLEAN,
              vowels : BOOLEAN, length : Nat]

Lists == {"reputable", "defensive", "honest"}

ASSUME InputsAssumption ==
  /\ Names \subseteq NameShape /\ Mailers \subseteq SUBSET Lists
  /\ SubStatuses \subseteq STRING
  /\ MaxConfirmed \in Nat /\ MaxReserved \in Nat \ {0} /\ AllowReputationPromotion \in BOOLEAN

VARIABLES
  name, role, free,     \* the address: its local part, and Stage 1's flags
  sub,                  \* the sub-status Stage 3 left
  mx,                   \* the lists that its mail host matches
  auth, listed, age,    \* the DNS answer: TXT records, block lists, days since creation
  site,                 \* the domain has a website
  formats, confirmed, reserved   \* the pattern store's entry of the domain

vars == <<name, role, free, sub, mx, auth, listed, age, site, formats, confirmed, reserved>>

Records == {"spf", "dkim", "dmarc"}
Ages == {"unknown", "young", "mid", "old"}   \* under 180 days, over 1825, or between
Formats == {"firstname_lastname", "firstname.lastname", "firstname", "initiallastname",
            "firstnamelastname", "other"}

-----------------------------------------------------------------------------
(* The local part.  Stage 1 refuses leading, trailing and double dots.       *)

Plain(n) == n.dash = 0 /\ ~n.digit /\ ~n.sign

DetectFormat(n) ==
  IF n.under > 0 THEN "firstname_lastname"
  ELSE IF n.dot > 1 \/ ~Plain(n) THEN "other"
  ELSE IF n.dot = 1 THEN "firstname.lastname"
  ELSE IF n.length <= 4 THEN "firstname"
  ELSE IF n.length <= 7 THEN "initiallastname"
  ELSE "firstnamelastname"

LooksLikeRealName(n) ==
  /\ ~n.digit /\ ~n.sign
  /\ n.length \in 3 .. 30
  /\ n.dot + n.under + n.dash <= 1

IsRandomAlphanumeric(n) == n.digit /\ n.dot + n.under + n.dash = 0 /\ ~n.vowels

-----------------------------------------------------------------------------
(* The history of the domain in the pattern store.                           *)

Matches == DetectFormat(name) \in formats
Differs == formats # {} /\ confirmed >= 2 /\ DetectFormat(name) \notin formats
HighResolveRate == reserved > 0 /\ 5 * confirmed > 4 * reserved

-----------------------------------------------------------------------------
(* compute_score: the points of each signal, 0 for one that does not apply.  *)
(* The catch-all signals and defensiveProvider have no points, and the bounce *)
(* rate is always 0: nothing calls record_bounce.                            *)

Points(c, p) == IF c THEN p ELSE 0

\* A defect: all three records count less than two of them.
AuthPointsPartly == Points(auth \cap {"spf", "dmarc"} # {} /\ auth # Records, 15) + Points(auth = Records, 10)

AuthPoints == Points(auth \cap {"spf", "dmarc"} # {} /\ auth # Records, 5) + Points(auth = Records, 10)
AgePoints == Points(age = "old", 15) + Points(age = "young", -25)
MxPoints == Points("reputable" \in mx, 10)

\* A defect: a block list alone outweighs the rest.
ListedPointsFatal == Points(listed, -60)

ListedPoints == Points(listed, -30)
SitePoints == Points(site, 10) + Points(~site, -5)

\* A defect: a typed name is worth as much as a whole history.
FormatPointsLarge == Points(DetectFormat(name) \in {"firstname.lastname", "initiallastname"}, 60)

FormatPoints ==
  Points(DetectFormat(name) = "firstname.lastname", 12)
    + Points(DetectFormat(name) = "initiallastname", 10)
RealPoints == Points(LooksLikeRealName(name), 8)
RandomPoints == Points(IsRandomAlphanumeric(name), -20)
DigitPoints == Points(name.digit, -3)
LengthPoints == Points(name.length > 20, -8)
MatchPoints == Points(Matches, 20)
DifferPoints == Points(Differs, -10)
ResolvePoints == Points(HighResolveRate, 15)
HonestPoints == Points("honest" \in mx /\ "defensive" \notin mx /\ sub # "smtp_confirmed", -15)
RolePoints == Points(role, -10)
FreePoints == Points(free, -5)

\* score_breakdown
Breakdown ==
  [auth |-> AuthPoints, age |-> AgePoints, mx |-> MxPoints, listed |-> ListedPoints,
   site |-> SitePoints, format |-> FormatPoints, real |-> RealPoints, random |-> RandomPoints,
   digit |-> DigitPoints, length |-> LengthPoints, match |-> MatchPoints, differ |-> DifferPoints,
   resolve |-> ResolvePoints, honest |-> HonestPoints, role |-> RolePoints, free |-> FreePoints]

Total ==
  50 + AuthPoints + AgePoints + MxPoints + ListedPoints + SitePoints
     + FormatPoints + RealPoints + RandomPoints + DigitPoints + LengthPoints
     + MatchPoints + DifferPoints + ResolvePoints + HonestPoints + RolePoints + FreePoints

Clamp(n) == IF n < 0 THEN 0 ELSE IF n > 100 THEN 100 ELSE n

\* no_mx_record is demoted without a score.
Score == IF sub = "no_mx_record" THEN 0 ELSE Clamp(Total)

-----------------------------------------------------------------------------
(* score_reserved_shard's verdict.                                           *)

NeverPromote == {"domain_not_found", "accept_all"}

CanPromote ==
  /\ sub \notin NeverPromote \cup {"no_mx_record"}
  /\ \/ sub = "smtp_confirmed"
     \/ AllowReputationPromotion /\ "defensive" \notin mx

Status == IF CanPromote /\ Score >= 85 THEN "valid" ELSE IF Score < 25 THEN "invalid" ELSE "reserved"

-----------------------------------------------------------------------------
(* The evidence.                                                             *)

Init ==
  /\ name \in Names /\ role \in BOOLEAN /\ free \in BOOLEAN
  /\ sub \in SubStatuses
  /\ mx \in IF sub = "no_mx_record" THEN {{}} ELSE Mailers
  /\ auth = {} /\ listed = FALSE /\ age = "unknown"
  /\ site = FALSE
  /\ formats = {} /\ confirmed = 0 /\ reserved = 1

\* Another address of the domain, or another spelling of the name.
OtherName(n) ==
  /\ name' = n
  /\ UNCHANGED <<role, free, sub, mx, auth, listed, age, site, formats, confirmed, reserved>>

\* The DNS answer of a later run: one record more or less.
OtherRecord(r) ==
  /\ auth' = IF r \in auth THEN auth \ {r} ELSE auth \cup {r}
  /\ UNCHANGED <<name, role, free, sub, mx, listed, age, site, formats, confirmed, reserved>>

\* The block lists change their mind.
OtherListing ==
  /\ listed' = ~listed
  /\ UNCHANGED <<name, role, free, sub, mx, auth, age, site, formats, confirmed, reserved>>

\* The whois answer inside the DNS check (dns.py:183-191).
Whois(a) ==
  /\ age' = a
  /\ UNCHANGED <<name, role, free, sub, mx, auth, listed, site, formats, confirmed, reserved>>

OtherSite ==
  /\ site' = ~site
  /\ UNCHANGED <<name, role, free, sub, mx, auth, listed, age, formats, confirmed, reserved>>

\* record_valid: a server confirmed an address of this format.
RecordValid(f) ==
  /\ confirmed < MaxConfirmed
  /\ formats' = formats \cup {f} /\ confirmed' = confirmed + 1
  /\ UNCHANGED <<name, role, free, sub, mx, auth, listed, age, site, reserved>>

\* record_reserved: a batch scores one more address of the domain.
RecordReserved ==
  /\ reserved < MaxReserved
  /\ reserved' = reserved + 1
  /\ UNCHANGED <<name, role, free, sub, mx, auth, listed, age, site, formats, confirmed>>

Next ==
  \/ \E n \in Names : OtherName(n)
  \/ \E r \in Records : OtherRecord(r)
  \/ OtherListing
  \/ \E a \in Ages : Whois(a)
  \/ OtherSite
  \/ \E n \in Names : RecordValid(DetectFormat(n))
  \/ RecordReserved

Spec == Init /\ [][Next]_vars

-----------------------------------------------------------------------------
\* Every variable has a value of its kind.
TypeOK ==
  /\ name \in Names /\ role \in BOOLEAN /\ free \in BOOLEAN
  /\ sub \in SubStatuses /\ mx \in Mailers \cup {{}}
  /\ auth \in SUBSET Records /\ listed \in BOOLEAN /\ age \in Ages /\ site \in BOOLEAN
  /\ formats \in SUBSET Formats /\ confirmed \in 0 .. MaxConfirmed /\ reserved \in 1 .. MaxReserved
  /\ formats # {} => confirmed > 0

\* The step brings nothing but good news: one more TXT record, a site, a
\* delisting, an older domain, a confirmed address of the same format.
GoodNews ==
  /\ auth \subseteq auth' /\ (listed' => listed) /\ (site => site')
  /\ age = "young" \/ age' = "old" \/ age' = age \/ {age, age'} = {"unknown", "mid"}
  /\ name' = name /\ reserved' = reserved
  /\ confirmed' # confirmed => DetectFormat(name) \in formats'

Rank == [invalid |-> 0, reserved |-> 1, valid |-> 2]

\* scoring.py:116-168: better evidence never lowers a score, and never turns a
\* verdict for the worse, although some signals exclude each other and scores
\* are cut off at both ends.
BetterEvidenceNeverHurts ==
  [][GoodNews => Score' >= Score /\ Rank[Status'] >= Rank[Status]]_vars

Adverse == {s \in DOMAIN Breakdown : Breakdown[s] < 0}
Favourable == {s \in DOMAIN Breakdown : Breakdown[s] > 0}

\* config.py:109-152: no single signal decides.  A scored result is demoted on
\* two adverse signals at least, and promoted on three favourable ones: the
\* weights and the two thresholds are tuned to each other.
NoSignalDecidesAlone ==
  sub # "no_mx_record" =>
    /\ Status = "invalid" => Cardinality(Adverse) >= 2
    /\ Status = "valid" => Cardinality(Favourable) >= 3

\* Two spellings that the pattern store judges alike are never one valid and
\* the other invalid: what a name looks like never bridges the two thresholds.
NameAloneNeverFlips ==
  [][name' # name /\ Matches' = Matches /\ Differs' = Differs
       => {Status, Status'} # {"valid", "invalid"}]_vars

\* whois.py:4 "Metadata only - never affects score or status."
WhoisNeverAffectsScore == [][age' # age => Score' = Score /\ Status' = Status]_vars
=============================================================================
